-------------------------- MODULE BookProgramsProof --------------------------
(***************************************************************************)
(* The programs that drive a book through its operations.  The matching    *)
(* engine, for every number of references, every set of prices, quantities *)
(* and owners: shares are conserved within a match, fills follow price and *)
(* time, prevention prevents, the book is never left crossed, and what a   *)
(* submission returns accounts for its shares.  The programs that read a   *)
(* session of the feed, whatever its stocks, orders and messages are:      *)
(* itch_replay's book is the market's and no check of it fails; every pass *)
(* of bench_book rebuilds that book; and what itch_histogram counted is    *)
(* consistent and covers its book.                                         *)
(***************************************************************************)
EXTENDS FeedPrograms, MatchingEngine, LimitOrderBookProof

------------------------------------------------------------------------------
(* The invariant of the matching engine. *)

EngineTypes ==
    /\ stp \in StpModes
    /\ nextRef \in 1 .. MaxRef + 1
    /\ order \in NewOrders \cup {NoOrder}
    /\ remaining \in Nat
    /\ fills \in Seq(Fills)
    /\ report \in Reports

\* References grow with time, so a queue in order of arrival is in order of
\* reference, and a reference not yet assigned rests nowhere.
Ascending(q) == \A i, j \in DOMAIN q : i < j => q[i] < q[j]

InOrderOfArrival ==
    /\ \A ref \in Refs : entry[ref] # NoOrder => ref < nextRef
    /\ \A side \in Sides, p \in Prices : Ascending(fifo[side][p])

\* No bid reaches an ask, also in the middle of a match.
Uncrossed ==
    \A bid, ask \in Refs :
        /\ entry[bid] # NoOrder /\ entry[bid].side = "Buy"
        /\ entry[ask] # NoOrder /\ entry[ask].side = "Sell"
        => entry[bid].price < entry[ask].price

\* Every fill was due before every order that still rests on that side; the
\* order filled last may still rest when the incoming order is used up.
FillsCameFirst ==
    \A i \in DOMAIN fills, ref \in Refs :
        entry[ref] # NoOrder /\ entry[ref].side = Other =>
            \/ Before(Other, fills[i].price, entry[ref].price)
            \/ /\ fills[i].price = entry[ref].price
               /\ fills[i].resting < ref \/ (fills[i].resting = ref /\ remaining = 0)

\* An order that may rest has a reference waiting for it.
RoomToRest == Busy /\ MayRest(order) => nextRef <= MaxRef

NothingBetweenCalls == ~Busy => fills = <<>>

FillsInPriority ==
    /\ PriceTimePriority
    /\ Busy => FillsCameFirst

IInv ==
    /\ BookInv
    /\ EngineTypes
    /\ InOrderOfArrival
    /\ Uncrossed
    /\ RoomToRest
    /\ NothingBetweenCalls
    /\ SharesConserved
    /\ FillsInPriority
    /\ NoSelfTrade

------------------------------------------------------------------------------
(* The touch. *)

\* The best price of a side that is not empty is one of its prices, and none
\* of the others comes before it.
LEMMA BestOfSide ==
  ASSUME NEW side \in Sides, ~ EmptySide(side)
  PROVE  /\ BestPrice(side) \in LevelPrices(side)
         /\ \A p \in LevelPrices(side) : ~ Before(side, p, BestPrice(side))
<1>1. PICK T : T = LevelPrices(side)
  OBVIOUS
<1>2. T \in SUBSET Nat /\ T # {} /\ IsFiniteSet(T)
  BY <1>1, LimitOrderBookAssumption, FS_Subset DEF LevelPrices, EmptySide
<1>3. PICK bound \in Nat : \A x \in T : x <= bound
  BY <1>2, FiniteIsBounded
<1>4. PICK best : best = Inside(side, T)
  OBVIOUS
<1>5. /\ best \in T
      /\ side = "Buy" => \A y \in T : y <= best
      /\ side = "Sell" => \A y \in T : best <= y
  BY <1>2, <1>3, <1>4, InsideChosen
<1>6. BestPrice(side) = best
  BY <1>1, <1>4 DEF BestPrice
<1>7. \A p \in T : ~ Before(side, p, best)
  BY <1>2, <1>5 DEF Before, Sides
<1> QED BY <1>1, <1>5, <1>6, <1>7

\* The order at the front of a side's best price: it rests there, and every
\* other order of the side is behind it, in price or in time.
LEMMA FrontOfSide ==
  ASSUME BookInv, InOrderOfArrival, NEW side \in Sides, ~ EmptySide(side),
         NEW best, best = BestPrice(side), NEW front, front = FrontAt(side, best)
  PROVE  /\ best \in Prices /\ front \in Refs
         /\ entry[front] # NoOrder
         /\ entry[front].side = side /\ entry[front].price = best
         /\ \A ref \in Refs : entry[ref] # NoOrder /\ entry[ref].side = side =>
               \/ Before(side, best, entry[ref].price)
               \/ entry[ref].price = best /\ (ref = front \/ front < ref)
<1>1. /\ best \in Prices /\ fifo[side][best] # <<>>
      /\ \A p \in LevelPrices(side) : ~ Before(side, p, best)
  BY BestOfSide DEF LevelPrices
<1>2. PICK q \in Seq(Refs) : q = fifo[side][best]
  BY <1>1 DEF BookInv, BookOK
<1>3. Len(q) \in Nat \ {0} /\ DOMAIN q = 1 .. Len(q) /\ Head(q) = q[1]
  BY <1>1, <1>2, EmptySeq, LenProperties
<1>4. front = q[1] /\ 1 \in DOMAIN q
  BY <1>2, <1>3 DEF FrontAt
<1>5. front \in Range(q) /\ front \in Refs
  BY <1>3, <1>4, ElementOfSeq DEF Range
<1>6. entry[front] # NoOrder /\ entry[front].side = side /\ entry[front].price = best
  BY <1>1, <1>2, <1>5 DEF BookInv, BookOK
<1>7. ASSUME NEW ref \in Refs, entry[ref] # NoOrder, entry[ref].side = side
      PROVE  \/ Before(side, best, entry[ref].price)
             \/ entry[ref].price = best /\ (ref = front \/ front < ref)
  <2>1. PICK p \in Prices : p = entry[ref].price
    BY <1>7, RestingIsQueued
  <2>2. ref \in Range(fifo[side][p]) /\ fifo[side][p] \in Seq(Refs)
    BY <1>7, <2>1 DEF BookInv, BookOK
  <2>3. p \in LevelPrices(side)
    BY <2>1, <2>2, LenProperties DEF LevelPrices, Range
  <2>4. ~ Before(side, p, best)
    BY <1>1, <2>3
  <2>5. p \in Nat /\ best \in Nat
    BY <1>1, LimitOrderBookAssumption
  <2>6. CASE p = best
    <3>1. PICK i \in DOMAIN q : q[i] = ref
      BY <1>2, <2>2, <2>6 DEF Range
    <3>2. Ascending(q)
      BY <1>1, <1>2 DEF InOrderOfArrival
    <3>3. i = 1 \/ 1 < i
      BY <1>3, <3>1
    <3>4. 1 < i => q[1] < q[i]
      BY <1>4, <3>1, <3>2 DEF Ascending
    <3> QED BY <1>4, <2>1, <2>6, <3>1, <3>3, <3>4
  <2>7. CASE p # best
    BY <2>1, <2>4, <2>5, <2>7 DEF Before
  <2> QED BY <2>6, <2>7
<1> QED BY <1>1, <1>5, <1>6, <1>7

LEMMA NumbersAreNatural ==
  (\A x \in Prices : x \in Nat) /\ (\A x \in Quantities : x \in Nat)
  BY LimitOrderBookAssumption

\* The fields of an order handed to submit().
LEMMA NewOrderFields ==
  ASSUME NEW o \in NewOrders
  PROVE  /\ o.side \in Sides /\ o.owner \in Owners
         /\ o.qty \in Quantities /\ o.qty \in Nat
         /\ o.price \in Prices \cup {0} /\ o.price \in Nat
         /\ o.type = "Limit" => o.price \in Prices
         /\ o.type \in {"Limit", "Market"}
         /\ o # NoOrder
<1>1. /\ o \in [side : Sides, type : {"Limit", "Market"}, tif : {"Day", "Ioc"},
               price : Prices \cup {0}, qty : Quantities, owner : Owners]
      /\ o.type = "Market" <=> o.price = 0
  BY Zenon DEF NewOrders
<1>2. /\ o.side \in Sides /\ o.owner \in Owners /\ o.qty \in Quantities
      /\ o.price \in Prices \cup {0} /\ o.type \in {"Limit", "Market"}
  BY <1>1
<1>3. o.qty \in Nat /\ o.price \in Nat
  <2>1. PICK qty : qty = o.qty
    OBVIOUS
  <2>2. PICK price : price = o.price
    OBVIOUS
  <2>3. qty \in Nat
    BY <1>2, <2>1, NumbersAreNatural
  <2>4. price \in Nat
    BY <1>2, <2>2, NumbersAreNatural
  <2> QED BY <2>1, <2>2, <2>3, <2>4
<1>4. o.type = "Limit" => o.price \in Prices
  BY <1>1, <1>2
<1>5. o # NoOrder
  BY NoOrderAssumption, Zenon
<1> QED BY <1>2, <1>3, <1>4, <1>5

\* A pass of the loop meets the front of the other side, within the limit.
LEMMA AtTheTouch ==
  ASSUME IInv, Matching
  PROVE  /\ Busy /\ order \in NewOrders /\ Other \in Sides
         /\ remaining \in Nat /\ remaining > 0
         /\ Touch \in Prices /\ Touch \in Nat /\ Front \in Refs /\ Front \in Nat
         /\ entry[Front] \in Entries /\ entry[Front] # NoOrder
         /\ entry[Front].side = Other /\ entry[Front].price = Touch
         /\ \A ref \in Refs : entry[ref] # NoOrder /\ entry[ref].side = Other =>
               \/ Before(Other, Touch, entry[ref].price)
               \/ entry[ref].price = Touch /\ (ref = Front \/ Front < ref)
         /\ order.type = "Market" \/ ~ Before(Other, order.price, Touch)
<1>1. Busy /\ remaining > 0 /\ ~ EmptySide(Other) /\ Crosses
  BY DEF Matching
<1>2. order \in NewOrders /\ remaining \in Nat
  BY <1>1 DEF IInv, EngineTypes, Busy
<1>3. order.side \in Sides /\ Other \in Sides
  BY <1>2, NewOrderFields DEF Other, Opposite, Sides
<1>4. PICK touch : touch = Touch
  OBVIOUS
<1>5. PICK front : front = Front
  OBVIOUS
<1>6. touch = BestPrice(Other) /\ front = FrontAt(Other, touch)
  BY <1>4, <1>5 DEF Touch, Front
<1>7. /\ touch \in Prices /\ front \in Refs
      /\ entry[front] # NoOrder
      /\ entry[front].side = Other /\ entry[front].price = touch
      /\ \A ref \in Refs : entry[ref] # NoOrder /\ entry[ref].side = Other =>
            \/ Before(Other, touch, entry[ref].price)
            \/ entry[ref].price = touch /\ (ref = front \/ front < ref)
  BY <1>1, <1>3, <1>6, FrontOfSide DEF IInv
<1>8. touch \in Nat /\ front \in Nat /\ entry[front] \in Entries
  BY <1>7, RestingIsQueued, LimitOrderBookAssumption, MatchingEngineAssumption DEF IInv
<1>9. order.type = "Market" \/ ~ Before(Other, order.price, touch)
  <2>1. order.price \in Nat
    BY <1>2, NewOrderFields
  <2>2. \/ order.type = "Market"
        \/ order.side = "Buy" /\ order.price >= touch
        \/ order.side = "Sell" /\ order.price <= touch
    BY <1>1, <1>4, Zenon DEF Crosses
  <2>3. order.side = "Buy" => Other = "Sell"
    BY DEF Other, Opposite
  <2>4. order.side = "Sell" => Other = "Buy"
    BY DEF Other, Opposite
  <2>5. CASE order.side = "Buy" /\ order.price >= touch
    BY <1>8, <2>1, <2>3, <2>5 DEF Before
  <2>6. CASE order.side = "Sell" /\ order.price <= touch
    BY <1>8, <2>1, <2>4, <2>6 DEF Before
  <2> QED BY <2>2, <2>5, <2>6
<1> QED BY <1>1, <1>2, <1>3, <1>4, <1>5, <1>7, <1>8, <1>9

------------------------------------------------------------------------------
(* What a book that only loses orders, or shares of one, keeps. *)

\* What rests afterwards rested before, at the same side and price, for the same
\* owner, and behind the same orders.
Dwindles ==
    /\ \A ref \in Refs : entry'[ref] # NoOrder =>
          /\ entry[ref] # NoOrder
          /\ entry'[ref].side = entry[ref].side
          /\ entry'[ref].price = entry[ref].price
          /\ entry'[ref].owner = entry[ref].owner
    /\ \A side \in Sides, p \in Prices : KeepsOrder(fifo[side][p], fifo'[side][p])

LEMMA LeavesDwindles ==
  ASSUME BookInv, NEW ref \in Refs, entry[ref] # NoOrder,
         entry' = [entry EXCEPT ![ref] = NoOrder], fifo' = Withdrawn(ref)
  PROVE  Dwindles
<1>1. \A r \in Refs : entry'[r] # NoOrder => entry'[r] = entry[r]
  BY DEF BookInv, BookOK
<1>2. \A side \in Sides, p \in Prices : KeepsOrder(fifo[side][p], fifo'[side][p])
  BY WithdrawnQueue
<1> QED BY <1>1, <1>2 DEF Dwindles

LEMMA RemoveDwindles ==
  ASSUME BookInv, NEW ref \in Refs, Remove(ref)
  PROVE  Dwindles
  BY LeavesDwindles DEF Remove

LEMMA ReduceDwindles ==
  ASSUME BookInv, NEW ref \in Refs, NEW shares \in Nat, Reduce(ref, shares)
  PROVE  /\ Dwindles
         /\ shares = entry[ref].qty => entry'[ref] = NoOrder
<1>0. /\ entry[ref] # NoOrder /\ shares <= entry[ref].qty
      /\ entry \in [Refs -> Entries \cup {NoOrder}] /\ entry[ref] \in Entries
      /\ entry[ref].qty \in Nat
  BY RestingIsQueued DEF Reduce, BookInv, BookOK
<1>1. CASE shares < entry[ref].qty
  <2>1. entry' = [entry EXCEPT ![ref].qty = @ - shares] /\ fifo' = fifo
    BY <1>1 DEF Reduce
  <2>2. ASSUME NEW r \in Refs, entry'[r] # NoOrder
        PROVE  /\ entry[r] # NoOrder
               /\ entry'[r].side = entry[r].side
               /\ entry'[r].price = entry[r].price
               /\ entry'[r].owner = entry[r].owner
    <3>1. CASE r = ref
      BY <1>0, <2>1, <3>1 DEF Entries
    <3>2. CASE r # ref
      BY <1>0, <2>1, <2>2, <3>2
    <3> QED BY <3>1, <3>2
  <2>3. \A side \in Sides, p \in Prices : KeepsOrder(fifo[side][p], fifo'[side][p])
    BY <2>1 DEF KeepsOrder
  <2> QED BY <1>0, <1>1, <2>2, <2>3 DEF Dwindles
<1>2. CASE ~ (shares < entry[ref].qty)
  <2>1. entry' = [entry EXCEPT ![ref] = NoOrder] /\ fifo' = Withdrawn(ref)
    BY <1>2 DEF Reduce
  <2>2. Dwindles
    BY <1>0, <2>1, LeavesDwindles
  <2> QED BY <1>0, <2>1, <2>2
<1> QED BY <1>1, <1>2

LEMMA DwindlingKeeps ==
  ASSUME BookInv, InOrderOfArrival, Uncrossed, Dwindles, UNCHANGED nextRef
  PROVE  InOrderOfArrival' /\ Uncrossed'
<1>1. \A ref \in Refs : entry'[ref] # NoOrder => ref < nextRef'
  BY DEF Dwindles, InOrderOfArrival
<1>2. ASSUME NEW side \in Sides, NEW p \in Prices
      PROVE  Ascending(fifo'[side][p])
  <2>1. PICK q : q = fifo[side][p]
    OBVIOUS
  <2>2. PICK t : t = fifo'[side][p]
    OBVIOUS
  <2>3. Ascending(q) /\ KeepsOrder(q, t)
    BY <2>1, <2>2 DEF Dwindles, InOrderOfArrival
  <2>4. ASSUME NEW i \in DOMAIN t, NEW j \in DOMAIN t, i < j PROVE t[i] < t[j]
    <3>1. PICK k \in DOMAIN q, l \in DOMAIN q : k < l /\ q[k] = t[i] /\ q[l] = t[j]
      BY <2>3, <2>4, Zenon DEF KeepsOrder
    <3> QED BY <2>3, <3>1, Zenon DEF Ascending
  <2> QED BY <2>2, <2>4, Zenon DEF Ascending
<1>3. Uncrossed'
  BY DEF Dwindles, Uncrossed
<1> QED BY <1>1, <1>2, <1>3 DEF InOrderOfArrival

------------------------------------------------------------------------------
(* The passes of the loop. *)

\* The report while the counts in it grow.
LEMMA ReportCounts ==
  ASSUME NEW r \in Reports, NEW n \in Nat
  PROVE  /\ r.filled \in Nat /\ r.stp_cancelled_resting \in Nat
         /\ [r EXCEPT !.filled = @ + n] \in Reports
         /\ [r EXCEPT !.filled = @ + n].filled = r.filled + n
         /\ [r EXCEPT !.stp_cancelled_resting = @ + n] \in Reports
         /\ [r EXCEPT !.stp_cancelled_resting = @ + n].filled = r.filled
  BY DEF Reports

LEMMA FillKeeps == ASSUME IInv, Fill PROVE IInv'
<1>0. Matching /\ ~ SelfTrade
  BY DEF Fill
<1>1. PICK front : front = Front
  OBVIOUS
<1>2. PICK touch : touch = Touch
  OBVIOUS
<1>3. PICK available : available = entry[front].qty
  OBVIOUS
<1>4. PICK traded : traded = IF remaining < available THEN remaining ELSE available
  OBVIOUS
<1>5. PICK f : f = [resting |-> front, aggressor_owner |-> order.owner,
                   resting_owner |-> entry[front].owner, price |-> touch, qty |-> traded]
  OBVIOUS
<1>6. /\ fills' = Append(fills, f)
      /\ Reduce(front, traded)
      /\ remaining' = remaining - traded
      /\ report' = [report EXCEPT !.filled = @ + traded]
      /\ UNCHANGED <<stp, nextRef, order>>
  BY <1>1, <1>2, <1>3, <1>4, <1>5, Zenon DEF Fill
<1>7. /\ Busy /\ order \in NewOrders
      /\ remaining \in Nat /\ remaining > 0
      /\ touch \in Prices /\ front \in Refs /\ front \in Nat
      /\ entry[front] \in Entries /\ entry[front] # NoOrder
      /\ entry[front].side = Other /\ entry[front].price = touch
      /\ \A ref \in Refs : entry[ref] # NoOrder /\ entry[ref].side = Other =>
            \/ Before(Other, touch, entry[ref].price)
            \/ entry[ref].price = touch /\ (ref = front \/ front < ref)
      /\ order.type = "Market" \/ ~ Before(Other, order.price, touch)
  BY <1>0, <1>1, <1>2, AtTheTouch
<1>8. available \in Nat /\ available > 0 /\ entry[front].owner \in Owners
  BY <1>3, <1>7, RestingIsQueued DEF IInv, Entries
<1>9. /\ traded \in Nat /\ traded <= remaining /\ remaining' \in Nat
      /\ traded = available \/ remaining' = 0
  BY <1>4, <1>6, <1>7, <1>8
<1>10. /\ f \in Fills
       /\ f.resting = front /\ f.price = touch /\ f.qty = traded
       /\ f.aggressor_owner = order.owner /\ f.resting_owner = entry[front].owner
  <2>1. order.owner \in Owners
    BY <1>7, NewOrderFields
  <2> QED BY <1>5, <1>7, <1>8, <1>9, <2>1 DEF Fills
<1>11. PICK n : n = Len(fills)
  OBVIOUS
<1>12. /\ n \in Nat /\ fills \in Seq(Fills)
       /\ DOMAIN fills = 1 .. n
  BY <1>11, LenProperties DEF IInv, EngineTypes
<1>13. /\ fills' \in Seq(Fills) /\ Len(fills') = n + 1
       /\ DOMAIN fills' = 1 .. n + 1
       /\ fills'[n + 1] = f
       /\ \A i \in 1 .. n : fills'[i] = fills[i]
  BY <1>6, <1>10, <1>11, <1>12
<1>14. \A i \in 1 .. n + 1 : i = n + 1 \/ i \in 1 .. n
  BY <1>12
<1>15. /\ report \in Reports /\ report.filled \in Nat
       /\ report' \in Reports /\ report'.filled = report.filled + traded
  <2>1. report \in Reports
    BY DEF IInv, EngineTypes
  <2> QED BY <1>6, <1>9, <2>1, ReportCounts
<1>16. Busy' /\ Other' = Other
  BY <1>6, <1>7 DEF Busy, Other
<1>17. BookInv'
  BY <1>6, <1>7, <1>9, ReduceKeeps DEF IInv
<1>18. Dwindles /\ (traded = available => entry'[front] = NoOrder)
  BY <1>3, <1>6, <1>7, <1>9, ReduceDwindles DEF IInv
<1>19. InOrderOfArrival' /\ Uncrossed'
  BY <1>6, <1>18, DwindlingKeeps DEF IInv
<1>20. EngineTypes'
  BY <1>6, <1>9, <1>13, <1>15 DEF IInv, EngineTypes
<1>21. RoomToRest' /\ NothingBetweenCalls'
  BY <1>6, <1>16 DEF IInv, RoomToRest, NothingBetweenCalls, Busy
<1>22. SharesConserved'
  <2>1. /\ order.qty = report.filled + remaining
        /\ \E total \in [0 .. n -> 0 .. report.filled] :
              /\ total[0] = 0
              /\ \A i \in DOMAIN fills : total[i] = total[i - 1] + fills[i].qty
              /\ total[n] = report.filled
    BY <1>7, <1>11 DEF IInv, SharesConserved
  <2>2. PICK total \in [0 .. n -> 0 .. report.filled] :
              /\ total[0] = 0
              /\ \A i \in 1 .. n : total[i] = total[i - 1] + fills[i].qty
              /\ total[n] = report.filled
    BY <1>12, <2>1
  <2>3. PICK sum : sum = [i \in 0 .. n + 1 |-> IF i = n + 1 THEN report'.filled ELSE total[i]]
    OBVIOUS
  <2>4. sum \in [0 .. n + 1 -> 0 .. report'.filled]
    BY <1>9, <1>12, <1>15, <2>2, <2>3
  <2>5. sum[0] = 0 /\ sum[n + 1] = report'.filled
    BY <1>12, <2>2, <2>3
  <2>6. ASSUME NEW i \in 1 .. n + 1
        PROVE  sum[i] = sum[i - 1] + fills'[i].qty
    <3>1. CASE i = n + 1
      <4>1. sum[i] = report.filled + traded /\ sum[i - 1] = report.filled
        BY <1>12, <1>15, <2>2, <2>3, <3>1
      <4> QED BY <1>10, <1>13, <3>1, <4>1
    <3>2. CASE i \in 1 .. n
      <4>1. sum[i] = total[i] /\ sum[i - 1] = total[i - 1]
        BY <1>12, <2>3, <3>2
      <4> QED BY <1>13, <2>2, <3>2, <4>1
    <3> QED BY <1>14, <3>1, <3>2
  <2>7. order'.qty = report'.filled + remaining'
    BY <1>6, <1>7, <1>9, <1>15, <2>1
  <2> QED BY <1>13, <2>4, <2>5, <2>6, <2>7 DEF SharesConserved
<1>23. PriceTimePriority'
  <2>1. ASSUME NEW i \in 1 .. n + 1, NEW j \in 1 .. n + 1, i < j
        PROVE  \/ Before(Other, fills'[i].price, fills'[j].price)
               \/ /\ fills'[i].price = fills'[j].price
                  /\ fills'[i].resting < fills'[j].resting
    <3>1. i \in 1 .. n /\ fills'[i] = fills[i]
      BY <1>12, <1>13, <2>1
    <3>2. CASE j = n + 1
      <4>1. \/ Before(Other, fills[i].price, entry[front].price)
            \/ fills[i].price = entry[front].price /\ fills[i].resting < front
        BY <1>7, <1>12, <3>1 DEF IInv, FillsInPriority, FillsCameFirst
      <4> QED BY <1>7, <1>10, <1>13, <3>1, <3>2, <4>1, Zenon
    <3>3. CASE j \in 1 .. n
      BY <1>12, <1>13, <2>1, <3>1, <3>3 DEF IInv, FillsInPriority, PriceTimePriority
    <3> QED BY <1>14, <3>2, <3>3
  <2>2. ASSUME NEW i \in 1 .. n + 1
        PROVE  order.type = "Market" \/ ~ Before(Other, order.price, fills'[i].price)
    <3>1. CASE i = n + 1
      BY <1>7, <1>10, <1>13, <3>1, Zenon
    <3>2. CASE i \in 1 .. n
      BY <1>12, <1>13, <3>2 DEF IInv, FillsInPriority, PriceTimePriority
    <3> QED BY <1>14, <3>1, <3>2
  <2> QED BY <1>6, <1>13, <1>16, <2>1, <2>2 DEF PriceTimePriority
<1>24. FillsCameFirst'
  <2>1. ASSUME NEW i \in 1 .. n + 1, NEW ref \in Refs,
               entry'[ref] # NoOrder, entry'[ref].side = Other
        PROVE  \/ Before(Other, fills'[i].price, entry'[ref].price)
               \/ /\ fills'[i].price = entry'[ref].price
                  /\ \/ fills'[i].resting < ref
                     \/ fills'[i].resting = ref /\ remaining' = 0
    <3>1. /\ entry[ref] # NoOrder /\ entry[ref].side = Other
          /\ entry'[ref].price = entry[ref].price
      BY <1>18, <2>1 DEF Dwindles
    <3>2. CASE i = n + 1
      <4>1. ref = front => remaining' = 0
        BY <1>9, <1>18, <2>1
      <4>2. \/ Before(Other, touch, entry[ref].price)
            \/ entry[ref].price = touch /\ (ref = front \/ front < ref)
        BY <1>7, <3>1
      <4> QED BY <1>10, <1>13, <3>1, <3>2, <4>1, <4>2, Zenon
    <3>3. CASE i \in 1 .. n
      <4>1. \/ Before(Other, fills[i].price, entry[ref].price)
            \/ fills[i].price = entry[ref].price /\ fills[i].resting < ref
        BY <1>7, <1>12, <3>1, <3>3 DEF IInv, FillsInPriority, FillsCameFirst
      <4> QED BY <1>13, <3>1, <3>3, <4>1, Zenon
    <3> QED BY <1>14, <3>2, <3>3
  <2> QED BY <1>13, <1>16, <2>1 DEF FillsCameFirst
<1>25. NoSelfTrade'
  <2>1. stp # "Off" /\ f.aggressor_owner # 0 => f.aggressor_owner # f.resting_owner
    BY <1>0, <1>1, <1>10 DEF SelfTrade
  <2>2. ASSUME stp # "Off", NEW i \in 1 .. n + 1, fills'[i].aggressor_owner # 0
        PROVE  fills'[i].aggressor_owner # fills'[i].resting_owner
    BY <1>12, <1>13, <1>14, <2>1, <2>2 DEF IInv, NoSelfTrade
  <2> QED BY <1>6, <1>13, <2>2 DEF NoSelfTrade
<1> QED BY <1>17, <1>19, <1>20, <1>21, <1>22, <1>23, <1>24, <1>25 DEF IInv, FillsInPriority

LEMMA StpCancelOldestKeeps == ASSUME IInv, StpCancelOldest PROVE IInv'
<1>1. /\ Matching /\ Remove(Front)
      /\ report' = [report EXCEPT !.stp_cancelled_resting = @ + 1]
      /\ UNCHANGED <<stp, nextRef, order, remaining, fills>>
  BY DEF StpCancelOldest
<1>2. Busy /\ Front \in Refs
  BY <1>1, AtTheTouch
<1>3. BookInv' /\ Dwindles
  BY <1>1, <1>2, RemoveKeeps, RemoveDwindles DEF IInv
<1>4. InOrderOfArrival' /\ Uncrossed'
  BY <1>1, <1>3, DwindlingKeeps DEF IInv
<1>5. report' \in Reports /\ report'.filled = report.filled
  <2>1. report \in Reports
    BY DEF IInv, EngineTypes
  <2> QED BY <1>1, <2>1, ReportCounts
<1>6. EngineTypes'
  BY <1>1, <1>5 DEF IInv, EngineTypes
<1>7. RoomToRest' /\ NothingBetweenCalls' /\ NoSelfTrade'
  BY <1>1 DEF IInv, RoomToRest, NothingBetweenCalls, NoSelfTrade, Busy
<1>8. SharesConserved'
  BY <1>1, <1>5 DEF IInv, SharesConserved, Busy
<1>9. PriceTimePriority'
  BY <1>1 DEF IInv, FillsInPriority, PriceTimePriority, Other
<1>10. FillsCameFirst'
  <2>1. Other' = Other
    BY <1>1 DEF Other
  <2>2. FillsCameFirst
    BY <1>2 DEF IInv, FillsInPriority
  <2>3. ASSUME NEW i \in DOMAIN fills, NEW ref \in Refs,
               entry'[ref] # NoOrder, entry'[ref].side = Other
        PROVE  \/ Before(Other, fills[i].price, entry'[ref].price)
               \/ /\ fills[i].price = entry'[ref].price
                  /\ fills[i].resting < ref \/ (fills[i].resting = ref /\ remaining = 0)
    <3>1. /\ entry[ref] # NoOrder /\ entry[ref].side = Other
          /\ entry'[ref].price = entry[ref].price
      BY <1>3, <2>3 DEF Dwindles
    <3> QED BY <2>2, <3>1 DEF FillsCameFirst
  <2> QED BY <1>1, <2>1, <2>3 DEF FillsCameFirst
<1> QED BY <1>3, <1>4, <1>6, <1>7, <1>8, <1>9, <1>10 DEF IInv, FillsInPriority

------------------------------------------------------------------------------
(* The ends of a submission. *)

\* Nothing is said of a match when none is under way.
LEMMA NothingUnderWay ==
  ASSUME order' = NoOrder, fills' = <<>>
  PROVE  /\ RoomToRest' /\ NothingBetweenCalls' /\ SharesConserved'
         /\ FillsInPriority' /\ NoSelfTrade'
<1>1. ~ Busy' /\ DOMAIN fills' = {}
  BY DEF Busy
<1>2. RoomToRest' /\ NothingBetweenCalls' /\ SharesConserved'
  BY <1>1 DEF RoomToRest, NothingBetweenCalls, SharesConserved
<1>3. FillsInPriority'
  BY <1>1 DEF FillsInPriority, PriceTimePriority
<1>4. NoSelfTrade'
  BY <1>1 DEF NoSelfTrade
<1> QED BY <1>2, <1>3, <1>4

LEMMA ReturnKeeps ==
  ASSUME IInv, NEW outcome \in Outcomes, Return(outcome),
         UNCHANGED <<entry, fifo, stp, nextRef>>
  PROVE  IInv'
<1>1. BookInv' /\ InOrderOfArrival' /\ Uncrossed'
  BY DEF IInv, BookInv, BookOK, InOrderOfArrival, Uncrossed
<1>2. report' \in Reports
  <2>1. report \in Reports
    BY DEF IInv, EngineTypes
  <2> QED BY <2>1 DEF Return, Reports
<1>3. EngineTypes'
  BY <1>2 DEF IInv, EngineTypes, Return
<1> QED BY <1>1, <1>3, NothingUnderWay DEF IInv, Return

LEMMA StpCancelBothKeeps == ASSUME IInv, StpCancelBoth PROVE IInv'
<1>1. /\ Matching /\ Remove(Front)
      /\ order' = NoOrder /\ remaining' = 0 /\ fills' = <<>>
      /\ report' = [report EXCEPT !.outcome = "StpRejected",
                                  !.stp_cancelled_resting = @ + 1]
      /\ UNCHANGED <<stp, nextRef>>
  BY DEF StpCancelBoth
<1>2. Front \in Refs
  BY <1>1, AtTheTouch
<1>3. BookInv' /\ Dwindles
  BY <1>1, <1>2, RemoveKeeps, RemoveDwindles DEF IInv
<1>4. InOrderOfArrival' /\ Uncrossed'
  BY <1>1, <1>3, DwindlingKeeps DEF IInv
<1>5. report' \in Reports
  <2>1. report \in Reports
    BY DEF IInv, EngineTypes
  <2>2. PICK r : r = [report EXCEPT !.outcome = "StpRejected"]
    OBVIOUS
  <2>3. r \in Reports
    BY <2>1, <2>2 DEF Reports, Outcomes
  <2>4. report' = [r EXCEPT !.stp_cancelled_resting = @ + 1]
    BY <1>1, <2>1, <2>2 DEF Reports
  <2> QED BY <2>3, <2>4, ReportCounts
<1>6. EngineTypes'
  BY <1>1, <1>5 DEF IInv, EngineTypes
<1> QED BY <1>1, <1>3, <1>4, <1>6, NothingUnderWay DEF IInv

LEMMA RestKeeps == ASSUME IInv, Rest PROVE IInv'
<1>1. /\ Busy /\ remaining > 0 /\ ~ Matching /\ MayRest(order)
      /\ Add(nextRef, order.side, order.price, remaining, order.owner)
      /\ nextRef' = nextRef + 1
      /\ order' = NoOrder /\ remaining' = 0 /\ fills' = <<>>
      /\ report' = [report EXCEPT !.outcome = "Rested", !.resting_ref = nextRef,
                                  !.resting_qty = remaining]
      /\ UNCHANGED stp
  BY DEF Rest
<1>2. order \in NewOrders /\ remaining \in Nat /\ report \in Reports
  BY <1>1 DEF IInv, EngineTypes, Busy
<1>3. order.side \in Sides /\ order.owner \in Owners /\ order.price \in Prices
  BY <1>1, <1>2, NewOrderFields DEF MayRest
<1>4. nextRef \in Refs /\ nextRef \in Nat /\ nextRef' \in 1 .. MaxRef + 1
  BY <1>1, MatchingEngineAssumption DEF IInv, EngineTypes, RoomToRest
<1>5. BookInv'
  BY <1>1, <1>2, <1>3, <1>4, AddKeeps DEF IInv
<1>6. PICK o : o = [side |-> order.side, price |-> order.price, qty |-> remaining,
                   owner |-> order.owner]
  OBVIOUS
<1>7. o.side = order.side /\ o.price = order.price
  BY <1>6
<1>8. /\ entry' = [entry EXCEPT ![nextRef] = o]
      /\ fifo' = [fifo EXCEPT ![order.side][order.price] = Append(@, nextRef)]
      /\ entry[nextRef] = NoOrder
  BY <1>1, <1>6 DEF Add
<1>9. \A ref \in Refs : ref = nextRef \/ entry'[ref] = entry[ref]
  BY <1>4, <1>8 DEF IInv, BookInv, BookOK
<1>10. entry'[nextRef] = o
  BY <1>4, <1>8 DEF IInv, BookInv, BookOK
<1>11. InOrderOfArrival'
  <2>1. ASSUME NEW ref \in Refs, entry'[ref] # NoOrder PROVE ref < nextRef'
    <3>1. ref \in Nat
      BY MatchingEngineAssumption
    <3>2. ref = nextRef \/ ref < nextRef
      BY <1>9, <2>1 DEF IInv, InOrderOfArrival
    <3> QED BY <1>1, <1>4, <3>1, <3>2
  <2>2. ASSUME NEW side \in Sides, NEW p \in Prices PROVE Ascending(fifo'[side][p])
    <3>1. PICK q \in Seq(Refs) : q = fifo[side][p]
      BY DEF IInv, BookInv, BookOK
    <3>2. Ascending(q) /\ Distinct(q)
      BY <3>1 DEF IInv, InOrderOfArrival, BookInv, BookOK
    <3>3. \A ref \in Range(q) : ref < nextRef
      <4>1. \A ref \in Refs : ref \in Range(q) => entry[ref] # NoOrder
        BY <3>1 DEF IInv, BookInv, BookOK
      <4>2. Range(q) \subseteq Refs
        BY LenProperties DEF Range
      <4> QED BY <4>1, <4>2 DEF IInv, InOrderOfArrival
    <3>4. CASE side = order.side /\ p = order.price
      <4>1. PICK a : a = Append(q, nextRef)
        OBVIOUS
      <4>2. fifo'[side][p] = a
        BY <1>3, <1>8, <3>1, <3>4, <4>1 DEF IInv, BookInv, BookOK
      <4>3. nextRef \notin Range(q)
        BY <1>4, <3>3
      <4>4. \A i, j \in DOMAIN a : i < j =>
               /\ i \in DOMAIN q /\ a[i] = q[i]
               /\ \/ j = Len(a) /\ a[j] = nextRef
                  \/ j \in DOMAIN q /\ a[j] = q[j]
        BY <1>4, <3>2, <4>1, <4>3, Joining
      <4>5. \A i \in DOMAIN q : q[i] < nextRef
        BY <3>3 DEF Range
      <4>6. Ascending(a)
        BY <3>2, <4>4, <4>5, Zenon DEF Ascending
      <4> QED BY <4>2, <4>6
    <3>5. CASE ~ (side = order.side /\ p = order.price)
      <4>1. fifo'[side][p] = q
        BY <1>3, <1>8, <3>1, <3>5 DEF IInv, BookInv, BookOK
      <4> QED BY <3>2, <4>1
    <3> QED BY <3>4, <3>5
  <2> QED BY <2>1, <2>2 DEF InOrderOfArrival
<1>12. ASSUME NEW ref \in Refs, entry[ref] # NoOrder, entry[ref].side = Other
       PROVE  /\ order.side = "Buy" => order.price < entry[ref].price
              /\ order.side = "Sell" => entry[ref].price < order.price
  <2>1. PICK other \in Sides : other = Other
    BY <1>3 DEF Other, Opposite, Sides
  <2>2. PICK p \in Prices : p = entry[ref].price
    BY <1>12, RestingIsQueued DEF IInv
  <2>3. ref \in Range(fifo[other][p]) /\ fifo[other][p] \in Seq(Refs)
    BY <1>12, <2>1, <2>2 DEF IInv, BookInv, BookOK
  <2>4. p \in LevelPrices(other)
    BY <2>2, <2>3, LenProperties DEF LevelPrices, Range
  <2>5. ~ EmptySide(other)
    BY <2>4 DEF EmptySide
  <2>6. PICK touch : touch = BestPrice(other)
    OBVIOUS
  <2>7. touch \in Prices /\ ~ Before(other, p, touch)
    BY <2>4, <2>5, <2>6, BestOfSide DEF LevelPrices
  <2>8. ~ Crosses
    BY <1>1, <2>1, <2>5 DEF Matching
  <2>9. touch \in Nat /\ p \in Nat /\ order.price \in Nat
    BY <1>3, <2>7, NumbersAreNatural
  <2>10. /\ ~ (order.side = "Buy" /\ order.price >= touch)
         /\ ~ (order.side = "Sell" /\ order.price <= touch)
    BY <2>1, <2>6, <2>8, Zenon DEF Crosses, Touch
  <2>11. CASE order.side = "Buy"
    <3>1. other = "Sell"
      BY <2>1, <2>11 DEF Other, Opposite
    <3> QED BY <2>2, <2>7, <2>9, <2>10, <2>11, <3>1 DEF Before
  <2>12. CASE order.side = "Sell"
    <3>1. other = "Buy"
      BY <2>1, <2>12 DEF Other, Opposite
    <3> QED BY <2>2, <2>7, <2>9, <2>10, <2>12, <3>1 DEF Before
  <2> QED BY <1>3, <2>11, <2>12 DEF Sides
<1>13. Uncrossed'
  <2>1. ASSUME NEW bid \in Refs, NEW ask \in Refs,
               entry'[bid] # NoOrder, entry'[bid].side = "Buy",
               entry'[ask] # NoOrder, entry'[ask].side = "Sell"
        PROVE  entry'[bid].price < entry'[ask].price
    <3>1. bid # ask
      BY <2>1
    <3>2. CASE bid = nextRef
      <4>1. order.side = "Buy" /\ Other = "Sell" /\ entry'[bid].price = order.price
        BY <1>7, <1>10, <2>1, <3>2 DEF Other, Opposite
      <4>2. entry'[ask] = entry[ask]
        BY <1>9, <3>1, <3>2
      <4>3. entry[ask] # NoOrder /\ entry[ask].side = Other
        BY <2>1, <4>1, <4>2
      <4>4. order.price < entry[ask].price
        BY <1>12, <4>1, <4>3
      <4> QED BY <4>1, <4>2, <4>4, Zenon
    <3>3. CASE ask = nextRef
      <4>1. order.side = "Sell" /\ Other = "Buy" /\ entry'[ask].price = order.price
        BY <1>7, <1>10, <2>1, <3>3 DEF Other, Opposite
      <4>2. entry'[bid] = entry[bid]
        BY <1>9, <3>1, <3>3
      <4>3. entry[bid] # NoOrder /\ entry[bid].side = Other
        BY <2>1, <4>1, <4>2
      <4>4. entry[bid].price < order.price
        BY <1>12, <4>1, <4>3
      <4> QED BY <4>1, <4>2, <4>4, Zenon
    <3>4. CASE bid # nextRef /\ ask # nextRef
      <4>1. entry'[bid] = entry[bid] /\ entry'[ask] = entry[ask]
        BY <1>9, <3>4
      <4> QED BY <2>1, <4>1 DEF IInv, Uncrossed
    <3> QED BY <3>2, <3>3, <3>4
  <2> QED BY <2>1, Zenon DEF Uncrossed
<1>14. report' \in Reports
  BY <1>1, <1>2, <1>4 DEF Reports, Outcomes
<1>15. EngineTypes'
  BY <1>1, <1>4, <1>14 DEF IInv, EngineTypes
<1> QED BY <1>1, <1>5, <1>11, <1>13, <1>15, NothingUnderWay DEF IInv

------------------------------------------------------------------------------
(* The calls. *)

LEMMA SubmitKeeps == ASSUME IInv, NEW o \in NewOrders, Submit(o) PROVE IInv'
<1>1. /\ ~ Busy /\ (MayRest(o) => nextRef <= MaxRef) /\ o.qty > 0
      /\ order' = o /\ remaining' = o.qty /\ fills' = <<>> /\ report' = EmptyReport
      /\ UNCHANGED <<entry, fifo, stp, nextRef>>
  BY DEF Submit
<1>2. o.qty \in Nat /\ o # NoOrder
  BY NewOrderFields
<1>3. BookInv' /\ InOrderOfArrival' /\ Uncrossed'
  BY <1>1 DEF IInv, BookInv, BookOK, InOrderOfArrival, Uncrossed
<1>4. report' \in Reports /\ report'.filled = 0
  BY <1>1 DEF Reports, EmptyReport, Outcomes
<1>5. fills' \in Seq(Fills) /\ Len(fills') = 0 /\ DOMAIN fills' = {}
  BY <1>1
<1>6. EngineTypes'
  BY <1>1, <1>2, <1>4, <1>5 DEF IInv, EngineTypes
<1>7. Busy' /\ RoomToRest' /\ NothingBetweenCalls'
  BY <1>1, <1>2 DEF RoomToRest, NothingBetweenCalls, Busy
<1>8. SharesConserved'
  <2>1. PICK total : total = [i \in 0 .. 0 |-> 0]
    OBVIOUS
  <2>2. total \in [0 .. 0 -> 0 .. 0] /\ total[0] = 0
    BY <2>1
  <2>3. \E sum \in [0 .. Len(fills') -> 0 .. report'.filled] :
           /\ sum[0] = 0
           /\ \A i \in DOMAIN fills' : sum[i] = sum[i - 1] + fills'[i].qty
           /\ sum[Len(fills')] = report'.filled
    BY <1>4, <1>5, <2>2
  <2>4. order'.qty = report'.filled + remaining'
    BY <1>1, <1>2, <1>4
  <2> QED BY <2>3, <2>4 DEF SharesConserved
<1>9. FillsInPriority' /\ NoSelfTrade'
  BY <1>5 DEF FillsInPriority, FillsCameFirst, PriceTimePriority, NoSelfTrade
<1> QED BY <1>3, <1>6, <1>7, <1>8, <1>9 DEF IInv

LEMMA CancelKeeps == ASSUME IInv, NEW ref \in Refs, Cancel(ref) PROVE IInv'
<1>1. ~ Busy /\ Remove(ref) /\ UNCHANGED engineVars
  BY DEF Cancel
<1>2. order = NoOrder /\ fills = <<>>
  BY <1>1 DEF IInv, NothingBetweenCalls, Busy
<1>3. BookInv' /\ Dwindles
  BY <1>1, RemoveKeeps, RemoveDwindles DEF IInv
<1>4. InOrderOfArrival' /\ Uncrossed'
  BY <1>1, <1>3, DwindlingKeeps DEF IInv, engineVars
<1>5. EngineTypes'
  BY <1>1 DEF IInv, EngineTypes, engineVars
<1> QED BY <1>1, <1>2, <1>3, <1>4, <1>5, NothingUnderWay DEF IInv, engineVars

LEMMA SetStpModeKeeps == ASSUME IInv, NEW mode \in StpModes, SetStpMode(mode) PROVE IInv'
<1>1. ~ Busy /\ stp' = mode /\ UNCHANGED <<entry, fifo, nextRef, order, remaining, fills, report>>
  BY DEF SetStpMode
<1>2. order = NoOrder /\ fills = <<>>
  BY <1>1 DEF IInv, NothingBetweenCalls, Busy
<1>3. BookInv' /\ InOrderOfArrival' /\ Uncrossed'
  BY <1>1 DEF IInv, BookInv, BookOK, InOrderOfArrival, Uncrossed
<1>4. EngineTypes'
  BY <1>1 DEF IInv, EngineTypes
<1> QED BY <1>1, <1>2, <1>3, <1>4, NothingUnderWay DEF IInv

LEMMA InitIInv == EngineInit => IInv
<1> SUFFICES ASSUME EngineInit PROVE IInv
  OBVIOUS
<1>1. BookInv
  BY BookStarts DEF EngineInit
<1>2. ~ Busy /\ fills = <<>> /\ DOMAIN fills = {} /\ fills \in Seq(Fills)
  BY DEF EngineInit, Busy
<1>3. report \in Reports
  BY DEF EngineInit, Reports, EmptyReport, Outcomes
<1>4. EngineTypes
  BY <1>2, <1>3, MatchingEngineAssumption DEF EngineInit, EngineTypes
<1>5. \A ref \in Refs : entry[ref] = NoOrder
  BY DEF EngineInit, BookInit
<1>6. ASSUME NEW side \in Sides, NEW p \in Prices PROVE Ascending(fifo[side][p])
  BY DEF EngineInit, BookInit, Ascending
<1>7. InOrderOfArrival /\ Uncrossed
  BY <1>5, <1>6 DEF InOrderOfArrival, Uncrossed
<1>8. RoomToRest /\ NothingBetweenCalls /\ SharesConserved
  BY <1>2 DEF RoomToRest, NothingBetweenCalls, SharesConserved
<1>9. FillsInPriority /\ NoSelfTrade
  BY <1>2 DEF FillsInPriority, PriceTimePriority, NoSelfTrade
<1> QED BY <1>1, <1>4, <1>7, <1>8, <1>9 DEF IInv

LEMMA NextIInv == IInv /\ [EngineNext]_matchingVars => IInv'
<1> SUFFICES ASSUME IInv, [EngineNext]_matchingVars PROVE IInv'
  OBVIOUS
<1>1. CASE \E o \in NewOrders : Submit(o)
  BY <1>1, SubmitKeeps
<1>2. CASE Fill
  BY <1>2, FillKeeps
<1>3. CASE StpCancelOldest
  BY <1>3, StpCancelOldestKeeps
<1>4. CASE StpCancelBoth
  BY <1>4, StpCancelBothKeeps
<1>5. CASE StpCancelNewest
  <2>1. "StpRejected" \in Outcomes
    BY DEF Outcomes
  <2> QED BY <1>5, <2>1, ReturnKeeps DEF StpCancelNewest
<1>6. CASE FilledComplete
  <2>1. "FilledComplete" \in Outcomes
    BY DEF Outcomes
  <2> QED BY <1>6, <2>1, ReturnKeeps DEF FilledComplete
<1>7. CASE CancelRemainder
  <2>1. "Cancelled" \in Outcomes
    BY DEF Outcomes
  <2> QED BY <1>7, <2>1, ReturnKeeps DEF CancelRemainder
<1>8. CASE Rest
  BY <1>8, RestKeeps
<1>9. CASE \E ref \in Refs : Cancel(ref)
  BY <1>9, CancelKeeps
<1>10. CASE \E mode \in StpModes : SetStpMode(mode)
  BY <1>10, SetStpModeKeeps
<1>11. CASE UNCHANGED matchingVars
  <2>1. BookInv' /\ EngineTypes' /\ InOrderOfArrival' /\ Uncrossed'
    BY <1>11 DEF matchingVars, IInv, BookInv, BookOK, EngineTypes, InOrderOfArrival, Uncrossed
  <2>2. RoomToRest' /\ NothingBetweenCalls' /\ SharesConserved' /\ NoSelfTrade'
    BY <1>11 DEF matchingVars, IInv, RoomToRest, NothingBetweenCalls, SharesConserved, NoSelfTrade, Busy
  <2>3. FillsInPriority'
    BY <1>11 DEF matchingVars, IInv, FillsInPriority, PriceTimePriority, FillsCameFirst, Busy, Other
  <2> QED BY <2>1, <2>2, <2>3 DEF IInv
<1> QED BY <1>1, <1>2, <1>3, <1>4, <1>5, <1>6, <1>7, <1>8, <1>9, <1>10, <1>11 DEF EngineNext, Step

------------------------------------------------------------------------------
(* What holds of the engine. *)

\* Two prices of one side of the touch are compared where orders rest.
LEMMA UncrossedBook == IInv => ~ Crossed
<1> SUFFICES ASSUME IInv, Crossed PROVE FALSE
  OBVIOUS
<1>1. "Buy" \in Sides /\ "Sell" \in Sides
  BY DEF Sides
<1>2. ~ EmptySide("Buy") /\ ~ EmptySide("Sell") /\ BestPrice("Buy") >= BestPrice("Sell")
  BY DEF Crossed
<1>3. PICK b : b = BestPrice("Buy")
  OBVIOUS
<1>4. PICK a : a = BestPrice("Sell")
  OBVIOUS
<1>5. PICK bid : bid = FrontAt("Buy", b)
  OBVIOUS
<1>6. PICK ask : ask = FrontAt("Sell", a)
  OBVIOUS
<1>7. /\ b \in Prices /\ bid \in Refs /\ entry[bid] # NoOrder
      /\ entry[bid].side = "Buy" /\ entry[bid].price = b
  BY <1>1, <1>2, <1>3, <1>5, FrontOfSide DEF IInv
<1>8. /\ a \in Prices /\ ask \in Refs /\ entry[ask] # NoOrder
      /\ entry[ask].side = "Sell" /\ entry[ask].price = a
  BY <1>1, <1>2, <1>4, <1>6, FrontOfSide DEF IInv
<1>9. b < a
  BY <1>7, <1>8 DEF IInv, Uncrossed
<1>10. a \in Nat /\ b \in Nat /\ b >= a
  BY <1>2, <1>3, <1>4, <1>7, <1>8, NumbersAreNatural
<1> QED BY <1>9, <1>10

\* In the middle of a match every share is accounted for; between submissions the
\* book is never crossed, whatever was filled, pulled, cancelled or left to rest.
THEOREM EngineIsSound == EngineSpec => []EngineSound
<1>1. IInv => EngineSound
  <2>1. IInv => TypeOK
    BY BookInvStated DEF IInv, EngineTypes, TypeOK
  <2> QED BY <2>1, UncrossedBook DEF EngineSound, IInv, NeverCrossedAtRest
<1> QED BY <1>1, InitIInv, NextIInv, PTL DEF EngineSpec

\* Fills walk the other side outwards in price, in order of arrival within a
\* price, and stop at the limit of the incoming order.
THEOREM EngineKeepsPriority == EngineSpec => []PriceTimePriority
<1>1. IInv => PriceTimePriority
  BY DEF IInv, FillsInPriority
<1> QED BY <1>1, InitIInv, NextIInv, PTL DEF EngineSpec

\* With prevention on, no owner but 0 trades with itself.
THEOREM EnginePreventsSelfTrade == EngineSpec => []NoSelfTrade
<1>1. IInv => NoSelfTrade
  BY DEF IInv
<1> QED BY <1>1, InitIInv, NextIInv, PTL DEF EngineSpec

\* What ReturnsAccounted says of a step.
Newly == {ref \in Refs : entry[ref] = NoOrder /\ entry'[ref] # NoOrder}

Accounted ==
    Busy /\ order' = NoOrder =>
        IF report'.outcome = "Rested"
        THEN /\ Newly = {report'.resting_ref}
             /\ entry'[report'.resting_ref] =
                   [side |-> order.side, price |-> order.price,
                    qty |-> order.qty - report'.filled, owner |-> order.owner]
             /\ MayRest(order)
        ELSE /\ Newly = {}
             /\ report'.outcome = "FilledComplete" <=> report'.filled = order.qty

LEMMA RestAccounts == ASSUME IInv, Rest PROVE Accounted
<1>1. /\ Busy /\ MayRest(order)
      /\ Add(nextRef, order.side, order.price, remaining, order.owner)
      /\ report' = [report EXCEPT !.outcome = "Rested", !.resting_ref = nextRef,
                                  !.resting_qty = remaining]
  BY DEF Rest
<1>2. order \in NewOrders /\ remaining \in Nat /\ report \in Reports
  BY <1>1 DEF IInv, EngineTypes, Busy
<1>3. nextRef \in Refs
  BY <1>1, MatchingEngineAssumption DEF IInv, EngineTypes, RoomToRest
<1>4. /\ report'.outcome = "Rested" /\ report'.resting_ref = nextRef
      /\ report'.filled = report.filled /\ report.filled \in Nat
  BY <1>1, <1>2 DEF Reports
<1>5. order.qty = report.filled + remaining
  BY <1>1 DEF IInv, SharesConserved
<1>6. PICK o : o = [side |-> order.side, price |-> order.price, qty |-> remaining,
                   owner |-> order.owner]
  OBVIOUS
<1>7. entry' = [entry EXCEPT ![nextRef] = o] /\ entry[nextRef] = NoOrder
  BY <1>1, <1>6 DEF Add
<1>8. entry'[nextRef] = o /\ \A ref \in Refs : ref = nextRef \/ entry'[ref] = entry[ref]
  BY <1>3, <1>7 DEF IInv, BookInv, BookOK
<1>9. o \in Entries
  BY <1>2, <1>3, <1>6, NewOrderFields, <1>1 DEF Entries, MayRest
<1>10. o # NoOrder
  BY <1>9, LimitOrderBookAssumption DEF Entries
<1>11. Newly = {nextRef}
  BY <1>3, <1>7, <1>8, <1>10 DEF Newly
<1>12. remaining = order.qty - report'.filled
  BY <1>2, <1>4, <1>5
<1>13. entry'[nextRef] = [side |-> order.side, price |-> order.price,
                         qty |-> order.qty - report'.filled, owner |-> order.owner]
  BY <1>6, <1>8, <1>12, Zenon
<1> QED BY <1>1, <1>4, <1>11, <1>13, Zenon DEF Accounted

\* What returns otherwise leaves no order, and only a full fill is complete.
LEMMA ReturnAccounts ==
  ASSUME IInv, Busy, \A ref \in Refs : entry'[ref] # NoOrder => entry[ref] # NoOrder,
         report'.filled = report.filled, report'.outcome # "Rested",
         report'.outcome = "FilledComplete" <=> remaining = 0
  PROVE  Accounted
<1>1. remaining \in Nat /\ report.filled \in Nat
  <2>1. report \in Reports /\ remaining \in Nat
    BY DEF IInv, EngineTypes
  <2> QED BY <2>1 DEF Reports
<1>2. order.qty = report.filled + remaining
  BY DEF IInv, SharesConserved
<1>3. report'.outcome = "FilledComplete" <=> report'.filled = order.qty
  BY <1>1, <1>2
<1>4. Newly = {}
  BY DEF Newly
<1> QED BY <1>3, <1>4 DEF Accounted

LEMMA StepAccounts == IInv /\ [EngineNext]_matchingVars => Accounted
<1> SUFFICES ASSUME IInv, [EngineNext]_matchingVars, Busy, order' = NoOrder PROVE Accounted
  BY DEF Accounted
<1>1. remaining \in Nat /\ report \in Reports
  BY DEF IInv, EngineTypes
<1>2. ASSUME NEW outcome \in Outcomes \ {"Rested"}, Return(outcome), UNCHANGED entry,
             outcome = "FilledComplete" <=> remaining = 0
      PROVE  Accounted
  <2>1. report'.outcome = outcome /\ report'.filled = report.filled
    BY <1>1, <1>2 DEF Return, Reports
  <2> QED BY <1>2, <2>1, ReturnAccounts
<1>3. CASE StpCancelNewest
  <2>1. remaining > 0 /\ Return("StpRejected") /\ UNCHANGED entry
    BY <1>3 DEF StpCancelNewest, Matching
  <2> QED BY <1>1, <1>2, <2>1 DEF Outcomes
<1>4. CASE FilledComplete
  <2>1. remaining = 0 /\ Return("FilledComplete") /\ UNCHANGED entry
    BY <1>4 DEF FilledComplete
  <2> QED BY <1>1, <1>2, <2>1 DEF Outcomes
<1>5. CASE CancelRemainder
  <2>1. remaining > 0 /\ Return("Cancelled") /\ UNCHANGED entry
    BY <1>5 DEF CancelRemainder
  <2> QED BY <1>1, <1>2, <2>1 DEF Outcomes
<1>6. CASE StpCancelBoth
  <2>1. /\ Matching /\ Remove(Front)
        /\ report' = [report EXCEPT !.outcome = "StpRejected",
                                    !.stp_cancelled_resting = @ + 1]
    BY <1>6 DEF StpCancelBoth
  <2>2. Dwindles
    BY <2>1, AtTheTouch, RemoveDwindles DEF IInv
  <2>3. report'.outcome = "StpRejected" /\ report'.filled = report.filled
    BY <1>1, <2>1 DEF Reports
  <2>4. remaining > 0
    BY <2>1 DEF Matching
  <2> QED BY <1>1, <2>2, <2>3, <2>4, ReturnAccounts DEF Dwindles
<1>7. CASE Rest
  BY <1>7, RestAccounts
<1>8. CASE Fill \/ StpCancelOldest \/ UNCHANGED matchingVars
  BY <1>8 DEF Fill, StpCancelOldest, matchingVars, Busy
<1>9. CASE \E o \in NewOrders : Submit(o)
  BY <1>9 DEF Submit
<1>10. CASE \E ref \in Refs : Cancel(ref)
  BY <1>10 DEF Cancel
<1>11. CASE \E mode \in StpModes : SetStpMode(mode)
  BY <1>11 DEF SetStpMode
<1> QED BY <1>3, <1>4, <1>5, <1>6, <1>7, <1>8, <1>9, <1>10, <1>11 DEF EngineNext, Step

\* A submission only returns with its shares accounted for.
THEOREM EngineAccounts == EngineSpec => ReturnsAccounted
<1>1. IInv /\ [EngineNext]_matchingVars => [Accounted]_matchingVars
  BY StepAccounts
<1>2. [][Accounted]_matchingVars => ReturnsAccounted
  BY DEF Accounted, Newly, ReturnsAccounted
<1> QED BY <1>1, <1>2, InitIInv, NextIInv, PTL DEF EngineSpec

------------------------------------------------------------------------------
(* The feed. *)

Listing == [locate : Locates, side : Sides, price : FeedPrices, qty : Nat \ {0}]

\* A market of announced stocks under issued references, none of them crossed.
MarketOK(M, locates, refs) ==
    /\ locates \subseteq Locates
    /\ refs \subseteq Refs
    /\ DOMAIN M \subseteq refs
    /\ \A r \in DOMAIN M : M[r] \in Listing /\ M[r].locate \in locates
    /\ \A r, s \in DOMAIN M :
          M[r].locate = M[s].locate /\ M[r].side = "Buy" /\ M[s].side = "Sell"
             => M[r].price < M[s].price

FeedInv == MarketOK(market, announced, issued)

\* The order of a book that stands for one of the market.
OrderOf(o) == [side |-> o.side, price |-> o.price, qty |-> o.qty, owner |-> 0]

\* The book of the stock with a symbol.
BookOf(M, symbol) ==
    [r \in Refs |-> IF r \in DOMAIN M /\ SymbolOf[M[r].locate] = symbol
                    THEN OrderOf(M[r]) ELSE NoOrder]

LEMMA FeedConstants ==
  /\ SymbolOf \in [Locates -> Symbols]
  /\ \A l, k \in Locates : SymbolOf[l] = SymbolOf[k] => l = k
  /\ Quantities \subseteq Nat \ {0}
  /\ FeedPrices \subseteq Nat \ {0}
  /\ FeedPrices \subseteq Prices
  /\ 0 \in Owners
  /\ NoSymbol \notin Symbols
BY FeedProgramsAssumption DEF Feed!FeedAssumption

\* What a replacement keeps of an order.
LEMMA Repriced ==
  ASSUME NEW o, NEW price, NEW shares
  PROVE  [OrderOf(o) EXCEPT !.price = price, !.qty = shares]
            = [side |-> o.side, price |-> price, qty |-> shares, owner |-> 0]
<1> DEFINE x == OrderOf(o)
           y == [side |-> o.side, price |-> price, qty |-> o.qty, owner |-> 0]
<1>1. [x EXCEPT !.price = price, !.qty = shares] = [[x EXCEPT !.price = price] EXCEPT !.qty = shares]
  BY DEF OrderOf
<1>2. [x EXCEPT !.price = price] = y
  BY DEF OrderOf
<1>3. [y EXCEPT !.qty = shares] = [side |-> o.side, price |-> price, qty |-> shares, owner |-> 0]
  OBVIOUS
<1> QED BY <1>1, <1>2, <1>3

LEMMA ListedOrder ==
  ASSUME NEW o \in Listing
  PROVE  /\ OrderOf(o) \in Entries
         /\ OrderOf(o).side = o.side
         /\ OrderOf(o).price = o.price
         /\ OrderOf(o).qty = o.qty
<1>1. o.side \in Sides /\ o.price \in Prices /\ o.qty \in Nat /\ 0 \in Owners
  BY FeedConstants DEF Listing
<1> QED BY <1>1 DEF OrderOf, Entries

LEMMA FeedStarts == Feed!FeedInit => FeedInv
<1> SUFFICES ASSUME Feed!FeedInit PROVE FeedInv
  OBVIOUS
<1>1. DOMAIN market = {}
  BY DEF Feed!FeedInit
<1> QED BY <1>1 DEF Feed!FeedInit, FeedInv, MarketOK

\* An order that is listed in a market without its reference.
LEMMA ListedMarket ==
  ASSUME NEW M, NEW locates, NEW refs, MarketOK(M, locates, refs),
         NEW ref \in Refs, NEW o \in Listing, o.locate \in locates, ref \notin DOMAIN M,
         \A r \in DOMAIN M : M[r].locate = o.locate /\ M[r].side = Opposite(o.side)
            => ~ (o.price = M[r].price \/ Before(o.side, o.price, M[r].price))
  PROVE  MarketOK(Feed!With(M, ref, o), locates, refs \cup {ref})
<1> DEFINE N == Feed!With(M, ref, o)
<1>1. /\ DOMAIN N = DOMAIN M \cup {ref}
      /\ N[ref] = o
      /\ \A r \in DOMAIN M : N[r] = M[r]
  BY DEF Feed!With
<1>2. o.side \in Sides /\ o.price \in Nat /\ o.locate \in Locates
  BY FeedConstants DEF Listing
<1>3. \A r \in DOMAIN M : M[r].side \in Sides /\ M[r].price \in Nat
  BY FeedConstants DEF MarketOK, Listing
<1> HIDE DEF N
<1>4. ASSUME NEW r \in DOMAIN N, NEW s \in DOMAIN N, N[r].locate = N[s].locate,
             N[r].side = "Buy", N[s].side = "Sell"
      PROVE  N[r].price < N[s].price
  <2>1. CASE r \in DOMAIN M /\ s \in DOMAIN M
    BY <1>1, <1>4, <2>1 DEF MarketOK
  <2>2. CASE r = ref /\ s \in DOMAIN M
    BY <1>1, <1>2, <1>3, <1>4, <2>2 DEF Opposite, Before
  <2>3. CASE r \in DOMAIN M /\ s = ref
    BY <1>1, <1>2, <1>3, <1>4, <2>3 DEF Opposite, Before
  <2>4. CASE r = ref /\ s = ref
    BY <1>4, <2>4
  <2> QED BY <1>1, <2>1, <2>2, <2>3, <2>4
<1>5. /\ locates \subseteq Locates
      /\ refs \cup {ref} \subseteq Refs
      /\ DOMAIN N \subseteq refs \cup {ref}
      /\ \A r \in DOMAIN N : N[r] \in Listing /\ N[r].locate \in locates
  BY <1>1 DEF MarketOK
<1> QED BY <1>4, <1>5 DEF MarketOK, N

\* Orders leave, or what is left of one is smaller.
LEMMA ShrunkMarket ==
  ASSUME NEW M, NEW locates, NEW refs, MarketOK(M, locates, refs),
         NEW N, DOMAIN N \subseteq DOMAIN M,
         \A r \in DOMAIN N : /\ N[r] \in Listing
                             /\ N[r].locate = M[r].locate
                             /\ N[r].side = M[r].side
                             /\ N[r].price = M[r].price
  PROVE  MarketOK(N, locates, refs)
<1>1. /\ locates \subseteq Locates
      /\ refs \subseteq Refs
      /\ DOMAIN N \subseteq refs
  BY DEF MarketOK
<1>2. \A r \in DOMAIN N : N[r] \in Listing /\ N[r].locate \in locates
  BY DEF MarketOK
<1>3. \A r, s \in DOMAIN N :
          N[r].locate = N[s].locate /\ N[r].side = "Buy" /\ N[s].side = "Sell"
             => N[r].price < N[s].price
  BY DEF MarketOK
<1> QED BY <1>1, <1>2, <1>3 DEF MarketOK

------------------------------------------------------------------------------
(* What each message does to the market, and to the book of a stock.       *)

LEMMA AnnouncedKeeps ==
  ASSUME FeedInv, NEW locates \in SUBSET Locates, announced \subseteq locates
  PROVE  MarketOK(market, locates, issued)
BY DEF FeedInv, MarketOK

LEMMA SentDirectory ==
  ASSUME FeedInv, NEW m \in Feed!Directories, Feed!SendDirectory(m)
  PROVE  /\ FeedInv'
         /\ m.locate \in Locates
         /\ announced' = announced \cup {m.locate}
         /\ market' = market
<1>1. /\ m.locate \in Locates
      /\ announced' = announced \cup {m.locate}
      /\ market' = market /\ issued' = issued
  BY DEF Feed!Directories, Feed!SendDirectory
<1>2. announced \subseteq Locates
  BY DEF FeedInv, MarketOK
<1>3. MarketOK(market, announced \cup {m.locate}, issued)
  BY <1>1, <1>2, AnnouncedKeeps
<1> QED BY <1>1, <1>3 DEF FeedInv

LEMMA SentAdd ==
  ASSUME FeedInv, NEW m \in Feed!Adds, Feed!SendAdd(m), NEW symbol,
         NEW o, o = [locate |-> m.locate, side |-> m.side, price |-> m.price, qty |-> m.shares]
  PROVE  /\ FeedInv'
         /\ o \in Listing /\ m.ref \in Refs /\ m.locate \in announced
         /\ announced' = announced
         /\ BookOf(market, symbol)[m.ref] = NoOrder
         /\ BookOf(market', symbol) =
               IF SymbolOf[m.locate] = symbol
               THEN [BookOf(market, symbol) EXCEPT ![m.ref] = OrderOf(o)]
               ELSE BookOf(market, symbol)
<1>1. /\ m.locate \in Locates /\ m.ref \in Refs /\ m.side \in Sides
      /\ m.price \in FeedPrices /\ m.shares \in Nat \ {0}
  BY FeedConstants DEF Feed!Adds, Sides, Feed!Sides
<1>2. /\ m.locate \in announced
      /\ m.ref \notin issued
      /\ ~ Feed!Meets(m.locate, m.side, m.price, Refs)
      /\ market' = Feed!With(market, m.ref, o)
      /\ issued' = issued \cup {m.ref}
      /\ announced' = announced
  BY DEF Feed!SendAdd
<1>3. o \in Listing
  BY <1>1 DEF Listing
<1>4. m.ref \notin DOMAIN market /\ DOMAIN market \subseteq Refs
  BY <1>2 DEF FeedInv, MarketOK
<1>5. ASSUME NEW r \in DOMAIN market, market[r].locate = o.locate,
             market[r].side = Opposite(o.side)
      PROVE  ~ (o.price = market[r].price \/ Before(o.side, o.price, market[r].price))
  <2>1. r \in Feed!At(m.locate, Feed!Opposite(m.side)) \cap Refs
    BY <1>4, <1>5 DEF Feed!At, Opposite, Feed!Opposite
  <2>2. ~ (m.price = market[r].price \/ Feed!Before(m.side, m.price, market[r].price))
    BY <1>2, <2>1 DEF Feed!Meets
  <2>3. o.side = m.side /\ o.price = m.price
    OBVIOUS
  <2>4. ~ (m.price = market[r].price \/ Before(m.side, m.price, market[r].price))
    BY ONLY <2>2 DEF Before, Feed!Before
  <2> QED BY ONLY <2>3, <2>4
<1>6. MarketOK(Feed!With(market, m.ref, o), announced, issued \cup {m.ref})
  BY <1>1, <1>2, <1>3, <1>4, <1>5, ListedMarket DEF FeedInv
<1>7. FeedInv'
  BY <1>2, <1>6 DEF FeedInv
<1>8. /\ DOMAIN market' = DOMAIN market \cup {m.ref}
      /\ market'[m.ref] = o
      /\ \A r \in DOMAIN market : market'[r] = market[r]
  BY <1>2, <1>4 DEF Feed!With
<1>9. BookOf(market, symbol)[m.ref] = NoOrder
  BY <1>1, <1>4 DEF BookOf
<1>10. CASE SymbolOf[m.locate] = symbol
  BY <1>1, <1>2, <1>3, <1>7, <1>8, <1>9, <1>10 DEF BookOf
<1>11. CASE SymbolOf[m.locate] # symbol
  BY <1>1, <1>2, <1>3, <1>4, <1>7, <1>8, <1>9, <1>11 DEF BookOf
<1> QED BY <1>10, <1>11

\* A message that names an order at rest.
LEMMA NamesOrder ==
  ASSUME FeedInv, NEW m, Feed!Rests(m), NEW symbol
  PROVE  /\ m.ref \in DOMAIN market /\ m.ref \in Refs
         /\ market[m.ref] \in Listing /\ market[m.ref].locate = m.locate
         /\ m.locate \in announced /\ m.locate \in Locates
         /\ BookOf(market, symbol)[m.ref] =
               IF SymbolOf[m.locate] = symbol THEN OrderOf(market[m.ref]) ELSE NoOrder
BY DEF FeedInv, MarketOK, Feed!Rests, BookOf

\* An order of the market leaves it.
LEMMA OrderGone ==
  ASSUME FeedInv, NEW m, Feed!Rests(m)
  PROVE  MarketOK(Feed!Without({m.ref}), announced, issued)
<1> DEFINE N == Feed!Without({m.ref})
<1>1. /\ DOMAIN N = DOMAIN market \ {m.ref}
      /\ \A r \in DOMAIN N : N[r] = market[r]
  BY DEF Feed!Without
<1>2. \A r \in DOMAIN N : market[r] \in Listing
  BY <1>1 DEF FeedInv, MarketOK
<1> QED BY <1>1, <1>2, ShrunkMarket DEF FeedInv

LEMMA BookGone ==
  ASSUME FeedInv, NEW m, Feed!Rests(m), NEW symbol
  PROVE  BookOf(Feed!Without({m.ref}), symbol) =
            IF SymbolOf[m.locate] = symbol
            THEN [BookOf(market, symbol) EXCEPT ![m.ref] = NoOrder]
            ELSE BookOf(market, symbol)
<1> DEFINE N == Feed!Without({m.ref})
<1>1. /\ DOMAIN N = DOMAIN market \ {m.ref}
      /\ \A r \in DOMAIN N : N[r] = market[r]
  BY DEF Feed!Without
<1>2. m.ref \in DOMAIN market /\ m.ref \in Refs /\ market[m.ref].locate = m.locate
  BY NamesOrder
<1> QED BY <1>1, <1>2 DEF BookOf

LEMMA SentDelete ==
  ASSUME FeedInv, NEW m \in Feed!Deletes, Feed!SendDelete(m), NEW symbol
  PROVE  /\ FeedInv'
         /\ Feed!Rests(m) /\ announced' = announced
         /\ BookOf(market', symbol) =
               IF SymbolOf[m.locate] = symbol
               THEN [BookOf(market, symbol) EXCEPT ![m.ref] = NoOrder]
               ELSE BookOf(market, symbol)
<1>1. /\ Feed!Rests(m)
      /\ market' = Feed!Without({m.ref})
      /\ announced' = announced /\ issued' = issued
  BY DEF Feed!SendDelete
<1>2. MarketOK(market', announced, issued)
  BY <1>1, OrderGone
<1> QED BY <1>1, <1>2, BookGone DEF FeedInv

LEMMA SentReduction ==
  ASSUME FeedInv, NEW m \in Feed!Reductions, Feed!SendReduction(m), NEW symbol
  PROVE  /\ FeedInv'
         /\ Feed!Rests(m) /\ announced' = announced
         /\ m.shares \in Nat \ {0} /\ m.shares <= market[m.ref].qty
         /\ BookOf(market', symbol) =
               IF SymbolOf[m.locate] = symbol
               THEN IF m.shares < market[m.ref].qty
                    THEN [BookOf(market, symbol) EXCEPT ![m.ref].qty = @ - m.shares]
                    ELSE [BookOf(market, symbol) EXCEPT ![m.ref] = NoOrder]
               ELSE BookOf(market, symbol)
<1>1. /\ Feed!Rests(m)
      /\ m.shares <= market[m.ref].qty
      /\ market' = Feed!Taken(m.ref, m.shares)
      /\ announced' = announced /\ issued' = issued
  BY DEF Feed!SendReduction
<1>2. m.shares \in Nat \ {0}
  BY FeedConstants DEF Feed!Reductions
<1>3. /\ m.ref \in DOMAIN market /\ m.ref \in Refs
      /\ market[m.ref] \in Listing /\ market[m.ref].locate = m.locate
      /\ BookOf(market, symbol)[m.ref] =
            IF SymbolOf[m.locate] = symbol THEN OrderOf(market[m.ref]) ELSE NoOrder
  BY <1>1, NamesOrder
<1>4. market[m.ref].qty \in Nat
  BY <1>3 DEF Listing
<1>5. CASE m.shares = market[m.ref].qty
  <2>1. market' = Feed!Without({m.ref})
    BY <1>1, <1>5 DEF Feed!Taken
  <2>2. MarketOK(market', announced, issued)
    BY <1>1, <2>1, OrderGone
  <2>3. BookOf(market', symbol) =
           IF SymbolOf[m.locate] = symbol
           THEN [BookOf(market, symbol) EXCEPT ![m.ref] = NoOrder]
           ELSE BookOf(market, symbol)
    BY <1>1, <2>1, BookGone
  <2>4. ~ (m.shares < market[m.ref].qty)
    BY <1>4, <1>5
  <2> QED BY <1>1, <1>2, <2>2, <2>3, <2>4 DEF FeedInv
<1>6. CASE m.shares # market[m.ref].qty
  <2>1. market' = [market EXCEPT ![m.ref].qty = @ - m.shares]
    BY <1>1, <1>6 DEF Feed!Taken
  <2>2. m.shares < market[m.ref].qty
    BY <1>1, <1>2, <1>4, <1>6
  <2>3. /\ DOMAIN market' = DOMAIN market
        /\ \A r \in DOMAIN market \ {m.ref} : market'[r] = market[r]
        /\ market'[m.ref] = [market[m.ref] EXCEPT !.qty = @ - m.shares]
    BY <1>3, <2>1
  <2>4. /\ market[m.ref].qty - m.shares \in Nat \ {0}
    BY <1>2, <1>4, <2>2
  <2>5. /\ market'[m.ref] \in Listing
        /\ market'[m.ref].locate = market[m.ref].locate
        /\ market'[m.ref].side = market[m.ref].side
        /\ market'[m.ref].price = market[m.ref].price
        /\ market'[m.ref].qty = market[m.ref].qty - m.shares
    BY <1>3, <2>3, <2>4 DEF Listing
  <2>6. MarketOK(market', announced, issued)
    <3>1. \A r \in DOMAIN market' : /\ market'[r] \in Listing
                                    /\ market'[r].locate = market[r].locate
                                    /\ market'[r].side = market[r].side
                                    /\ market'[r].price = market[r].price
      BY <2>3, <2>5 DEF FeedInv, MarketOK
    <3> QED BY <2>3, <3>1, ShrunkMarket DEF FeedInv
  <2>7. OrderOf(market'[m.ref]) = [OrderOf(market[m.ref]) EXCEPT !.qty = @ - m.shares]
    BY <2>5 DEF OrderOf
  <2>8. CASE SymbolOf[m.locate] = symbol
    <3>1. BookOf(market', symbol) = [BookOf(market, symbol) EXCEPT ![m.ref] = OrderOf(market'[m.ref])]
      BY <1>3, <2>3, <2>5, <2>8 DEF BookOf
    <3>2. [BookOf(market, symbol) EXCEPT ![m.ref] = OrderOf(market'[m.ref])]
             = [BookOf(market, symbol) EXCEPT ![m.ref].qty = @ - m.shares]
      BY <1>3, <2>7, <2>8 DEF BookOf
    <3> QED BY <1>1, <1>2, <2>2, <2>6, <2>8, <3>1, <3>2 DEF FeedInv
  <2>9. CASE SymbolOf[m.locate] # symbol
    <3>1. BookOf(market', symbol) = BookOf(market, symbol)
      BY <1>3, <2>3, <2>5, <2>9 DEF BookOf
    <3> QED BY <1>1, <1>2, <2>2, <2>6, <2>9, <3>1 DEF FeedInv
  <2> QED BY <2>8, <2>9
<1> QED BY <1>5, <1>6

LEMMA SentReplace ==
  ASSUME FeedInv, NEW m \in Feed!Replaces, Feed!SendReplace(m), NEW symbol
  PROVE  /\ FeedInv'
         /\ Feed!Rests(m) /\ announced' = announced
         /\ m.new \in Refs /\ m.price \in FeedPrices /\ m.shares \in Nat \ {0}
         /\ m.new # m.ref
         /\ BookOf(market, symbol)[m.new] = NoOrder
         /\ BookOf(market', symbol) =
               IF SymbolOf[m.locate] = symbol
               THEN [BookOf(market, symbol) EXCEPT
                        ![m.ref] = NoOrder,
                        ![m.new] = [BookOf(market, symbol)[m.ref] EXCEPT
                                       !.price = m.price, !.qty = m.shares]]
               ELSE BookOf(market, symbol)
<1> DEFINE o == [market[m.ref] EXCEPT !.price = m.price, !.qty = m.shares]
           N == Feed!Without({m.ref})
           B == BookOf(market, symbol)
<1>1. /\ Feed!Rests(m)
      /\ m.new \notin issued
      /\ ~ Feed!Meets(m.locate, market[m.ref].side, m.price, Refs \ {m.ref})
      /\ market' = Feed!With(N, m.new, o)
      /\ issued' = issued \cup {m.new}
      /\ announced' = announced
  BY DEF Feed!SendReplace
<1>2. m.new \in Refs /\ m.price \in FeedPrices /\ m.shares \in Nat \ {0}
  BY FeedConstants DEF Feed!Replaces
<1>3. /\ m.ref \in DOMAIN market /\ m.ref \in Refs
      /\ market[m.ref] \in Listing /\ market[m.ref].locate = m.locate
      /\ m.locate \in announced
      /\ B[m.ref] = IF SymbolOf[m.locate] = symbol THEN OrderOf(market[m.ref]) ELSE NoOrder
  BY <1>1, NamesOrder
<1>4. /\ o \in Listing /\ o.locate = m.locate /\ o.side = market[m.ref].side
      /\ o.price = m.price /\ o.qty = m.shares
  BY <1>2, <1>3 DEF Listing
<1>5. /\ MarketOK(N, announced, issued)
      /\ DOMAIN N = DOMAIN market \ {m.ref}
      /\ \A r \in DOMAIN N : N[r] = market[r]
      /\ BookOf(N, symbol) = IF SymbolOf[m.locate] = symbol
                             THEN [B EXCEPT ![m.ref] = NoOrder] ELSE B
  <2>1. /\ DOMAIN N = DOMAIN market \ {m.ref}
        /\ \A r \in DOMAIN N : N[r] = market[r]
    BY DEF Feed!Without
  <2> QED BY <1>1, <2>1, OrderGone, BookGone
<1> HIDE DEF N, o
<1>6. m.new \notin DOMAIN market /\ DOMAIN market \subseteq Refs
  BY <1>1 DEF FeedInv, MarketOK
<1>7. ASSUME NEW r \in DOMAIN N, N[r].locate = o.locate, N[r].side = Opposite(o.side)
      PROVE  ~ (o.price = N[r].price \/ Before(o.side, o.price, N[r].price))
  <2>1. r \in DOMAIN market /\ r # m.ref /\ r \in Refs /\ N[r] = market[r]
    BY <1>5, <1>6
  <2>2. r \in Feed!At(m.locate, Feed!Opposite(market[m.ref].side)) \cap (Refs \ {m.ref})
    BY <1>4, <1>7, <2>1 DEF Feed!At, Opposite, Feed!Opposite
  <2>3. ~ (m.price = market[r].price
           \/ Feed!Before(market[m.ref].side, m.price, market[r].price))
    BY <1>1, <2>2 DEF Feed!Meets
  <2>4. ~ (m.price = market[r].price \/ Before(market[m.ref].side, m.price, market[r].price))
    BY ONLY <2>3 DEF Before, Feed!Before
  <2> QED BY ONLY <1>4, <2>1, <2>4
<1>8. MarketOK(Feed!With(N, m.new, o), announced, issued \cup {m.new})
  <2>1. m.new \notin DOMAIN N
    BY <1>5, <1>6
  <2> QED BY <1>2, <1>3, <1>4, <1>5, <1>7, <2>1, ListedMarket
<1>9. FeedInv'
  BY <1>1, <1>8 DEF FeedInv
<1>10. m.new # m.ref /\ B[m.new] = NoOrder
  BY <1>2, <1>3, <1>6 DEF BookOf
<1>11. /\ DOMAIN market' = DOMAIN N \cup {m.new}
       /\ market'[m.new] = o
       /\ \A r \in DOMAIN N : r # m.new => market'[r] = N[r]
  BY <1>1 DEF Feed!With
<1>12. CASE SymbolOf[m.locate] = symbol
  <2>1. BookOf(market', symbol) = [BookOf(N, symbol) EXCEPT ![m.new] = OrderOf(o)]
    BY <1>2, <1>4, <1>5, <1>6, <1>11, <1>12 DEF BookOf
  <2>2. OrderOf(o) = [B[m.ref] EXCEPT !.price = m.price, !.qty = m.shares]
    <3>1. B[m.ref] = OrderOf(market[m.ref])
      BY <1>3, <1>12
    <3>2. [OrderOf(market[m.ref]) EXCEPT !.price = m.price, !.qty = m.shares]
             = [side |-> market[m.ref].side, price |-> m.price, qty |-> m.shares, owner |-> 0]
      BY ONLY Repriced, Zenon
    <3>3. OrderOf(o)
             = [side |-> market[m.ref].side, price |-> m.price, qty |-> m.shares, owner |-> 0]
      BY ONLY <1>4, Zenon DEF OrderOf
    <3> QED BY <3>1, <3>2, <3>3
  <2> QED BY <1>1, <1>2, <1>5, <1>9, <1>10, <1>12, <2>1, <2>2
<1>13. CASE SymbolOf[m.locate] # symbol
  <2>1. BookOf(market', symbol) = BookOf(N, symbol)
    BY <1>2, <1>4, <1>5, <1>6, <1>11, <1>13 DEF BookOf
  <2> QED BY <1>1, <1>2, <1>5, <1>9, <1>10, <1>13, <2>1
<1> QED BY <1>12, <1>13

LEMMA SentReport ==
  ASSUME FeedInv, NEW m, Feed!SendReport(m)
  PROVE  FeedInv' /\ market' = market /\ announced' = announced
BY DEF Feed!SendReport, FeedInv

------------------------------------------------------------------------------
(* What rests in a book, as a value: its orders, its quantity and levels.  *)

RestingOf(e) == {r \in Refs : e[r] # NoOrder}

QtyOf(e, side) ==
    SumFunctionOnSet([r \in RestingOf(e) |-> e[r].qty], {r \in RestingOf(e) : e[r].side = side})

\* Book n has a number of shares more on a side than book e.
More(e, n, s, shares) ==
    \A side \in Sides :
        /\ QtyOf(e, side) \in Int
        /\ QtyOf(n, side) \in Int
        /\ QtyOf(n, side) = QtyOf(e, side) + (IF side = s THEN shares ELSE 0)

LEMMA QtyStated == /\ Resting = RestingOf(entry)
                   /\ \A side : TotalQty(side) = QtyOf(entry, side)
BY Zenon DEF Resting, RestingOf, TotalQty, QtyOf

LEMMA TotalsAfter == \A side \in Sides : /\ TotalQty(side) = QtyOf(entry, side)
                                         /\ TotalQty(side)' = QtyOf(entry', side)
<1> SUFFICES ASSUME NEW side \in Sides
             PROVE  TotalQty(side) = QtyOf(entry, side) /\ TotalQty(side)' = QtyOf(entry', side)
  OBVIOUS
<1> QED BY Zenon DEF TotalQty, QtyOf, Resting, RestingOf

\* An order joins.
LEMMA QtyJoins ==
  ASSUME NEW e, e \in [Refs -> Entries \cup {NoOrder}], IsFiniteSet(RestingOf(e)),
         NEW ref \in Refs, e[ref] = NoOrder, NEW o \in Entries,
         NEW n, n = [e EXCEPT ![ref] = o]
  PROVE  /\ RestingOf(n) = RestingOf(e) \cup {ref}
         /\ IsFiniteSet(RestingOf(n))
         /\ Cardinality(RestingOf(n)) = Cardinality(RestingOf(e)) + 1
         /\ More(e, n, o.side, o.qty)
<1>1. o # NoOrder /\ o.qty \in Int
  BY LimitOrderBookAssumption DEF Entries
<1>2. /\ n[ref] = o
      /\ \A r \in Refs \ {ref} : n[r] = e[r]
  OBVIOUS
<1>3. RestingOf(n) = RestingOf(e) \cup {ref} /\ ref \notin RestingOf(e)
  BY <1>1, <1>2 DEF RestingOf
<1>4. /\ IsFiniteSet(RestingOf(n))
      /\ Cardinality(RestingOf(n)) = Cardinality(RestingOf(e)) + 1
  <2>1. PICK R : R = RestingOf(e)
    OBVIOUS
  <2>2. IsFiniteSet(R \cup {ref}) /\ Cardinality(R \cup {ref}) = Cardinality(R) + 1
    BY <1>3, <2>1, FS_AddElement
  <2> QED BY <1>3, <2>1, <2>2
<1>5. ASSUME NEW side \in Sides
      PROVE  /\ QtyOf(e, side) \in Int
             /\ QtyOf(n, side) \in Int
             /\ QtyOf(n, side) = QtyOf(e, side) + (IF side = o.side THEN o.qty ELSE 0)
  <2>1. PICK S : S = {r \in RestingOf(e) : e[r].side = side}
    OBVIOUS
  <2>2. PICK f : f = [r \in RestingOf(e) |-> e[r].qty]
    OBVIOUS
  <2>3. PICK g : g = [r \in RestingOf(n) |-> n[r].qty]
    OBVIOUS
  <2>4. IsFiniteSet(S) /\ ref \notin S
    <3>1. S \in SUBSET RestingOf(e)
      BY <2>1
    <3> QED BY <3>1, <1>3, FS_Subset
  <2>5. \A r \in S : f[r] = g[r] /\ f[r] \in Int
    <3>1. \A r \in RestingOf(e) : e[r] \in Entries
      BY DEF RestingOf
    <3>2. \A r \in RestingOf(e) : f[r] \in Int
      BY <2>2, <3>1 DEF Entries
    <3>3. \A r \in RestingOf(e) : r \in RestingOf(n) /\ n[r] = e[r]
      BY <1>2, <1>3 DEF RestingOf
    <3> QED BY <2>1, <2>2, <2>3, <3>2, <3>3
  <2>6. SumFunctionOnSet(g, S) = SumFunctionOnSet(f, S)
    BY <2>4, <2>5, SumSame
  <2>7. SumFunctionOnSet(f, S) \in Int
    BY <2>4, <2>5, SumSplits
  <2>8. QtyOf(e, side) = SumFunctionOnSet(f, S)
    BY <2>1, <2>2, Zenon DEF QtyOf
  <2>9. CASE o.side = side
    <3>1. {r \in RestingOf(n) : n[r].side = side} = S \cup {ref}
      BY <1>2, <1>3, <2>1, <2>9 DEF RestingOf
    <3>2. QtyOf(n, side) = SumFunctionOnSet(g, S \cup {ref})
      BY <2>3, <3>1, Zenon DEF QtyOf
    <3>3. g[ref] = o.qty
      BY <1>2, <1>3, <2>3
    <3>4. \A r \in S \cup {ref} : g[r] \in Int
      BY <1>1, <2>5, <3>3
    <3>5. SumFunctionOnSet(g, S \cup {ref}) = SumFunctionOnSet(g, S) + g[ref]
      BY <2>4, <3>4, SumGrows
    <3> QED BY ONLY <1>1, <2>6, <2>7, <2>8, <2>9, <3>2, <3>3, <3>5
  <2>10. CASE o.side # side
    <3>1. {r \in RestingOf(n) : n[r].side = side} = S
      BY <1>2, <1>3, <2>1, <2>10 DEF RestingOf
    <3>2. QtyOf(n, side) = SumFunctionOnSet(g, S)
      BY <2>3, <3>1, Zenon DEF QtyOf
    <3> QED BY ONLY <2>6, <2>7, <2>8, <2>10, <3>2
  <2> QED BY <2>9, <2>10
<1>6. More(e, n, o.side, o.qty)
  BY <1>5, Zenon DEF More
<1> QED BY <1>3, <1>4, <1>6

\* An order leaves.
LEMMA QtyLeaves ==
  ASSUME NEW e, e \in [Refs -> Entries \cup {NoOrder}], IsFiniteSet(RestingOf(e)),
         NEW ref \in Refs, e[ref] # NoOrder,
         NEW n, n = [e EXCEPT ![ref] = NoOrder]
  PROVE  /\ RestingOf(n) = RestingOf(e) \ {ref}
         /\ IsFiniteSet(RestingOf(n))
         /\ Cardinality(RestingOf(n)) = Cardinality(RestingOf(e)) - 1
         /\ More(n, e, e[ref].side, e[ref].qty)
<1>1. PICK o : o = e[ref]
  OBVIOUS
<1>2. o \in Entries
  BY <1>1
<1>3. n \in [Refs -> Entries \cup {NoOrder}] /\ n[ref] = NoOrder
  OBVIOUS
<1>4. e = [n EXCEPT ![ref] = o]
  BY <1>1
<1>5. RestingOf(n) = RestingOf(e) \ {ref} /\ ref \in RestingOf(e)
  BY DEF RestingOf
<1>6. /\ IsFiniteSet(RestingOf(n))
      /\ Cardinality(RestingOf(n)) = Cardinality(RestingOf(e)) - 1
  BY <1>5, FS_RemoveElement
<1>7. More(n, e, o.side, o.qty)
  BY <1>2, <1>3, <1>4, <1>6, QtyJoins
<1> QED BY <1>1, <1>5, <1>6, <1>7

\* An order loses shares, or leaves with the last of them.
LEMMA QtyReduced ==
  ASSUME NEW e, e \in [Refs -> Entries \cup {NoOrder}], IsFiniteSet(RestingOf(e)),
         NEW ref \in Refs, e[ref] # NoOrder, NEW shares \in Nat, shares <= e[ref].qty,
         NEW n, n = IF shares < e[ref].qty THEN [e EXCEPT ![ref].qty = @ - shares]
                    ELSE [e EXCEPT ![ref] = NoOrder]
  PROVE  /\ IsFiniteSet(RestingOf(n))
         /\ More(n, e, e[ref].side, shares)
<1>1. e[ref] \in Entries /\ e[ref].qty \in Nat
  BY DEF Entries
<1>2. PICK x : x = [e EXCEPT ![ref] = NoOrder]
  OBVIOUS
<1>3. /\ IsFiniteSet(RestingOf(x))
      /\ More(x, e, e[ref].side, e[ref].qty)
      /\ x \in [Refs -> Entries \cup {NoOrder}] /\ x[ref] = NoOrder
  BY <1>2, QtyLeaves
<1>4. CASE shares < e[ref].qty
  <2>1. PICK o : o = [e[ref] EXCEPT !.qty = @ - shares]
    OBVIOUS
  <2>2. /\ o \in Entries /\ o.side = e[ref].side
        /\ o.qty \in Nat /\ o.qty = e[ref].qty - shares
    BY <1>1, <1>4, <2>1 DEF Entries
  <2>3. n = [x EXCEPT ![ref] = o]
    <3>1. n = [e EXCEPT ![ref].qty = @ - shares]
      BY <1>4, Zenon
    <3>2. [e EXCEPT ![ref].qty = @ - shares] = [x EXCEPT ![ref] = o]
      BY ONLY <1>2, <2>1, e \in [Refs -> Entries \cup {NoOrder}], ref \in Refs
    <3> QED BY ONLY <3>1, <3>2, Zenon
  <2>4. IsFiniteSet(RestingOf(n)) /\ More(x, n, o.side, o.qty)
    BY ONLY ref \in Refs, <1>3, <2>2, <2>3, QtyJoins
  <2>5. ASSUME NEW side \in Sides
        PROVE  /\ QtyOf(n, side) \in Int
               /\ QtyOf(e, side) \in Int
               /\ QtyOf(e, side) = QtyOf(n, side) + (IF side = e[ref].side THEN shares ELSE 0)
    <3>1. /\ QtyOf(x, side) \in Int /\ QtyOf(e, side) \in Int
          /\ QtyOf(e, side) = QtyOf(x, side) + (IF side = e[ref].side THEN e[ref].qty ELSE 0)
      BY <1>3, Zenon DEF More
    <3>2. /\ QtyOf(n, side) \in Int
          /\ QtyOf(n, side) = QtyOf(x, side) + (IF side = o.side THEN o.qty ELSE 0)
      BY <2>4, Zenon DEF More
    <3>3. CASE side = e[ref].side
      BY ONLY shares \in Nat, <1>1, <2>2, <3>1, <3>2, <3>3
    <3>4. CASE side # e[ref].side
      BY ONLY <2>2, <3>1, <3>2, <3>4
    <3> QED BY <3>3, <3>4
  <2> QED BY <2>4, <2>5, Zenon DEF More
<1>5. CASE shares = e[ref].qty
  <2>1. n = x
    BY <1>1, <1>2, <1>5
  <2> QED BY <1>3, <1>5, <2>1
<1> QED BY <1>1, <1>4, <1>5

\* The levels of a side are no more than the orders resting on it.
LEMMA LevelsOfSide ==
  ASSUME BookInv, IsFiniteSet(Resting), NEW side \in Sides,
         NEW S, S = {r \in Resting : entry[r].side = side}
  PROVE  /\ IsFiniteSet(S)
         /\ IsFiniteSet(LevelPrices(side))
         /\ Cardinality(LevelPrices(side)) <= Cardinality(S)
<1>1. IsFiniteSet(S)
  <2>1. S \in SUBSET Resting
    OBVIOUS
  <2> QED BY <2>1, FS_Subset
<1>2. PICK f : f = [r \in S |-> entry[r].price]
  OBVIOUS
<1>3. QueuedExactlyOnce /\ BookTypeOK
  BY BookInvStated
<1>4. ASSUME NEW p \in LevelPrices(side) PROVE \E r \in S : f[r] = p
  <2>1. p \in Prices /\ fifo[side][p] # <<>> /\ fifo[side][p] \in Seq(Refs)
    BY <1>3 DEF LevelPrices, BookTypeOK
  <2>2. fifo[side][p][1] \in Range(fifo[side][p])
    BY <2>1 DEF Range
  <2>3. Range(fifo[side][p]) = {r \in Resting : entry[r].side = side /\ entry[r].price = p}
    BY <1>3, <2>1 DEF QueuedExactlyOnce
  <2> QED BY <1>2, <2>2, <2>3
<1>5. ASSUME NEW r \in S PROVE f[r] \in LevelPrices(side)
  <2>1. r \in Refs /\ entry[r] # NoOrder /\ entry[r].side = side
    BY DEF Resting
  <2>2. entry[r].price \in Prices /\ r \in Range(fifo[side][entry[r].price])
    BY <2>1, RestingIsQueued
  <2>3. fifo[side][entry[r].price] # <<>>
    BY <2>2 DEF Range
  <2> QED BY <1>2, <2>2, <2>3 DEF LevelPrices
<1>6. f \in Surjection(S, LevelPrices(side))
  BY <1>2, <1>4, <1>5 DEF Surjection
<1> QED BY <1>1, <1>6, FS_Surjection

LEMMA LevelsAreOrders ==
  ASSUME BookInv, IsFiniteSet(Resting)
  PROVE  /\ Cardinality(Resting) \in Nat
         /\ LevelCount \in Nat
         /\ LevelCount <= Cardinality(Resting)
<1>1. PICK S : S = {r \in Resting : entry[r].side = "Buy"}
  OBVIOUS
<1>2. PICK T : T = {r \in Resting : entry[r].side = "Sell"}
  OBVIOUS
<1>3. /\ IsFiniteSet(S) /\ IsFiniteSet(LevelPrices("Buy"))
      /\ Cardinality(LevelPrices("Buy")) <= Cardinality(S)
  BY <1>1, LevelsOfSide DEF Sides
<1>4. /\ IsFiniteSet(T) /\ IsFiniteSet(LevelPrices("Sell"))
      /\ Cardinality(LevelPrices("Sell")) <= Cardinality(T)
  BY <1>2, LevelsOfSide DEF Sides
<1>5. \A r \in Resting : entry[r].side \in Sides
  BY RestingIsQueued DEF Resting
<1>6. Resting = S \cup T /\ S \cap T = {}
  BY <1>1, <1>2, <1>5 DEF Sides
<1>7. Cardinality(S \cup T) = Cardinality(S) + Cardinality(T) - Cardinality(S \cap T)
  BY <1>3, <1>4, FS_Union
<1>8. /\ Cardinality(S) \in Nat /\ Cardinality(T) \in Nat
      /\ Cardinality(LevelPrices("Buy")) \in Nat
      /\ Cardinality(LevelPrices("Sell")) \in Nat
  BY <1>3, <1>4, FS_CardinalityType
<1>9. Cardinality(Resting) = Cardinality(S) + Cardinality(T)
  BY <1>6, <1>7, <1>8, FS_EmptySet
<1> QED BY <1>3, <1>4, <1>8, <1>9 DEF LevelCount

------------------------------------------------------------------------------
(* A book that is the market's. *)

MarketsBook(symbol) ==
    /\ FeedInv
    /\ BookInv
    /\ IsFiniteSet(Resting)
    /\ entry = BookOf(market, symbol)

\* It is never crossed, for the market is not.
LEMMA BookNotCrossed ==
  ASSUME NEW symbol, MarketsBook(symbol)
  PROVE  ~Crossed
<1> SUFFICES ASSUME Crossed PROVE FALSE
  OBVIOUS
<1>1. ASSUME NEW side \in Sides, ~EmptySide(side)
      PROVE  /\ BestPrice(side) \in Nat
             /\ \E r \in DOMAIN market : /\ SymbolOf[market[r].locate] = symbol
                                         /\ market[r].side = side
                                         /\ market[r].price = BestPrice(side)
  <2>1. PICK L : L = LevelPrices(side)
    OBVIOUS
  <2>2. L # {} /\ L \subseteq Prices /\ BestPrice(side) = Inside(side, L)
    BY <1>1, <2>1 DEF EmptySide, LevelPrices, BestPrice
  <2>3. Prices \in SUBSET Nat /\ IsFiniteSet(Prices)
    BY LimitOrderBookAssumption
  <2>4. PICK bound \in Nat : \A x \in Prices : x <= bound
    BY <2>3, FiniteIsBounded
  <2>5. L \in SUBSET Nat /\ \A x \in L : x <= bound
    BY <2>2, <2>3, <2>4
  <2>6. Inside(side, L) \in L
    BY <2>2, <2>5, InsideChosen
  <2>7. PICK p \in L : p = BestPrice(side)
    BY <2>2, <2>6
  <2>8. p \in Prices /\ fifo[side][p] # <<>>
    BY <2>1, <2>7 DEF LevelPrices
  <2>9. QueuedExactlyOnce /\ BookTypeOK
    BY BookInvStated DEF MarketsBook
  <2>10. fifo[side][p][1] \in Range(fifo[side][p])
    <3>1. fifo[side][p] \in Seq(Refs)
      BY <2>8, <2>9 DEF BookTypeOK
    <3> QED BY <2>8, <3>1 DEF Range
  <2>11. PICK r \in Resting : entry[r].side = side /\ entry[r].price = p
    <3>1. Range(fifo[side][p]) = {r \in Resting : entry[r].side = side /\ entry[r].price = p}
      BY <2>8, <2>9, Zenon DEF QueuedExactlyOnce
    <3> QED BY <2>10, <3>1
  <2>12. r \in Refs /\ entry[r] # NoOrder
    BY <2>11 DEF Resting
  <2>13. /\ r \in DOMAIN market /\ SymbolOf[market[r].locate] = symbol
         /\ entry[r] = OrderOf(market[r])
    BY <2>12 DEF MarketsBook, BookOf
  <2>14. market[r].side = side /\ market[r].price = p
    BY <2>11, <2>13 DEF OrderOf
  <2> QED BY <2>3, <2>7, <2>8, <2>13, <2>14
<1>2. /\ ~EmptySide("Buy") /\ ~EmptySide("Sell")
      /\ BestPrice("Buy") >= BestPrice("Sell")
  BY DEF Crossed
<1>3. PICK r \in DOMAIN market : /\ SymbolOf[market[r].locate] = symbol
                                 /\ market[r].side = "Buy"
                                 /\ market[r].price = BestPrice("Buy")
  BY <1>1, <1>2 DEF Sides
<1>4. PICK s \in DOMAIN market : /\ SymbolOf[market[s].locate] = symbol
                                 /\ market[s].side = "Sell"
                                 /\ market[s].price = BestPrice("Sell")
  BY <1>1, <1>2 DEF Sides
<1>5. MarketOK(market, announced, issued)
  BY DEF MarketsBook, FeedInv
<1>6. market[r].locate \in Locates /\ market[s].locate \in Locates
  BY <1>5 DEF MarketOK, Listing
<1>7. market[r].locate = market[s].locate
  BY <1>3, <1>4, <1>6, FeedConstants
<1>8. market[r].price < market[s].price
  BY <1>3, <1>4, <1>5, <1>7, Zenon DEF MarketOK
<1>9. BestPrice("Buy") \in Nat /\ BestPrice("Sell") \in Nat
  BY <1>1, <1>2 DEF Sides
<1> QED BY <1>2, <1>3, <1>4, <1>8, <1>9

SoundBook ==
    /\ ~Crossed
    /\ QueuedExactlyOnce
    /\ Cardinality(Resting) \in Nat
    /\ LevelCount \in Nat
    /\ LevelCount <= Cardinality(Resting)

LEMMA MarketsBookSound == \A symbol : MarketsBook(symbol) => SoundBook
<1> SUFFICES ASSUME NEW symbol, MarketsBook(symbol) PROVE SoundBook
  OBVIOUS
<1>1. BookInv /\ IsFiniteSet(Resting)
  BY DEF MarketsBook
<1> QED BY <1>1, BookNotCrossed, BookInvStated, LevelsAreOrders DEF SoundBook

LEMMA MarketsBookStaysSound ==
  ASSUME NEW symbol
  PROVE  MarketsBook(symbol)' => SoundBook'
<1>1. MarketsBook(symbol) => SoundBook
  BY MarketsBookSound
<1> QED BY <1>1, PTL

------------------------------------------------------------------------------
(* Which stock is the wanted one.                                          *)

\* Until it is settled no stock with the wanted symbol has been announced.
Settled(symbol, locate, done, locates) ==
    IF done THEN locate \in locates /\ SymbolOf[locate] = symbol
    ELSE \A l \in locates : symbol # NoSymbol /\ symbol # SymbolOf[l]

\* Messages are told apart by the locate alone, orders by their stock's symbol.
LEMMA OwnLocate ==
  ASSUME FeedInv, NEW symbol, NEW locate, NEW done \in BOOLEAN,
         Settled(symbol, locate, done, announced), NEW l \in announced
  PROVE  (done /\ l = locate) <=> SymbolOf[l] = symbol
<1>1. announced \subseteq Locates
  BY DEF FeedInv, MarketOK
<1> QED BY <1>1, FeedConstants DEF Settled

\* A directory message settles it.
LEMMA SettlesNow ==
  ASSUME FeedInv, NEW symbol, NEW locate,
         Settled(symbol, locate, FALSE, announced), NEW l \in Locates,
         symbol \in {NoSymbol, SymbolOf[l]}
  PROVE  /\ Settled(SymbolOf[l], l, TRUE, announced \cup {l})
         /\ BookOf(market, SymbolOf[l]) = BookOf(market, symbol)
<1>1. \A k \in announced : symbol # NoSymbol /\ symbol # SymbolOf[k]
  BY DEF Settled
<1>2. \A k \in announced : SymbolOf[k] # SymbolOf[l] /\ SymbolOf[k] # symbol
  BY <1>1
<1>3. \A r \in DOMAIN market : market[r].locate \in announced
  BY DEF FeedInv, MarketOK
<1>4. \A r \in DOMAIN market : SymbolOf[market[r].locate] # SymbolOf[l]
                               /\ SymbolOf[market[r].locate] # symbol
  BY <1>2, <1>3
<1>5. BookOf(market, SymbolOf[l]) = BookOf(market, symbol)
  BY <1>4 DEF BookOf
<1> QED BY <1>5 DEF Settled

\* Or another stock's leaves it as it was.
LEMMA SettlesNothing ==
  ASSUME FeedInv, NEW symbol, NEW locate, NEW done \in BOOLEAN,
         Settled(symbol, locate, done, announced), NEW l \in Locates,
         ~ (~done /\ symbol \in {NoSymbol, SymbolOf[l]})
  PROVE  Settled(symbol, locate, done, announced \cup {l})
BY DEF Settled

------------------------------------------------------------------------------
(* itch_replay. *)

Counters ==
    [applied : Nat, full_validations : Nat, crossed_states : Nat, peak_orders : Nat,
     peak_levels : Nat, expected_qty : [Sides -> Int]]

Tally ==
    [messages : Nat, applied : Nat, executed_shares : Nat, trades_ignored : Nat,
     crosses_ignored : Nat, of : [Operations -> Nat]]

\* The observer's counts are those of the book, or bound them.
CountsOK ==
    /\ observer \in Counters
    /\ \A side \in Sides : observer.expected_qty[side] = TotalQty(side)
    /\ Cardinality(Resting) <= observer.peak_orders
    /\ LevelCount <= observer.peak_levels
    /\ observer.peak_levels <= observer.peak_orders

TallyOK ==
    /\ sent \in Nat
    /\ stats \in Tally
    /\ stats.messages = sent
    /\ stats.applied = observer.applied
    /\ stats.applied = SumFunctionOnSet(stats.of, Operations)

ReplayInv ==
    /\ MarketsBook(builder.symbol)
    /\ builder.resolved \in BOOLEAN
    /\ Settled(builder.symbol, builder.locate, builder.resolved, announced)
    /\ aborted = FALSE
    /\ CountsOK
    /\ TallyOK

\* After a message was applied to a book that still is the market's, no check
\* of it fails.
LEMMA AppliedSoundly ==
  ASSUME NEW symbol, MarketsBook(symbol)', NEW c \in Counters, AfterApply(c),
         \A side \in Sides : c.expected_qty[side] = TotalQty(side)',
         c.peak_levels <= c.peak_orders
  PROVE  /\ aborted' = FALSE
         /\ CountsOK'
         /\ observer'.applied = c.applied + 1
<1>1. SoundBook'
  BY MarketsBookStaysSound
<1>2. ~Crossed' /\ QueuedExactlyOnce'
  BY <1>1 DEF SoundBook
<1>3. /\ Cardinality(Resting') \in Nat
      /\ LevelCount' \in Nat
      /\ LevelCount' <= Cardinality(Resting')
  BY <1>1 DEF SoundBook
<1>4. aborted' = FALSE
  BY <1>2 DEF AfterApply
<1>5. PICK orders \in Nat : orders = Cardinality(Resting')
  BY <1>3
<1>6. PICK levels \in Nat : levels = LevelCount'
  BY <1>3
<1>7. PICK crossed, validations :
         /\ observer' = [c EXCEPT
                           !.applied = c.applied + 1,
                           !.crossed_states = crossed,
                           !.peak_orders = Larger(c.peak_orders, orders),
                           !.peak_levels = Larger(c.peak_levels, levels),
                           !.full_validations = validations]
         /\ crossed = c.crossed_states
         /\ validations \in {c.full_validations, c.full_validations + 1}
  <2>1. PICK validations :
           validations = IF ValidateEvery # 0 /\ (c.applied + 1) % ValidateEvery = 0
                         THEN c.full_validations + 1 ELSE c.full_validations
    OBVIOUS
  <2>2. observer' = [c EXCEPT
                       !.applied = c.applied + 1,
                       !.crossed_states = IF Crossed' THEN c.crossed_states + 1
                                          ELSE c.crossed_states,
                       !.peak_orders = Larger(c.peak_orders, Cardinality(Resting')),
                       !.peak_levels = Larger(c.peak_levels, LevelCount'),
                       !.full_validations = validations]
    BY <2>1, Zenon DEF AfterApply
  <2>3. (IF Crossed' THEN c.crossed_states + 1 ELSE c.crossed_states) = c.crossed_states
    BY <1>2
  <2>4. validations \in {c.full_validations, c.full_validations + 1}
    BY <2>1
  <2> QED BY ONLY <1>5, <1>6, <2>2, <2>3, <2>4, Zenon
<1>8. /\ c.applied \in Nat /\ c.peak_orders \in Nat /\ c.peak_levels \in Nat
      /\ c.full_validations \in Nat /\ c.crossed_states \in Nat
  BY DEF Counters
<1>9. /\ Larger(c.peak_orders, orders) \in Nat /\ Larger(c.peak_levels, levels) \in Nat
      /\ orders <= Larger(c.peak_orders, orders)
      /\ levels <= Larger(c.peak_levels, levels)
      /\ Larger(c.peak_levels, levels) <= Larger(c.peak_orders, orders)
  BY <1>3, <1>5, <1>6, <1>8 DEF Larger
<1>10. /\ observer'.applied = c.applied + 1
       /\ observer'.peak_orders = Larger(c.peak_orders, orders)
       /\ observer'.peak_levels = Larger(c.peak_levels, levels)
       /\ observer'.expected_qty = c.expected_qty
  BY <1>7 DEF Counters
<1>11. observer' \in Counters
  <2>1. PICK a : a = [c EXCEPT !.applied = c.applied + 1]
    OBVIOUS
  <2>2. PICK b : b = [a EXCEPT !.crossed_states = crossed]
    OBVIOUS
  <2>3. PICK d : d = [b EXCEPT !.peak_orders = Larger(c.peak_orders, orders)]
    OBVIOUS
  <2>4. PICK e : e = [d EXCEPT !.peak_levels = Larger(c.peak_levels, levels)]
    OBVIOUS
  <2>5. a \in Counters
    BY <1>8, <2>1 DEF Counters
  <2>6. b \in Counters
    BY <1>7, <1>8, <2>2, <2>5 DEF Counters
  <2>7. d \in Counters
    BY <1>9, <2>3, <2>6 DEF Counters
  <2>8. e \in Counters
    BY <1>9, <2>4, <2>7 DEF Counters
  <2>9. observer' = [e EXCEPT !.full_validations = validations]
    BY ONLY <1>7, <2>1, <2>2, <2>3, <2>4
  <2>10. validations \in Nat
    BY <1>7, <1>8
  <2> QED BY <2>8, <2>9, <2>10 DEF Counters
<1>12. CountsOK'
  BY <1>5, <1>6, <1>9, <1>10, <1>11 DEF CountsOK
<1> QED BY <1>4, <1>10, <1>12

\* What the observer hears of an order before the book does.
LEMMA CountedUp ==
  ASSUME NEW c \in Counters, NEW s \in Sides, NEW shares \in Int
  PROVE  /\ BeforeAdd(c, s, shares) \in Counters
         /\ BeforeAdd(c, s, shares).applied = c.applied
         /\ BeforeAdd(c, s, shares).peak_orders = c.peak_orders
         /\ BeforeAdd(c, s, shares).peak_levels = c.peak_levels
         /\ \A side \in Sides : BeforeAdd(c, s, shares).expected_qty[side]
               = c.expected_qty[side] + (IF side = s THEN shares ELSE 0)
<1>1. PICK q : q = [c.expected_qty EXCEPT ![s] = @ + shares]
  OBVIOUS
<1>2. c.expected_qty \in [Sides -> Int]
  BY DEF Counters
<1>3. /\ q \in [Sides -> Int]
      /\ \A side \in Sides : q[side] = c.expected_qty[side] + (IF side = s THEN shares ELSE 0)
  BY <1>1, <1>2
<1>4. BeforeAdd(c, s, shares) = [c EXCEPT !.expected_qty = q]
  BY <1>1 DEF BeforeAdd
<1> QED BY <1>3, <1>4 DEF Counters

LEMMA CountedDown ==
  ASSUME NEW c \in Counters, NEW s \in Sides, NEW shares \in Int
  PROVE  /\ NoteReduction(c, s, shares) \in Counters
         /\ NoteReduction(c, s, shares).applied = c.applied
         /\ NoteReduction(c, s, shares).peak_orders = c.peak_orders
         /\ NoteReduction(c, s, shares).peak_levels = c.peak_levels
         /\ \A side \in Sides : NoteReduction(c, s, shares).expected_qty[side]
               = c.expected_qty[side] - (IF side = s THEN shares ELSE 0)
<1>1. PICK q : q = [c.expected_qty EXCEPT ![s] = @ - shares]
  OBVIOUS
<1>2. c.expected_qty \in [Sides -> Int]
  BY DEF Counters
<1>3. /\ q \in [Sides -> Int]
      /\ \A side \in Sides : q[side] = c.expected_qty[side] - (IF side = s THEN shares ELSE 0)
  BY <1>1, <1>2
<1>4. NoteReduction(c, s, shares) = [c EXCEPT !.expected_qty = q]
  BY <1>1 DEF NoteReduction
<1> QED BY <1>3, <1>4 DEF Counters

\* No side holds less than an order resting there.
LEMMA SideHoldsOrder ==
  ASSUME BookInv, IsFiniteSet(Resting), NEW ref \in Refs, entry[ref] # NoOrder
  PROVE  TotalQty(entry[ref].side) >= entry[ref].qty
<1>1. PICK S : S = {r \in Resting : entry[r].side = entry[ref].side}
  OBVIOUS
<1>2. PICK f : f = [r \in Resting |-> entry[r].qty]
  OBVIOUS
<1>3. S \in SUBSET Resting /\ ref \in S
  BY <1>1 DEF Resting
<1>4. IsFiniteSet(S)
  BY <1>3, FS_Subset
<1>5. \A r \in Resting : entry[r].qty \in Nat
  BY RestingIsQueued DEF Resting
<1>6. \A r \in S : f[r] \in Nat /\ f[r] \in Int
  BY <1>2, <1>3, <1>5
<1>7. SumFunctionOnSet(f, S) = f[ref] + SumFunctionOnSet(f, S \ {ref})
  BY <1>3, <1>4, <1>6, SumSplits
<1>8. SumFunctionOnSet(f, S \ {ref}) \in Nat
  <2>1. IsFiniteSet(S \ {ref}) /\ \A r \in S \ {ref} : f[r] \in Nat
    BY <1>4, <1>6, FS_RemoveElement
  <2> QED BY <2>1, SumOfNaturals
<1>9. f[ref] = entry[ref].qty /\ f[ref] \in Nat
  BY <1>2, <1>3, <1>6
<1>10. TotalQty(entry[ref].side) = SumFunctionOnSet(f, S)
  BY <1>1, <1>2, Zenon DEF TotalQty
<1> QED BY <1>7, <1>8, <1>9, <1>10

------------------------------------------------------------------------------
(* The builder's statistics. *)

LEMMA OperationsFinite == IsFiniteSet(Operations)
<1>1. Operations = (((({} \cup {"adds"}) \cup {"executions"}) \cup {"cancels"})
                      \cup {"deletes"}) \cup {"replaces"}
  BY DEF Operations
<1> QED BY <1>1, FS_EmptySet, FS_AddElement

LEMMA TallyGrows ==
  ASSUME TallyOK, sent' = sent + 1, observer'.applied = observer.applied + 1,
         NEW op \in Operations, NEW shares \in Nat,
         stats' = [stats EXCEPT !.messages = @ + 1, !.applied = @ + 1, !.of[op] = @ + 1,
                                !.executed_shares = shares]
  PROVE  TallyOK'
<1>1. /\ stats \in Tally /\ stats.messages = sent /\ stats.applied = observer.applied
      /\ sent \in Nat
      /\ stats.applied = SumFunctionOnSet(stats.of, Operations)
  BY DEF TallyOK
<1>2. PICK of : of = [stats.of EXCEPT ![op] = @ + 1]
  OBVIOUS
<1>3. stats.of \in [Operations -> Nat] /\ stats.messages \in Nat /\ stats.applied \in Nat
  BY <1>1 DEF Tally
<1>4. of \in [Operations -> Nat]
  BY <1>2, <1>3
<1>5. stats' = [[[[stats EXCEPT !.messages = @ + 1] EXCEPT !.applied = @ + 1]
                    EXCEPT !.of = of] EXCEPT !.executed_shares = shares]
  BY <1>2
<1>6. PICK a : a = [stats EXCEPT !.messages = @ + 1]
  OBVIOUS
<1>7. a \in Tally /\ a.messages = stats.messages + 1 /\ a.applied = stats.applied
  BY <1>1, <1>3, <1>6 DEF Tally
<1>8. PICK b : b = [a EXCEPT !.applied = @ + 1]
  OBVIOUS
<1>9. b \in Tally /\ b.messages = stats.messages + 1 /\ b.applied = stats.applied + 1
  BY <1>3, <1>7, <1>8 DEF Tally
<1>10. PICK d : d = [b EXCEPT !.of = of]
  OBVIOUS
<1>11. d \in Tally /\ d.messages = stats.messages + 1 /\ d.applied = stats.applied + 1 /\ d.of = of
  BY <1>4, <1>9, <1>10 DEF Tally
<1>12. stats' = [d EXCEPT !.executed_shares = shares]
  BY ONLY <1>5, <1>6, <1>8, <1>10
<1>13. /\ stats' \in Tally /\ stats'.messages = stats.messages + 1
       /\ stats'.applied = stats.applied + 1 /\ stats'.of = of
  BY <1>11, <1>12 DEF Tally
<1>14. SumFunctionOnSet(of, Operations) = SumFunctionOnSet(stats.of, Operations) + 1
  <2>1. SumFunctionOnSet(of, Operations)
           = SumFunctionOnSet(stats.of, Operations) - stats.of[op] + of[op]
    BY <1>2, <1>3, <1>4, OperationsFinite, SumChanges
  <2>2. of[op] = stats.of[op] + 1 /\ stats.of[op] \in Nat
    BY <1>2, <1>3
  <2> QED BY <1>1, <1>3, <2>1, <2>2
<1> QED BY <1>1, <1>13, <1>14 DEF TallyOK

\* A message that is left alone only counts as seen.
LEMMA TallySees ==
  ASSUME TallyOK, sent' = sent + 1, observer' = observer,
         NEW t \in Nat, NEW x \in Nat,
         stats' = [stats EXCEPT !.messages = @ + 1, !.trades_ignored = t, !.crosses_ignored = x]
  PROVE  TallyOK'
<1>1. /\ stats \in Tally /\ stats.messages = sent /\ stats.applied = observer.applied
      /\ sent \in Nat
      /\ stats.applied = SumFunctionOnSet(stats.of, Operations)
  BY DEF TallyOK
<1>2. PICK a : a = [stats EXCEPT !.messages = @ + 1]
  OBVIOUS
<1>3. a \in Tally /\ a.messages = sent + 1 /\ a.applied = stats.applied /\ a.of = stats.of
  BY <1>1, <1>2 DEF Tally
<1>4. PICK b : b = [a EXCEPT !.trades_ignored = t]
  OBVIOUS
<1>5. b \in Tally /\ b.messages = sent + 1 /\ b.applied = stats.applied /\ b.of = stats.of
  BY <1>3, <1>4 DEF Tally
<1>6. stats' = [b EXCEPT !.crosses_ignored = x]
  BY ONLY <1>2, <1>4, stats' = [stats EXCEPT !.messages = @ + 1, !.trades_ignored = t, !.crosses_ignored = x]
<1>7. /\ stats' \in Tally /\ stats'.messages = sent + 1
      /\ stats'.applied = stats.applied /\ stats'.of = stats.of
  BY <1>5, <1>6 DEF Tally
<1> QED BY <1>1, <1>7 DEF TallyOK

------------------------------------------------------------------------------
(* Each message, handled. *)

LEMMA HandlesDirectory ==
  ASSUME NEW m, m.kind = "R", Handle(m)
  PROVE  OnStockDirectory(m)
BY DEF Handle, OnBookMessage

LEMMA HandlesReport ==
  ASSUME NEW m, m.kind \in {"P", "Q", "B"}, Handle(m)
  PROVE  OnReport(m)
BY DEF Handle, OnBookMessage

LEMMA HandlesBookMessage ==
  ASSUME NEW m, m.kind \in {"A", "F", "E", "C", "X", "D", "U"}, Handle(m)
  PROVE  /\ builder' = builder
         /\ ~Mine(m.locate) => Seen /\ BookUnchanged
         /\ Mine(m.locate) /\ m.kind \in {"A", "F"} => OnAdd(m)
         /\ Mine(m.locate) /\ m.kind \in {"E", "C"} => OnExecuted(m)
         /\ Mine(m.locate) /\ m.kind = "X" => OnCancel(m)
         /\ Mine(m.locate) /\ m.kind = "D" => OnDelete(m)
         /\ Mine(m.locate) /\ m.kind = "U" => OnReplace(m)
<1>1. OnBookMessage(m)
  BY DEF Handle
<1>2. m.kind \notin {"R", "P", "Q", "B"}
  OBVIOUS
<1>3. builder' = builder
  BY <1>1 DEF OnBookMessage
<1>4. ~Mine(m.locate) => Seen /\ BookUnchanged
  BY <1>1 DEF OnBookMessage
<1>5. Mine(m.locate) =>
         \/ m.kind \in {"A", "F"} /\ OnAdd(m)
         \/ m.kind \in {"E", "C"} /\ OnExecuted(m)
         \/ m.kind = "X" /\ OnCancel(m)
         \/ m.kind = "D" /\ OnDelete(m)
         \/ m.kind = "U" /\ OnReplace(m)
  BY <1>1 DEF OnBookMessage
<1> QED BY <1>3, <1>4, <1>5

\* The book keeps what it promises, whatever else a step does.
Kept == ReplayInv' /\ (KeepsQueues \/ UNCHANGED bookVars)

LEMMA SeenOnly ==
  ASSUME ReplayInv, FeedInv', announced' = announced, sent' = sent + 1,
         BookOf(market', builder.symbol) = BookOf(market, builder.symbol),
         builder' = builder, Seen, BookUnchanged
  PROVE  Kept
<1>1. /\ entry' = entry /\ fifo' = fifo /\ observer' = observer /\ aborted' = aborted
      /\ stats' = [stats EXCEPT !.messages = @ + 1]
  BY DEF Seen, BookUnchanged
<1>2. stats \in Tally /\ stats.trades_ignored \in Nat /\ stats.crosses_ignored \in Nat
  BY DEF ReplayInv, TallyOK, Tally
<1>3. stats' = [stats EXCEPT !.messages = @ + 1, !.trades_ignored = stats.trades_ignored,
                             !.crosses_ignored = stats.crosses_ignored]
  BY <1>1, <1>2 DEF Tally
<1>4. TallyOK'
  BY <1>1, <1>2, <1>3, TallySees DEF ReplayInv
<1>5. MarketsBook(builder.symbol)'
  BY <1>1 DEF ReplayInv, MarketsBook, BookInv, BookOK, Resting
<1>6. CountsOK'
  BY <1>1 DEF ReplayInv, CountsOK, Resting, TotalQty, LevelCount, LevelPrices
<1> QED BY <1>1, <1>4, <1>5, <1>6 DEF ReplayInv, Kept, bookVars

LEMMA AppliedKeeps ==
  ASSUME ReplayInv, FeedInv', announced' = announced, sent' = sent + 1, builder' = builder,
         BookInv', IsFiniteSet(Resting)', entry' = BookOf(market', builder.symbol),
         NEW c \in Counters, AfterApply(c),
         c.applied = observer.applied,
         c.peak_orders = observer.peak_orders, c.peak_levels = observer.peak_levels,
         \A side \in Sides : c.expected_qty[side] = TotalQty(side)',
         NEW op \in Operations, NEW shares \in Nat,
         stats' = [stats EXCEPT !.messages = @ + 1, !.applied = @ + 1, !.of[op] = @ + 1,
                                !.executed_shares = shares]
  PROVE  ReplayInv'
<1>1. PICK symbol : symbol = builder.symbol
  OBVIOUS
<1>2. MarketsBook(symbol)'
  BY <1>1 DEF MarketsBook
<1>3. c.peak_levels <= c.peak_orders
  BY DEF ReplayInv, CountsOK
<1>4. aborted' = FALSE /\ CountsOK' /\ observer'.applied = c.applied + 1
  BY <1>2, <1>3, AppliedSoundly
<1>5. observer'.applied = observer.applied + 1
  BY <1>4
<1>6. TallyOK'
  BY <1>5, TallyGrows DEF ReplayInv
<1>7. MarketsBook(builder.symbol)'
  BY <1>1, <1>2 DEF MarketsBook
<1> QED BY <1>4, <1>6, <1>7 DEF ReplayInv

\* Statistics of a message whose shares are not summed.
LEMMA CountedStats ==
  ASSUME TallyOK, NEW op \in Operations, Counted(op)
  PROVE  /\ stats.executed_shares \in Nat
         /\ stats' = [stats EXCEPT !.messages = @ + 1, !.applied = @ + 1, !.of[op] = @ + 1,
                                   !.executed_shares = stats.executed_shares]
<1>1. stats \in Tally
  BY DEF TallyOK
<1> QED BY <1>1 DEF Tally, Counted

LEMMA MineIsWanted ==
  ASSUME ReplayInv, NEW l \in announced
  PROVE  Mine(l) <=> SymbolOf[l] = builder.symbol
BY OwnLocate DEF ReplayInv, MarketsBook, Mine

LEMMA AddHandled ==
  ASSUME ReplayInv, sent' = sent + 1, NEW m \in Feed!Adds, AddOrder(m)
  PROVE  Kept
<1>1. PICK o : o = [locate |-> m.locate, side |-> m.side, price |-> m.price, qty |-> m.shares]
  OBVIOUS
<1>2. PICK symbol : symbol = builder.symbol
  OBVIOUS
<1>3. Feed!SendAdd(m) /\ Handle(m) /\ sent' = sent + 1
  BY DEF AddOrder
<1>4. FeedInv /\ BookInv /\ IsFiniteSet(Resting) /\ entry = BookOf(market, symbol)
  BY <1>2 DEF ReplayInv, MarketsBook
<1>5. /\ FeedInv'
      /\ o \in Listing /\ m.ref \in Refs /\ m.locate \in announced
      /\ announced' = announced
      /\ entry[m.ref] = NoOrder
      /\ BookOf(market', symbol) =
            IF SymbolOf[m.locate] = symbol
            THEN [entry EXCEPT ![m.ref] = OrderOf(o)] ELSE entry
  BY <1>1, <1>3, <1>4, SentAdd
<1>6. m.kind \in {"A", "F"}
  BY DEF Feed!Adds
<1>7. builder' = builder
  BY <1>3, <1>6, HandlesBookMessage
<1>8. Mine(m.locate) <=> SymbolOf[m.locate] = symbol
  BY <1>2, <1>5, MineIsWanted
<1>9. CASE ~Mine(m.locate)
  <2>1. Seen /\ BookUnchanged
    BY <1>3, <1>6, <1>9, HandlesBookMessage
  <2>2. BookOf(market', builder.symbol) = BookOf(market, builder.symbol)
    BY <1>2, <1>4, <1>5, <1>8, <1>9
  <2> QED BY <1>3, <1>5, <1>7, <2>1, <2>2, SeenOnly
<1>10. CASE Mine(m.locate)
  <2>1. OnAdd(m)
    BY <1>3, <1>6, <1>10, HandlesBookMessage
  <2>2. /\ m.side \in Sides /\ m.price \in FeedPrices /\ m.shares \in Nat \ {0}
        /\ o.side = m.side /\ o.price = m.price /\ o.qty = m.shares
    BY <1>1, <1>5 DEF Listing
  <2>3. m.price \in Prices /\ 0 \in Owners
    BY <2>2, FeedConstants
  <2>4. /\ Add(m.ref, m.side, m.price, m.shares, 0)
        /\ AfterApply(BeforeAdd(observer, m.side, m.shares))
        /\ Counted("adds")
    BY <1>5, <2>1, <2>2 DEF OnAdd
  <2>5. BookInv' /\ KeepsQueues
    BY <1>4, <1>5, <2>2, <2>3, <2>4, AddKeeps
  <2>6. OrderOf(o) \in Entries /\ OrderOf(o).side = m.side /\ OrderOf(o).qty = m.shares
    BY <2>2, <2>3 DEF OrderOf, Entries
  <2>7. entry' = [entry EXCEPT ![m.ref] = OrderOf(o)]
    BY <2>2, <2>4 DEF Add, OrderOf
  <2>8. entry' = BookOf(market', builder.symbol)
    BY <1>2, <1>5, <1>8, <1>10, <2>7
  <2>9. entry \in [Refs -> Entries \cup {NoOrder}]
    BY <1>4 DEF BookInv, BookOK
  <2>10. IsFiniteSet(RestingOf(entry)) /\ Resting' = RestingOf(entry')
    BY <1>4 DEF Resting, RestingOf
  <2>11. IsFiniteSet(RestingOf(entry')) /\ More(entry, entry', m.side, m.shares)
    BY <1>5, <2>6, <2>7, <2>9, <2>10, QtyJoins
  <2>12. PICK c : c = BeforeAdd(observer, m.side, m.shares)
    OBVIOUS
  <2>13. observer \in Counters /\ \A side \in Sides : observer.expected_qty[side] = TotalQty(side)
    BY DEF ReplayInv, CountsOK
  <2>14. /\ c \in Counters /\ c.applied = observer.applied
         /\ c.peak_orders = observer.peak_orders /\ c.peak_levels = observer.peak_levels
         /\ \A side \in Sides : c.expected_qty[side]
               = observer.expected_qty[side] + (IF side = m.side THEN m.shares ELSE 0)
    <3>1. PICK s \in Sides : s = m.side
      BY <2>2
    <3>2. PICK given \in Int : given = m.shares
      BY <2>2
    <3>3. c = BeforeAdd(observer, s, given)
      BY ONLY <2>12, <3>1, <3>2
    <3> QED BY ONLY <2>13, <3>1, <3>2, <3>3, CountedUp
  <2>15. ASSUME NEW side \in Sides PROVE c.expected_qty[side] = TotalQty(side)'
    <3>1. /\ QtyOf(entry, side) \in Int
          /\ QtyOf(entry', side) = QtyOf(entry, side) + (IF side = m.side THEN m.shares ELSE 0)
      BY <2>11, Zenon DEF More
    <3>2. TotalQty(side) = QtyOf(entry, side) /\ TotalQty(side)' = QtyOf(entry', side)
      BY TotalsAfter
    <3> QED BY ONLY <2>13, <2>14, <3>1, <3>2, side \in Sides
  <2>16. TallyOK /\ "adds" \in Operations
    BY DEF ReplayInv, Operations
  <2>17. PICK shares \in Nat : stats' = [stats EXCEPT !.messages = @ + 1, !.applied = @ + 1,
                                             !.of["adds"] = @ + 1, !.executed_shares = shares]
    BY <2>4, <2>16, CountedStats
  <2>18. ReplayInv'
    BY <1>3, <1>5, <1>7, <2>4, <2>5, <2>8, <2>10, <2>11, <2>12, <2>14, <2>15, <2>16, <2>17, AppliedKeeps
  <2> QED BY <2>5, <2>18 DEF Kept
<1> QED BY <1>9, <1>10

\* An execution or a cancellation of an order in the book.
LEMMA ReductionApplied ==
  ASSUME ReplayInv, FeedInv', announced' = announced, sent' = sent + 1, builder' = builder,
         NEW m, NEW ref \in Refs, m.ref = ref, entry[ref] # NoOrder,
         NEW taken \in Nat, m.shares = taken, taken <= entry[ref].qty,
         BookOf(market', builder.symbol) =
            IF taken < entry[ref].qty THEN [entry EXCEPT ![ref].qty = @ - taken]
            ELSE [entry EXCEPT ![ref] = NoOrder],
         ReduceObserved(m),
         NEW op \in Operations, NEW shares \in Nat,
         stats' = [stats EXCEPT !.messages = @ + 1, !.applied = @ + 1, !.of[op] = @ + 1,
                                !.executed_shares = shares]
  PROVE  Kept
<1>1. BookInv /\ IsFiniteSet(Resting)
  BY DEF ReplayInv, MarketsBook
<1>2. PICK s : s = entry[ref].side
  OBVIOUS
<1>3. /\ Reduce(ref, taken)
      /\ AfterApply(NoteReduction(observer, s, taken))
  BY <1>2 DEF ReduceObserved
<1>4. BookInv' /\ KeepsQueues
  BY <1>1, <1>3, ReduceKeeps
<1>5. entry \in [Refs -> Entries \cup {NoOrder}] /\ s \in Sides
  BY <1>1, <1>2, RestingIsQueued DEF BookInv, BookOK
<1>6. IsFiniteSet(RestingOf(entry)) /\ Resting' = RestingOf(entry')
  BY <1>1 DEF Resting, RestingOf
<1>7. entry' = IF taken < entry[ref].qty THEN [entry EXCEPT ![ref].qty = @ - taken]
               ELSE [entry EXCEPT ![ref] = NoOrder]
  BY <1>3 DEF Reduce
<1>8. IsFiniteSet(RestingOf(entry')) /\ More(entry', entry, s, taken)
  BY <1>2, <1>5, <1>6, <1>7, QtyReduced
<1>9. PICK c : c = NoteReduction(observer, s, taken)
  OBVIOUS
<1>10. observer \in Counters /\ \A side \in Sides : observer.expected_qty[side] = TotalQty(side)
  BY DEF ReplayInv, CountsOK
<1>11. taken \in Int
  OBVIOUS
<1>12. /\ c \in Counters /\ c.applied = observer.applied
       /\ c.peak_orders = observer.peak_orders /\ c.peak_levels = observer.peak_levels
       /\ \A side \in Sides : c.expected_qty[side]
             = observer.expected_qty[side] - (IF side = s THEN taken ELSE 0)
  BY <1>5, <1>9, <1>10, <1>11, CountedDown
<1>13. ASSUME NEW side \in Sides PROVE c.expected_qty[side] = TotalQty(side)'
  <2>1. /\ QtyOf(entry', side) \in Int
        /\ QtyOf(entry, side) = QtyOf(entry', side) + (IF side = s THEN taken ELSE 0)
    BY <1>8, Zenon DEF More
  <2>2. TotalQty(side) = QtyOf(entry, side) /\ TotalQty(side)' = QtyOf(entry', side)
    BY TotalsAfter
  <2> QED BY ONLY <1>10, <1>11, <1>12, <2>1, <2>2, side \in Sides
<1>14. ReplayInv'
  BY <1>3, <1>4, <1>6, <1>7, <1>8, <1>9, <1>12, <1>13, AppliedKeeps
<1> QED BY <1>4, <1>14 DEF Kept

LEMMA ReductionHandled ==
  ASSUME ReplayInv, sent' = sent + 1, NEW m \in Feed!Reductions, Reduction(m)
  PROVE  Kept
<1>1. PICK symbol : symbol = builder.symbol
  OBVIOUS
<1>2. Feed!SendReduction(m) /\ Handle(m) /\ sent' = sent + 1
  BY DEF Reduction
<1>3. FeedInv /\ BookInv /\ IsFiniteSet(Resting) /\ entry = BookOf(market, symbol)
  BY <1>1 DEF ReplayInv, MarketsBook
<1>4. /\ FeedInv' /\ Feed!Rests(m) /\ announced' = announced
      /\ m.shares \in Nat \ {0} /\ m.shares <= market[m.ref].qty
      /\ BookOf(market', symbol) =
            IF SymbolOf[m.locate] = symbol
            THEN IF m.shares < market[m.ref].qty
                 THEN [entry EXCEPT ![m.ref].qty = @ - m.shares]
                 ELSE [entry EXCEPT ![m.ref] = NoOrder]
            ELSE entry
  BY <1>2, <1>3, SentReduction
<1>5. /\ m.ref \in Refs /\ market[m.ref] \in Listing /\ m.locate \in announced
      /\ entry[m.ref] = IF SymbolOf[m.locate] = symbol THEN OrderOf(market[m.ref]) ELSE NoOrder
  BY <1>3, <1>4, NamesOrder
<1>6. m.kind \in {"E", "C", "X"}
  BY DEF Feed!Reductions
<1>7. builder' = builder
  BY <1>2, <1>6, HandlesBookMessage
<1>8. Mine(m.locate) <=> SymbolOf[m.locate] = symbol
  BY <1>1, <1>5, MineIsWanted
<1>9. CASE ~Mine(m.locate)
  <2>1. Seen /\ BookUnchanged
    BY <1>2, <1>6, <1>9, HandlesBookMessage
  <2>2. BookOf(market', builder.symbol) = BookOf(market, builder.symbol)
    BY <1>1, <1>3, <1>4, <1>8, <1>9
  <2> QED BY <1>2, <1>4, <1>7, <2>1, <2>2, SeenOnly
<1>10. CASE Mine(m.locate)
  <2>1. OnExecuted(m) \/ OnCancel(m)
    BY <1>2, <1>6, <1>10, HandlesBookMessage
  <2>2. entry[m.ref] \in Entries /\ entry[m.ref].qty = market[m.ref].qty
    BY <1>5, <1>8, <1>10, ListedOrder
  <2>3. entry[m.ref] # NoOrder
    BY <2>2, LimitOrderBookAssumption DEF Entries
  <2>4. Reducible(m)
    <3>1. TotalQty(entry[m.ref].side) >= entry[m.ref].qty
      BY <1>3, <1>5, <2>3, SideHoldsOrder
    <3>2. observer.expected_qty[entry[m.ref].side] = TotalQty(entry[m.ref].side)
      BY <2>2 DEF ReplayInv, CountsOK, Entries
    <3>3. entry[m.ref].qty \in Nat /\ observer.expected_qty[entry[m.ref].side] \in Int
      BY <2>2 DEF ReplayInv, CountsOK, Counters, Entries
    <3> QED BY <1>4, <2>2, <2>3, <3>1, <3>2, <3>3 DEF Reducible
  <2>5. TallyOK
    BY DEF ReplayInv
  <2>6. \E op \in Operations, shares \in Nat :
           /\ ReduceObserved(m)
           /\ stats' = [stats EXCEPT !.messages = @ + 1, !.applied = @ + 1, !.of[op] = @ + 1,
                                     !.executed_shares = shares]
    <3>1. CASE OnExecuted(m)
      <4>1. stats \in Tally /\ stats.executed_shares + m.shares \in Nat
        BY <1>4, <2>5 DEF TallyOK, Tally
      <4>2. /\ ReduceObserved(m)
            /\ stats' = [stats EXCEPT !.messages = @ + 1, !.applied = @ + 1,
                                      !.of["executions"] = @ + 1,
                                      !.executed_shares = stats.executed_shares + m.shares]
        BY <2>4, <3>1 DEF OnExecuted
      <4>3. "executions" \in Operations
        BY DEF Operations
      <4> QED BY <4>1, <4>2, <4>3
    <3>2. CASE OnCancel(m)
      <4>1. ReduceObserved(m) /\ Counted("cancels")
        BY <2>4, <3>2 DEF OnCancel
      <4>2. "cancels" \in Operations
        BY DEF Operations
      <4> QED BY <2>5, <4>1, <4>2, CountedStats
    <3> QED BY <2>1, <3>1, <3>2
  <2>7. PICK op \in Operations, shares \in Nat :
           /\ ReduceObserved(m)
           /\ stats' = [stats EXCEPT !.messages = @ + 1, !.applied = @ + 1, !.of[op] = @ + 1,
                                     !.executed_shares = shares]
    BY <2>6
  <2>8. BookOf(market', builder.symbol) =
            IF m.shares < entry[m.ref].qty THEN [entry EXCEPT ![m.ref].qty = @ - m.shares]
            ELSE [entry EXCEPT ![m.ref] = NoOrder]
    BY <1>1, <1>4, <1>8, <1>10, <2>2
  <2>9. PICK ref \in Refs : ref = m.ref
    BY <1>5
  <2>10. PICK taken \in Nat : taken = m.shares
    BY <1>4
  <2> QED BY <1>2, <1>4, <1>7, <2>2, <2>3, <2>7, <2>8, <2>9, <2>10, ReductionApplied
<1> QED BY <1>9, <1>10

LEMMA DeleteApplied ==
  ASSUME ReplayInv, FeedInv', announced' = announced, sent' = sent + 1, builder' = builder,
         NEW m, NEW ref \in Refs, m.ref = ref, entry[ref] # NoOrder,
         BookOf(market', builder.symbol) = [entry EXCEPT ![ref] = NoOrder],
         OnDelete(m)
  PROVE  Kept
<1>1. BookInv /\ IsFiniteSet(Resting)
  BY DEF ReplayInv, MarketsBook
<1>2. PICK s : s = entry[ref].side
  OBVIOUS
<1>3. PICK taken : taken = entry[ref].qty
  OBVIOUS
<1>4. /\ Remove(ref)
      /\ AfterApply(NoteReduction(observer, s, taken))
      /\ Counted("deletes")
  BY <1>2, <1>3 DEF OnDelete
<1>5. BookInv' /\ KeepsQueues
  BY <1>1, <1>4, RemoveKeeps
<1>6. /\ entry \in [Refs -> Entries \cup {NoOrder}] /\ s \in Sides /\ taken \in Int
  BY <1>1, <1>2, <1>3, RestingIsQueued DEF BookInv, BookOK
<1>7. IsFiniteSet(RestingOf(entry)) /\ Resting' = RestingOf(entry')
  BY <1>1 DEF Resting, RestingOf
<1>8. entry' = [entry EXCEPT ![ref] = NoOrder]
  BY <1>4 DEF Remove
<1>9. IsFiniteSet(RestingOf(entry')) /\ More(entry', entry, s, taken)
  BY ONLY <1>2, <1>3, <1>6, <1>7, <1>8, ref \in Refs, entry[ref] # NoOrder, QtyLeaves
<1>10. PICK c : c = NoteReduction(observer, s, taken)
  OBVIOUS
<1>11. observer \in Counters /\ \A side \in Sides : observer.expected_qty[side] = TotalQty(side)
  BY DEF ReplayInv, CountsOK
<1>12. /\ c \in Counters /\ c.applied = observer.applied
       /\ c.peak_orders = observer.peak_orders /\ c.peak_levels = observer.peak_levels
       /\ \A side \in Sides : c.expected_qty[side]
             = observer.expected_qty[side] - (IF side = s THEN taken ELSE 0)
  BY ONLY <1>6, <1>10, <1>11, CountedDown
<1>13. ASSUME NEW side \in Sides PROVE c.expected_qty[side] = TotalQty(side)'
  <2>1. /\ QtyOf(entry', side) \in Int
        /\ QtyOf(entry, side) = QtyOf(entry', side) + (IF side = s THEN taken ELSE 0)
    BY <1>9, Zenon DEF More
  <2>2. TotalQty(side) = QtyOf(entry, side) /\ TotalQty(side)' = QtyOf(entry', side)
    BY TotalsAfter
  <2> QED BY ONLY <1>6, <1>11, <1>12, <2>1, <2>2, side \in Sides
<1>14. TallyOK /\ "deletes" \in Operations
  BY DEF ReplayInv, Operations
<1>15. PICK shares \in Nat : stats' = [stats EXCEPT !.messages = @ + 1, !.applied = @ + 1,
                                           !.of["deletes"] = @ + 1, !.executed_shares = shares]
  BY <1>4, <1>14, CountedStats
<1>16. ReplayInv'
  BY <1>4, <1>5, <1>7, <1>8, <1>9, <1>10, <1>12, <1>13, <1>14, <1>15, AppliedKeeps
<1> QED BY <1>5, <1>16 DEF Kept

LEMMA DeleteHandled ==
  ASSUME ReplayInv, sent' = sent + 1, NEW m \in Feed!Deletes, Delete(m)
  PROVE  Kept
<1>1. PICK symbol : symbol = builder.symbol
  OBVIOUS
<1>2. Feed!SendDelete(m) /\ Handle(m) /\ sent' = sent + 1
  BY DEF Delete
<1>3. FeedInv /\ BookInv /\ IsFiniteSet(Resting) /\ entry = BookOf(market, symbol)
  BY <1>1 DEF ReplayInv, MarketsBook
<1>4. /\ FeedInv' /\ Feed!Rests(m) /\ announced' = announced
      /\ BookOf(market', symbol) = IF SymbolOf[m.locate] = symbol
                                   THEN [entry EXCEPT ![m.ref] = NoOrder] ELSE entry
  BY <1>2, <1>3, SentDelete
<1>5. /\ m.ref \in Refs /\ market[m.ref] \in Listing /\ m.locate \in announced
      /\ entry[m.ref] = IF SymbolOf[m.locate] = symbol THEN OrderOf(market[m.ref]) ELSE NoOrder
  BY <1>3, <1>4, NamesOrder
<1>6. m.kind = "D"
  BY DEF Feed!Deletes
<1>7. builder' = builder
  BY <1>2, <1>6, HandlesBookMessage
<1>8. Mine(m.locate) <=> SymbolOf[m.locate] = symbol
  BY <1>1, <1>5, MineIsWanted
<1>9. CASE ~Mine(m.locate)
  <2>1. Seen /\ BookUnchanged
    BY <1>2, <1>6, <1>9, HandlesBookMessage
  <2>2. BookOf(market', builder.symbol) = BookOf(market, builder.symbol)
    BY <1>1, <1>3, <1>4, <1>8, <1>9
  <2> QED BY <1>2, <1>4, <1>7, <2>1, <2>2, SeenOnly
<1>10. CASE Mine(m.locate)
  <2>1. OnDelete(m)
    BY <1>2, <1>6, <1>10, HandlesBookMessage
  <2>2. entry[m.ref] \in Entries
    BY <1>5, <1>8, <1>10, ListedOrder
  <2>3. entry[m.ref] # NoOrder
    BY <2>2, LimitOrderBookAssumption DEF Entries
  <2>4. BookOf(market', builder.symbol) = [entry EXCEPT ![m.ref] = NoOrder]
    BY <1>1, <1>4, <1>8, <1>10
  <2>5. PICK ref \in Refs : ref = m.ref
    BY <1>5
  <2> QED BY <1>2, <1>4, <1>7, <2>1, <2>3, <2>4, <2>5, DeleteApplied
<1> QED BY <1>9, <1>10

\* Book n has as many shares of an order less and as many of another more.
Swapped(e, n, s, taken, given) ==
    \A side \in Sides :
        /\ QtyOf(e, side) \in Int
        /\ QtyOf(n, side) = QtyOf(e, side) - (IF side = s THEN taken ELSE 0)
                                           + (IF side = s THEN given ELSE 0)

\* A replacement is a removal and an addition, to the observer and in the totals.
LEMMA QtyReplaced ==
  ASSUME NEW e, e \in [Refs -> Entries \cup {NoOrder}], IsFiniteSet(RestingOf(e)),
         NEW old \in Refs, e[old] # NoOrder, NEW new \in Refs, new # old, e[new] = NoOrder,
         NEW o \in Entries, o.side = e[old].side,
         NEW x, x = [e EXCEPT ![old] = NoOrder],
         NEW n, n = [x EXCEPT ![new] = o]
  PROVE  IsFiniteSet(RestingOf(n)) /\ Swapped(e, n, o.side, e[old].qty, o.qty)
<1>1. e[old] \in Entries /\ e[old].qty \in Nat /\ o.qty \in Nat
  BY DEF Entries
<1>2. x = [e EXCEPT ![old] = NoOrder] /\ n = [x EXCEPT ![new] = o]
  OBVIOUS
<1>3. IsFiniteSet(RestingOf(x)) /\ More(x, e, e[old].side, e[old].qty)
  BY ONLY e \in [Refs -> Entries \cup {NoOrder}], IsFiniteSet(RestingOf(e)),
          old \in Refs, e[old] # NoOrder, <1>2, QtyLeaves
<1>4. x \in [Refs -> Entries \cup {NoOrder}] /\ x[new] = NoOrder
  BY ONLY e \in [Refs -> Entries \cup {NoOrder}], new \in Refs, new # old,
          e[new] = NoOrder, <1>2
<1>5. IsFiniteSet(RestingOf(n)) /\ More(x, n, o.side, o.qty)
  BY ONLY new \in Refs, o \in Entries, <1>2, <1>3, <1>4, QtyJoins
<1>6. ASSUME NEW side \in Sides
      PROVE  /\ QtyOf(e, side) \in Int
             /\ QtyOf(n, side) = QtyOf(e, side) - (IF side = o.side THEN e[old].qty ELSE 0)
                                                + (IF side = o.side THEN o.qty ELSE 0)
  <2>1. /\ QtyOf(x, side) \in Int /\ QtyOf(e, side) \in Int
        /\ QtyOf(e, side) = QtyOf(x, side) + (IF side = e[old].side THEN e[old].qty ELSE 0)
    BY <1>3, Zenon DEF More
  <2>2. /\ QtyOf(n, side) \in Int
        /\ QtyOf(n, side) = QtyOf(x, side) + (IF side = o.side THEN o.qty ELSE 0)
    BY <1>5, Zenon DEF More
  <2>3. CASE side = o.side
    BY ONLY o.side = e[old].side, <1>1, <2>1, <2>2, <2>3
  <2>4. CASE side # o.side
    BY ONLY o.side = e[old].side, <1>1, <2>1, <2>2, <2>4
  <2> QED BY <2>3, <2>4
<1>7. Swapped(e, n, o.side, e[old].qty, o.qty)
  BY <1>6, Zenon DEF Swapped
<1> QED BY <1>5, <1>7

LEMMA ReplaceApplied ==
  ASSUME ReplayInv, FeedInv', announced' = announced, sent' = sent + 1, builder' = builder,
         NEW m, NEW old \in Refs, m.ref = old, entry[old] # NoOrder,
         NEW new \in Refs, m.new = new, new # old, entry[new] = NoOrder,
         NEW price \in Prices, m.price = price, NEW given \in Nat \ {0}, m.shares = given,
         BookOf(market', builder.symbol) = entry', OnReplace(m)
  PROVE  Kept
<1>1. BookInv /\ IsFiniteSet(Resting)
  BY DEF ReplayInv, MarketsBook
<1>2. PICK s : s = entry[old].side
  OBVIOUS
<1>3. PICK taken : taken = entry[old].qty
  OBVIOUS
<1>4. /\ Replace(old, new, price, given)
      /\ AfterApply(BeforeAdd(NoteReduction(observer, s, taken), s, given))
      /\ Counted("replaces")
  BY <1>2, <1>3 DEF OnReplace
<1>5. BookInv' /\ KeepsQueues
  BY <1>1, <1>4, ReplaceKeeps
<1>6. /\ entry \in [Refs -> Entries \cup {NoOrder}] /\ s \in Sides /\ taken \in Int
      /\ entry[old] \in Entries
  BY <1>1, <1>2, <1>3, RestingIsQueued DEF BookInv, BookOK
<1>7. IsFiniteSet(RestingOf(entry)) /\ Resting' = RestingOf(entry')
  BY <1>1 DEF Resting, RestingOf
<1> DEFINE o == [entry[old] EXCEPT !.price = price, !.qty = given]
           x == [entry EXCEPT ![old] = NoOrder]
<1>8. entry' = [x EXCEPT ![new] = o]
  <2>1. entry' = [entry EXCEPT ![old] = NoOrder, ![new] = o]
    BY <1>4, Zenon DEF Replace
  <2>2. [entry EXCEPT ![old] = NoOrder, ![new] = o] = [x EXCEPT ![new] = o]
    BY ONLY <1>6, old \in Refs, new \in Refs
  <2> QED BY <2>1, <2>2, Zenon
<1>9. o \in Entries /\ o.side = s /\ o.qty = given
  <2>1. PICK y : y = [entry[old] EXCEPT !.price = price]
    OBVIOUS
  <2>2. y \in Entries /\ y.side = s
    BY ONLY <1>2, <1>6, <2>1, price \in Prices DEF Entries
  <2>3. o = [y EXCEPT !.qty = given]
    BY <2>1
  <2> QED BY ONLY <2>2, <2>3, given \in Nat \ {0} DEF Entries
<1> HIDE DEF o, x
<1>10. IsFiniteSet(RestingOf(entry')) /\ Swapped(entry, entry', s, taken, given)
  <2>1. x = [entry EXCEPT ![old] = NoOrder] /\ o.side = entry[old].side
    BY <1>2, <1>9 DEF x
  <2>2. IsFiniteSet(RestingOf(entry')) /\ Swapped(entry, entry', o.side, entry[old].qty, o.qty)
    BY ONLY <1>6, <1>7, <1>8, <1>9, <2>1, old \in Refs, entry[old] # NoOrder,
            new \in Refs, new # old, entry[new] = NoOrder, QtyReplaced
  <2> QED BY ONLY <1>3, <1>9, <2>2
<1>11. PICK d : d = NoteReduction(observer, s, taken)
  OBVIOUS
<1>12. PICK c : c = BeforeAdd(d, s, given)
  OBVIOUS
<1>13. observer \in Counters /\ \A side \in Sides : observer.expected_qty[side] = TotalQty(side)
  BY DEF ReplayInv, CountsOK
<1>14. /\ d \in Counters /\ d.applied = observer.applied
       /\ d.peak_orders = observer.peak_orders /\ d.peak_levels = observer.peak_levels
       /\ \A side \in Sides : d.expected_qty[side]
             = observer.expected_qty[side] - (IF side = s THEN taken ELSE 0)
  BY ONLY <1>6, <1>11, <1>13, CountedDown
<1>15. given \in Int
  OBVIOUS
<1>16. /\ c \in Counters /\ c.applied = d.applied
       /\ c.peak_orders = d.peak_orders /\ c.peak_levels = d.peak_levels
       /\ \A side \in Sides : c.expected_qty[side]
             = d.expected_qty[side] + (IF side = s THEN given ELSE 0)
  <2>1. d \in Counters /\ s \in Sides
    BY ONLY <1>6, <1>14
  <2> QED BY ONLY <2>1, <1>12, <1>15, CountedUp
<1>17. ASSUME NEW side \in Sides PROVE c.expected_qty[side] = TotalQty(side)'
  <2>1. TotalQty(side) = QtyOf(entry, side) /\ TotalQty(side)' = QtyOf(entry', side)
    BY TotalsAfter
  <2>2. /\ c.expected_qty[side] = d.expected_qty[side] + (IF side = s THEN given ELSE 0)
        /\ d.expected_qty[side] = observer.expected_qty[side] - (IF side = s THEN taken ELSE 0)
        /\ observer.expected_qty[side] = TotalQty(side)
    BY <1>13, <1>14, <1>16
  <2>3. /\ QtyOf(entry, side) \in Int
        /\ QtyOf(entry', side) = QtyOf(entry, side) - (IF side = s THEN taken ELSE 0)
                                                  + (IF side = s THEN given ELSE 0)
    BY <1>10, Zenon DEF Swapped
  <2> QED BY ONLY <1>6, <1>15, <2>1, <2>2, <2>3
<1>18. TallyOK /\ "replaces" \in Operations
  BY DEF ReplayInv, Operations
<1>19. PICK shares \in Nat : stats' = [stats EXCEPT !.messages = @ + 1, !.applied = @ + 1,
                                           !.of["replaces"] = @ + 1, !.executed_shares = shares]
  BY <1>4, <1>18, CountedStats
<1>20. AfterApply(c) /\ c.applied = observer.applied
       /\ c.peak_orders = observer.peak_orders /\ c.peak_levels = observer.peak_levels
  BY <1>4, <1>11, <1>12, <1>14, <1>16
<1>21. ReplayInv'
  BY <1>5, <1>7, <1>8, <1>10, <1>16, <1>17, <1>18, <1>19, <1>20, AppliedKeeps
<1> QED BY <1>5, <1>21 DEF Kept

LEMMA ReplaceHandled ==
  ASSUME ReplayInv, sent' = sent + 1, NEW m \in Feed!Replaces, ReplaceOrder(m)
  PROVE  Kept
<1>1. PICK symbol : symbol = builder.symbol
  OBVIOUS
<1>2. Feed!SendReplace(m) /\ Handle(m) /\ sent' = sent + 1
  BY DEF ReplaceOrder
<1>3. FeedInv /\ BookInv /\ IsFiniteSet(Resting) /\ entry = BookOf(market, symbol)
  BY <1>1 DEF ReplayInv, MarketsBook
<1>4. PICK o : o = [entry[m.ref] EXCEPT !.price = m.price, !.qty = m.shares]
  OBVIOUS
<1>5. /\ FeedInv' /\ Feed!Rests(m) /\ announced' = announced
      /\ m.new \in Refs /\ m.price \in FeedPrices /\ m.shares \in Nat \ {0}
      /\ m.new # m.ref /\ entry[m.new] = NoOrder
      /\ BookOf(market', symbol) = IF SymbolOf[m.locate] = symbol
                                   THEN [entry EXCEPT ![m.ref] = NoOrder, ![m.new] = o]
                                   ELSE entry
  BY <1>2, <1>3, <1>4, SentReplace
<1>6. /\ m.ref \in Refs /\ market[m.ref] \in Listing /\ m.locate \in announced
      /\ entry[m.ref] = IF SymbolOf[m.locate] = symbol THEN OrderOf(market[m.ref]) ELSE NoOrder
  BY <1>3, <1>5, NamesOrder
<1>7. m.kind = "U"
  BY DEF Feed!Replaces
<1>8. builder' = builder
  BY <1>2, <1>7, HandlesBookMessage
<1>9. Mine(m.locate) <=> SymbolOf[m.locate] = symbol
  BY <1>1, <1>6, MineIsWanted
<1>10. CASE ~Mine(m.locate)
  <2>1. Seen /\ BookUnchanged
    BY <1>2, <1>7, <1>10, HandlesBookMessage
  <2>2. BookOf(market', builder.symbol) = BookOf(market, builder.symbol)
    BY <1>1, <1>3, <1>5, <1>9, <1>10
  <2> QED BY <1>2, <1>5, <1>8, <2>1, <2>2, SeenOnly
<1>11. CASE Mine(m.locate)
  <2>1. OnReplace(m)
    BY <1>2, <1>7, <1>11, HandlesBookMessage
  <2>2. entry[m.ref] \in Entries
    BY <1>6, <1>9, <1>11, ListedOrder
  <2>3. entry[m.ref] # NoOrder
    BY <2>2, LimitOrderBookAssumption DEF Entries
  <2>4. BookOf(market', builder.symbol) = [entry EXCEPT ![m.ref] = NoOrder, ![m.new] = o]
    BY <1>1, <1>5, <1>9, <1>11
  <2>5. PICK old \in Refs : old = m.ref
    BY <1>6
  <2>6. PICK new \in Refs : new = m.new
    BY <1>5
  <2>7. PICK price \in Prices : price = m.price
    BY <1>5, FeedConstants
  <2>8. PICK given \in Nat \ {0} : given = m.shares
    BY <1>5
  <2>9. entry[old] # NoOrder /\ new # old /\ entry[new] = NoOrder
    BY ONLY <1>5, <2>3, <2>5, <2>6
  <2>10. Replace(m.ref, m.new, m.price, m.shares)
    BY <1>5, <2>1, <2>3 DEF OnReplace
  <2>11. entry' = [entry EXCEPT ![m.ref] = NoOrder, ![m.new] = o]
    BY ONLY <1>4, <2>10, Zenon DEF Replace
  <2>12. BookOf(market', builder.symbol) = entry'
    BY ONLY <2>4, <2>11, Zenon
  <2> QED BY <1>2, <1>5, <1>8, <2>1, <2>5, <2>6, <2>7, <2>8, <2>9, <2>12, ReplaceApplied
<1> QED BY <1>10, <1>11

\* Reports of trades leave the book alone.
LEMMA ReportHandled ==
  ASSUME ReplayInv, sent' = sent + 1, NEW m \in Feed!Reports, Report(m)
  PROVE  Kept
<1>1. Feed!SendReport(m) /\ Handle(m) /\ sent' = sent + 1
  BY DEF Report
<1>2. FeedInv' /\ market' = market /\ announced' = announced
  BY <1>1, SentReport DEF ReplayInv, MarketsBook
<1>3. OnReport(m)
  BY <1>1, HandlesReport DEF Feed!Reports
<1>4. /\ entry' = entry /\ fifo' = fifo /\ observer' = observer /\ aborted' = aborted
      /\ builder' = builder
  BY <1>3 DEF OnReport, BookUnchanged
<1>5. stats.trades_ignored \in Nat /\ stats.crosses_ignored \in Nat
  BY DEF ReplayInv, TallyOK, Tally
<1>6. PICK t \in Nat, x \in Nat :
         stats' = [stats EXCEPT !.messages = @ + 1, !.trades_ignored = t, !.crosses_ignored = x]
  <2>1. PICK t : t = IF m.kind \in {"P", "B"} /\ Mine(m.locate) THEN stats.trades_ignored + 1
                     ELSE stats.trades_ignored
    OBVIOUS
  <2>2. PICK x : x = IF m.kind = "Q" /\ Mine(m.locate) THEN stats.crosses_ignored + 1
                     ELSE stats.crosses_ignored
    OBVIOUS
  <2>3. t \in Nat /\ x \in Nat
    BY <1>5, <2>1, <2>2
  <2>4. stats' = [stats EXCEPT !.messages = @ + 1, !.trades_ignored = t, !.crosses_ignored = x]
    BY <1>3, <2>1, <2>2, Zenon DEF OnReport
  <2> QED BY <2>3, <2>4
<1>7. TallyOK'
  BY <1>1, <1>4, <1>6, TallySees DEF ReplayInv
<1>8. MarketsBook(builder.symbol)'
  BY <1>2, <1>4 DEF ReplayInv, MarketsBook, BookInv, BookOK, Resting
<1>9. CountsOK'
  BY <1>4 DEF ReplayInv, CountsOK, Resting, TotalQty, LevelCount, LevelPrices
<1> QED BY <1>2, <1>4, <1>7, <1>8, <1>9 DEF ReplayInv, Kept, bookVars

LEMMA DirectoryHandled ==
  ASSUME ReplayInv, sent' = sent + 1, NEW m \in Feed!Directories, Directory(m)
  PROVE  Kept
<1>1. Feed!SendDirectory(m) /\ Handle(m) /\ sent' = sent + 1
  BY DEF Directory
<1>2. PICK symbol : symbol = builder.symbol
  OBVIOUS
<1>3. PICK locate : locate = builder.locate
  OBVIOUS
<1>4. PICK done \in BOOLEAN : done = builder.resolved
  BY DEF ReplayInv
<1>5. FeedInv /\ Settled(symbol, locate, done, announced) /\ entry = BookOf(market, symbol)
  BY <1>2, <1>3, <1>4 DEF ReplayInv, MarketsBook
<1>6. /\ FeedInv' /\ m.locate \in Locates /\ market' = market
      /\ announced' = announced \cup {m.locate}
  BY <1>1, <1>5, SentDirectory
<1>7. OnStockDirectory(m)
  BY <1>1, HandlesDirectory DEF Feed!Directories
<1>8. /\ entry' = entry /\ fifo' = fifo /\ observer' = observer /\ aborted' = aborted
      /\ stats' = [stats EXCEPT !.messages = @ + 1]
      /\ builder' = IF ~done /\ symbol \in {NoSymbol, SymbolOf[m.locate]}
                    THEN [symbol |-> SymbolOf[m.locate], locate |-> m.locate, resolved |-> TRUE]
                    ELSE builder
  BY <1>2, <1>4, <1>7 DEF OnStockDirectory, BookUnchanged, Seen
<1>9. /\ Settled(builder.symbol, builder.locate, builder.resolved, announced)'
      /\ builder'.resolved \in BOOLEAN
      /\ entry' = BookOf(market', builder'.symbol)
  <2>1. CASE ~done /\ symbol \in {NoSymbol, SymbolOf[m.locate]}
    <3>1. /\ builder'.symbol = SymbolOf[m.locate] /\ builder'.locate = m.locate
          /\ builder'.resolved = TRUE
      BY <1>8, <2>1
    <3>2. /\ Settled(SymbolOf[m.locate], m.locate, TRUE, announced \cup {m.locate})
          /\ BookOf(market, SymbolOf[m.locate]) = BookOf(market, symbol)
      BY <1>5, <1>6, <2>1, SettlesNow
    <3> QED BY <1>5, <1>6, <1>8, <3>1, <3>2 DEF Settled
  <2>2. CASE ~ (~done /\ symbol \in {NoSymbol, SymbolOf[m.locate]})
    <3>1. builder' = builder
      BY <1>8, <2>2
    <3>2. Settled(symbol, locate, done, announced \cup {m.locate})
      BY <1>5, <1>6, <2>2, SettlesNothing
    <3> QED BY <1>2, <1>3, <1>4, <1>5, <1>6, <1>8, <3>1, <3>2 DEF Settled
  <2> QED BY <2>1, <2>2
<1>10. stats \in Tally /\ stats.trades_ignored \in Nat /\ stats.crosses_ignored \in Nat
  BY DEF ReplayInv, TallyOK, Tally
<1>11. stats' = [stats EXCEPT !.messages = @ + 1, !.trades_ignored = stats.trades_ignored,
                              !.crosses_ignored = stats.crosses_ignored]
  BY <1>8, <1>10 DEF Tally
<1>12. TallyOK'
  BY <1>1, <1>8, <1>10, <1>11, TallySees DEF ReplayInv
<1>13. MarketsBook(builder.symbol)'
  <2>1. BookInv /\ IsFiniteSet(Resting)
    BY DEF ReplayInv, MarketsBook
  <2>2. BookInv'
    BY ONLY <1>8, <2>1 DEF BookInv, BookOK
  <2>3. IsFiniteSet(Resting)'
    BY ONLY <1>8, <2>1 DEF Resting
  <2> QED BY <1>6, <1>9, <2>2, <2>3 DEF MarketsBook
<1>14. CountsOK'
  BY <1>8 DEF ReplayInv, CountsOK, Resting, TotalQty, LevelCount, LevelPrices
<1> QED BY <1>8, <1>9, <1>12, <1>13, <1>14 DEF ReplayInv, Kept, bookVars

LEMMA ReplayStarts ==
  ASSUME Init
  PROVE  ReplayInv
<1>1. /\ Feed!FeedInit /\ BookInit
      /\ builder \in [symbol : Wanted, locate : {0}, resolved : {FALSE}]
      /\ stats = BuilderStats /\ observer = ReplayCounters /\ aborted = FALSE
  BY DEF Init, BuilderInit
<1>2. FeedInv /\ market = <<>> /\ announced = {} /\ sent = 0
  BY <1>1, FeedStarts DEF Feed!FeedInit
<1>3. BookInv
  BY <1>1, BookStarts
<1>4. Resting = {} /\ \A side \in Sides : LevelPrices(side) = {}
  BY <1>1 DEF BookInit, Resting, LevelPrices
<1>5. entry = BookOf(market, builder.symbol)
  <2>1. DOMAIN market = {}
    BY <1>2
  <2> QED BY <1>1, <2>1 DEF BookInit, BookOf
<1>6. IsFiniteSet(Resting) /\ Cardinality(Resting) = 0 /\ LevelCount = 0
  BY <1>4, FS_EmptySet DEF LevelCount, Sides
<1>7. \A side \in Sides : TotalQty(side) = 0
  <2>1. \A side : {r \in Resting : entry[r].side = side} = {}
    BY <1>4
  <2> QED BY <2>1, SumEmpty DEF TotalQty
<1>8. CountsOK
  BY <1>1, <1>6, <1>7 DEF CountsOK, ReplayCounters, Counters
<1>9. TallyOK
  <2>1. PICK f : f = [op \in Operations |-> 0]
    OBVIOUS
  <2>2. SumFunctionOnSet(f, Operations) = 0
    BY <2>1, OperationsFinite, SumZero
  <2>3. stats = [messages |-> 0, applied |-> 0, executed_shares |-> 0, trades_ignored |-> 0,
                 crosses_ignored |-> 0, of |-> f]
    BY <1>1, <2>1, Zenon DEF BuilderStats
  <2>4. f \in [Operations -> Nat]
    BY <2>1
  <2>5. stats \in Tally /\ stats.messages = 0 /\ stats.applied = 0 /\ stats.of = f
    BY ONLY <2>3, <2>4 DEF Tally
  <2>6. observer.applied = 0
    BY <1>1 DEF ReplayCounters
  <2> QED BY <1>2, <2>2, <2>5, <2>6 DEF TallyOK
<1>10. /\ builder.resolved = FALSE
       /\ Settled(builder.symbol, builder.locate, builder.resolved, announced)
  BY <1>1, <1>2 DEF Settled
<1> QED BY <1>1, <1>2, <1>3, <1>5, <1>6, <1>8, <1>9, <1>10 DEF ReplayInv, MarketsBook

LEMMA ReplayKeeps ==
  ASSUME ReplayInv, Next
  PROVE  Kept
<1>1. sent' = sent + 1
  BY DEF Next, Feed!Send
<1> QED BY <1>1, DirectoryHandled, AddHandled, ReductionHandled, DeleteHandled,
           ReplaceHandled, ReportHandled DEF Next

LEMMA ReplaySound ==
  ASSUME ReplayInv
  PROVE  HoldsTheMarket /\ CountsBalance /\ QueuedExactlyOnce
<1>1. /\ FeedInv /\ BookInv /\ entry = BookOf(market, builder.symbol)
  BY DEF ReplayInv, MarketsBook
<1>2. DOMAIN market \subseteq Refs /\ \A r \in DOMAIN market : market[r] \in Listing
  BY <1>1 DEF FeedInv, MarketOK
<1>3. ASSUME NEW r \in DOMAIN market, SymbolOf[market[r].locate] = builder.symbol
      PROVE  entry[r] = OrderOf(market[r]) /\ entry[r] # NoOrder
  <2>1. entry[r] = OrderOf(market[r])
    BY <1>1, <1>2, <1>3 DEF BookOf
  <2>2. OrderOf(market[r]) \in Entries
    BY <1>2, ListedOrder
  <2> QED BY <2>1, <2>2, LimitOrderBookAssumption DEF Entries
<1>4. Resting = Mines
  <2>1. ASSUME NEW r \in Resting PROVE r \in Mines
    BY <1>1 DEF Resting, Mines, BookOf
  <2>2. ASSUME NEW r \in Mines PROVE r \in Resting
    BY <1>2, <1>3 DEF Resting, Mines
  <2> QED BY <2>1, <2>2
<1>5. HoldsTheMarket
  BY <1>3, <1>4 DEF HoldsTheMarket, Mines, OrderOf
<1>6. CountsBalance
  BY DEF ReplayInv, CountsOK, TallyOK, CountsBalance, NeverAborts
<1> QED BY <1>1, <1>5, <1>6, BookInvStated

------------------------------------------------------------------------------
(* bench_book.  Its book is this one, under the name of its module.        *)

LEMMA BenchingBook ==
  /\ \A ref, side, p, qty, owner :
        Benching!Add(ref, side, p, qty, owner) <=> Add(ref, side, p, qty, owner)
  /\ \A ref, shares : Benching!Reduce(ref, shares) <=> Reduce(ref, shares)
  /\ \A ref : Benching!Remove(ref) <=> Remove(ref)
  /\ \A old, new, p, qty : Benching!Replace(old, new, p, qty) <=> Replace(old, new, p, qty)
  /\ Benching!BookInit <=> BookInit
<1>1. \A ref : Benching!Withdrawn(ref) = Withdrawn(ref)
  BY DEF Benching!Withdrawn, Withdrawn, Benching!ClosedUp, ClosedUp, Benching!PlaceOf, PlaceOf
<1>2. \A ref, side, p, qty, owner :
        Benching!Add(ref, side, p, qty, owner) <=> Add(ref, side, p, qty, owner)
  BY DEF Benching!Add, Add
<1>3. \A ref, shares : Benching!Reduce(ref, shares) <=> Reduce(ref, shares)
  BY <1>1 DEF Benching!Reduce, Reduce
<1>4. \A ref : Benching!Remove(ref) <=> Remove(ref)
  BY <1>1 DEF Benching!Remove, Remove
<1>5. \A old, new, p, qty : Benching!Replace(old, new, p, qty) <=> Replace(old, new, p, qty)
  BY <1>1 DEF Benching!Replace, Replace
<1>6. Benching!BookInit <=> BookInit
  BY DEF Benching!BookInit, BookInit, Benching!Sides, Sides
<1> QED BY <1>2, <1>3, <1>4, <1>5, <1>6

LEMMA BenchingFeed ==
  /\ Benching!Feed!FeedInit <=> Feed!FeedInit
  /\ \A m : Benching!Feed!SendNext(m) =>
        \/ m \in Feed!Directories /\ Feed!SendDirectory(m)
        \/ m \in Feed!Adds /\ Feed!SendAdd(m)
        \/ m \in Feed!Reductions /\ Feed!SendReduction(m)
        \/ m \in Feed!Deletes /\ Feed!SendDelete(m)
        \/ m \in Feed!Replaces /\ Feed!SendReplace(m)
        \/ m \in Feed!Reports /\ Feed!SendReport(m)
<1>1. Benching!Feed!FeedInit <=> Feed!FeedInit
  BY DEF Benching!Feed!FeedInit, Feed!FeedInit
<1>2. /\ Benching!Feed!Directories = Feed!Directories
      /\ Benching!Feed!Adds = Feed!Adds
      /\ Benching!Feed!Reductions = Feed!Reductions
      /\ Benching!Feed!Deletes = Feed!Deletes
      /\ Benching!Feed!Replaces = Feed!Replaces
      /\ Benching!Feed!Reports = Feed!Reports
  BY DEF Benching!Feed!Directories, Feed!Directories, Benching!Feed!Adds, Feed!Adds,
         Benching!Feed!Reductions, Feed!Reductions, Benching!Feed!Deletes, Feed!Deletes,
         Benching!Feed!Replaces, Feed!Replaces, Benching!Feed!Reports, Feed!Reports,
         Benching!Feed!Sides, Feed!Sides
<1>3. \A locate, side, p, others :
         Benching!Feed!Meets(locate, side, p, others) <=> Feed!Meets(locate, side, p, others)
  BY DEF Benching!Feed!Meets, Feed!Meets, Benching!Feed!At, Feed!At, Benching!Feed!Opposite,
         Feed!Opposite, Benching!Feed!Before, Feed!Before
<1>4. /\ \A refs : Benching!Feed!Without(refs) = Feed!Without(refs)
      /\ \A M, ref, o : Benching!Feed!With(M, ref, o) = Feed!With(M, ref, o)
      /\ \A m : Benching!Feed!Rests(m) <=> Feed!Rests(m)
  BY DEF Benching!Feed!Without, Feed!Without, Benching!Feed!With, Feed!With,
         Benching!Feed!Rests, Feed!Rests
<1>5. \A ref, shares : Benching!Feed!Taken(ref, shares) = Feed!Taken(ref, shares)
  BY <1>4 DEF Benching!Feed!Taken, Feed!Taken
<1>6. \A m : Benching!Feed!SendDirectory(m) => Feed!SendDirectory(m)
  BY DEF Benching!Feed!SendDirectory, Feed!SendDirectory
<1>7. \A m : Benching!Feed!SendAdd(m) => Feed!SendAdd(m)
  BY <1>3, <1>4 DEF Benching!Feed!SendAdd, Feed!SendAdd
<1>8. \A m : Benching!Feed!SendReduction(m) => Feed!SendReduction(m)
  BY <1>4, <1>5 DEF Benching!Feed!SendReduction, Feed!SendReduction
<1>9. \A m : Benching!Feed!SendDelete(m) => Feed!SendDelete(m)
  BY <1>4 DEF Benching!Feed!SendDelete, Feed!SendDelete
<1>10. \A m : Benching!Feed!SendReplace(m) => Feed!SendReplace(m)
  BY <1>3, <1>4 DEF Benching!Feed!SendReplace, Feed!SendReplace
<1>11. \A m : Benching!Feed!SendReport(m) => Feed!SendReport(m)
  BY DEF Benching!Feed!SendReport, Feed!SendReport
<1> QED BY <1>1, <1>2, <1>6, <1>7, <1>8, <1>9, <1>10, <1>11 DEF Benching!Feed!SendNext

\* The operations that are recorded.
RecordedOps ==
         [op : {"Add"}, ref : Refs, side : Sides, price : FeedPrices, qty : Nat]
    \cup [op : {"Execute", "Cancel"}, ref : Refs, qty : Nat]
    \cup [op : {"Delete"}, ref : Refs]
    \cup [op : {"Replace"}, ref : Refs, new : Refs, price : FeedPrices, qty : Nat]

WithdrawnFrom(e, f, ref) ==
    [f EXCEPT ![e[ref].side][e[ref].price] = ClosedUp(@, PlaceOf(@, ref))]

\* An operation is accepted by the book with orders e and queues f, and makes
\* of it the one with orders d and queues g.
Takes(e, f, o, d, g) ==
    \/ /\ o.op = "Add"
       /\ o.qty > 0 /\ e[o.ref] = NoOrder
       /\ d = [e EXCEPT ![o.ref] = [side |-> o.side, price |-> o.price, qty |-> o.qty, owner |-> 0]]
       /\ g = [f EXCEPT ![o.side][o.price] = Append(@, o.ref)]
    \/ /\ o.op \in {"Execute", "Cancel"}
       /\ e[o.ref] # NoOrder /\ o.qty <= e[o.ref].qty
       /\ d = IF o.qty < e[o.ref].qty THEN [e EXCEPT ![o.ref].qty = @ - o.qty]
              ELSE [e EXCEPT ![o.ref] = NoOrder]
       /\ g = IF o.qty < e[o.ref].qty THEN f ELSE WithdrawnFrom(e, f, o.ref)
    \/ /\ o.op = "Delete"
       /\ e[o.ref] # NoOrder
       /\ d = [e EXCEPT ![o.ref] = NoOrder]
       /\ g = WithdrawnFrom(e, f, o.ref)
    \/ /\ o.op = "Replace"
       /\ e[o.ref] # NoOrder /\ o.qty > 0 /\ (o.new = o.ref \/ e[o.new] = NoOrder)
       /\ d = [e EXCEPT ![o.ref] = NoOrder,
                        ![o.new] = [e[o.ref] EXCEPT !.price = o.price, !.qty = o.qty]]
       /\ g = [WithdrawnFrom(e, f, o.ref) EXCEPT ![e[o.ref].side][o.price] = Append(@, o.new)]

\* So the pass goes on, and the book keeps what it promises.
LEMMA OperationApplied ==
  ASSUME BookInv, NEW o \in RecordedOps, NEW d, NEW g, Takes(entry, fifo, o, d, g)
  PROVE  /\ Benching!Accepted(o)
         /\ Benching!Apply(o) => entry' = d /\ fifo' = g /\ BookInv' /\ KeepsQueues
<1>1. Withdrawn(o.ref) = WithdrawnFrom(entry, fifo, o.ref)
  BY DEF Withdrawn, WithdrawnFrom
<1>2. FeedPrices \subseteq Prices /\ 0 \in Owners
  BY FeedConstants
<1>3. CASE o.op = "Add"
  <2>1. /\ o.ref \in Refs /\ o.side \in Sides /\ o.price \in Prices /\ o.qty \in Nat
        /\ o.qty > 0 /\ entry[o.ref] = NoOrder
        /\ d = [entry EXCEPT ![o.ref] = [side |-> o.side, price |-> o.price, qty |-> o.qty, owner |-> 0]]
        /\ g = [fifo EXCEPT ![o.side][o.price] = Append(@, o.ref)]
    BY <1>2, <1>3 DEF RecordedOps, Takes
  <2>2. Benching!Accepted(o)
    BY <1>3, <2>1 DEF Benching!Accepted
  <2>3. Benching!Apply(o) => Add(o.ref, o.side, o.price, o.qty, 0)
    BY <1>3, BenchingBook DEF Benching!Apply
  <2>4. Add(o.ref, o.side, o.price, o.qty, 0) => entry' = d /\ fifo' = g
    BY <2>1, Zenon DEF Add
  <2>5. Add(o.ref, o.side, o.price, o.qty, 0) => BookInv' /\ KeepsQueues
    BY <1>2, <2>1, AddKeeps
  <2> QED BY <2>2, <2>3, <2>4, <2>5
<1>4. CASE o.op \in {"Execute", "Cancel"}
  <2>1. /\ o.ref \in Refs /\ o.qty \in Nat
        /\ entry[o.ref] # NoOrder /\ o.qty <= entry[o.ref].qty
        /\ d = IF o.qty < entry[o.ref].qty THEN [entry EXCEPT ![o.ref].qty = @ - o.qty]
               ELSE [entry EXCEPT ![o.ref] = NoOrder]
        /\ g = IF o.qty < entry[o.ref].qty THEN fifo ELSE WithdrawnFrom(entry, fifo, o.ref)
    BY <1>4 DEF RecordedOps, Takes
  <2>2. Benching!Accepted(o)
    BY <1>4, <2>1 DEF Benching!Accepted
  <2>3. Benching!Apply(o) => Reduce(o.ref, o.qty)
    BY <1>4, BenchingBook DEF Benching!Apply
  <2>4. Reduce(o.ref, o.qty) => entry' = d /\ fifo' = g
    BY <1>1, <2>1 DEF Reduce
  <2>5. Reduce(o.ref, o.qty) => BookInv' /\ KeepsQueues
    BY <2>1, ReduceKeeps
  <2> QED BY <2>2, <2>3, <2>4, <2>5
<1>5. CASE o.op = "Delete"
  <2>1. /\ o.ref \in Refs
        /\ entry[o.ref] # NoOrder
        /\ d = [entry EXCEPT ![o.ref] = NoOrder]
        /\ g = WithdrawnFrom(entry, fifo, o.ref)
    BY <1>5 DEF RecordedOps, Takes
  <2>2. Benching!Accepted(o)
    BY <1>5, <2>1 DEF Benching!Accepted
  <2>3. Benching!Apply(o) => Remove(o.ref)
    BY <1>5, BenchingBook DEF Benching!Apply
  <2>4. Remove(o.ref) => entry' = d /\ fifo' = g
    BY <1>1, <2>1 DEF Remove
  <2>5. Remove(o.ref) => BookInv' /\ KeepsQueues
    BY <2>1, RemoveKeeps
  <2> QED BY <2>2, <2>3, <2>4, <2>5
<1>6. CASE o.op = "Replace"
  <2>1. /\ o.ref \in Refs /\ o.new \in Refs /\ o.price \in Prices /\ o.qty \in Nat
        /\ entry[o.ref] # NoOrder /\ o.qty > 0 /\ (o.new = o.ref \/ entry[o.new] = NoOrder)
    BY <1>2, <1>6 DEF RecordedOps, Takes
  <2>2. /\ d = [entry EXCEPT ![o.ref] = NoOrder,
                             ![o.new] = [entry[o.ref] EXCEPT !.price = o.price, !.qty = o.qty]]
        /\ g = [WithdrawnFrom(entry, fifo, o.ref) EXCEPT
                   ![entry[o.ref].side][o.price] = Append(@, o.new)]
    BY <1>6 DEF Takes
  <2>3. Benching!Accepted(o)
    BY <1>6, <2>1 DEF Benching!Accepted
  <2>4. Benching!Apply(o) => Replace(o.ref, o.new, o.price, o.qty)
    BY <1>6, BenchingBook DEF Benching!Apply
  <2>5. Replace(o.ref, o.new, o.price, o.qty) => entry' = d /\ fifo' = g
    BY <1>1, <2>2, Zenon DEF Replace
  <2>6. Replace(o.ref, o.new, o.price, o.qty) => BookInv' /\ KeepsQueues
    BY <2>1, ReplaceKeeps
  <2> QED BY <2>3, <2>4, <2>5, <2>6
<1>7. o.op \in {"Add", "Execute", "Cancel", "Delete", "Replace"}
  BY DEF RecordedOps
<1> QED BY <1>3, <1>4, <1>5, <1>6, <1>7

NoBook == <<[ref \in Refs |-> NoOrder], [side \in Sides |-> [p \in Prices |-> <<>>]]>>

\* The books h[1], h[2], ... that the operations lead through from a fresh one,
\* every one of them accepted, the last one with orders e.
Recording(h, ops, e) ==
    /\ h[1] = NoBook
    /\ \A i \in 1 .. Len(ops) : Takes(h[i][1], h[i][2], ops[i], h[i + 1][1], h[i + 1][2])
    /\ \A i \in 1 .. Len(ops) + 1 : h[i] = <<h[i][1], h[i][2]>>
    /\ h[Len(ops) + 1][1] = e

\* Whatever the queues are, the operation leads on.
Leads(e, o, d) == \A f : \E g : Takes(e, f, o, d, g)

LEMMA RecordingGrows ==
  ASSUME NEW h, NEW ops \in Seq(RecordedOps), NEW e, Recording(h, ops, e),
         NEW o \in RecordedOps, NEW d, Leads(e, o, d)
  PROVE  \E k : Recording(k, Append(ops, o), d)
<1>1. PICK n \in Nat : n = Len(ops)
  BY LenProperties
<1>2. PICK g : Takes(e, h[n + 1][2], o, d, g)
  BY DEF Leads
<1>3. PICK k : k = [i \in 1 .. n + 2 |-> IF i <= n + 1 THEN h[i] ELSE <<d, g>>]
  OBVIOUS
<1>4. PICK q : q = Append(ops, o)
  OBVIOUS
<1>5. /\ Len(q) = n + 1 /\ q[n + 1] = o
      /\ \A i \in 1 .. n : q[i] = ops[i]
  BY <1>1, <1>4, AppendProperties
<1>6. /\ \A i \in 1 .. n + 1 : k[i] = h[i]
      /\ k[n + 2] = <<d, g>> /\ k[(n + 1) + 1] = <<d, g>>
  BY <1>3
<1>7. h[1] = NoBook /\ h[n + 1][1] = e
  BY <1>1 DEF Recording
<1>8. \A i \in 1 .. n : Takes(h[i][1], h[i][2], ops[i], h[i + 1][1], h[i + 1][2])
  BY <1>1 DEF Recording
<1>9. \A i \in 1 .. n + 1 : h[i] = <<h[i][1], h[i][2]>>
  BY <1>1 DEF Recording
<1>10. ASSUME NEW i \in 1 .. n + 1
       PROVE  Takes(k[i][1], k[i][2], q[i], k[i + 1][1], k[i + 1][2])
  <2>1. CASE i \in 1 .. n
    <3>1. i + 1 \in 1 .. n + 1
      BY <2>1
    <3>2. k[i] = h[i] /\ k[i + 1] = h[i + 1] /\ q[i] = ops[i]
      BY <1>5, <1>6, <2>1, <3>1
    <3> QED BY <1>8, <2>1, <3>2
  <2>2. CASE i = n + 1
    <3>1. k[i] = h[i] /\ k[i + 1] = <<d, g>> /\ q[i] = o
      BY <1>5, <1>6, <2>2
    <3>2. k[i + 1][1] = d /\ k[i + 1][2] = g
      BY <3>1
    <3> QED BY <1>2, <1>7, <2>2, <3>1, <3>2
  <2> QED BY <2>1, <2>2
<1>11. \A i \in 1 .. (n + 1) + 1 : k[i] = <<k[i][1], k[i][2]>>
  <2> SUFFICES ASSUME NEW i \in 1 .. n + 2 PROVE k[i] = <<k[i][1], k[i][2]>>
    OBVIOUS
  <2>1. CASE i \in 1 .. n + 1
    BY <1>6, <1>9, <2>1
  <2>2. CASE i = n + 2
    BY <1>6, <2>2
  <2> QED BY <2>1, <2>2
<1>12. k[1] = NoBook /\ k[(n + 1) + 1][1] = d
  BY <1>6, <1>7
<1>13. Recording(k, q, d)
  BY ONLY <1>5, <1>10, <1>11, <1>12 DEF Recording
<1> QED BY <1>4, <1>13

\* What is recorded for a message leads from the stock's book to the next.
LEMMA AddRecorded ==
  ASSUME FeedInv, NEW m \in Feed!Adds, Feed!SendAdd(m), NEW symbol
  PROVE  /\ FeedInv' /\ announced' = announced /\ m.locate \in announced
         /\ SymbolOf[m.locate] # symbol => BookOf(market', symbol) = BookOf(market, symbol)
         /\ SymbolOf[m.locate] = symbol =>
               /\ Benching!Recorded(m) \in RecordedOps
               /\ Leads(BookOf(market, symbol), Benching!Recorded(m), BookOf(market', symbol))
<1>1. PICK o : o = [locate |-> m.locate, side |-> m.side, price |-> m.price, qty |-> m.shares]
  OBVIOUS
<1>2. /\ FeedInv' /\ announced' = announced /\ m.locate \in announced
      /\ o \in Listing /\ m.ref \in Refs
      /\ BookOf(market, symbol)[m.ref] = NoOrder
      /\ BookOf(market', symbol) =
            IF SymbolOf[m.locate] = symbol
            THEN [BookOf(market, symbol) EXCEPT ![m.ref] = OrderOf(o)]
            ELSE BookOf(market, symbol)
  BY <1>1, SentAdd
<1>3. PICK r : r = Benching!Recorded(m)
  OBVIOUS
<1>4. r = [op |-> "Add", ref |-> m.ref, side |-> m.side, price |-> m.price, qty |-> m.shares]
  <2>1. m.kind \in {"A", "F"}
    BY DEF Feed!Adds
  <2> QED BY <1>3, <2>1 DEF Benching!Recorded
<1>5. m.side \in Sides /\ m.price \in FeedPrices /\ m.shares \in Nat \ {0}
  BY <1>1, <1>2 DEF Listing
<1>6. r \in RecordedOps
  BY <1>2, <1>4, <1>5 DEF RecordedOps
<1>7. OrderOf(o) = [side |-> r.side, price |-> r.price, qty |-> r.qty, owner |-> 0]
  BY <1>1, <1>4 DEF OrderOf
<1>8. ASSUME SymbolOf[m.locate] = symbol
      PROVE  Leads(BookOf(market, symbol), r, BookOf(market', symbol))
  <2>1. BookOf(market', symbol) = [BookOf(market, symbol) EXCEPT
            ![r.ref] = [side |-> r.side, price |-> r.price, qty |-> r.qty, owner |-> 0]]
    BY <1>2, <1>4, <1>7, <1>8
  <2>2. r.op = "Add" /\ r.qty > 0 /\ BookOf(market, symbol)[r.ref] = NoOrder
    BY <1>2, <1>4, <1>5
  <2> QED BY <2>1, <2>2 DEF Leads, Takes
<1> QED BY <1>2, <1>3, <1>6, <1>8

LEMMA ReductionRecorded ==
  ASSUME FeedInv, NEW m \in Feed!Reductions, Feed!SendReduction(m), NEW symbol
  PROVE  /\ FeedInv' /\ announced' = announced /\ m.locate \in announced
         /\ SymbolOf[m.locate] # symbol => BookOf(market', symbol) = BookOf(market, symbol)
         /\ SymbolOf[m.locate] = symbol =>
               /\ Benching!Recorded(m) \in RecordedOps
               /\ Leads(BookOf(market, symbol), Benching!Recorded(m), BookOf(market', symbol))
<1>1. PICK e : e = BookOf(market, symbol)
  OBVIOUS
<1>2. /\ FeedInv' /\ Feed!Rests(m) /\ announced' = announced
      /\ m.shares \in Nat \ {0} /\ m.shares <= market[m.ref].qty
      /\ BookOf(market', symbol) =
            IF SymbolOf[m.locate] = symbol
            THEN IF m.shares < market[m.ref].qty
                 THEN [e EXCEPT ![m.ref].qty = @ - m.shares]
                 ELSE [e EXCEPT ![m.ref] = NoOrder]
            ELSE e
  BY <1>1, SentReduction
<1>3. /\ m.ref \in Refs /\ market[m.ref] \in Listing /\ m.locate \in announced
      /\ e[m.ref] = IF SymbolOf[m.locate] = symbol THEN OrderOf(market[m.ref]) ELSE NoOrder
  BY <1>1, <1>2, NamesOrder
<1>4. PICK r : r = Benching!Recorded(m)
  OBVIOUS
<1>5. r \in RecordedOps /\ r.op \in {"Execute", "Cancel"} /\ r.ref = m.ref /\ r.qty = m.shares
  <2>1. CASE m.kind \in {"E", "C"}
    <3>1. r = [op |-> "Execute", ref |-> m.ref, qty |-> m.shares]
      BY <1>4, <2>1 DEF Benching!Recorded
    <3> QED BY <1>2, <1>3, <3>1 DEF RecordedOps
  <2>2. CASE m.kind = "X"
    <3>1. r = [op |-> "Cancel", ref |-> m.ref, qty |-> m.shares]
      BY <1>4, <2>2 DEF Benching!Recorded
    <3> QED BY <1>2, <1>3, <3>1 DEF RecordedOps
  <2> QED BY <2>1, <2>2 DEF Feed!Reductions
<1>6. ASSUME SymbolOf[m.locate] = symbol
      PROVE  Leads(e, r, BookOf(market', symbol))
  <2>1. e[m.ref] \in Entries /\ e[m.ref].qty = market[m.ref].qty
    BY <1>3, <1>6, ListedOrder
  <2>2. e[m.ref] # NoOrder
    BY <2>1, LimitOrderBookAssumption DEF Entries
  <2>3. BookOf(market', symbol) = IF r.qty < e[r.ref].qty THEN [e EXCEPT ![r.ref].qty = @ - r.qty]
                                  ELSE [e EXCEPT ![r.ref] = NoOrder]
    BY <1>2, <1>5, <1>6, <2>1
  <2>4. e[r.ref] # NoOrder /\ r.qty <= e[r.ref].qty
    BY <1>2, <1>5, <2>1, <2>2
  <2> QED BY ONLY <1>5, <2>3, <2>4 DEF Leads, Takes
<1> QED BY <1>1, <1>2, <1>3, <1>4, <1>5, <1>6

LEMMA DeleteRecorded ==
  ASSUME FeedInv, NEW m \in Feed!Deletes, Feed!SendDelete(m), NEW symbol
  PROVE  /\ FeedInv' /\ announced' = announced /\ m.locate \in announced
         /\ SymbolOf[m.locate] # symbol => BookOf(market', symbol) = BookOf(market, symbol)
         /\ SymbolOf[m.locate] = symbol =>
               /\ Benching!Recorded(m) \in RecordedOps
               /\ Leads(BookOf(market, symbol), Benching!Recorded(m), BookOf(market', symbol))
<1>1. PICK e : e = BookOf(market, symbol)
  OBVIOUS
<1>2. /\ FeedInv' /\ Feed!Rests(m) /\ announced' = announced
      /\ BookOf(market', symbol) = IF SymbolOf[m.locate] = symbol
                                   THEN [e EXCEPT ![m.ref] = NoOrder] ELSE e
  BY <1>1, SentDelete
<1>3. /\ m.ref \in Refs /\ market[m.ref] \in Listing /\ m.locate \in announced
      /\ e[m.ref] = IF SymbolOf[m.locate] = symbol THEN OrderOf(market[m.ref]) ELSE NoOrder
  BY <1>1, <1>2, NamesOrder
<1>4. PICK r : r = Benching!Recorded(m)
  OBVIOUS
<1>5. r \in RecordedOps /\ r.op = "Delete" /\ r.ref = m.ref
  <2>1. r = [op |-> "Delete", ref |-> m.ref]
    BY <1>4 DEF Benching!Recorded, Feed!Deletes
  <2> QED BY <1>3, <2>1 DEF RecordedOps
<1>6. ASSUME SymbolOf[m.locate] = symbol
      PROVE  Leads(e, r, BookOf(market', symbol))
  <2>1. e[m.ref] \in Entries
    BY <1>3, <1>6, ListedOrder
  <2>2. e[r.ref] # NoOrder
    BY <1>5, <2>1, LimitOrderBookAssumption DEF Entries
  <2>3. BookOf(market', symbol) = [e EXCEPT ![r.ref] = NoOrder]
    BY <1>2, <1>5, <1>6
  <2> QED BY ONLY <1>5, <2>2, <2>3 DEF Leads, Takes
<1> QED BY <1>1, <1>2, <1>3, <1>4, <1>5, <1>6

LEMMA ReplaceRecorded ==
  ASSUME FeedInv, NEW m \in Feed!Replaces, Feed!SendReplace(m), NEW symbol
  PROVE  /\ FeedInv' /\ announced' = announced /\ m.locate \in announced
         /\ SymbolOf[m.locate] # symbol => BookOf(market', symbol) = BookOf(market, symbol)
         /\ SymbolOf[m.locate] = symbol =>
               /\ Benching!Recorded(m) \in RecordedOps
               /\ Leads(BookOf(market, symbol), Benching!Recorded(m), BookOf(market', symbol))
<1>1. PICK e : e = BookOf(market, symbol)
  OBVIOUS
<1>2. PICK o : o = [e[m.ref] EXCEPT !.price = m.price, !.qty = m.shares]
  OBVIOUS
<1>3. /\ FeedInv' /\ Feed!Rests(m) /\ announced' = announced
      /\ m.new \in Refs /\ m.price \in FeedPrices /\ m.shares \in Nat \ {0}
      /\ m.new # m.ref /\ e[m.new] = NoOrder
      /\ BookOf(market', symbol) = IF SymbolOf[m.locate] = symbol
                                   THEN [e EXCEPT ![m.ref] = NoOrder, ![m.new] = o] ELSE e
  BY <1>1, <1>2, SentReplace
<1>4. /\ m.ref \in Refs /\ market[m.ref] \in Listing /\ m.locate \in announced
      /\ e[m.ref] = IF SymbolOf[m.locate] = symbol THEN OrderOf(market[m.ref]) ELSE NoOrder
  BY <1>1, <1>3, NamesOrder
<1>5. PICK r : r = Benching!Recorded(m)
  OBVIOUS
<1>6. /\ r \in RecordedOps /\ r.op = "Replace" /\ r.ref = m.ref /\ r.new = m.new
      /\ r.price = m.price /\ r.qty = m.shares
  <2>1. r = [op |-> "Replace", ref |-> m.ref, new |-> m.new, price |-> m.price, qty |-> m.shares]
    BY <1>5 DEF Benching!Recorded, Feed!Replaces
  <2> QED BY <1>3, <1>4, <2>1 DEF RecordedOps
<1>7. ASSUME SymbolOf[m.locate] = symbol
      PROVE  Leads(e, r, BookOf(market', symbol))
  <2>1. e[m.ref] \in Entries
    BY <1>4, <1>7, ListedOrder
  <2>2. e[r.ref] # NoOrder /\ r.qty > 0 /\ e[r.new] = NoOrder
    BY <1>3, <1>6, <2>1, LimitOrderBookAssumption DEF Entries
  <2>3. BookOf(market', symbol) = [e EXCEPT ![m.ref] = NoOrder, ![m.new] = o]
    BY <1>3, <1>7
  <2>4. BookOf(market', symbol) = [e EXCEPT ![r.ref] = NoOrder,
           ![r.new] = [e[r.ref] EXCEPT !.price = r.price, !.qty = r.qty]]
    BY ONLY <1>2, <1>6, <2>3, Zenon
  <2> QED BY ONLY <1>6, <2>2, <2>4, Zenon DEF Leads, Takes
<1> QED BY <1>1, <1>3, <1>4, <1>5, <1>6, <1>7

Workloads ==
    [symbol : Recordable \cup Symbols, locate : Locates \cup {0}, ops : Seq(RecordedOps)]

\* How far the passes are, over the books of a recording.
Passed(h, n) ==
    /\ pass = 0 => digests = {}
    /\ pass > 0 => <<entry, fifo>> = h[applied + 1] /\ digests \subseteq {h[n + 1]}

BenchInv ==
    /\ FeedInv
    /\ BookInv
    /\ aborted = FALSE
    /\ workload \in Workloads
    /\ resolved \in BOOLEAN
    /\ Settled(workload.symbol, workload.locate, resolved, announced)
    /\ pass \in Nat
    /\ applied \in 0 .. Len(workload.ops)
    /\ \E h : /\ Recording(h, workload.ops, BookOf(market, workload.symbol))
              /\ Passed(h, Len(workload.ops))

BenchKept == BenchInv' /\ (KeepsQueues \/ UNCHANGED bookVars)

LEMMA BenchStarts ==
  ASSUME Benching!Init
  PROVE  BenchInv
<1>1. /\ Feed!FeedInit /\ BookInit
      /\ workload \in [symbol : Recordable, locate : {0}, ops : {<<>>}]
      /\ resolved = FALSE /\ pass = 0 /\ applied = 0 /\ digests = {} /\ aborted = FALSE
  BY BenchingFeed, BenchingBook DEF Benching!Init
<1>2. FeedInv /\ DOMAIN market = {} /\ announced = {}
  BY <1>1, FeedStarts DEF Feed!FeedInit
<1>3. BookInv
  BY <1>1, BookStarts
<1>4. workload \in Workloads /\ workload.ops = <<>>
  <2>1. <<>> \in Seq(RecordedOps)
    BY EmptySeq
  <2> QED BY <1>1, <2>1 DEF Workloads
<1>5. Settled(workload.symbol, workload.locate, resolved, announced)
  BY <1>1, <1>2 DEF Settled
<1>6. PICK e : e = BookOf(market, workload.symbol)
  OBVIOUS
<1>7. e = [ref \in Refs |-> NoOrder]
  BY <1>2, <1>6 DEF BookOf
<1>8. PICK h : h = [i \in {1} |-> NoBook]
  OBVIOUS
<1>9. h[1] = NoBook /\ h[1][1] = e /\ h[1] = <<h[1][1], h[1][2]>>
  BY <1>7, <1>8 DEF NoBook
<1>10. Len(workload.ops) = 0
  BY <1>4
<1>11. Recording(h, workload.ops, e)
  BY ONLY <1>9, <1>10 DEF Recording
<1>12. Passed(h, Len(workload.ops))
  BY <1>1 DEF Passed
<1>13. Recording(h, workload.ops, BookOf(market, workload.symbol))
  BY ONLY <1>6, <1>11
<1>14. pass \in Nat /\ applied \in 0 .. Len(workload.ops) /\ resolved \in BOOLEAN
  <2>1. pass \in Nat /\ applied \in 0 .. Len(workload.ops)
    BY ONLY <1>1, <1>10
  <2>2. resolved \in BOOLEAN
    BY <1>1
  <2> QED BY <2>1, <2>2
<1> QED BY ONLY <1>1, <1>2, <1>3, <1>4, <1>5, <1>12, <1>13, <1>14 DEF BenchInv

\* A message that is not recorded.
LEMMA NothingRecorded ==
  ASSUME BenchInv, FeedInv', workload' = workload, resolved' = resolved,
         Settled(workload.symbol, workload.locate, resolved, announced'),
         BookOf(market', workload.symbol) = BookOf(market, workload.symbol),
         entry' = entry, fifo' = fifo, pass' = pass, applied' = applied, digests' = digests,
         aborted' = aborted
  PROVE  BenchKept
<1>1. BookInv'
  BY DEF BenchInv, BookInv, BookOK
<1>2. Settled(workload.symbol, workload.locate, resolved, announced)'
  BY DEF Settled
<1>3. PICK h : /\ Recording(h, workload.ops, BookOf(market, workload.symbol))
               /\ Passed(h, Len(workload.ops))
  BY DEF BenchInv
<1>4. PICK ops, e : ops = workload.ops /\ e = BookOf(market, workload.symbol)
  OBVIOUS
<1>5. workload'.ops = ops /\ BookOf(market', workload'.symbol) = e /\ Recording(h, ops, e)
  BY <1>3, <1>4
<1>6. Passed(h, Len(workload.ops))'
  BY <1>3 DEF Passed
<1> QED BY <1>1, <1>2, <1>5, <1>6 DEF BenchInv, BenchKept, bookVars

\* One that is.
LEMMA OneRecorded ==
  ASSUME BenchInv, FeedInv', announced' = announced, pass = 0, NEW o \in RecordedOps,
         Leads(BookOf(market, workload.symbol), o, BookOf(market', workload.symbol)),
         workload' = [workload EXCEPT !.ops = Append(@, o)], resolved' = resolved,
         entry' = entry, fifo' = fifo, pass' = pass, applied' = applied, digests' = digests,
         aborted' = aborted
  PROVE  BenchKept
<1>1. BookInv'
  BY DEF BenchInv, BookInv, BookOK
<1>2. workload \in Workloads /\ workload.ops \in Seq(RecordedOps)
  BY DEF BenchInv, Workloads
<1>3. PICK ops \in Seq(RecordedOps) : ops = workload.ops
  BY <1>2
<1>4. PICK q : q = Append(ops, o)
  OBVIOUS
<1>5. q \in Seq(RecordedOps) /\ Len(q) = Len(ops) + 1 /\ Len(ops) \in Nat
  BY <1>4, AppendProperties, LenProperties
<1>6. /\ workload' \in Workloads /\ workload'.ops = q
      /\ workload'.symbol = workload.symbol /\ workload'.locate = workload.locate
  BY <1>2, <1>3, <1>4, <1>5 DEF Workloads
<1>7. PICK h : Recording(h, ops, BookOf(market, workload.symbol))
  BY <1>3 DEF BenchInv
<1>8. PICK d : d = BookOf(market', workload.symbol)
  OBVIOUS
<1>9. PICK k : Recording(k, q, d)
  BY <1>4, <1>7, <1>8, RecordingGrows
<1>10. digests' = {}
  <2>1. pass = 0 => digests = {}
    BY DEF BenchInv, Passed
  <2> QED BY <2>1
<1>11. Passed(k, Len(workload.ops))'
  BY <1>10 DEF Passed
<1>12. Settled(workload.symbol, workload.locate, resolved, announced)'
  BY <1>6 DEF BenchInv, Settled
<1>13. applied' \in 0 .. Len(q)
  BY <1>3, <1>5 DEF BenchInv
<1>14. Recording(k, workload'.ops, BookOf(market', workload'.symbol))
  BY <1>6, <1>8, <1>9
<1> QED BY <1>1, <1>6, <1>11, <1>12, <1>13, <1>14 DEF BenchInv, BenchKept, bookVars

\* The Recorder hears a message.
LEMMA LoadKeeps ==
  ASSUME BenchInv, NEW m, Benching!Feed!SendNext(m), Benching!Load(m)
  PROVE  BenchKept
<1>1. PICK symbol : symbol = workload.symbol
  OBVIOUS
<1>2. PICK locate : locate = workload.locate
  OBVIOUS
<1>3. /\ FeedInv /\ Settled(symbol, locate, resolved, announced)
      /\ workload \in Workloads /\ resolved \in BOOLEAN
  BY <1>1, <1>2 DEF BenchInv
<1>4. /\ pass = 0 /\ entry' = entry /\ fifo' = fifo /\ pass' = pass /\ applied' = applied
      /\ digests' = digests /\ aborted' = aborted
  BY DEF Benching!Load, Benching!bookVars
<1>5. CASE m \in Feed!Directories /\ Feed!SendDirectory(m)
  <2>1. /\ FeedInv' /\ m.locate \in Locates /\ market' = market
        /\ announced' = announced \cup {m.locate}
    BY <1>3, <1>5, SentDirectory
  <2>2. Benching!OnStockDirectory(m)
    BY <1>5 DEF Feed!Directories, Benching!Load
  <2>3. CASE ~resolved /\ symbol \in {NoSymbol, SymbolOf[m.locate]}
    <3>1. /\ resolved' = TRUE
          /\ workload' = [workload EXCEPT !.symbol = SymbolOf[m.locate], !.locate = m.locate]
      BY <1>1, <2>2, <2>3 DEF Benching!OnStockDirectory, Benching!ResolvesTo
    <3>2. SymbolOf[m.locate] \in Symbols
      BY <2>1, FeedConstants
    <3>3. /\ workload' \in Workloads /\ workload'.symbol = SymbolOf[m.locate]
          /\ workload'.locate = m.locate /\ workload'.ops = workload.ops
      <4>1. PICK w : w = [workload EXCEPT !.symbol = SymbolOf[m.locate]]
        OBVIOUS
      <4>2. w \in Workloads /\ w.symbol = SymbolOf[m.locate] /\ w.ops = workload.ops
        BY <1>3, <3>2, <4>1 DEF Workloads
      <4>3. workload' = [w EXCEPT !.locate = m.locate]
        BY <3>1, <4>1
      <4> QED BY <2>1, <4>2, <4>3 DEF Workloads
    <3>4. /\ Settled(SymbolOf[m.locate], m.locate, TRUE, announced \cup {m.locate})
          /\ BookOf(market, SymbolOf[m.locate]) = BookOf(market, symbol)
      <4>1. resolved = FALSE
        BY <1>3, <2>3
      <4>2. Settled(symbol, locate, FALSE, announced)
        BY <1>3, <4>1
      <4> QED BY <1>3, <2>1, <2>3, <4>2, SettlesNow
    <3>5. Settled(workload.symbol, workload.locate, resolved, announced)'
      BY <2>1, <3>1, <3>3, <3>4 DEF Settled
    <3>6. PICK h : /\ Recording(h, workload.ops, BookOf(market, workload.symbol))
                   /\ Passed(h, Len(workload.ops))
      BY DEF BenchInv
    <3>7. BookOf(market', workload'.symbol) = BookOf(market, workload.symbol)
      BY <1>1, <2>1, <3>3, <3>4
    <3>8. Recording(h, workload'.ops, BookOf(market', workload'.symbol))
      BY <3>3, <3>6, <3>7
    <3>9. Passed(h, Len(workload.ops))'
      BY <1>4, <3>3, <3>6 DEF Passed
    <3>10. BookInv'
      BY <1>4 DEF BenchInv, BookInv, BookOK
    <3>11. applied' \in 0 .. Len(workload'.ops) /\ pass' \in Nat /\ aborted' = FALSE
      BY <1>4, <3>3 DEF BenchInv
    <3>12. resolved' \in BOOLEAN
      BY <3>1
    <3> QED BY <1>4, <2>1, <3>3, <3>5, <3>8, <3>9, <3>10, <3>11, <3>12 DEF BenchInv, BenchKept, bookVars
  <2>4. CASE ~ (~resolved /\ symbol \in {NoSymbol, SymbolOf[m.locate]})
    <3>1. workload' = workload /\ resolved' = resolved
      BY <1>1, <2>2, <2>4 DEF Benching!OnStockDirectory
    <3>2. Settled(symbol, locate, resolved, announced')
      BY <1>3, <2>1, <2>4, SettlesNothing
    <3> QED BY <1>1, <1>2, <1>4, <2>1, <3>1, <3>2, NothingRecorded
  <2> QED BY <2>3, <2>4
<1>6. CASE m \in Feed!Reports /\ Feed!SendReport(m)
  <2>1. FeedInv' /\ market' = market /\ announced' = announced
    BY <1>3, <1>6, SentReport
  <2>2. workload' = workload /\ resolved' = resolved
    BY <1>6 DEF Feed!Reports, Benching!Load
  <2> QED BY <1>1, <1>2, <1>3, <1>4, <2>1, <2>2, NothingRecorded
<1>7. ASSUME FeedInv', announced' = announced, m.locate \in announced,
             SymbolOf[m.locate] # symbol => BookOf(market', symbol) = BookOf(market, symbol),
             SymbolOf[m.locate] = symbol =>
                /\ Benching!Recorded(m) \in RecordedOps
                /\ Leads(BookOf(market, symbol), Benching!Recorded(m), BookOf(market', symbol)),
             m.kind \in {"A", "F", "E", "C", "X", "D", "U"}
      PROVE  BenchKept
  <2>1. Benching!Record(m)
    BY <1>7 DEF Benching!Load
  <2>2. Benching!Mine(m.locate) <=> SymbolOf[m.locate] = symbol
    BY <1>2, <1>3, <1>7, OwnLocate DEF Benching!Mine
  <2>3. CASE Benching!Mine(m.locate)
    <3>1. /\ resolved' = resolved
          /\ workload' = [workload EXCEPT !.ops = Append(@, Benching!Recorded(m))]
      BY <2>1, <2>3 DEF Benching!Record
    <3>2. PICK o \in RecordedOps : o = Benching!Recorded(m)
      BY <1>7, <2>2, <2>3
    <3>3. Leads(BookOf(market, workload.symbol), o, BookOf(market', workload.symbol))
      BY <1>1, <1>7, <2>2, <2>3, <3>2
    <3>4. workload' = [workload EXCEPT !.ops = Append(@, o)]
      BY <3>1, <3>2
    <3> QED BY <1>4, <1>7, <3>1, <3>3, <3>4, OneRecorded
  <2>4. CASE ~Benching!Mine(m.locate)
    <3>1. workload' = workload /\ resolved' = resolved
      BY <2>1, <2>4 DEF Benching!Record
    <3> QED BY <1>1, <1>2, <1>3, <1>4, <1>7, <2>2, <2>4, <3>1, NothingRecorded
  <2> QED BY <2>3, <2>4
<1>8. CASE m \in Feed!Adds /\ Feed!SendAdd(m)
  <2>1. m.kind \in {"A", "F", "E", "C", "X", "D", "U"}
    BY <1>8 DEF Feed!Adds
  <2> QED BY <1>3, <1>7, <1>8, <2>1, AddRecorded
<1>9. CASE m \in Feed!Reductions /\ Feed!SendReduction(m)
  <2>1. m.kind \in {"A", "F", "E", "C", "X", "D", "U"}
    BY <1>9 DEF Feed!Reductions
  <2> QED BY <1>3, <1>7, <1>9, <2>1, ReductionRecorded
<1>10. CASE m \in Feed!Deletes /\ Feed!SendDelete(m)
  <2>1. m.kind \in {"A", "F", "E", "C", "X", "D", "U"}
    BY <1>10 DEF Feed!Deletes
  <2> QED BY <1>3, <1>7, <1>10, <2>1, DeleteRecorded
<1>11. CASE m \in Feed!Replaces /\ Feed!SendReplace(m)
  <2>1. m.kind \in {"A", "F", "E", "C", "X", "D", "U"}
    BY <1>11 DEF Feed!Replaces
  <2> QED BY <1>3, <1>7, <1>11, <2>1, ReplaceRecorded
<1> QED BY <1>5, <1>6, <1>8, <1>9, <1>10, <1>11, BenchingFeed

LEMMA BookStartsAgain == BookInit' => BookInv'
<1>1. BookInit => BookInv
  BY BookStarts
<1> QED BY <1>1, PTL

\* A pass begins, with a fresh book.
LEMMA BeginKeeps ==
  ASSUME BenchInv, Benching!Begin
  PROVE  BenchKept
<1>1. /\ pass = 0 \/ applied = Len(workload.ops)
      /\ pass' = pass + 1 /\ applied' = 0
      /\ digests' = IF pass = 0 THEN {} ELSE digests \cup {<<entry, fifo>>}
      /\ entry' = [ref \in Refs |-> NoOrder]
      /\ fifo' = [side \in Sides |-> [p \in Prices |-> <<>>]]
      /\ market' = market /\ announced' = announced /\ issued' = issued
      /\ workload' = workload /\ resolved' = resolved /\ aborted' = aborted
  BY DEF Benching!Begin, Benching!feedVars, Benching!Sides, Sides
<1>2. BookInit'
  BY <1>1 DEF BookInit
<1>3. BookInv'
  BY <1>2, BookStartsAgain
<1>4. KeepsQueues
  <2>1. ASSUME NEW side \in Sides, NEW p \in Prices PROVE fifo'[side][p] = <<>>
    BY <1>1
  <2> QED BY <2>1 DEF KeepsQueues
<1>5. PICK n \in Nat : n = Len(workload.ops)
  <2>1. workload.ops \in Seq(RecordedOps)
    BY DEF BenchInv, Workloads
  <2> QED BY <2>1, LenProperties
<1>6. PICK h : Recording(h, workload.ops, BookOf(market, workload.symbol)) /\ Passed(h, n)
  BY <1>5 DEF BenchInv
<1>7. pass \in Nat /\ pass' \in Nat /\ pass' > 0
  BY <1>1 DEF BenchInv
<1>8. <<entry', fifo'>> = h[applied' + 1]
  BY <1>1, <1>6 DEF Recording, NoBook
<1>9. digests' \subseteq {h[n + 1]}
  <2>1. CASE pass = 0
    BY <1>1, <2>1
  <2>2. CASE pass > 0
    <3>1. applied = n /\ <<entry, fifo>> = h[applied + 1] /\ digests \subseteq {h[n + 1]}
      BY <1>1, <1>5, <1>6, <2>2 DEF Passed
    <3>2. digests' = digests \cup {<<entry, fifo>>}
      BY <1>1, <2>2
    <3> QED BY <3>1, <3>2
  <2> QED BY <1>7, <2>1, <2>2
<1>10. Passed(h, n)'
  BY <1>7, <1>8, <1>9 DEF Passed
<1>11. FeedInv'
  BY <1>1 DEF BenchInv, FeedInv
<1>12. applied' \in 0 .. Len(workload'.ops)
  BY <1>1, <1>5
<1>13. Recording(h, workload'.ops, BookOf(market', workload'.symbol))
  BY <1>1, <1>6
<1>14. Settled(workload.symbol, workload.locate, resolved, announced)'
  BY <1>1 DEF BenchInv, Settled
<1>15. Passed(h, Len(workload.ops))'
  BY <1>1, <1>5, <1>10
<1> QED BY <1>1, <1>3, <1>4, <1>7, <1>11, <1>12, <1>13, <1>14, <1>15 DEF BenchInv, BenchKept

\* An operation of the pass.
LEMMA ApplyKeeps ==
  ASSUME BenchInv, Benching!ApplyNext
  PROVE  BenchKept
<1>1. PICK o : o = workload.ops[applied + 1]
  OBVIOUS
<1>2. /\ pass > 0 /\ applied < Len(workload.ops) /\ applied' = applied + 1
      /\ aborted' = ~Benching!Accepted(o)
      /\ Benching!Accepted(o) => Benching!Apply(o)
      /\ market' = market /\ announced' = announced /\ issued' = issued
      /\ workload' = workload /\ resolved' = resolved
      /\ pass' = pass /\ digests' = digests
  BY <1>1 DEF Benching!ApplyNext, Benching!feedVars
<1>3. PICK ops \in Seq(RecordedOps) : ops = workload.ops
  BY DEF BenchInv, Workloads
<1>4. PICK n \in Nat : n = Len(ops)
  BY LenProperties
<1>5. PICK h : Recording(h, ops, BookOf(market, workload.symbol)) /\ Passed(h, n)
  BY <1>3, <1>4 DEF BenchInv
<1>6. PICK i \in 1 .. n : i = applied + 1
  BY <1>2, <1>3, <1>4 DEF BenchInv
<1>7. o = ops[i] /\ o \in RecordedOps
  BY <1>1, <1>3, <1>4, <1>6, ElementOfSeq
<1>8. PICK d, g : d = h[i + 1][1] /\ g = h[i + 1][2]
  OBVIOUS
<1>9. /\ Takes(h[i][1], h[i][2], o, d, g)
      /\ h[i + 1] = <<d, g>>
  BY <1>4, <1>5, <1>7, <1>8 DEF Recording
<1>10. <<entry, fifo>> = h[i] /\ digests \subseteq {h[n + 1]}
  BY <1>2, <1>5, <1>6 DEF Passed
<1>11. h[i][1] = entry /\ h[i][2] = fifo
  BY ONLY <1>10
<1>12. Takes(entry, fifo, o, d, g)
  BY <1>9, <1>11
<1>13. Benching!Accepted(o) /\ entry' = d /\ fifo' = g /\ BookInv' /\ KeepsQueues
  <2>1. /\ Benching!Accepted(o)
        /\ Benching!Apply(o) => entry' = d /\ fifo' = g /\ BookInv' /\ KeepsQueues
    BY <1>7, <1>12, OperationApplied DEF BenchInv
  <2> QED BY <1>2, <2>1
<1>14. aborted' = FALSE
  BY <1>2, <1>13
<1>15. Passed(h, n)'
  BY <1>2, <1>6, <1>9, <1>10, <1>13 DEF Passed
<1>16. FeedInv'
  BY <1>2 DEF BenchInv, FeedInv
<1>17. applied' \in 0 .. Len(workload'.ops)
  BY <1>2, <1>3, <1>4, <1>6
<1>18. Recording(h, workload'.ops, BookOf(market', workload'.symbol))
  BY <1>2, <1>3, <1>5
<1>19. Settled(workload.symbol, workload.locate, resolved, announced)'
  BY <1>2 DEF BenchInv, Settled
<1>20. Passed(h, Len(workload.ops))'
  BY <1>2, <1>3, <1>4, <1>15
<1>21. workload' \in Workloads /\ resolved' \in BOOLEAN /\ pass' \in Nat
  BY <1>2 DEF BenchInv
<1> QED BY <1>13, <1>14, <1>16, <1>17, <1>18, <1>19, <1>20, <1>21 DEF BenchInv, BenchKept

LEMMA BenchKeeps ==
  ASSUME BenchInv, Benching!Next
  PROVE  BenchKept
BY LoadKeeps, BeginKeeps, ApplyKeeps DEF Benching!Next

LEMMA BenchingCardinality == \A S : Benching!Cardinality(S) = Cardinality(S)
BY Zenon DEF Benching!Cardinality, Cardinality

LEMMA BenchSound ==
  ASSUME BenchInv
  PROVE  Benching!RebuildsTheMarket /\ QueuedExactlyOnce
<1>1. PICK n \in Nat : n = Len(workload.ops)
  <2>1. workload.ops \in Seq(RecordedOps)
    BY DEF BenchInv, Workloads
  <2> QED BY <2>1, LenProperties
<1>2. PICK h : Recording(h, workload.ops, BookOf(market, workload.symbol)) /\ Passed(h, n)
  BY <1>1 DEF BenchInv
<1>3. Benching!Market = BookOf(market, workload.symbol)
  BY DEF Benching!Market, BookOf, OrderOf
<1>4. h[n + 1][1] = BookOf(market, workload.symbol)
  BY <1>1, <1>2 DEF Recording
<1>5. ASSUME pass > 0, applied = n
      PROVE  <<entry, fifo>> = h[n + 1] /\ entry = Benching!Market
  <2>1. <<entry, fifo>> = h[n + 1]
    BY <1>2, <1>5 DEF Passed
  <2>2. entry = h[n + 1][1]
    BY ONLY <2>1
  <2> QED BY <1>3, <1>4, <2>1, <2>2
<1>6. digests \subseteq {h[n + 1]}
  BY <1>2 DEF Passed, BenchInv
<1>7. Cardinality(digests) <= 1
  <2>1. PICK b : b = h[n + 1]
    OBVIOUS
  <2>2. digests = {} \/ digests = {b}
    BY <1>6, <2>1
  <2>3. Cardinality({}) = 0 /\ Cardinality({b}) = 1
    BY FS_EmptySet, FS_Singleton
  <2> QED BY ONLY <2>2, <2>3
<1>8. Benching!Rebuilt
  BY <1>1, <1>5 DEF Benching!Rebuilt, BenchInv
<1>9. Benching!DigestsAgree
  BY <1>1, <1>5, <1>6, <1>7, BenchingCardinality DEF Benching!DigestsAgree
<1> QED BY <1>8, <1>9, BookInvStated DEF Benching!RebuildsTheMarket, BenchInv

------------------------------------------------------------------------------
(* itch_histogram.  Its book is this one too.                              *)

LEMMA MeasuringBook ==
  /\ \A ref, side, p, qty, owner :
        Measuring!Add(ref, side, p, qty, owner) <=> Add(ref, side, p, qty, owner)
  /\ \A ref, shares : Measuring!Reduce(ref, shares) <=> Reduce(ref, shares)
  /\ \A ref : Measuring!Remove(ref) <=> Remove(ref)
  /\ \A old, new, p, qty : Measuring!Replace(old, new, p, qty) <=> Replace(old, new, p, qty)
  /\ Measuring!BookInit <=> BookInit
<1>1. \A ref : Measuring!Withdrawn(ref) = Withdrawn(ref)
  BY DEF Measuring!Withdrawn, Withdrawn, Measuring!ClosedUp, ClosedUp, Measuring!PlaceOf, PlaceOf
<1>2. \A ref, side, p, qty, owner :
        Measuring!Add(ref, side, p, qty, owner) <=> Add(ref, side, p, qty, owner)
  BY DEF Measuring!Add, Add
<1>3. \A ref, shares : Measuring!Reduce(ref, shares) <=> Reduce(ref, shares)
  BY <1>1 DEF Measuring!Reduce, Reduce
<1>4. \A ref : Measuring!Remove(ref) <=> Remove(ref)
  BY <1>1 DEF Measuring!Remove, Remove
<1>5. \A old, new, p, qty : Measuring!Replace(old, new, p, qty) <=> Replace(old, new, p, qty)
  BY <1>1 DEF Measuring!Replace, Replace
<1>6. Measuring!BookInit <=> BookInit
  BY DEF Measuring!BookInit, BookInit, Measuring!Sides, Sides
<1> QED BY <1>2, <1>3, <1>4, <1>5, <1>6

LEMMA MeasuringInside == \A side, S : Measuring!Inside(side, S) = Inside(side, S)
BY DEF Measuring!Inside, Inside, Measuring!Highest, Highest, Measuring!Lowest, Lowest

\* What the collector asks of the book.
MeasuredAlike ==
    /\ Measuring!Resting = Resting
    /\ Measuring!Cardinality(Measuring!Resting) = Cardinality(Resting)
    /\ Measuring!Cardinality(Measuring!LevelPrices("Buy"))
         + Measuring!Cardinality(Measuring!LevelPrices("Sell")) = LevelCount
    /\ Measuring!EmptySide("Buy") <=> EmptySide("Buy")
    /\ Measuring!BestPrice("Buy") = BestPrice("Buy")

LEMMA SameAnswers == MeasuredAlike
<1>1. \A S : Measuring!Cardinality(S) = Cardinality(S)
  BY Zenon DEF Measuring!Cardinality, Cardinality
<1>2. Measuring!Resting = Resting
  BY DEF Measuring!Resting, Resting
<1>3. \A side : Measuring!LevelPrices(side) = LevelPrices(side)
  BY DEF Measuring!LevelPrices, LevelPrices
<1>4. \A side : Measuring!EmptySide(side) <=> EmptySide(side)
  BY <1>3 DEF Measuring!EmptySide, EmptySide
<1>5. Measuring!BestPrice("Buy") = BestPrice("Buy")
  BY <1>3, <1>4, MeasuringInside DEF Measuring!BestPrice, BestPrice, Measuring!kNoPrice, kNoPrice
<1>6. /\ Measuring!Cardinality(Measuring!Resting) = Cardinality(Resting)
      /\ Measuring!Cardinality(Measuring!LevelPrices("Buy")) = Cardinality(LevelPrices("Buy"))
      /\ Measuring!Cardinality(Measuring!LevelPrices("Sell")) = Cardinality(LevelPrices("Sell"))
  BY <1>1, <1>2, <1>3
<1>7. Measuring!EmptySide("Buy") <=> EmptySide("Buy")
  BY <1>4
<1> QED BY <1>2, <1>5, <1>6, <1>7 DEF MeasuredAlike, LevelCount

\* The best bid is the price of an order.
BidIsAnOrders ==
    /\ ~EmptySide("Buy") => \E r \in Resting : entry[r].price = BestPrice("Buy")
    /\ BestPrice("Buy") \in Nat

LEMMA BestBidRests ==
  ASSUME BookInv
  PROVE  BidIsAnOrders
<1>1. LevelPrices("Buy") \subseteq Prices /\ "Buy" \in Sides
  BY DEF LevelPrices, Sides
<1>2. PICK bound \in Nat : \A p \in Prices : p <= bound
  BY LimitOrderBookAssumption, FiniteIsBounded
<1>3. CASE ~EmptySide("Buy")
  <2>1. PICK b : b = BestPrice("Buy")
    OBVIOUS
  <2>2. b \in LevelPrices("Buy")
    <3>1. LevelPrices("Buy") \in SUBSET Nat /\ LevelPrices("Buy") # {}
      BY <1>1, <1>3, LimitOrderBookAssumption DEF EmptySide
    <3>2. \A p \in LevelPrices("Buy") : p <= bound
      BY <1>1, <1>2
    <3>3. b = Inside("Buy", LevelPrices("Buy"))
      BY <1>3, <2>1 DEF BestPrice
    <3> QED BY <1>1, <3>1, <3>2, <3>3, InsideChosen
  <2>3. b \in Prices /\ fifo["Buy"][b] # <<>> /\ fifo["Buy"][b] \in Seq(Refs)
    BY <1>1, <2>2 DEF LevelPrices, BookInv, BookOK
  <2>4. fifo["Buy"][b][1] \in Range(fifo["Buy"][b]) /\ fifo["Buy"][b][1] \in Refs
    BY <2>3 DEF Range
  <2>5. entry[fifo["Buy"][b][1]] # NoOrder /\ entry[fifo["Buy"][b][1]].price = b
    BY <1>1, <2>3, <2>4 DEF BookInv, BookOK
  <2>6. b \in Nat
    BY <2>3, LimitOrderBookAssumption
  <2> QED BY <2>1, <2>4, <2>5, <2>6 DEF Resting, BidIsAnOrders
<1>4. CASE EmptySide("Buy")
  BY <1>4 DEF BestPrice, kNoPrice, BidIsAnOrders
<1> QED BY <1>3, <1>4

\* All that a collector may count on in front of a book.
Measurable ==
    /\ MeasuredAlike
    /\ BidIsAnOrders
    /\ Cardinality(Resting) \in Nat
    /\ LevelCount \in Nat
    /\ LevelCount <= Cardinality(Resting)

LEMMA BookMeasurable ==
  (BookInv /\ IsFiniteSet(Resting)) => Measurable
<1> SUFFICES ASSUME BookInv, IsFiniteSet(Resting) PROVE Measurable
  OBVIOUS
<1> QED BY SameAnswers, BestBidRests, LevelsAreOrders DEF Measurable

LEMMA BookStaysMeasurable ==
  (BookInv' /\ IsFiniteSet(Resting)') => Measurable'
<1>1. (BookInv /\ IsFiniteSet(Resting)) => Measurable
  BY BookMeasurable
<1> QED BY <1>1, PTL

------------------------------------------------------------------------------
(* The collector.                                                          *)

HistogramFields ==
    {"adds", "measured", "improving", "no_inside", "beyond", "sub_penny", "max_distance",
     "peak_levels", "peak_orders", "peak_qty", "samples", "crossed", "min_price",
     "max_price", "min_bid", "max_bid", "distance"}

Distances == 0 .. kMaxTracked - 1

CollectorOK(c) ==
    /\ DOMAIN c = HistogramFields
    /\ c.adds \in Nat /\ c.measured \in Nat /\ c.no_inside \in Nat /\ c.beyond \in Nat
    /\ c.max_distance \in Nat
    /\ c.peak_levels \in Nat /\ c.peak_orders \in Nat /\ c.peak_qty \in Nat
    /\ c.min_price \in Nat /\ c.max_price \in Nat
    /\ c.min_bid \in Nat /\ c.max_bid \in Nat
    /\ c.distance \in [Distances -> Nat]

\* The table: what is measured is in it or beyond it, and the largest distance
\* is the last that it holds.
TableOK(c) ==
    /\ c.measured = SumFunctionOnSet(c.distance, Distances) + c.beyond
    /\ c.measured = 0 => c.max_distance = 0
    /\ \A i \in Distances : i > c.max_distance => c.distance[i] = 0
    /\ c.max_distance < kMaxTracked /\ c.measured > 0 => c.distance[c.max_distance] > 0
    /\ c.beyond > 0 <=> c.max_distance >= kMaxTracked

\* The ranges: of bids within that of prices.
BidsWithin(c) ==
    /\ c.min_bid = 0 => c.max_bid = 0
    /\ c.min_bid # 0 =>
          /\ c.min_price # 0
          /\ c.min_price <= c.min_bid /\ c.min_bid <= c.max_price
          /\ c.min_price <= c.max_bid /\ c.max_bid <= c.max_price

\* An order is within the range of prices and the largest size.
Within(c, o) ==
    /\ c.min_price # 0
    /\ c.min_price <= o.price /\ o.price <= c.max_price
    /\ o.qty <= c.peak_qty

LEMMA HistogramConstants ==
  /\ kPennyUnits \in Nat /\ kPennyUnits > 0
  /\ kMaxTracked \in Nat /\ kMaxTracked > 0
  /\ 0 \notin Prices
  /\ Prices \subseteq Nat
  /\ Quantities \subseteq Nat
BY FeedProgramsAssumption, LimitOrderBookAssumption DEF Measuring!HistogramAssumption

LEMMA LargerIs ==
  ASSUME NEW a \in Nat, NEW b \in Nat
  PROVE  /\ Measuring!Larger(a, b) \in Nat
         /\ a <= Measuring!Larger(a, b) /\ b <= Measuring!Larger(a, b)
         /\ Measuring!Larger(a, b) = a \/ Measuring!Larger(a, b) = b
BY DEF Measuring!Larger

LEMMA LeastSeenIs ==
  ASSUME NEW least \in Nat, NEW x \in Nat, x # 0
  PROVE  /\ Measuring!LeastSeen(least, x) \in Nat
         /\ Measuring!LeastSeen(least, x) # 0
         /\ Measuring!LeastSeen(least, x) <= x
         /\ least # 0 => Measuring!LeastSeen(least, x) <= least
         /\ Measuring!LeastSeen(least, x) = least \/ Measuring!LeastSeen(least, x) = x
BY DEF Measuring!LeastSeen

LEMMA TicksAreIntegers ==
  ASSUME NEW side, NEW best \in Nat, NEW price \in Nat
  PROVE  Measuring!Ticks(side, best, price) \in Int
<1>1. PICK raw : raw = IF side = "Buy" THEN best - price ELSE price - best
  OBVIOUS
<1>2. PICK k \in Nat : k = kPennyUnits /\ k > 0
  BY HistogramConstants
<1>3. \A n \in Nat : n \div k \in Int
  BY <1>2
<1>0. raw \in Int
  BY <1>1
<1>4. CASE raw < 0
  <2>1. -raw \in Nat
    BY <1>0, <1>4
  <2>2. (-raw) \div k \in Int
    BY <1>3, <2>1
  <2>3. Measuring!Ticks(side, best, price) = -((-raw) \div k)
    BY <1>1, <1>2, <1>4 DEF Measuring!Ticks
  <2> QED BY <2>2, <2>3
<1>5. CASE ~ (raw < 0)
  <2>1. raw \div k \in Int
    BY <1>0, <1>3, <1>5
  <2>2. Measuring!Ticks(side, best, price) = raw \div k
    BY <1>1, <1>2, <1>5 DEF Measuring!Ticks
  <2> QED BY <2>1, <2>2
<1> QED BY <1>4, <1>5

\* What measuring an order changes.
MeasuredAs(c, d, mag) ==
    /\ DOMAIN d = HistogramFields
    /\ d.adds = c.adds /\ d.no_inside = c.no_inside
    /\ d.peak_levels = c.peak_levels /\ d.peak_orders = c.peak_orders
    /\ d.peak_qty = c.peak_qty
    /\ d.min_price = c.min_price /\ d.max_price = c.max_price
    /\ d.min_bid = c.min_bid /\ d.max_bid = c.max_bid
    /\ d.measured = c.measured + 1
    /\ d.max_distance = Measuring!Larger(c.max_distance, mag)
    /\ mag >= kMaxTracked => d.beyond = c.beyond + 1 /\ d.distance = c.distance
    /\ mag < kMaxTracked =>
          /\ d.beyond = c.beyond
          /\ d.distance = [c.distance EXCEPT ![mag] = @ + 1]

LEMMA MeasuredFields ==
  ASSUME NEW c, CollectorOK(c), NEW ticks \in Int, NEW d, d = Measuring!Measured(c, ticks),
         NEW mag, mag = Measuring!Magnitude(ticks)
  PROVE  MeasuredAs(c, d, mag)
<1>1. mag \in Nat
  BY DEF Measuring!Magnitude
<1>2. PICK m : m = c.measured + 1
  OBVIOUS
<1>3. PICK i : i = IF ticks < 0 THEN c.improving + 1 ELSE c.improving
  OBVIOUS
<1>4. PICK x : x = Measuring!Larger(c.max_distance, mag)
  OBVIOUS
<1>5. PICK b : b = IF mag >= kMaxTracked THEN c.beyond + 1 ELSE c.beyond
  OBVIOUS
<1>6. PICK t : t = IF mag < kMaxTracked THEN Measuring!OneMore(c.distance, mag) ELSE c.distance
  OBVIOUS
<1>7. d = [c EXCEPT !.measured = m, !.improving = i, !.max_distance = x, !.beyond = b,
                    !.distance = t]
  BY <1>2, <1>3, <1>4, <1>5, <1>6, Zenon DEF Measuring!Measured
<1>8. DOMAIN c = HistogramFields
  BY DEF CollectorOK
<1>9. /\ DOMAIN d = HistogramFields
      /\ d.adds = c.adds /\ d.no_inside = c.no_inside
      /\ d.peak_levels = c.peak_levels /\ d.peak_orders = c.peak_orders
      /\ d.peak_qty = c.peak_qty
      /\ d.min_price = c.min_price /\ d.max_price = c.max_price
      /\ d.min_bid = c.min_bid /\ d.max_bid = c.max_bid
      /\ d.measured = m /\ d.max_distance = x /\ d.beyond = b /\ d.distance = t
  BY ONLY <1>7, <1>8 DEF HistogramFields
<1>10. mag >= kMaxTracked => b = c.beyond + 1 /\ t = c.distance
  BY <1>1, <1>5, <1>6, HistogramConstants
<1>11. mag < kMaxTracked =>
          b = c.beyond /\ t = [c.distance EXCEPT ![mag] = c.distance[mag] + 1]
  BY <1>1, <1>5, <1>6, HistogramConstants DEF Measuring!OneMore
<1> QED BY <1>1, <1>2, <1>4, <1>9, <1>10, <1>11, Zenon DEF MeasuredAs

LEMMA DistancesFinite == IsFiniteSet(Distances)
BY HistogramConstants, FS_Interval DEF Distances

\* An order more in the table, or beyond it.
LEMMA TableGrows ==
  ASSUME NEW c, CollectorOK(c), TableOK(c), NEW ticks \in Int,
         NEW d, d = Measuring!Measured(c, ticks)
  PROVE  CollectorOK(d) /\ TableOK(d)
<1>1. PICK mag \in Nat : mag = Measuring!Magnitude(ticks)
  BY DEF Measuring!Magnitude
<1>2. /\ DOMAIN d = HistogramFields
      /\ d.adds = c.adds /\ d.no_inside = c.no_inside
      /\ d.peak_levels = c.peak_levels /\ d.peak_orders = c.peak_orders
      /\ d.peak_qty = c.peak_qty
      /\ d.min_price = c.min_price /\ d.max_price = c.max_price
      /\ d.min_bid = c.min_bid /\ d.max_bid = c.max_bid
      /\ d.measured = c.measured + 1
      /\ d.max_distance = Measuring!Larger(c.max_distance, mag)
      /\ mag >= kMaxTracked => d.beyond = c.beyond + 1 /\ d.distance = c.distance
      /\ mag < kMaxTracked =>
            /\ d.beyond = c.beyond
            /\ d.distance = [c.distance EXCEPT ![mag] = @ + 1]
  <2>1. MeasuredAs(c, d, mag)
    BY <1>1, MeasuredFields
  <2> QED BY <2>1, Zenon DEF MeasuredAs
<1>3. PICK k \in Nat : k = kMaxTracked /\ k > 0
  BY HistogramConstants
<1>4. PICK old \in Nat : old = c.max_distance
  BY DEF CollectorOK
<1>5. PICK new \in Nat : /\ new = Measuring!Larger(old, mag)
                         /\ old <= new /\ mag <= new /\ (new = old \/ new = mag)
  BY <1>4, LargerIs
<1>6. /\ c.measured \in Nat /\ c.beyond \in Nat
      /\ c.distance \in [Distances -> Nat]
      /\ SumFunctionOnSet(c.distance, Distances) \in Nat
  <2>1. c.distance \in [Distances -> Nat]
    BY DEF CollectorOK
  <2> QED BY <2>1, DistancesFinite, SumOfNaturals DEF CollectorOK
<1>7. d.max_distance = new
  BY <1>2, <1>4, <1>5
<1>8. CASE mag >= k
  <2>1. d.beyond = c.beyond + 1 /\ d.distance = c.distance
    BY <1>2, <1>3, <1>8
  <2>2. CollectorOK(d)
    BY <1>2, <1>6, <1>7, <2>1 DEF CollectorOK
  <2>3. d.measured = SumFunctionOnSet(d.distance, Distances) + d.beyond /\ d.measured # 0
    BY <1>2, <1>6, <2>1 DEF TableOK
  <2>4. new >= k /\ d.beyond > 0
    BY <1>5, <1>6, <1>8, <2>1
  <2>5. \A i \in Distances : i > new => FALSE
    BY <1>3, <2>4 DEF Distances
  <2>6. ~ (new < k)
    BY <2>4
  <2> QED BY <1>3, <1>7, <2>2, <2>3, <2>4, <2>5, <2>6 DEF TableOK
<1>9. CASE ~ (mag >= k)
  <2>1. mag \in Distances /\ mag < k
    BY <1>3, <1>9 DEF Distances
  <2>2. d.beyond = c.beyond /\ d.distance = [c.distance EXCEPT ![mag] = @ + 1]
    BY <1>2, <1>3, <2>1
  <2>3. /\ d.distance \in [Distances -> Nat]
        /\ d.distance[mag] = c.distance[mag] + 1
        /\ \A i \in Distances \ {mag} : d.distance[i] = c.distance[i]
    BY <1>6, <2>1, <2>2
  <2>4. CollectorOK(d)
    BY <1>2, <1>6, <1>7, <2>2, <2>3 DEF CollectorOK
  <2>5. SumFunctionOnSet(d.distance, Distances) = SumFunctionOnSet(c.distance, Distances) + 1
    <3>1. PICK f \in [Distances -> Nat] : f = c.distance
      BY <1>6
    <3>2. PICK g \in [Distances -> Nat] : g = d.distance
      BY <2>3
    <3>3. \A i \in Distances : f[i] \in Int /\ g[i] \in Int
      BY <3>1, <3>2
    <3>4. \A i \in Distances \ {mag} : f[i] = g[i]
      BY <2>3, <3>1, <3>2
    <3>5. SumFunctionOnSet(g, Distances) = SumFunctionOnSet(f, Distances) - f[mag] + g[mag]
      <4>1. PICK x : x = mag
        OBVIOUS
      <4>2. x \in Distances /\ \A i \in Distances \ {x} : f[i] = g[i]
        BY <2>1, <3>4, <4>1
      <4>3. SumFunctionOnSet(g, Distances) = SumFunctionOnSet(f, Distances) - f[x] + g[x]
        BY ONLY <3>3, <4>2, DistancesFinite, SumChanges
      <4> QED BY <4>1, <4>3
    <3>6. g[mag] = f[mag] + 1 /\ f[mag] \in Nat /\ SumFunctionOnSet(f, Distances) \in Nat
      BY <1>6, <2>1, <2>3, <3>1, <3>2
    <3> QED BY <3>1, <3>2, <3>5, <3>6
  <2>6. d.measured = SumFunctionOnSet(d.distance, Distances) + d.beyond /\ d.measured # 0
    BY <1>2, <1>6, <2>2, <2>5 DEF TableOK
  <2>7. ASSUME NEW i \in Distances, i > new PROVE d.distance[i] = 0
    <3>1. i > old /\ i # mag
      BY <1>5, <2>7 DEF Distances
    <3> QED BY <1>4, <2>3, <3>1 DEF TableOK
  <2>8. ASSUME new < k PROVE d.distance[new] > 0
    <3>1. CASE new = mag
      BY <1>6, <2>1, <2>3, <3>1
    <3>2. CASE new # mag
      <4>1. new = old /\ old > 0 /\ old < k /\ old \in Distances
        BY <1>3, <1>5, <2>8, <3>2 DEF Distances
      <4>2. c.measured > 0
        BY <1>4, <1>6, <4>1 DEF TableOK
      <4>3. c.distance[old] > 0
        BY <1>3, <1>4, <4>1, <4>2 DEF TableOK
      <4> QED BY <2>3, <3>2, <4>1, <4>3
    <3> QED BY <3>1, <3>2
  <2>9. d.beyond > 0 <=> new >= k
    <3>1. new >= k <=> old >= k
      BY <1>5, <2>1
    <3>2. c.beyond > 0 <=> old >= k
      BY <1>3, <1>4 DEF TableOK
    <3> QED BY <2>2, <3>1, <3>2
  <2> QED BY <1>3, <1>7, <2>4, <2>6, <2>7, <2>8, <2>9 DEF TableOK
<1> QED BY <1>8, <1>9

\* What a collector may count on, but for the book.
Collected(c) ==
    /\ CollectorOK(c)
    /\ TableOK(c)
    /\ c.adds = c.measured + c.no_inside
    /\ BidsWithin(c)
    /\ c.peak_levels <= c.peak_orders /\ c.peak_orders <= c.adds

\* What before_add() counts whatever the book: the order, its price and size.
CountedAs(c, d, price, qty) ==
    /\ CollectorOK(d) /\ TableOK(d) /\ BidsWithin(d)
    /\ d.adds = c.adds + 1 /\ d.measured = c.measured /\ d.no_inside = c.no_inside
    /\ d.peak_levels = c.peak_levels /\ d.peak_orders = c.peak_orders
    /\ c.min_price # 0 => d.min_price <= c.min_price
    /\ c.max_price <= d.max_price /\ c.peak_qty <= d.peak_qty
    /\ d.min_price # 0 /\ d.min_price <= price /\ price <= d.max_price
    /\ qty <= d.peak_qty

LEMMA OrderCounted ==
  ASSUME NEW c, Collected(c), NEW price \in Nat, price # 0, NEW qty \in Nat,
         NEW a, a = c.adds + 1, NEW q, q = Measuring!Larger(c.peak_qty, qty), NEW s,
         NEW l, l = Measuring!LeastSeen(c.min_price, price),
         NEW h, h = Measuring!Larger(c.max_price, price),
         NEW d, d = [c EXCEPT !.adds = a, !.peak_qty = q, !.sub_penny = s, !.min_price = l,
                              !.max_price = h]
  PROVE  CountedAs(c, d, price, qty)
<1>1. CollectorOK(c)
  BY DEF Collected
<1>2. a \in Nat
  BY <1>1 DEF CollectorOK
<1>3. q \in Nat /\ c.peak_qty <= q /\ qty <= q
  BY <1>1, LargerIs DEF CollectorOK
<1>4. l \in Nat /\ l # 0 /\ l <= price /\ (c.min_price # 0 => l <= c.min_price)
  BY <1>1, LeastSeenIs DEF CollectorOK
<1>5. h \in Nat /\ c.max_price <= h /\ price <= h
  BY <1>1, LargerIs DEF CollectorOK
<1>6. d = [c EXCEPT !.adds = a, !.peak_qty = q, !.sub_penny = s, !.min_price = l, !.max_price = h]
  OBVIOUS
<1>7. DOMAIN c = HistogramFields
  BY <1>1 DEF CollectorOK
<1>8. /\ DOMAIN d = HistogramFields
      /\ d.adds = a /\ d.peak_qty = q /\ d.min_price = l /\ d.max_price = h
      /\ d.measured = c.measured /\ d.no_inside = c.no_inside /\ d.beyond = c.beyond
      /\ d.max_distance = c.max_distance /\ d.distance = c.distance
      /\ d.peak_levels = c.peak_levels /\ d.peak_orders = c.peak_orders
      /\ d.min_bid = c.min_bid /\ d.max_bid = c.max_bid
  BY ONLY <1>6, <1>7 DEF HistogramFields
<1>9. CollectorOK(d)
  BY <1>1, <1>2, <1>3, <1>4, <1>5, <1>8 DEF CollectorOK
<1>10. TableOK(d)
  BY <1>8 DEF Collected, TableOK
<1>11. BidsWithin(d)
  <2>1. BidsWithin(c) /\ c.min_bid \in Nat /\ c.max_bid \in Nat
        /\ c.min_price \in Nat /\ c.max_price \in Nat
    BY <1>1 DEF Collected, CollectorOK
  <2> QED BY <1>4, <1>5, <1>8, <2>1 DEF BidsWithin
<1> QED BY <1>3, <1>4, <1>5, <1>8, <1>9, <1>10, <1>11 DEF CountedAs

\* before_add().
LEMMA AddMeasured ==
  ASSUME NEW c, Collected(c), BookInv, NEW side \in Sides, NEW price \in Prices, NEW qty \in Nat,
         NEW d, d = Measuring!BeforeAdd(c, fifo, side, price, qty)
  PROVE  /\ Collected(d)
         /\ d.adds = c.adds + 1
         /\ \A o : o.price \in Nat /\ o.qty \in Nat /\ Within(c, o) => Within(d, o)
         /\ \A o : o.price = price /\ o.qty = qty => Within(d, o)
<1>1. PICK levels : levels = {p \in Prices : fifo[side][p] # <<>>}
  OBVIOUS
<1>2. PICK s : s = IF price % kPennyUnits # 0 THEN c.sub_penny + 1 ELSE c.sub_penny
  OBVIOUS
<1>4. price \in Nat /\ price # 0
  BY HistogramConstants
<1>3. PICK a : a = c.adds + 1
  OBVIOUS
<1>14. PICK q : q = Measuring!Larger(c.peak_qty, qty)
  OBVIOUS
<1>15. PICK l : l = Measuring!LeastSeen(c.min_price, price)
  OBVIOUS
<1>16. PICK h : h = Measuring!Larger(c.max_price, price)
  OBVIOUS
<1>13. PICK k : k = [c EXCEPT !.adds = a, !.peak_qty = q, !.sub_penny = s, !.min_price = l,
                              !.max_price = h]
  OBVIOUS
<1>5. /\ CollectorOK(k) /\ TableOK(k) /\ BidsWithin(k)
      /\ k.adds = c.adds + 1 /\ k.measured = c.measured /\ k.no_inside = c.no_inside
      /\ k.peak_levels = c.peak_levels /\ k.peak_orders = c.peak_orders
      /\ c.min_price # 0 => k.min_price <= c.min_price
      /\ c.max_price <= k.max_price /\ c.peak_qty <= k.peak_qty
      /\ k.min_price # 0 /\ k.min_price <= price /\ price <= k.max_price
      /\ qty <= k.peak_qty
  <2>1. CountedAs(c, k, price, qty)
    BY <1>3, <1>4, <1>13, <1>14, <1>15, <1>16, OrderCounted
  <2> QED BY <2>1, Zenon DEF CountedAs
<1>6. d = IF levels = {} THEN [k EXCEPT !.no_inside = @ + 1]
          ELSE Measuring!Measured(k, Measuring!Ticks(side, Measuring!Inside(side, levels), price))
  BY <1>1, <1>2, <1>3, <1>13, <1>14, <1>15, <1>16, Zenon DEF Measuring!BeforeAdd
<1>7. /\ CollectorOK(c) /\ c.adds = c.measured + c.no_inside
      /\ c.peak_levels <= c.peak_orders /\ c.peak_orders <= c.adds
  BY DEF Collected
<1>8. /\ CollectorOK(d) /\ TableOK(d) /\ BidsWithin(d)
      /\ d.adds = k.adds /\ d.adds = d.measured + d.no_inside
      /\ d.peak_levels = k.peak_levels /\ d.peak_orders = k.peak_orders
      /\ d.min_price = k.min_price /\ d.max_price = k.max_price /\ d.peak_qty = k.peak_qty
  <2>1. CASE levels = {}
    <3>1. PICK n \in Nat : n = k.no_inside + 1
      BY <1>5 DEF CollectorOK
    <3>2. d = [k EXCEPT !.no_inside = n]
      BY <1>6, <2>1, <3>1
    <3>3. DOMAIN k = HistogramFields
      BY <1>5 DEF CollectorOK
    <3>4. /\ DOMAIN d = HistogramFields
          /\ d.no_inside = n /\ d.adds = k.adds
          /\ d.peak_qty = k.peak_qty /\ d.min_price = k.min_price /\ d.max_price = k.max_price
          /\ d.measured = k.measured /\ d.beyond = k.beyond
          /\ d.max_distance = k.max_distance /\ d.distance = k.distance
          /\ d.peak_levels = k.peak_levels /\ d.peak_orders = k.peak_orders
          /\ d.min_bid = k.min_bid /\ d.max_bid = k.max_bid
      BY ONLY <3>2, <3>3 DEF HistogramFields
    <3>5. CollectorOK(d) /\ TableOK(d) /\ BidsWithin(d)
      BY <1>5, <3>4 DEF CollectorOK, TableOK, BidsWithin
    <3>6. d.adds = d.measured + d.no_inside
      BY <1>5, <1>7, <3>1, <3>4 DEF CollectorOK
    <3> QED BY <3>4, <3>5, <3>6
  <2>2. CASE levels # {}
    <3>1. PICK best \in Nat : best = Measuring!Inside(side, levels)
      <4>1. PICK bound \in Nat : \A p \in Prices : p <= bound
        BY LimitOrderBookAssumption, FiniteIsBounded
      <4>2. levels \in SUBSET Nat /\ \A p \in levels : p <= bound
        BY <1>1, <4>1, HistogramConstants
      <4>3. Inside(side, levels) \in levels
        BY <2>2, <4>2, InsideChosen
      <4> QED BY <4>2, <4>3, MeasuringInside
    <3>2. PICK ticks \in Int : ticks = Measuring!Ticks(side, best, price)
      BY <1>4, TicksAreIntegers
    <3>3. d = Measuring!Measured(k, ticks)
      BY <1>6, <2>2, <3>1, <3>2
    <3>4. CollectorOK(d) /\ TableOK(d)
      BY <1>5, <3>3, TableGrows
    <3>5. /\ d.adds = k.adds /\ d.no_inside = k.no_inside
          /\ d.peak_levels = k.peak_levels /\ d.peak_orders = k.peak_orders
          /\ d.peak_qty = k.peak_qty
          /\ d.min_price = k.min_price /\ d.max_price = k.max_price
          /\ d.min_bid = k.min_bid /\ d.max_bid = k.max_bid
          /\ d.measured = k.measured + 1
      <4>1. PICK mag \in Nat : mag = Measuring!Magnitude(ticks)
        BY DEF Measuring!Magnitude
      <4>2. CollectorOK(k)
        BY <1>5
      <4>3. MeasuredAs(k, d, mag)
        BY <3>3, <4>1, <4>2, MeasuredFields
      <4> QED BY <4>3, Zenon DEF MeasuredAs
    <3>6. d.adds = d.measured + d.no_inside
      BY <1>5, <1>7, <3>5 DEF CollectorOK
    <3>7. BidsWithin(d)
      BY <1>5, <3>5 DEF BidsWithin
    <3> QED BY <3>4, <3>5, <3>6, <3>7
  <2> QED BY <2>1, <2>2
<1>9. Collected(d) /\ d.adds = c.adds + 1
  <2>1. d.peak_levels <= d.peak_orders /\ d.peak_orders <= d.adds
    BY <1>5, <1>7, <1>8 DEF CollectorOK
  <2> QED BY <1>5, <1>8, <2>1 DEF Collected
<1>10. /\ c.min_price \in Nat /\ c.max_price \in Nat /\ c.peak_qty \in Nat
       /\ d.min_price \in Nat /\ d.max_price \in Nat /\ d.peak_qty \in Nat
  BY <1>7, <1>8 DEF CollectorOK
<1>11. ASSUME NEW o, o.price \in Nat, o.qty \in Nat, Within(c, o) PROVE Within(d, o)
  BY <1>5, <1>8, <1>10, <1>11 DEF Within
<1>12. ASSUME NEW o, o.price = price, o.qty = qty PROVE Within(d, o)
  BY <1>5, <1>8, <1>12 DEF Within
<1> QED BY <1>9, <1>11, <1>12

\* The invariant: the collector is sound and covers the book.
HistogramInv ==
    /\ BookInv
    /\ IsFiniteSet(Resting)
    /\ Collected(collector)
    /\ \A r \in Resting : Within(collector, entry[r])
    /\ Cardinality(Resting) <= collector.peak_orders
    /\ ~EmptySide("Buy") => /\ collector.min_bid <= BestPrice("Buy")
                            /\ BestPrice("Buy") <= collector.max_bid

\* A collector that covers the book a message leaves, but for its best bid.
Ready(c) ==
    /\ Collected(c)
    /\ BookInv'
    /\ IsFiniteSet(Resting)'
    /\ \A r \in Resting' : Within(c, entry'[r])
    /\ Cardinality(Resting') <= c.adds

\* after_apply() covers the best bid, the levels and the orders.
LEMMA AfterKeeps ==
  ASSUME NEW c, Ready(c), Measuring!AfterApply(c)
  PROVE  HistogramInv'
<1>1. Measurable'
  BY BookStaysMeasurable DEF Ready
<1>2. PICK n \in Nat : n = Cardinality(Resting)' /\ n <= c.adds
  BY <1>1 DEF Ready, Measurable
<1>3. PICK lv \in Nat : lv = LevelCount' /\ lv <= n
  BY <1>1, <1>2 DEF Measurable
<1>4. PICK b \in Nat : b = BestPrice("Buy")'
  BY <1>1 DEF Measurable, BidIsAnOrders
<1>5. /\ CollectorOK(c) /\ TableOK(c) /\ c.adds = c.measured + c.no_inside /\ BidsWithin(c)
      /\ c.peak_levels <= c.peak_orders /\ c.peak_orders <= c.adds
  BY DEF Ready, Collected
<1>6. PICK pl \in Nat : pl = Measuring!Larger(c.peak_levels, lv) /\ (pl = c.peak_levels \/ pl = lv)
  BY <1>5, LargerIs DEF CollectorOK
<1>7. PICK po \in Nat : /\ po = Measuring!Larger(c.peak_orders, n)
                        /\ c.peak_orders <= po /\ n <= po /\ (po = c.peak_orders \/ po = n)
  <2>1. c.peak_orders \in Nat
    BY <1>5 DEF CollectorOK
  <2> QED BY <2>1, LargerIs
<1>8. PICK mb : mb = IF EmptySide("Buy")' THEN c.min_bid ELSE Measuring!LeastSeen(c.min_bid, b)
  OBVIOUS
<1>9. PICK xb : xb = IF EmptySide("Buy")' THEN c.max_bid ELSE Measuring!Larger(c.max_bid, b)
  OBVIOUS
<1>10. PICK s : s = c.samples + 1
  OBVIOUS
<1>11. PICK x : x = IF Measuring!Crossed' THEN c.crossed + 1 ELSE c.crossed
  OBVIOUS
<1>12. collector' = [c EXCEPT !.samples = s, !.peak_levels = pl, !.peak_orders = po,
                              !.min_bid = mb, !.max_bid = xb, !.crossed = x]
  <2>1. /\ Measuring!Cardinality(Measuring!Resting') = n
        /\ (Measuring!Cardinality(Measuring!LevelPrices("Buy"))
              + Measuring!Cardinality(Measuring!LevelPrices("Sell")))' = lv
        /\ Measuring!BestPrice("Buy")' = b
        /\ Measuring!EmptySide("Buy")' <=> EmptySide("Buy")'
    BY <1>1, <1>2, <1>3, <1>4 DEF Measurable, MeasuredAlike
  <2> QED BY <1>6, <1>7, <1>8, <1>9, <1>10, <1>11, <2>1 DEF Measuring!AfterApply
<1>13. DOMAIN c = HistogramFields
  BY <1>5 DEF CollectorOK
<1>14. PICK d : d = collector'
  OBVIOUS
<1>15. /\ DOMAIN d = HistogramFields
       /\ d.peak_levels = pl /\ d.peak_orders = po /\ d.min_bid = mb /\ d.max_bid = xb
       /\ d.adds = c.adds /\ d.measured = c.measured /\ d.no_inside = c.no_inside
       /\ d.beyond = c.beyond /\ d.max_distance = c.max_distance /\ d.distance = c.distance
       /\ d.min_price = c.min_price /\ d.max_price = c.max_price /\ d.peak_qty = c.peak_qty
  <2>1. d = [c EXCEPT !.samples = s, !.peak_levels = pl, !.peak_orders = po,
                      !.min_bid = mb, !.max_bid = xb, !.crossed = x]
    BY <1>12, <1>14
  <2> QED BY ONLY <1>13, <2>1 DEF HistogramFields
<1>16. /\ mb \in Nat /\ xb \in Nat /\ BidsWithin(d)
       /\ ~EmptySide("Buy")' => mb <= b /\ b <= xb
  <2>1. /\ c.min_bid \in Nat /\ c.max_bid \in Nat
        /\ c.min_price \in Nat /\ c.max_price \in Nat
    BY <1>5 DEF CollectorOK
  <2>2. CASE EmptySide("Buy")'
    BY <1>5, <1>8, <1>9, <1>15, <2>1, <2>2 DEF BidsWithin
  <2>3. CASE ~EmptySide("Buy")'
    <3>1. PICK r \in Resting' : entry'[r].price = b
      BY <1>1, <1>4, <2>3 DEF Measurable, BidIsAnOrders
    <3>2. c.min_price # 0 /\ c.min_price <= b /\ b <= c.max_price
      BY <3>1 DEF Ready, Within
    <3>3. b # 0
      BY <2>1, <3>2
    <3>4. mb = Measuring!LeastSeen(c.min_bid, b) /\ xb = Measuring!Larger(c.max_bid, b)
      BY <1>8, <1>9, <2>3
    <3>5. mb \in Nat /\ mb # 0 /\ mb <= b /\ (mb = c.min_bid \/ mb = b)
      BY <2>1, <3>3, <3>4, LeastSeenIs
    <3>6. xb \in Nat /\ b <= xb /\ (xb = c.max_bid \/ xb = b)
      BY <2>1, <3>4, LargerIs
    <3>7. BidsWithin(d)
      <4>1. c.min_price <= mb /\ mb <= c.max_price
        BY <1>5, <3>2, <3>5 DEF BidsWithin
      <4>2. c.min_price <= xb /\ xb <= c.max_price
        <5>1. CASE c.min_bid = 0
          BY <1>5, <2>1, <3>2, <3>3, <3>6, <5>1 DEF BidsWithin
        <5>2. CASE c.min_bid # 0
          BY <1>5, <3>2, <3>6, <5>2 DEF BidsWithin
        <5> QED BY <5>1, <5>2
      <4> QED BY <1>15, <3>2, <3>5, <4>1, <4>2 DEF BidsWithin
    <3> QED BY <3>5, <3>6, <3>7
  <2> QED BY <2>2, <2>3
<1>17. Collected(d)
  <2>1. CollectorOK(d)
    BY <1>5, <1>15, <1>16 DEF CollectorOK
  <2>2. TableOK(d)
    BY <1>5, <1>15 DEF TableOK
  <2>3. pl <= po /\ po <= c.adds
    BY <1>2, <1>3, <1>5, <1>6, <1>7 DEF CollectorOK
  <2> QED BY <1>5, <1>15, <1>16, <2>1, <2>2, <2>3 DEF Collected
<1>18. \A r \in Resting' : Within(d, entry'[r])
  BY <1>15 DEF Ready, Within
<1> QED BY <1>2, <1>4, <1>7, <1>14, <1>15, <1>16, <1>17, <1>18 DEF HistogramInv, Ready

\* Fewer orders, or smaller ones.
LEMMA FewerReady ==
  ASSUME HistogramInv, BookInv', Resting' \subseteq Resting,
         \A r \in Resting' : entry'[r].price = entry[r].price /\ entry'[r].qty <= entry[r].qty
  PROVE  Ready(collector)
<1>1. Collected(collector) /\ CollectorOK(collector)
  BY DEF HistogramInv, Collected
<1>2. IsFiniteSet(Resting') /\ Cardinality(Resting') <= Cardinality(Resting)
  BY FS_Subset DEF HistogramInv
<1>3. Cardinality(Resting') \in Nat /\ Cardinality(Resting) \in Nat
  BY <1>2, FS_CardinalityType DEF HistogramInv
<1>4. Cardinality(Resting') <= collector.adds
  <2>1. /\ collector.peak_orders \in Nat /\ collector.adds \in Nat
        /\ collector.peak_orders <= collector.adds
        /\ Cardinality(Resting) <= collector.peak_orders
    BY <1>1 DEF HistogramInv, Collected, CollectorOK
  <2> QED BY <1>2, <1>3, <2>1
<1>5. ASSUME NEW r \in Resting' PROVE Within(collector, entry'[r])
  <2>1. r \in Resting /\ Within(collector, entry[r])
    BY DEF HistogramInv
  <2>2. r \in Refs /\ entry[r] # NoOrder /\ entry'[r] # NoOrder
    BY <2>1 DEF Resting
  <2>3. entry[r].qty \in Nat
    BY <2>2, RestingIsQueued DEF HistogramInv
  <2>4. entry'[r].qty \in Nat
    <3>1. entry'[r] \in Entries
      BY <2>2 DEF BookInv, BookOK
    <3> QED BY <3>1 DEF Entries
  <2>5. collector.peak_qty \in Nat
    BY <1>1 DEF CollectorOK
  <2>6. entry'[r].price = entry[r].price /\ entry'[r].qty <= entry[r].qty
    OBVIOUS
  <2> QED BY <2>1, <2>3, <2>4, <2>5, <2>6 DEF Within
<1> QED BY <1>1, <1>2, <1>4, <1>5 DEF Ready

\* A new order, which before_add() was told of.
LEMMA MoreReady ==
  ASSUME HistogramInv, BookInv', NEW new, Resting' \subseteq Resting \cup {new},
         \A r \in Resting' : r # new => entry'[r] = entry[r],
         NEW side \in Sides, NEW price \in Prices, NEW qty \in Nat,
         new \in Resting' => entry'[new].price = price /\ entry'[new].qty = qty,
         NEW d, d = Measuring!BeforeAdd(collector, fifo, side, price, qty)
  PROVE  Ready(d)
<1>1. Collected(collector) /\ CollectorOK(collector)
  BY DEF HistogramInv, Collected
<1>2. /\ Collected(d) /\ d.adds = collector.adds + 1
      /\ \A o : o.price \in Nat /\ o.qty \in Nat /\ Within(collector, o) => Within(d, o)
      /\ \A o : o.price = price /\ o.qty = qty => Within(d, o)
  BY <1>1, AddMeasured DEF HistogramInv
<1>3. PICK S : S = Resting \cup {new}
  OBVIOUS
<1>4. IsFiniteSet(S) /\ Cardinality(S) <= Cardinality(Resting) + 1 /\ Cardinality(S) \in Nat
  <2>1. IsFiniteSet(Resting) /\ Cardinality(Resting) \in Nat
    BY FS_CardinalityType DEF HistogramInv
  <2>2. IsFiniteSet(S) /\ (Cardinality(S) = Cardinality(Resting)
                             \/ Cardinality(S) = Cardinality(Resting) + 1)
    BY <1>3, <2>1, FS_AddElement
  <2> QED BY <2>1, <2>2
<1>5. IsFiniteSet(Resting') /\ Cardinality(Resting') <= Cardinality(S)
  BY <1>3, <1>4, FS_Subset
<1>6. Cardinality(Resting') \in Nat /\ Cardinality(Resting) \in Nat
  BY <1>5, FS_CardinalityType DEF HistogramInv
<1>7. Cardinality(Resting') <= d.adds
  <2>1. /\ collector.peak_orders \in Nat /\ collector.adds \in Nat
        /\ collector.peak_orders <= collector.adds
        /\ Cardinality(Resting) <= collector.peak_orders
    BY <1>1 DEF HistogramInv, Collected, CollectorOK
  <2> QED BY <1>2, <1>4, <1>5, <1>6, <2>1
<1>8. ASSUME NEW r \in Resting' PROVE Within(d, entry'[r])
  <2>1. CASE r = new
    BY <1>2, <2>1
  <2>2. CASE r # new
    <3>1. r \in Resting /\ entry'[r] = entry[r] /\ Within(collector, entry[r])
      BY <2>2 DEF HistogramInv
    <3>2. entry[r].price \in Nat /\ entry[r].qty \in Nat
      <4>1. r \in Refs /\ entry[r] # NoOrder
        BY <3>1 DEF Resting
      <4> QED BY <4>1, RestingIsQueued, HistogramConstants DEF HistogramInv
    <3> QED BY <1>2, <3>1, <3>2
  <2> QED BY <2>1, <2>2
<1> QED BY <1>2, <1>5, <1>7, <1>8 DEF Ready

------------------------------------------------------------------------------
(* Its messages.                                                           *)

HistogramKept == HistogramInv' /\ (KeepsQueues \/ UNCHANGED bookVars)

LEMMA AddRecordedInHistogram ==
  ASSUME HistogramInv, NEW ref \in Refs, NEW side \in Sides, NEW p \in Prices,
         NEW qty \in Quantities, Measuring!OnAdd(ref, side, p, qty)
  PROVE  HistogramKept
<1>1. Add(ref, side, p, qty, 0) /\ qty \in Nat
  BY MeasuringBook, HistogramConstants DEF Measuring!OnAdd
<1>2. BookInv' /\ KeepsQueues
  BY <1>1, AddKeeps, FeedProgramsAssumption DEF HistogramInv
<1>3. PICK o : o = [side |-> side, price |-> p, qty |-> qty, owner |-> 0]
  OBVIOUS
<1>4. entry' = [entry EXCEPT ![ref] = o]
  BY <1>1, <1>3 DEF Add
<1>5. entry \in [Refs -> Entries \cup {NoOrder}]
  BY DEF HistogramInv, BookInv, BookOK
<1>6. /\ \A r \in Refs : r # ref => entry'[r] = entry[r]
      /\ entry'[ref] = o /\ o.price = p /\ o.qty = qty
  BY <1>3, <1>4, <1>5
<1>7. Resting' \subseteq Resting \cup {ref} /\ Resting' \subseteq Refs
  BY <1>6 DEF Resting
<1>8. PICK d : d = Measuring!BeforeAdd(collector, fifo, side, p, qty)
  OBVIOUS
<1>9. Ready(d)
  BY <1>1, <1>2, <1>6, <1>7, <1>8, MoreReady
<1>10. Measuring!AfterApply(d)
  BY <1>8 DEF Measuring!OnAdd
<1> QED BY <1>2, <1>9, <1>10, AfterKeeps DEF HistogramKept

LEMMA ReductionInHistogram ==
  ASSUME HistogramInv, NEW ref \in Refs, NEW shares \in Quantities,
         Measuring!OnReduce(ref, shares)
  PROVE  HistogramKept
<1>1. Reduce(ref, shares) /\ shares \in Nat
  BY MeasuringBook, HistogramConstants DEF Measuring!OnReduce
<1>2. BookInv' /\ KeepsQueues
  BY <1>1, ReduceKeeps DEF HistogramInv
<1>3. entry[ref] # NoOrder /\ shares <= entry[ref].qty
  BY <1>1 DEF Reduce
<1>4. /\ entry \in [Refs -> Entries \cup {NoOrder}]
      /\ \A r \in Resting : r \in Refs /\ entry[r].qty \in Nat
  BY RestingIsQueued DEF HistogramInv, BookInv, BookOK, Resting
<1>5. /\ Resting' \subseteq Resting
      /\ \A r \in Resting' : entry'[r].price = entry[r].price /\ entry'[r].qty <= entry[r].qty
  <2>1. CASE shares < entry[ref].qty
    <3>1. PICK o : o = [entry[ref] EXCEPT !.qty = @ - shares]
      OBVIOUS
    <3>2. entry[ref] \in Entries
      BY <1>3, <1>4
    <3>3. o.price = entry[ref].price /\ o.qty = entry[ref].qty - shares
      BY <3>1, <3>2 DEF Entries
    <3>4. entry' = [entry EXCEPT ![ref] = o]
      BY <1>1, <1>4, <2>1, <3>1, <3>2 DEF Reduce
    <3>5. entry'[ref] = o /\ \A r \in Refs : r # ref => entry'[r] = entry[r]
      BY <1>4, <3>4
    <3>6. ref \in Resting /\ Resting' \subseteq Resting
      BY <1>3, <3>5 DEF Resting
    <3>7. ASSUME NEW r \in Resting'
          PROVE  entry'[r].price = entry[r].price /\ entry'[r].qty <= entry[r].qty
      <4>1. CASE r = ref
        BY <1>1, <1>4, <3>3, <3>5, <3>6, <4>1
      <4>2. CASE r # ref
        BY <1>4, <3>5, <3>6, <4>2
      <4> QED BY <4>1, <4>2
    <3> QED BY <3>6, <3>7
  <2>2. CASE ~ (shares < entry[ref].qty)
    <3>1. entry' = [entry EXCEPT ![ref] = NoOrder]
      BY <1>1, <2>2 DEF Reduce
    <3>2. Resting' \subseteq Resting /\ \A r \in Resting' : entry'[r] = entry[r]
      BY <1>4, <3>1 DEF Resting
    <3> QED BY <1>4, <3>2
  <2> QED BY <2>1, <2>2
<1>6. Ready(collector)
  BY <1>2, <1>5, FewerReady
<1>7. Measuring!AfterApply(collector)
  BY DEF Measuring!OnReduce
<1> QED BY <1>2, <1>6, <1>7, AfterKeeps DEF HistogramKept

LEMMA DeleteInHistogram ==
  ASSUME HistogramInv, NEW ref \in Refs, Measuring!OnDelete(ref)
  PROVE  HistogramKept
<1>1. Remove(ref)
  BY MeasuringBook DEF Measuring!OnDelete
<1>2. BookInv' /\ KeepsQueues
  BY <1>1, RemoveKeeps DEF HistogramInv
<1>3. /\ entry \in [Refs -> Entries \cup {NoOrder}]
      /\ \A r \in Resting : r \in Refs /\ entry[r].qty \in Nat
  BY RestingIsQueued DEF HistogramInv, BookInv, BookOK, Resting
<1>4. entry' = [entry EXCEPT ![ref] = NoOrder]
  BY <1>1 DEF Remove
<1>5. Resting' \subseteq Resting /\ \A r \in Resting' : entry'[r] = entry[r]
  BY <1>3, <1>4 DEF Resting
<1>6. \A r \in Resting' : entry'[r].price = entry[r].price /\ entry'[r].qty <= entry[r].qty
  BY <1>3, <1>5
<1>7. Ready(collector)
  BY <1>2, <1>5, <1>6, FewerReady
<1>8. Measuring!AfterApply(collector)
  BY DEF Measuring!OnDelete
<1> QED BY <1>2, <1>7, <1>8, AfterKeeps DEF HistogramKept

LEMMA ReplaceInHistogram ==
  ASSUME HistogramInv, NEW old \in Refs, NEW new \in Refs, NEW p \in Prices,
         NEW qty \in Quantities, Measuring!OnReplace(old, new, p, qty)
  PROVE  HistogramKept
<1>1. Replace(old, new, p, qty) /\ qty \in Nat
  BY MeasuringBook, HistogramConstants DEF Measuring!OnReplace
<1>2. BookInv' /\ KeepsQueues
  BY <1>1, ReplaceKeeps DEF HistogramInv
<1>3. entry \in [Refs -> Entries \cup {NoOrder}] /\ entry[old] # NoOrder
  BY <1>1 DEF HistogramInv, BookInv, BookOK, Replace
<1>4. entry[old] \in Entries /\ entry[old].side \in Sides
  BY <1>3, RestingIsQueued DEF HistogramInv
<1>5. PICK o : o = [entry[old] EXCEPT !.price = p, !.qty = qty]
  OBVIOUS
<1>6. o.price = p /\ o.qty = qty
  BY <1>4, <1>5 DEF Entries
<1>7. entry' = [entry EXCEPT ![old] = NoOrder, ![new] = o]
  BY <1>1, <1>5 DEF Replace
<1>8. /\ entry'[new] = o
      /\ \A r \in Refs : r # new /\ r # old => entry'[r] = entry[r]
      /\ old # new => entry'[old] = NoOrder
  BY <1>3, <1>7
<1>9. /\ Resting' \subseteq Resting \cup {new}
      /\ \A r \in Resting' : r # new => entry'[r] = entry[r]
  BY <1>8 DEF Resting
<1>10. PICK s \in Sides : s = entry[old].side
  BY <1>4
<1>11. PICK d : d = Measuring!BeforeAdd(collector, fifo, s, p, qty)
  OBVIOUS
<1>12. Ready(d)
  BY <1>1, <1>2, <1>6, <1>8, <1>9, <1>11, MoreReady
<1>13. Measuring!AfterApply(d)
  BY <1>10, <1>11 DEF Measuring!OnReplace
<1> QED BY <1>2, <1>12, <1>13, AfterKeeps DEF HistogramKept

LEMMA HistogramKeeps ==
  ASSUME HistogramInv, Measuring!Next
  PROVE  HistogramKept
<1>1. Measuring!Sides = Sides
  BY DEF Measuring!Sides, Sides
<1> QED BY <1>1, AddRecordedInHistogram, ReductionInHistogram, DeleteInHistogram,
           ReplaceInHistogram DEF Measuring!Next, Measuring!Apply

LEMMA HistogramStarts ==
  ASSUME Measuring!Init
  PROVE  HistogramInv
<1>1. BookInit /\ collector = Measuring!Collector
  BY MeasuringBook DEF Measuring!Init
<1>2. BookInv
  BY <1>1, BookStarts
<1>3. Resting = {}
  BY <1>1 DEF BookInit, Resting
<1>4. IsFiniteSet(Resting) /\ Cardinality(Resting) = 0
  BY <1>3, FS_EmptySet
<1>5. EmptySide("Buy")
  BY <1>1 DEF BookInit, EmptySide, LevelPrices, Sides
<1>6. PICK t \in [Distances -> Nat] : t = [i \in Distances |-> 0]
  OBVIOUS
<1>7. /\ DOMAIN collector = HistogramFields
      /\ collector.adds = 0 /\ collector.measured = 0 /\ collector.no_inside = 0
      /\ collector.beyond = 0 /\ collector.max_distance = 0
      /\ collector.peak_levels = 0 /\ collector.peak_orders = 0 /\ collector.peak_qty = 0
      /\ collector.min_price = 0 /\ collector.max_price = 0
      /\ collector.min_bid = 0 /\ collector.max_bid = 0
      /\ collector.distance = t
  BY <1>1, <1>6 DEF Measuring!Collector, HistogramFields, Distances
<1>8. CollectorOK(collector)
  BY <1>7 DEF CollectorOK
<1>9. SumFunctionOnSet(t, Distances) = 0
  BY <1>6, DistancesFinite, SumZero
<1>10. TableOK(collector)
  BY <1>6, <1>7, <1>9, HistogramConstants DEF TableOK
<1>11. BidsWithin(collector)
  BY <1>7 DEF BidsWithin
<1> QED BY <1>2, <1>3, <1>4, <1>5, <1>7, <1>8, <1>10, <1>11 DEF HistogramInv, Collected

------------------------------------------------------------------------------
(* What it reports.                                                        *)

LEMMA MeasuringSum == \A f, S : Measuring!SumFunctionOnSet(f, S) = SumFunctionOnSet(f, S)
<1> SUFFICES ASSUME NEW f, NEW S
             PROVE  Measuring!SumFunctionOnSet(f, S) = SumFunctionOnSet(f, S)
  OBVIOUS
<1>1. Measuring!SumFunctionOnSet(f, S) = (CHOOSE g : Sums(f, SUBSET S, g))[S]
  BY Zenon DEF Measuring!SumFunctionOnSet, Measuring!FoldFunctionOnSet, Measuring!MapThenFoldSet, Sums, Pick
<1> QED BY <1>1, SumIsOfSums

\* within() splits the table.
LEMMA WithinSplits ==
  ASSUME HistogramInv, NEW i \in Nat, NEW t, t = collector.distance,
         NEW near, near = {j \in Distances : j <= i}, NEW far, far = {j \in Distances : j > i}
  PROVE  /\ Measuring!Within(i) = SumFunctionOnSet(t, near)
         /\ t \in [Distances -> Nat]
         /\ IsFiniteSet(far)
         /\ SumFunctionOnSet(t, near) \in Nat /\ SumFunctionOnSet(t, far) \in Nat
         /\ SumFunctionOnSet(t, Distances) = SumFunctionOnSet(t, near) + SumFunctionOnSet(t, far)
<1>1. t \in [Distances -> Nat]
  BY DEF HistogramInv, Collected, CollectorOK
<1>2. DOMAIN t = Distances
  BY <1>1
<1>3. Measuring!Within(i) = SumFunctionOnSet(t, near)
  <2>1. {j \in DOMAIN t : j <= i} = near
    BY <1>2
  <2> QED BY <2>1, MeasuringSum DEF Measuring!Within
<1>4. near \subseteq Distances /\ far \subseteq Distances /\ near \cap far = {}
  BY HistogramConstants DEF Distances
<1>5. near \cup far = Distances
  BY HistogramConstants DEF Distances
<1>6. IsFiniteSet(near) /\ IsFiniteSet(far)
  BY <1>4, DistancesFinite, FS_Subset
<1>7. \A j \in near \cup far : t[j] \in Nat /\ t[j] \in Int
  BY <1>1, <1>5
<1>8. SumFunctionOnSet(t, near) \in Nat /\ SumFunctionOnSet(t, far) \in Nat
  <2>1. (\A j \in near : t[j] \in Nat) /\ (\A j \in far : t[j] \in Nat)
    BY <1>7
  <2> QED BY <1>6, <2>1, SumOfNaturals
<1>9. SumFunctionOnSet(t, near \cup far) = SumFunctionOnSet(t, near) + SumFunctionOnSet(t, far)
  BY <1>4, <1>6, <1>7, SumJoined
<1> QED BY <1>1, <1>3, <1>5, <1>6, <1>8, <1>9

\* Up to the largest distance lies all of the table; before it, not all.
LEMMA LargestIsLast ==
  ASSUME HistogramInv, NEW max \in Nat, max = collector.max_distance,
         NEW all, all = SumFunctionOnSet(collector.distance, Distances)
  PROVE  /\ all \in Nat
         /\ \A i \in Nat : i >= max => Measuring!Within(i) = all
         /\ \A i \in Nat : i < max /\ max < kMaxTracked => Measuring!Within(i) < all
<1>1. PICK t : t = collector.distance
  OBVIOUS
<1>2. TableOK(collector) /\ CollectorOK(collector)
  BY DEF HistogramInv, Collected
<1>3. t \in [Distances -> Nat]
  BY <1>1, <1>2 DEF CollectorOK
<1>4. all \in Nat
  BY <1>1, <1>3, DistancesFinite, SumOfNaturals
<1>5. ASSUME NEW i \in Nat, i >= max PROVE Measuring!Within(i) = all
  <2>1. PICK near : near = {j \in Distances : j <= i}
    OBVIOUS
  <2>2. PICK far : far = {j \in Distances : j > i}
    OBVIOUS
  <2>3. /\ Measuring!Within(i) = SumFunctionOnSet(t, near)
        /\ IsFiniteSet(far)
        /\ SumFunctionOnSet(t, near) \in Nat
        /\ SumFunctionOnSet(t, Distances) = SumFunctionOnSet(t, near) + SumFunctionOnSet(t, far)
    BY <1>1, <2>1, <2>2, WithinSplits
  <2>4. \A j \in far : t[j] = 0
    BY <1>1, <1>2, <1>5, <2>2, HistogramConstants DEF TableOK, Distances
  <2>5. SumFunctionOnSet(t, far) = 0
    BY <2>3, <2>4, SumZero
  <2> QED BY <1>1, <2>3, <2>5
<1>6. ASSUME NEW i \in Nat, i < max, max < kMaxTracked PROVE Measuring!Within(i) < all
  <2>1. PICK near : near = {j \in Distances : j <= i}
    OBVIOUS
  <2>2. PICK far : far = {j \in Distances : j > i}
    OBVIOUS
  <2>3. /\ Measuring!Within(i) = SumFunctionOnSet(t, near)
        /\ IsFiniteSet(far)
        /\ SumFunctionOnSet(t, near) \in Nat /\ SumFunctionOnSet(t, far) \in Nat
        /\ SumFunctionOnSet(t, Distances) = SumFunctionOnSet(t, near) + SumFunctionOnSet(t, far)
    BY <1>1, <2>1, <2>2, WithinSplits
  <2>4. max \in far
    BY <1>6, <2>2, HistogramConstants DEF Distances
  <2>5. t[max] > 0 /\ t[max] \in Nat
    <3>1. collector.measured \in Nat /\ max > 0
      BY <1>2, <1>6 DEF CollectorOK
    <3>2. collector.measured > 0
      BY <1>2, <3>1 DEF TableOK
    <3>3. max \in Distances
      BY <2>2, <2>4
    <3> QED BY <1>1, <1>2, <1>3, <1>6, <3>2, <3>3 DEF TableOK
  <2>6. \A j \in far : t[j] \in Nat /\ t[j] \in Int
    BY <1>3, <2>2
  <2>7. SumFunctionOnSet(t, far) = t[max] + SumFunctionOnSet(t, far \ {max})
    <3>1. \A x \in far : SumFunctionOnSet(t, far) = t[x] + SumFunctionOnSet(t, far \ {x})
      BY <2>3, <2>6, SumSplits
    <3> QED BY <2>4, <3>1
  <2>8. SumFunctionOnSet(t, far \ {max}) \in Nat
    <3>1. PICK rest : rest = far \ {max}
      OBVIOUS
    <3>2. IsFiniteSet(rest) /\ \A j \in rest : t[j] \in Nat
      BY <2>3, <2>6, <3>1, FS_RemoveElement
    <3> QED BY <3>1, <3>2, SumOfNaturals
  <2> QED BY <1>1, <2>3, <2>5, <2>7, <2>8
<1> QED BY <1>4, <1>5, <1>6

LEMMA HistogramSound ==
  ASSUME HistogramInv
  PROVE  /\ Measuring!TableMatchesTotals
         /\ Measuring!RangesCoverTheBook
         /\ QueuedExactlyOnce
<1>1. PICK c : c = collector
  OBVIOUS
<1>2. CollectorOK(c) /\ TableOK(c) /\ BidsWithin(c) /\ c.adds = c.measured + c.no_inside
  BY <1>1 DEF HistogramInv, Collected
<1>3. PICK max \in Nat : max = c.max_distance
  BY <1>2 DEF CollectorOK
<1>4. PICK k \in Nat : k = kMaxTracked /\ k > 0
  BY HistogramConstants
<1>5. PICK all \in Nat : all = SumFunctionOnSet(c.distance, Distances)
  BY <1>1, <1>3, LargestIsLast
<1>6. c.measured \in Nat /\ c.beyond \in Nat /\ c.measured = all + c.beyond
  BY <1>2, <1>5 DEF CollectorOK, TableOK
<1>7. /\ \A i \in Nat : i >= max => Measuring!Within(i) = all
      /\ \A i \in Nat : i < max /\ max < k => Measuring!Within(i) < all
  BY <1>1, <1>3, <1>4, <1>5, LargestIsLast
<1>8. Measuring!Within(kMaxTracked) = all
  <2>1. PICK near : near = {j \in Distances : j <= k}
    OBVIOUS
  <2>2. PICK far : far = {j \in Distances : j > k}
    OBVIOUS
  <2>3. near = Distances
    BY <1>4, <2>1 DEF Distances
  <2>4. Measuring!Within(k) = SumFunctionOnSet(c.distance, near)
    BY <1>1, <2>1, <2>2, WithinSplits
  <2> QED BY <1>4, <1>5, <2>3, <2>4
<1>9. ASSUME c.measured > 0, c.beyond = 0
      PROVE  Measuring!Within(c.max_distance) = c.measured /\ Measuring!Quantile(1, 1) = c.max_distance
  <2>1. max < k /\ max \in Distances /\ all = c.measured
    <3>1. ~ (max >= k)
      BY <1>2, <1>3, <1>4, <1>9 DEF TableOK
    <3> QED BY <1>4, <1>6, <1>9, <3>1 DEF Distances
  <2>2. Measuring!Within(max) = c.measured
    BY <1>7, <2>1
  <2>3. PICK enough : enough = {i \in Distances : Measuring!Within(i) >= c.measured}
    OBVIOUS
  <2>4. max \in enough /\ \A y \in enough : y \in Nat /\ max <= y
    <3>1. max \in enough
      BY <1>6, <2>1, <2>2, <2>3
    <3>2. ASSUME NEW y \in enough PROVE y \in Nat /\ max <= y
      <4>1. y \in Nat /\ Measuring!Within(y) >= all
        BY <1>4, <2>1, <2>3 DEF Distances
      <4>2. y >= max \/ Measuring!Within(y) < all
        BY <1>7, <2>1, <4>1
      <4>3. y >= max => Measuring!Within(y) = all
        BY <1>7, <4>1
      <4>4. CASE y >= max
        BY <4>1, <4>4
      <4>5. CASE y < max
        <5>1. \E s \in Nat : s = Measuring!Within(y)
          <6>1. PICK near : near = {j \in Distances : j <= y}
            OBVIOUS
          <6>2. PICK far : far = {j \in Distances : j > y}
            OBVIOUS
          <6> QED BY <1>1, <4>1, <6>1, <6>2, WithinSplits
        <5>2. Measuring!Within(y) < all
          BY <1>7, <2>1, <4>1, <4>5
        <5> QED BY <4>1, <5>1, <5>2
      <4> QED BY <4>1, <4>4, <4>5
    <3> QED BY <3>1, <3>2
  <2>5. Measuring!Lowest(enough) = max
    <3>1. \A x \in enough : (\A y \in enough : x <= y) => x = max
      BY <2>4
    <3>2. \A y \in enough : max <= y
      BY <2>4
    <3> QED BY <2>4, <3>1, <3>2 DEF Measuring!Lowest
  <2>6. (c.measured * 1) \div 1 = c.measured
    BY <1>6
  <2>7. DOMAIN c.distance = Distances
    BY <1>2 DEF CollectorOK
  <2>8. Measuring!Quantile(1, 1) = max
    BY <1>1, <2>3, <2>4, <2>5, <2>6, <2>7 DEF Measuring!Quantile
  <2> QED BY <1>3, <2>2, <2>8
<1>10. Measuring!TableMatchesTotals
  <2>1. c.beyond > 0 <=> c.max_distance >= kMaxTracked
    BY <1>2 DEF TableOK
  <2> QED BY <1>1, <1>2, <1>6, <1>8, <1>9, <2>1 DEF Measuring!TableMatchesTotals
<1>11. Measuring!RangesCoverTheBook
  <2>1. MeasuredAlike /\ BidIsAnOrders /\ Cardinality(Resting) \in Nat
    BY BookMeasurable DEF HistogramInv, Measurable
  <2>2. ASSUME NEW r \in Measuring!Resting
        PROVE  entry[r].price \in c.min_price .. c.max_price /\ entry[r].qty <= c.peak_qty
    <3>1. r \in Resting /\ Within(c, entry[r])
      BY <1>1, <2>1 DEF HistogramInv, MeasuredAlike
    <3>2. r \in Refs /\ entry[r] # NoOrder
      BY <3>1 DEF Resting
    <3>3. entry[r].price \in Nat
      BY <3>2, RestingIsQueued, HistogramConstants DEF HistogramInv
    <3> QED BY <1>2, <3>1, <3>3 DEF Within, CollectorOK
  <2>3. ~Measuring!EmptySide("Buy") => Measuring!BestPrice("Buy") \in c.min_bid .. c.max_bid
    <3>1. ~EmptySide("Buy") => c.min_bid <= BestPrice("Buy") /\ BestPrice("Buy") <= c.max_bid
      BY <1>1 DEF HistogramInv
    <3>2. BestPrice("Buy") \in Nat /\ c.min_bid \in Nat /\ c.max_bid \in Nat
      BY <1>2, <2>1 DEF BidIsAnOrders, CollectorOK
    <3>3. ~EmptySide("Buy") => BestPrice("Buy") \in c.min_bid .. c.max_bid
      BY <3>1, <3>2
    <3> QED BY <2>1, <3>3 DEF MeasuredAlike
  <2>4. c.min_bid # 0 => {c.min_bid, c.max_bid} \subseteq c.min_price .. c.max_price
    BY <1>2 DEF CollectorOK, BidsWithin
  <2>5. Measuring!Cardinality(Measuring!Resting) <= c.peak_orders
    BY <1>1, <2>1 DEF HistogramInv, MeasuredAlike
  <2>6. c.peak_levels <= c.peak_orders /\ c.peak_orders <= c.adds
    BY <1>1 DEF HistogramInv, Collected
  <2> QED BY <1>1, <2>2, <2>3, <2>4, <2>5, <2>6 DEF Measuring!RangesCoverTheBook
<1>12. QueuedExactlyOnce
  BY BookInvStated DEF HistogramInv
<1> QED BY <1>10, <1>11, <1>12

------------------------------------------------------------------------------
(* The programs together: whichever runs keeps its own invariant.          *)

ProgramInv ==
    \/ program = "itch_replay" /\ ReplayInv
    \/ program = "bench_book" /\ BenchInv
    \/ program = "itch_histogram" /\ HistogramInv

ProgramKept == ProgramInv' /\ [KeepsQueues]_bookVars

LEMMA ProgramStarts ==
  ASSUME ProgramInit
  PROVE  ProgramInv
BY ReplayStarts, BenchStarts, HistogramStarts
   DEF ProgramInit, ReplayInit, BenchInit, HistogramInit, ProgramInv

\* What a program that takes no step keeps.
LEMMA ProgramStands ==
  ASSUME ProgramInv, UNCHANGED allVars
  PROVE  ProgramKept
<1>1. /\ market' = market /\ announced' = announced /\ issued' = issued /\ sent' = sent
      /\ entry' = entry /\ fifo' = fifo /\ aborted' = aborted
      /\ builder' = builder /\ stats' = stats /\ observer' = observer
      /\ workload' = workload /\ resolved' = resolved /\ pass' = pass
      /\ applied' = applied /\ digests' = digests
      /\ collector' = collector /\ program' = program
  BY DEF allVars, feedVars, bookVars, replayVars, workloadVars
<1>2. BookInv' = BookInv /\ FeedInv' = FeedInv /\ Resting' = Resting
  BY <1>1 DEF BookInv, BookOK, FeedInv, Resting
<1>3. ReplayInv => ReplayInv'
  BY <1>1, <1>2 DEF ReplayInv, MarketsBook, CountsOK, TallyOK, TotalQty, LevelCount,
                    LevelPrices
<1>4. BenchInv => BenchInv'
  BY <1>1, <1>2 DEF BenchInv, Passed
<1>5. HistogramInv => HistogramInv'
  BY <1>1, <1>2 DEF HistogramInv, EmptySide, BestPrice, LevelPrices
<1> QED BY <1>1, <1>3, <1>4, <1>5 DEF ProgramInv, ProgramKept, bookVars

LEMMA ProgramKeeps ==
  ASSUME ProgramInv, ProgramNext
  PROVE  ProgramKept
<1>1. CASE ReplayStep
  BY <1>1, ReplayKeeps DEF ReplayStep, ProgramInv, Kept, ProgramKept
<1>2. CASE BenchStep
  BY <1>2, BenchKeeps DEF BenchStep, ProgramInv, BenchKept, ProgramKept
<1>3. CASE HistogramStep
  BY <1>3, HistogramKeeps DEF HistogramStep, ProgramInv, HistogramKept, ProgramKept
<1> QED BY <1>1, <1>2, <1>3 DEF ProgramNext

LEMMA ProgramSound ==
  ASSUME ProgramInv
  PROVE  /\ BookIsTheMarkets /\ CountsAgree /\ RebuildsTheMarket
         /\ TableMatchesTotals /\ RangesCoverTheBook /\ QueuedExactlyOnce
BY ReplaySound, BenchSound, HistogramSound
   DEF ProgramInv, BookIsTheMarkets, CountsAgree, RebuildsTheMarket,
       TableMatchesTotals, RangesCoverTheBook

LEMMA ProgramInvInvariant == ProgramSpec => []ProgramInv /\ [][ProgramKept]_allVars
<1>1. ProgramInit => ProgramInv
  BY ProgramStarts
<1>2. ProgramInv /\ [ProgramNext]_allVars => ProgramInv' /\ ProgramKept
  BY ProgramKeeps, ProgramStands DEF ProgramKept
<1> QED BY <1>1, <1>2, PTL DEF ProgramSpec

\* The book itch_replay rebuilds holds exactly the exchange's orders of the
\* wanted stock, with their sides, prices and shares, after every message of
\* every session: however the stocks interleave, whenever the Stock Directory
\* message resolves the symbol, and if none ever does.
THEOREM ReplayRebuildsTheMarket == ProgramSpec => []BookIsTheMarkets
BY ProgramInvInvariant, ProgramSound, PTL

\* No assertion of the builder, the book or the replay's observer ever fails on
\* such a feed, the quantities the observer expects are those of the book after
\* every message, its peaks bound what rests, and every message that was applied
\* was counted once by the builder and once by the observer.
THEOREM ReplayCountsAgree == ProgramSpec => []CountsAgree
BY ProgramInvInvariant, ProgramSound, PTL

\* Every pass of bench_book over the operations it recorded from the feed ends
\* with the exchange's book of the stock, and with one digest.
THEOREM BenchRebuildsTheMarket == ProgramSpec => []RebuildsTheMarket
BY ProgramInvInvariant, ProgramSound, PTL

\* The table itch_histogram prints and the totals printed beside it tell one
\* story: every order was measured or had no inside, the measured ones are those
\* within the tracked distances and those beyond, and when none is beyond, the
\* table is complete up to the largest distance seen.
THEOREM HistogramTableMatches == ProgramSpec => []TableMatchesTotals
BY ProgramInvInvariant, ProgramSound, PTL

\* The ranges of prices and quantities itch_histogram reports and its peak of
\* orders cover the book it measured.
THEOREM HistogramRangesCover == ProgramSpec => []RangesCoverTheBook
BY ProgramInvInvariant, ProgramSound, PTL

\* Whichever program runs, every order of its book rests in exactly one queue,
\* that of its own side and price.
THEOREM ProgramsQueueOnce == ProgramSpec => []QueuedExactlyOnce
BY ProgramInvInvariant, ProgramSound, PTL

\* Whichever program runs, no message lets an order of its book pass another.
THEOREM ProgramsKeepPriority == ProgramSpec => NoQueueJumping
<1>1. ProgramKept \/ UNCHANGED allVars => [KeepsQueues]_bookVars
  BY DEF ProgramKept, allVars, bookVars
<1> QED BY <1>1, ProgramInvInvariant, PTL DEF NoQueueJumping
==============================================================================
