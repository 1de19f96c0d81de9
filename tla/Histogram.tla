------------------------------ MODULE Histogram ------------------------------
(***************************************************************************)
(* The Collector of apps/itch_histogram.cpp: how far from the inside new   *)
(* orders land, measured while BookBuilder drives a book.  The builder     *)
(* calls before_add() on the book as it still is, then the book, then      *)
(* after_apply().  Ticks are whole pennies; the means are left out.        *)
(***************************************************************************)
EXTENDS LimitOrderBook

CONSTANTS
    kPennyUnits,    \* raw price units in a penny
    kMaxTracked,    \* distances from here on are counted together
    MaxSamples      \* bound: the messages applied

\* What is assumed of the constants, where the module is instantiated.
HistogramAssumption ==
    /\ kPennyUnits \in Nat \ {0}
    /\ kMaxTracked \in Nat \ {0}
    /\ 0 \notin Prices

VARIABLE collector

vars == <<entry, fifo, collector>>

Collector ==
    [adds |-> 0, measured |-> 0, improving |-> 0, no_inside |-> 0, beyond |-> 0,
     sub_penny |-> 0, max_distance |-> 0, peak_levels |-> 0, peak_orders |-> 0,
     peak_qty |-> 0, samples |-> 0, crossed |-> 0, min_price |-> 0, max_price |-> 0,
     min_bid |-> 0, max_bid |-> 0, distance |-> [i \in 0 .. kMaxTracked - 1 |-> 0]]

Init == BookInit /\ collector = Collector

Larger(a, b) == IF a > b THEN a ELSE b

\* The minima start at zero, which stands for none yet.
LeastSeen(least, x) == IF least = 0 \/ x < least THEN x ELSE least

Magnitude(x) == IF x < 0 THEN -x ELSE x

\* Whole pennies from the best price, towards zero as C++ divides: positive is
\* further from the inside, negative improves it.
Ticks(side, best, price) ==
    LET raw == IF side = "Buy" THEN best - price ELSE price - best
    IN  IF raw < 0 THEN -((-raw) \div kPennyUnits) ELSE raw \div kPennyUnits

\* A table with one more order at a distance.
OneMore(table, mag) == [table EXCEPT ![mag] = @ + 1]

\* A mutant: an order that improves the inside has no distance.
MeasuredOutwards(c, ticks) ==
    LET mag == Magnitude(ticks)
    IN  [c EXCEPT
            !.measured = @ + 1,
            !.improving = IF ticks < 0 THEN @ + 1 ELSE @,
            !.max_distance = Larger(@, ticks),
            !.beyond = IF mag >= kMaxTracked THEN @ + 1 ELSE @,
            !.distance = IF mag < kMaxTracked THEN OneMore(@, mag) ELSE @]

\* An order that found an inside on its side.
Measured(c, ticks) ==
    LET mag == Magnitude(ticks)
    IN  [c EXCEPT
            !.measured = @ + 1,
            !.improving = IF ticks < 0 THEN @ + 1 ELSE @,
            !.max_distance = Larger(@, mag),
            !.beyond = IF mag >= kMaxTracked THEN @ + 1 ELSE @,
            !.distance = IF mag < kMaxTracked THEN OneMore(@, mag) ELSE @]

\* before_add(), on a book with these queues.
BeforeAdd(c, queues, side, price, qty) ==
    LET levels  == {p \in Prices : queues[side][p] # <<>>}
        counted == [c EXCEPT
                        !.adds = @ + 1,
                        !.peak_qty = Larger(@, qty),
                        !.sub_penny = IF price % kPennyUnits # 0 THEN @ + 1 ELSE @,
                        !.min_price = LeastSeen(@, price),
                        !.max_price = Larger(@, price)]
    IN  IF levels = {} THEN [counted EXCEPT !.no_inside = @ + 1]
        ELSE Measured(counted, Ticks(side, Inside(side, levels), price))

\* A mutant: the first bid stays the highest.
AfterApplyFirstBid(c) ==
    collector' = [c EXCEPT
        !.samples = @ + 1,
        !.peak_levels = Larger(@, (Cardinality(LevelPrices("Buy"))
                                   + Cardinality(LevelPrices("Sell")))'),
        !.peak_orders = Larger(@, Cardinality(Resting')),
        !.min_bid = IF EmptySide("Buy")' THEN @ ELSE LeastSeen(@, BestPrice("Buy")'),
        !.max_bid = IF @ # 0 \/ EmptySide("Buy")' THEN @ ELSE BestPrice("Buy")',
        !.crossed = IF Crossed' THEN @ + 1 ELSE @]

\* after_apply(), on the book as the message leaves it.
AfterApply(c) ==
    collector' = [c EXCEPT
        !.samples = @ + 1,
        !.peak_levels = Larger(@, (Cardinality(LevelPrices("Buy"))
                                   + Cardinality(LevelPrices("Sell")))'),
        !.peak_orders = Larger(@, Cardinality(Resting')),
        !.min_bid = IF EmptySide("Buy")' THEN @ ELSE LeastSeen(@, BestPrice("Buy")'),
        !.max_bid = IF EmptySide("Buy")' THEN @ ELSE Larger(@, BestPrice("Buy")'),
        !.crossed = IF Crossed' THEN @ + 1 ELSE @]

------------------------------------------------------------------------------
(* The messages, as BookBuilder applies them.  note_reduction() does       *)
(* nothing here.                                                           *)

OnAdd(ref, side, price, qty) ==
    /\ Add(ref, side, price, qty, 0)
    /\ AfterApply(BeforeAdd(collector, fifo, side, price, qty))

\* Executions and cancels.
OnReduce(ref, shares) == Reduce(ref, shares) /\ AfterApply(collector)

OnDelete(ref) == Remove(ref) /\ AfterApply(collector)

\* The order replaced is still in the book that before_add() sees.
OnReplace(old, new, price, qty) ==
    /\ Replace(old, new, price, qty)
    /\ AfterApply(BeforeAdd(collector, fifo, entry[old].side, price, qty))

Apply ==
    \/ \E ref \in Refs, side \in Sides, p \in Prices, qty \in Quantities : OnAdd(ref, side, p, qty)
    \/ \E ref \in Refs, shares \in Quantities : OnReduce(ref, shares)
    \/ \E ref \in Refs : OnDelete(ref)
    \/ \E old, new \in Refs, p \in Prices, qty \in Quantities : OnReplace(old, new, p, qty)

Next == collector.samples < MaxSamples /\ Apply

Spec == Init /\ [][Next]_vars

------------------------------------------------------------------------------
(* What is reported. *)

\* within(): the measured adds at most so many ticks away.
Within(ticks) ==
    SumFunctionOnSet(collector.distance, {i \in DOMAIN collector.distance : i <= ticks})

\* quantile(), for the fraction num/den: the target is rounded down.
Quantile(num, den) ==
    LET target == (collector.measured * num) \div den
        enough == {i \in DOMAIN collector.distance : Within(i) >= target}
    IN  IF enough = {} THEN kMaxTracked ELSE Lowest(enough)

------------------------------------------------------------------------------
(* Properties. *)

\* The table and the totals reported beside it tell one story: every add is
\* counted once, in its distance, beyond the table, or as having had no inside;
\* and the last quantile and the coverage of the largest distance are what the
\* largest distance says, also for orders that improve the inside.
TableMatchesTotals ==
    LET c == collector
    IN  /\ c.adds = c.measured + c.no_inside
        /\ c.measured = Within(kMaxTracked) + c.beyond
        /\ c.beyond > 0 <=> c.max_distance >= kMaxTracked
        /\ c.measured > 0 /\ c.beyond = 0 =>
              Within(c.max_distance) = c.measured /\ Quantile(1, 1) = c.max_distance

\* The ranges and the peaks cover the book in front of them, however it came
\* about: prices of resting orders, the best bid, levels, orders and sizes.
RangesCoverTheBook ==
    LET c == collector
    IN  /\ \A ref \in Resting : /\ entry[ref].price \in c.min_price .. c.max_price
                                /\ entry[ref].qty <= c.peak_qty
        /\ ~EmptySide("Buy") => BestPrice("Buy") \in c.min_bid .. c.max_bid
        /\ c.min_bid # 0 => {c.min_bid, c.max_bid} \subseteq c.min_price .. c.max_price
        /\ Cardinality(Resting) <= c.peak_orders
        /\ c.peak_levels <= c.peak_orders /\ c.peak_orders <= c.adds
==============================================================================
