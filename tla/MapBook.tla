------------------------------- MODULE MapBook -------------------------------
(***************************************************************************)
(* itch::book::MapBook: the reference book of the replay tools.  Orders    *)
(* live in a hash map; each side has an ordered map from price to a level  *)
(* that holds the queue of references and their total quantity; counters   *)
(* for the whole book are kept along.  A call that breaks a precondition   *)
(* ends the process, so it has no step.                                    *)
(***************************************************************************)
EXTENDS BookTypes, Sequences, FiniteSets, FiniteSetsExt, Functions

CONSTANTS
    Refs,       \* order reference numbers
    Prices,     \* prices an order may name
    Quantities, \* quantities an order may name
    Owners,     \* owners, for self-trade prevention
    NoOrder     \* the absence of an order, in the book promised

VARIABLE
    book    \* orders_, bids_ and asks_ (levels) and stats_

EmptyBook ==
    [orders |-> << >>,
     levels |-> [side \in Sides |-> << >>],
     stats  |-> [total_qty |-> [side \in Sides |-> 0],
                 level_count |-> [side \in Sides |-> 0],
                 order_count |-> 0]]

Init == book = EmptyBook

\* A map with a value under a key, and without a key.
With(f, x, v) == [y \in DOMAIN f \cup {x} |-> IF y = x THEN v ELSE f[y]]
Without(f, x) == [y \in DOMAIN f \ {x} |-> f[y]]

------------------------------------------------------------------------------
(* Queries. *)

contains(ref) == ref \in DOMAIN book.orders

empty(side) == DOMAIN book.levels[side] = {}

best(side) == IF empty(side) THEN kNoPrice ELSE Inside(side, DOMAIN book.levels[side])

qty_at(side, p) ==
    IF p \in DOMAIN book.levels[side] THEN book.levels[side][p].qty ELSE 0

orders_at(side, p) ==
    IF p \in DOMAIN book.levels[side] THEN Len(book.levels[side][p].fifo) ELSE 0

\* for_each_level(): the prices of a side from the inside outwards.
Walk(b, side) == Outwards(side, DOMAIN b.levels[side])

\* snapshot(): the levels walked, as many as depth says; zero means all.
Snapshot(side, depth) ==
    LET walk == Walk(book, side)
        Seen(p) == [price |-> p, qty |-> qty_at(side, p), orders |-> orders_at(side, p)]
        n == IF depth = 0 \/ depth > Len(walk) THEN Len(walk) ELSE depth
    IN  [i \in 1 .. n |-> Seen(walk[i])]

------------------------------------------------------------------------------
(* Mutations, on a whole book, so that replace() can make two of them. *)

\* A mutant: a level that is already there is counted again.
InsertedAsFresh(b, ref, e) ==
    LET fresh == e.price \notin DOMAIN b.levels[e.side]
        level == IF fresh THEN [qty |-> 0, fifo |-> << >>] ELSE b.levels[e.side][e.price]
    IN  [b EXCEPT
            !.levels[e.side] =
                With(@, e.price, [qty  |-> level.qty + e.qty,
                                  fifo |-> Append(level.fifo, ref)]),
            !.stats.level_count[e.side] = @ + 1,
            !.stats.total_qty[e.side] = @ + e.qty,
            !.stats.order_count = @ + 1,
            !.orders = With(@, ref, e)]

\* insert(): the order e joins the back of its level, made if there is none.
Inserted(b, ref, e) ==
    LET fresh == e.price \notin DOMAIN b.levels[e.side]
        level == IF fresh THEN [qty |-> 0, fifo |-> << >>] ELSE b.levels[e.side][e.price]
    IN  [b EXCEPT
            !.levels[e.side] =
                With(@, e.price, [qty  |-> level.qty + e.qty,
                                  fifo |-> Append(level.fifo, ref)]),
            !.stats.level_count[e.side] = IF fresh THEN @ + 1 ELSE @,
            !.stats.total_qty[e.side] = @ + e.qty,
            !.stats.order_count = @ + 1,
            !.orders = With(@, ref, e)]

\* A mutant: an emptied level keeps its place, and its count.
DetachedLevelKept(b, ref) ==
    LET e    == b.orders[ref]
        fifo == b.levels[e.side][e.price].fifo
        rest == ClosedUp(fifo, PlaceOf(fifo, ref))
    IN  [b EXCEPT
            !.levels[e.side][e.price].fifo = rest,
            !.stats.order_count = @ - 1,
            !.orders = Without(@, ref)]

\* The order leaves its queue, and the level goes with the last one.
Detached(b, ref) ==
    LET e    == b.orders[ref]
        fifo == b.levels[e.side][e.price].fifo
        rest == ClosedUp(fifo, PlaceOf(fifo, ref))
    IN  [b EXCEPT
            !.levels[e.side] = IF rest = << >> THEN Without(@, e.price)
                               ELSE [@ EXCEPT ![e.price].fifo = rest],
            !.stats.level_count[e.side] = IF rest = << >> THEN @ - 1 ELSE @,
            !.stats.order_count = @ - 1,
            !.orders = Without(@, ref)]

\* reduce() and reduce_level(): shares off the order, its level and its side.
Reduced(b, ref, shares) ==
    LET e == b.orders[ref]
        lessened == [b EXCEPT !.orders[ref].qty = @ - shares,
                              !.levels[e.side][e.price].qty = @ - shares,
                              !.stats.total_qty[e.side] = @ - shares]
    IN  IF shares < e.qty THEN lessened ELSE Detached(lessened, ref)

Add(ref, e) ==
    /\ e.qty > 0
    /\ ~contains(ref)
    /\ book' = Inserted(book, ref, e)

\* cancel() and execute().
Reduce(ref, shares) ==
    /\ contains(ref)
    /\ shares <= book.orders[ref].qty
    /\ book' = Reduced(book, ref, shares)

Remove(ref) ==
    /\ contains(ref)
    /\ book' = Reduced(book, ref, book.orders[ref].qty)

\* A mutant: a replacement under the same reference and price keeps its place.
ReplaceAmends(old, new, p, qty) ==
    /\ contains(old)
    /\ qty > 0
    /\ new = old \/ ~contains(new)
    /\ LET e == book.orders[old]
       IN  book' = IF new = old /\ p = e.price
                   THEN [book EXCEPT !.orders[old].qty = qty,
                                     !.levels[e.side][p].qty = @ + qty - e.qty,
                                     !.stats.total_qty[e.side] = @ + qty - e.qty]
                   ELSE Inserted(Reduced(book, old, e.qty), new,
                                 [e EXCEPT !.price = p, !.qty = qty])

\* remove(), then add(), whose preconditions are met once old has left.
Replace(old, new, p, qty) ==
    /\ contains(old)
    /\ qty > 0
    /\ new = old \/ ~contains(new)
    /\ book' = Inserted(Reduced(book, old, book.orders[old].qty), new,
                        [book.orders[old] EXCEPT !.price = p, !.qty = qty])

Entries == [side : Sides, price : Prices, qty : Quantities, owner : Owners]

Next ==
    \/ \E ref \in Refs, e \in Entries : Add(ref, e)
    \/ \E ref \in Refs, shares \in Quantities : Reduce(ref, shares)
    \/ \E ref \in Refs : Remove(ref)
    \/ \E old, new \in Refs, p \in Prices, qty \in Quantities : Replace(old, new, p, qty)

Spec == Init /\ [][Next]_book

------------------------------------------------------------------------------
(* Properties. *)

\* What validate() asserts of a level: it is not empty, its orders are known, at
\* its price and side, with something left, and add up to its quantity.
LevelSound(side, p) ==
    LET level  == book.levels[side][p]
        queued == Range(level.fifo)
    IN  /\ level.fifo # << >>
        /\ \A r \in queued :
              /\ contains(r)
              /\ book.orders[r].side = side /\ book.orders[r].price = p
              /\ book.orders[r].qty > 0
        /\ level.qty = SumFunctionOnSet([r \in queued |-> book.orders[r].qty], queued)

\* validate(), after every operation: the levels are sound, the walk starts at
\* the best price and goes outwards, and the counters are what the levels and
\* the orders add up to, so that no order is orphaned.  Its
\* consequences for the assertions of reduce_level(): the level of a resting
\* order exists, and a level that empties holds nothing.
Validates ==
    /\ \A side \in Sides :
          LET D == DOMAIN book.levels[side]
          IN  /\ \A p \in D : LevelSound(side, p)
              /\ book.stats.total_qty[side] =
                    SumFunctionOnSet([p \in D |-> book.levels[side][p].qty], D)
              /\ book.stats.level_count[side] = Cardinality(D)
              /\ LET walk == Snapshot(side, 0)
                 IN  /\ ~empty(side) => walk[1].price = best(side)
                     /\ \A i \in 1 .. Len(walk) - 1 :
                           Before(side, walk[i].price, walk[i + 1].price)
    /\ book.stats.order_count = Cardinality(DOMAIN book.orders)
    /\ book.stats.order_count =
          SumFunctionOnSet([side \in Sides |->
              LET D == DOMAIN book.levels[side]
              IN  SumFunctionOnSet([p \in D |-> orders_at(side, p)], D)], Sides)

\* What the hash map, and the lists on the levels, say is resting.
RestingEntry == [ref \in Refs |-> IF contains(ref) THEN book.orders[ref] ELSE NoOrder]

RestingQueues ==
    [side \in Sides |-> [p \in Prices |->
        IF p \in DOMAIN book.levels[side] THEN book.levels[side][p].fifo ELSE << >>]]

\* Read through its queries, the book is a price-time priority book: the
\* operations keep each order's place, and replace() loses it.
Promised == INSTANCE LimitOrderBook WITH entry <- RestingEntry, fifo <- RestingQueues

ImplementsLimitOrderBook == Promised!BookSpec
==============================================================================
