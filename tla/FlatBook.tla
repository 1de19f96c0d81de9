------------------------------- MODULE FlatBook -------------------------------
(***************************************************************************)
(* itch::book::BookT: order and level records in two pools, the orders of  *)
(* a level chained into a doubly linked queue, an index from reference to  *)
(* order, a level container per side, counters, and a cached best price.   *)
(*                                                                         *)
(* The pools, the index and the level containers are represented by what   *)
(* they promise: a pool hands out any record that is free, the index is a  *)
(* map, and so is a level container (HandleMap).  A failed precondition   *)
(* ends the process, so the call has no step; a pool that is exhausted is  *)
(* such a failure.                                                         *)
(***************************************************************************)
EXTENDS BookTypes, Sequences, FiniteSets, FiniteSetsExt, Functions

CONSTANTS
    Refs,           \* order reference numbers
    Prices,         \* prices an order may name
    Quantities,     \* quantities an order may name
    Owners,         \* owners, for self-trade prevention
    OrderHandles,   \* the records of the order pool
    LevelHandles,   \* the records of the level pool
    Null,           \* the null handle
    Free,           \* the contents of a record that is not allocated
    NoOrder         \* the absence of an order, for the abstract book

ASSUME FlatBookAssumption ==
    /\ Quantities \subseteq Nat
    /\ Prices \subseteq Nat
    /\ IsFiniteSet(Prices) /\ IsFiniteSet(OrderHandles)
    /\ Null \notin OrderHandles \cup LevelHandles

VARIABLES
    orders,     \* orders_: the order records
    levels,     \* levels_: the level records
    index,      \* index_: the handle of each resting reference, or Null
    ladders,    \* ladders_: per side, the level at each price, or Null
    stats,      \* stats_: totals per side and the number of orders
    best        \* best_: the cached best price of each side

vars == <<orders, levels, index, ladders, stats, best>>

Orders ==
    [ref : Refs, qty : Nat, price : Prices, side : Sides, owner : Owners,
     prev : OrderHandles \cup {Null}, next : OrderHandles \cup {Null},
     level : LevelHandles]

Levels ==
    [total_qty : Int, order_count : Int, price : Prices,
     head : OrderHandles \cup {Null}, tail : OrderHandles \cup {Null}]

ASSUME FreeAssumption == Free \notin Orders \cup Levels

ASSUME NoOrderAssumption ==
    NoOrder \notin [side : Sides, price : Prices, qty : Nat, owner : Owners]

Stats == [total_qty : [Sides -> Int], level_count : [Sides -> Int], order_count : Int]

LiveOrders == {h \in OrderHandles : orders[h] # Free}
LiveLevels == {h \in LevelHandles : levels[h] # Free}

TypeOK ==
    /\ orders \in [OrderHandles -> Orders \cup {Free}]
    /\ levels \in [LevelHandles -> Levels \cup {Free}]
    /\ index \in [Refs -> OrderHandles \cup {Null}]
    /\ ladders \in [Sides -> [Prices -> LevelHandles \cup {Null}]]
    /\ stats \in Stats
    /\ best \in [Sides -> Prices \cup {kNoPrice}]

Init ==
    /\ orders = [h \in OrderHandles |-> Free]
    /\ levels = [h \in LevelHandles |-> Free]
    /\ index = [ref \in Refs |-> Null]
    /\ ladders = [side \in Sides |-> [p \in Prices |-> Null]]
    /\ stats = [total_qty |-> [side \in Sides |-> 0],
                level_count |-> [side \in Sides |-> 0], order_count |-> 0]
    /\ best = [side \in Sides |-> kNoPrice]

\* The book as a value, for replace() composes two mutations of it.
Book ==
    [orders |-> orders, levels |-> levels, index |-> index, ladders |-> ladders,
     stats |-> stats, best |-> best]

Becomes(B) ==
    /\ orders' = B.orders
    /\ levels' = B.levels
    /\ index' = B.index
    /\ ladders' = B.ladders
    /\ stats' = B.stats
    /\ best' = B.best

StoredPrices(B, side) == {p \in Prices : B.ladders[side][p] # Null}

------------------------------------------------------------------------------
(* add() *)

\* The handles allocate() may return for an order, and level_for() for a level:
\* the level already at the price, or a free record.
OrderChoices(B) == {h \in OrderHandles : B.orders[h] = Free}

LevelChoices(B, side, p) ==
    IF B.ladders[side][p] # Null THEN {B.ladders[side][p]}
    ELSE {h \in LevelHandles : B.levels[h] = Free}

\* level_for(): a level at a price that had none is initialised and stored.
WithLevel(B, lh, side, p) ==
    IF B.ladders[side][p] # Null THEN B
    ELSE [B EXCEPT
            !.levels[lh] = [total_qty |-> 0, order_count |-> 0, price |-> p,
                            head |-> Null, tail |-> Null],
            !.ladders[side][p] = lh,
            !.stats.level_count[side] = @ + 1]

\* A mutant: the side is ignored when prices are compared.
NotedHighest(B, side, p) ==
    IF p > B.best[side] THEN [B EXCEPT !.best[side] = p] ELSE B

\* note_added(): kNoPrice doubles as the marker of an empty side.
NotedAdded(B, side, p) ==
    IF B.best[side] = kNoPrice \/ Before(side, p, B.best[side])
    THEN [B EXCEPT !.best[side] = p]
    ELSE B

\* The order is written to record oh and joins the back of level lh's queue.
Enqueued(B, oh, lh, ref, side, p, qty, owner) ==
    LET tail == B.levels[lh].tail
        o == [ref |-> ref, qty |-> qty, price |-> p, side |-> side, owner |-> owner,
              prev |-> tail, next |-> Null, level |-> lh]
        l == [B.levels[lh] EXCEPT !.head = IF tail = Null THEN oh ELSE @,
                                  !.tail = oh,
                                  !.total_qty = @ + qty,
                                  !.order_count = @ + 1]
    IN  [B EXCEPT
            !.orders = [h \in OrderHandles |->
                          IF h = oh THEN o
                          ELSE IF h = tail THEN [B.orders[h] EXCEPT !.next = oh]
                          ELSE B.orders[h]],
            !.levels[lh] = l,
            !.index[ref] = oh,
            !.stats.total_qty[side] = @ + qty,
            !.stats.order_count = @ + 1]

Added(B, oh, lh, ref, side, p, qty, owner) ==
    NotedAdded(Enqueued(WithLevel(B, lh, side, p), oh, lh, ref, side, p, qty, owner),
               side, p)

------------------------------------------------------------------------------
(* reduce() *)

\* Shares come off the order, its level and its side.
Lessened(B, oh, shares) ==
    LET o == B.orders[oh]
    IN  [B EXCEPT !.orders[oh].qty = @ - shares,
                  !.stats.total_qty[o.side] = @ - shares,
                  !.levels[o.level].total_qty = @ - shares]

\* A mutant: the order behind keeps its link to the one that left.
UnlinkedOneWay(B, oh) ==
    LET o == B.orders[oh]
        l == [B.levels[o.level] EXCEPT !.head = IF o.prev = Null THEN o.next ELSE @,
                                       !.tail = IF o.next = Null THEN o.prev ELSE @,
                                       !.order_count = @ - 1]
    IN  [B EXCEPT
            !.orders = [h \in OrderHandles |->
                          IF h = o.prev THEN [B.orders[h] EXCEPT !.next = o.next]
                          ELSE B.orders[h]],
            !.levels[o.level] = l,
            !.index[o.ref] = Null,
            !.stats.order_count = @ - 1]

\* The order leaves its queue, from either end or the middle, and the index.
Unlinked(B, oh) ==
    LET o == B.orders[oh]
        l == [B.levels[o.level] EXCEPT !.head = IF o.prev = Null THEN o.next ELSE @,
                                       !.tail = IF o.next = Null THEN o.prev ELSE @,
                                       !.order_count = @ - 1]
    IN  [B EXCEPT
            !.orders = [h \in OrderHandles |->
                          IF h \notin {o.prev, o.next} THEN B.orders[h]
                          ELSE [B.orders[h] EXCEPT
                                  !.next = IF h = o.prev THEN o.next ELSE @,
                                  !.prev = IF h = o.next THEN o.prev ELSE @]],
            !.levels[o.level] = l,
            !.index[o.ref] = Null,
            !.stats.order_count = @ - 1]

\* A level whose last order left is erased from its side by price and freed.
LevelCleared(B, oh) ==
    LET o == B.orders[oh]
    IN  [B EXCEPT !.ladders[o.side][o.price] = Null,
                  !.levels[o.level] = Free,
                  !.stats.level_count[o.side] = @ - 1]

\* note_removed(): the cache moves only when the level at the top clears.
NotedRemoved(B, side, p) ==
    IF p # B.best[side] THEN B
    ELSE [B EXCEPT !.best[side] =
             IF StoredPrices(B, side) = {} THEN kNoPrice
             ELSE Inside(side, StoredPrices(B, side))]

Reduced(B, oh, shares) ==
    LET o        == B.orders[oh]
        lessened == Lessened(B, oh, shares)
        unlinked == Unlinked(lessened, oh)
    IN  IF o.qty # shares THEN lessened
        ELSE IF unlinked.levels[o.level].order_count # 0
        THEN [unlinked EXCEPT !.orders[oh] = Free]
        ELSE NotedRemoved([LevelCleared(unlinked, oh) EXCEPT !.orders[oh] = Free],
                          o.side, o.price)

------------------------------------------------------------------------------
(* The operations of the book. *)

Add(ref, side, p, qty, owner) ==
    /\ qty > 0
    /\ index[ref] = Null
    /\ \E oh \in OrderChoices(Book), lh \in LevelChoices(Book, side, p) :
          Becomes(Added(Book, oh, lh, ref, side, p, qty, owner))

\* cancel() and execute() differ only in what they mean to the caller.
Cancel(ref, shares) ==
    /\ index[ref] # Null
    /\ shares <= orders[index[ref]].qty
    /\ Becomes(Reduced(Book, index[ref], shares))

Remove(ref) ==
    /\ index[ref] # Null
    /\ Becomes(Reduced(Book, index[ref], orders[index[ref]].qty))

\* A mutant: the replacement loses the owner.
ReplaceOwnerless(old, new, p, qty) ==
    /\ index[old] # Null
    /\ LET o == orders[index[old]]
           R == Reduced(Book, index[old], o.qty)
       IN  /\ qty > 0
           /\ R.index[new] = Null
           /\ \E oh \in OrderChoices(R), lh \in LevelChoices(R, o.side, p) :
                 Becomes(Added(R, oh, lh, new, o.side, p, qty, 0))

Replace(old, new, p, qty) ==
    /\ index[old] # Null
    /\ LET o == orders[index[old]]
           R == Reduced(Book, index[old], o.qty)
       IN  /\ qty > 0
           /\ R.index[new] = Null
           /\ \E oh \in OrderChoices(R), lh \in LevelChoices(R, o.side, p) :
                 Becomes(Added(R, oh, lh, new, o.side, p, qty, o.owner))

Next ==
    \/ \E ref \in Refs, side \in Sides, p \in Prices, qty \in Quantities, owner \in Owners :
          Add(ref, side, p, qty, owner)
    \/ \E ref \in Refs, shares \in Quantities : Cancel(ref, shares)
    \/ \E ref \in Refs : Remove(ref)
    \/ \E old, new \in Refs, p \in Prices, qty \in Quantities : Replace(old, new, p, qty)

Spec == Init /\ [][Next]_vars

------------------------------------------------------------------------------
(* Properties. *)

OrdersOn(lh) == {h \in LiveOrders : orders[h].level = lh}

\* The queue of a level, read by following the links from its head: hop[i] is the
\* record reached by i links, and the queue ends where they leave the live ones.
QueueOf(lh) ==
    LET hop[i \in 0 .. Cardinality(OrderHandles)] ==
            IF i = 0 THEN levels[lh].head
            ELSE IF hop[i - 1] \in LiveOrders THEN orders[hop[i - 1]].next ELSE Null
        visited == {i \in 1 .. Cardinality(OrderHandles) : hop[i - 1] \in LiveOrders}
    IN  [i \in 1 .. Cardinality(visited) |-> hop[i - 1]]

\* The index and the live records are the same set of orders: no reference
\* leads to a freed or foreign record and no record is orphaned.
IndexExact ==
    /\ \A ref \in Refs : index[ref] # Null =>
          index[ref] \in LiveOrders /\ orders[index[ref]].ref = ref
    /\ \A h \in LiveOrders : index[orders[h].ref] = h

\* Every resting order is on a level that is allocated and that its side stores
\* at its price; every stored level has its own price and at least one order.
\* A level is never freed while an order still points at it, and always when
\* its last order has gone.
LevelsExact ==
    /\ \A h \in LiveOrders :
          /\ orders[h].level \in LiveLevels
          /\ ladders[orders[h].side][orders[h].price] = orders[h].level
    /\ \A side \in Sides, p \in Prices : ladders[side][p] # Null =>
          /\ ladders[side][p] \in LiveLevels
          /\ levels[ladders[side][p]].price = p
          /\ OrdersOn(ladders[side][p]) # {}
    /\ LiveLevels = {ladders[side][p] : side \in Sides, p \in Prices} \ {Null}

\* The names by which records share state, references and prices on one side and
\* handles on the other, are exact: none dangles and no record is without one.
HandlesExact == IndexExact /\ LevelsExact

\* The links from a level's head visit every order on it once and end at its
\* tail, and the backward links mirror the forward ones, after any sequence of
\* additions at the back and removals from either end or the middle.
QueueLinks ==
    \A lh \in LiveLevels :
        LET queue == QueueOf(lh)
        IN  /\ Range(queue) = OrdersOn(lh)
            /\ Len(queue) = Cardinality(OrdersOn(lh))
            /\ levels[lh].tail = queue[Len(queue)]
            /\ \A i \in DOMAIN queue :
                  orders[queue[i]].prev = IF i = 1 THEN Null ELSE queue[i - 1]

\* The records and the handles between them are whole after every operation,
\* however orders were linked, unlinked, freed and their records used again.
RecordsExact == TypeOK /\ HandlesExact /\ QueueLinks

\* The shares in each record, none in a free one.
Shares == [h \in OrderHandles |-> IF orders[h] = Free THEN 0 ELSE orders[h].qty]

\* A level's quantity and count, maintained incrementally, are those of the
\* orders on it, and no order rests with nothing left.
LevelTotals ==
    /\ \A lh \in LiveLevels :
          /\ levels[lh].total_qty = SumFunctionOnSet(Shares, OrdersOn(lh))
          /\ levels[lh].order_count = Cardinality(OrdersOn(lh))
    /\ \A h \in LiveOrders : orders[h].qty > 0

\* BookStats, compared after every operation of the differential tests, is what
\* a recount of the book gives.
StatsExact ==
    /\ stats.order_count = Cardinality(LiveOrders)
    /\ \A side \in Sides :
          /\ stats.total_qty[side] =
                SumFunctionOnSet(Shares, {h \in LiveOrders : orders[h].side = side})
          /\ stats.level_count[side] = Cardinality(StoredPrices(Book, side))

\* What reduce() and add() maintain share by share at different points, for the
\* level, the side and the book, is what a recount gives.
CountsExact == LevelTotals /\ StatsExact

\* The cached best is what the level container would compute, and kNoPrice only
\* while the side is empty.
BestCached ==
    \A side \in Sides :
        best[side] = IF StoredPrices(Book, side) = {} THEN kNoPrice
                     ELSE Inside(side, StoredPrices(Book, side))

\* Everything the book keeps along rather than computes is exact: the counts,
\* which change share by share, and the best prices, which change level by level.
CachesExact == CountsExact /\ BestCached

\* What the index and the queues, followed by their links, say is resting.
RestingEntry ==
    [ref \in Refs |->
        IF index[ref] \in LiveOrders
        THEN LET o == orders[index[ref]]
             IN  [side |-> o.side, price |-> o.price, qty |-> o.qty, owner |-> o.owner]
        ELSE NoOrder]

RestingQueues ==
    [side \in Sides |-> [p \in Prices |->
        IF ladders[side][p] \in LiveLevels
        THEN LET queue == QueueOf(ladders[side][p])
             IN  [i \in DOMAIN queue |-> orders[queue[i]].ref]
        ELSE <<>>]]

\* Read through its index and its queues, the book is a price-time priority book.
Reference == INSTANCE LimitOrderBook WITH entry <- RestingEntry, fifo <- RestingQueues

ImplementsLimitOrderBook == Reference!BookSpec
==============================================================================
