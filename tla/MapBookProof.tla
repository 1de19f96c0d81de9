---------------------------- MODULE MapBookProof ----------------------------
(***************************************************************************)
(* The reference book of the replay tools, for every set of references,    *)
(* prices and owners, driven with the calls the flat book is: its hash     *)
(* map, its ordered maps of levels and its counters agree after every      *)
(* operation, so its own validate() never fails, and read through them it  *)
(* is the price-time priority book.  The invariant is of a book as a value *)
(* b, for replacing is removing and adding.                                *)
(***************************************************************************)
EXTENDS Differential, FlatBookProof

------------------------------------------------------------------------------
(* Operators reached through the instance are those of this module. *)

LEMMA SameSum == \A f, S : References!SumFunctionOnSet(f, S) = SumFunctionOnSet(f, S)
<1> SUFFICES ASSUME NEW f, NEW S
             PROVE  References!SumFunctionOnSet(f, S) = SumFunctionOnSet(f, S)
  OBVIOUS
<1>1. References!SumFunctionOnSet(f, S) = (CHOOSE g : Sums(f, SUBSET S, g))[S]
  BY Zenon DEF References!SumFunctionOnSet, References!FoldFunctionOnSet,
               References!MapThenFoldSet, Sums, Pick
<1> QED BY <1>1, SumIsOfSums

LEMMA SameSizes == \A S : References!Cardinality(S) = Cardinality(S)
  BY Zenon DEF References!Cardinality, Cardinality

LEMMA SamePlaces ==
  /\ \A q, k : References!ClosedUp(q, k) = ClosedUp(q, k)
  /\ \A q, r : References!PlaceOf(q, r) = PlaceOf(q, r)
  /\ References!Sides = Sides /\ References!kNoPrice = kNoPrice
  /\ \A side, x, y : References!Before(side, x, y) = Before(side, x, y)
  BY DEF References!ClosedUp, ClosedUp, References!PlaceOf, PlaceOf, References!Sides, Sides,
         References!Before, Before, References!kNoPrice, kNoPrice

LEMMA SameWalks ==
  /\ \A side, S : References!Outwards(side, S) = Outwards(side, S)
  /\ \A side, S : References!Inside(side, S) = Inside(side, S)
<1>1. \A side, S : References!Inside(side, S) = Inside(side, S)
  BY Zenon DEF References!Inside, Inside, References!Highest, Highest, References!Lowest, Lowest
<1>2. \A side, S : References!Outwards(side, S) = Outwards(side, S)
  BY Zenon DEF References!Outwards, Outwards, References!Cardinality, Cardinality,
               References!Before, Before
<1> QED BY <1>1, <1>2

LEMMA SamePromises ==
  /\ \A q, k : References!Promised!ClosedUp(q, k) = ClosedUp(q, k)
  /\ \A q, r : References!Promised!PlaceOf(q, r) = PlaceOf(q, r)
  BY DEF References!Promised!ClosedUp, ClosedUp, References!Promised!PlaceOf, PlaceOf

------------------------------------------------------------------------------
(* The invariant. *)

MapEntries == [side : Sides, price : Prices, qty : Nat, owner : Owners]

MapLevels == [qty : Int, fifo : Seq(Refs)]

\* The orders at one price of a side.
MapOn(b, side, p) ==
    {r \in DOMAIN b.orders : b.orders[r].side = side /\ b.orders[r].price = p}

\* The shares of each order, and the shares and the orders at each price.
MapHeld(b) == [r \in Refs |-> IF r \in DOMAIN b.orders THEN b.orders[r].qty ELSE 0]

MapQty(b, side) ==
    [p \in Prices |-> IF p \in DOMAIN b.levels[side] THEN b.levels[side][p].qty ELSE 0]

MapFifo(b, side) ==
    [p \in Prices |-> IF p \in DOMAIN b.levels[side] THEN b.levels[side][p].fifo ELSE << >>]

MapDepth(b, side) == [p \in Prices |-> Len(MapFifo(b, side)[p])]

\* A map is a function of its keys.
IsMap(f) == f = [x \in DOMAIN f |-> f[x]]

MapFields(b) ==
    /\ DOMAIN b = {"orders", "levels", "stats"}
    /\ DOMAIN b.orders \in SUBSET Refs /\ IsFiniteSet(DOMAIN b.orders)
    /\ \A r \in DOMAIN b.orders : b.orders[r] \in MapEntries
    /\ DOMAIN b.levels = Sides
    /\ \A side \in Sides :
          /\ IsMap(b.levels[side]) /\ DOMAIN b.levels[side] \in SUBSET Prices
          /\ \A p \in DOMAIN b.levels[side] : b.levels[side][p] \in MapLevels
    /\ b.stats \in Stats

\* The queue at a price is of the orders there, each once, and the level's quantity
\* theirs; there is a level where somebody waits.
MapQueueOK(b, side, p) ==
    LET q == MapFifo(b, side)[p]
    IN  /\ Distinct(q)
        /\ Range(q) = MapOn(b, side, p)
        /\ p \in DOMAIN b.levels[side] <=> q # << >>
        /\ MapQty(b, side)[p] = SumFunctionOnSet(MapHeld(b), MapOn(b, side, p))

MapStatsOK(b) ==
    /\ \A side \in Sides :
          /\ b.stats.total_qty[side] = SumFunctionOnSet(MapQty(b, side), Prices)
          /\ b.stats.level_count[side] = Cardinality(DOMAIN b.levels[side])
    /\ b.stats.order_count = Cardinality(DOMAIN b.orders)
    /\ b.stats.order_count = SumFunctionOnSet(MapDepth(b, "Buy"), Prices) +
                             SumFunctionOnSet(MapDepth(b, "Sell"), Prices)

\* The book is whole, also halfway through reduce(), when an order has nothing left.
MapWhole(b) ==
    /\ MapFields(b)
    /\ \A side \in Sides, p \in Prices : MapQueueOK(b, side, p)
    /\ MapStatsOK(b)

MapSound(b) == MapWhole(b) /\ \A r \in DOMAIN b.orders : b.orders[r].qty > 0

------------------------------------------------------------------------------
(* The parts a mutation of the reference book changes. *)

\* A map with a value under a key, and without a key.
MapWith(f, x, v) == [y \in DOMAIN f \cup {x} |-> IF y = x THEN v ELSE f[y]]
MapWithout(f, x) == [y \in DOMAIN f \ {x} |-> f[y]]

\* The level the order e joins, once it has.
MapJoined(b, ref, e) ==
    LET D == DOMAIN b.levels[e.side]
        level == b.levels[e.side][e.price]
    IN  [qty  |-> IF e.price \in D THEN level.qty + e.qty ELSE e.qty,
         fifo |-> IF e.price \in D THEN Append(level.fifo, ref) ELSE Append(<< >>, ref)]

\* c is b with the order e added.
MapInsertedIs(c, b, ref, e) ==
    /\ DOMAIN c = {"orders", "levels", "stats"}
    /\ c.orders = MapWith(b.orders, ref, e)
    /\ c.levels = [b.levels EXCEPT ![e.side] =
          MapWith(b.levels[e.side], e.price, MapJoined(b, ref, e))]
    /\ c.stats \in Stats
    /\ c.stats.total_qty = [b.stats.total_qty EXCEPT ![e.side] = @ + e.qty]
    /\ c.stats.level_count = [b.stats.level_count EXCEPT ![e.side] =
          IF e.price \in DOMAIN b.levels[e.side] THEN @ ELSE @ + 1]
    /\ c.stats.order_count = b.stats.order_count + 1

LEMMA MapInsertedParts ==
  ASSUME NEW b, MapFields(b), NEW ref \in Refs, NEW e \in MapEntries,
         NEW c, c = References!Inserted(b, ref, e)
  PROVE  MapInsertedIs(c, b, ref, e)
<1>1. PICK fresh \in BOOLEAN : fresh = (e.price \notin DOMAIN b.levels[e.side])
  OBVIOUS
<1>2. PICK level : level = IF fresh THEN [qty |-> 0, fifo |-> << >>]
                           ELSE b.levels[e.side][e.price]
  OBVIOUS
<1>3. PICK w : w = [qty |-> level.qty + e.qty, fifo |-> Append(level.fifo, ref)]
  OBVIOUS
<1>4. PICK L : L = MapWith(b.levels[e.side], e.price, w)
  OBVIOUS
<1>5. PICK O : O = MapWith(b.orders, ref, e)
  OBVIOUS
<1>6. c = [b EXCEPT !.levels[e.side] = L,
                    !.stats.level_count[e.side] = IF fresh THEN @ + 1 ELSE @,
                    !.stats.total_qty[e.side] = @ + e.qty,
                    !.stats.order_count = @ + 1,
                    !.orders = O]
  BY <1>1, <1>2, <1>3, <1>4, <1>5 DEF References!Inserted, References!With, MapWith
<1>7. /\ DOMAIN c = {"orders", "levels", "stats"}
      /\ c.orders = O
      /\ c.levels = [b.levels EXCEPT ![e.side] = L]
      /\ c.stats = [b.stats EXCEPT !.level_count[e.side] = IF fresh THEN @ + 1 ELSE @,
                                   !.total_qty[e.side] = @ + e.qty,
                                   !.order_count = @ + 1]
  <2>1. DOMAIN b = {"orders", "levels", "stats"}
    BY DEF MapFields
  <2>2. PICK st : st = [b.stats EXCEPT !.level_count[e.side] = IF fresh THEN @ + 1 ELSE @,
                                       !.total_qty[e.side] = @ + e.qty,
                                       !.order_count = @ + 1]
    OBVIOUS
  <2>3. c = [b EXCEPT !.levels = [@ EXCEPT ![e.side] = L], !.stats = st, !.orders = O]
    BY <1>6, <2>2, ZenonT(40)
  <2> QED BY <2>1, <2>2, <2>3
<1>8. b.stats \in Stats /\ e.side \in Sides /\ e.qty \in Int
  BY DEF MapFields, MapEntries
<1>9. /\ c.stats \in Stats
      /\ c.stats.total_qty = [b.stats.total_qty EXCEPT ![e.side] = @ + e.qty]
      /\ c.stats.level_count = [b.stats.level_count EXCEPT ![e.side] = IF fresh THEN @ + 1 ELSE @]
      /\ c.stats.order_count = b.stats.order_count + 1
  <2>1. PICK st \in Stats : st = b.stats
    BY <1>8
  <2>2. PICK n : n = c.stats
    OBVIOUS
  <2>3. PICK opened : opened = IF fresh THEN st.level_count[e.side] + 1 ELSE st.level_count[e.side]
    OBVIOUS
  <2>4. opened \in Int /\ st.total_qty[e.side] + e.qty \in Int /\ st.order_count + 1 \in Int
    BY <1>8, <2>3 DEF Stats
  <2>5. n = [st EXCEPT !.level_count[e.side] = opened, !.total_qty[e.side] = @ + e.qty,
                       !.order_count = @ + 1]
    BY <1>7, <2>1, <2>2, <2>3
  <2>6. /\ n.total_qty = [st.total_qty EXCEPT ![e.side] = @ + e.qty]
        /\ n.level_count = [st.level_count EXCEPT ![e.side] = opened]
        /\ n.order_count = st.order_count + 1
    BY <2>5 DEF Stats
  <2>7. n \in Stats
    BY <1>8, <2>4, <2>5 DEF Stats
  <2> QED BY <2>1, <2>2, <2>3, <2>6, <2>7
<1>10. w = MapJoined(b, ref, e)
  <2>1. CASE fresh
    <3>1. level.qty = 0 /\ level.fifo = << >>
      BY <1>2, <2>1
    <3>2. w = [qty |-> e.qty, fifo |-> Append(<< >>, ref)]
      BY <1>3, <1>8, <3>1
    <3> QED BY <1>1, <2>1, <3>2 DEF MapJoined
  <2>2. CASE ~ fresh
    BY <1>1, <1>2, <1>3, <2>2 DEF MapJoined
  <2> QED BY <2>1, <2>2
<1> QED BY <1>1, <1>4, <1>5, <1>7, <1>9, <1>10 DEF MapInsertedIs

\* What reduce() leaves when the order keeps some shares.
MapLessened(b, ref, shares) ==
    [b EXCEPT !.orders[ref].qty = @ - shares,
              !.levels[b.orders[ref].side][b.orders[ref].price].qty = @ - shares,
              !.stats.total_qty[b.orders[ref].side] = @ - shares]

\* c is b with shares off an order, its level and its side.
MapLessenedIs(c, b, ref, side, p, shares) ==
    /\ DOMAIN c = {"orders", "levels", "stats"}
    /\ c.orders = [b.orders EXCEPT ![ref].qty = @ - shares]
    /\ c.levels = [b.levels EXCEPT ![side][p].qty = @ - shares]
    /\ c.stats \in Stats
    /\ c.stats.total_qty = [b.stats.total_qty EXCEPT ![side] = @ - shares]
    /\ c.stats.level_count = b.stats.level_count
    /\ c.stats.order_count = b.stats.order_count

LEMMA MapLessenedParts ==
  ASSUME NEW b, MapFields(b), NEW ref \in DOMAIN b.orders, NEW shares \in Nat,
         NEW side, side = b.orders[ref].side, NEW p, p = b.orders[ref].price,
         NEW c, c = MapLessened(b, ref, shares)
  PROVE  MapLessenedIs(c, b, ref, side, p, shares)
<1>1. /\ DOMAIN c = {"orders", "levels", "stats"}
      /\ c.orders = [b.orders EXCEPT ![ref].qty = @ - shares]
      /\ c.levels = [b.levels EXCEPT ![side][p].qty = @ - shares]
      /\ c.stats = [b.stats EXCEPT !.total_qty[side] = @ - shares]
  BY DEF MapLessened, MapFields
<1>2. b.stats \in Stats /\ side \in Sides
  BY DEF MapFields, MapEntries
<1>3. /\ c.stats \in Stats
      /\ c.stats.total_qty = [b.stats.total_qty EXCEPT ![side] = @ - shares]
      /\ c.stats.level_count = b.stats.level_count
      /\ c.stats.order_count = b.stats.order_count
  <2>1. PICK st \in Stats : st = b.stats
    BY <1>2
  <2>2. PICK n : n = c.stats
    OBVIOUS
  <2>3. n = [st EXCEPT !.total_qty[side] = @ - shares]
    BY <1>1, <2>1, <2>2
  <2>4. /\ n.total_qty = [st.total_qty EXCEPT ![side] = @ - shares]
        /\ n.level_count = st.level_count
        /\ n.order_count = st.order_count
    BY <2>3 DEF Stats
  <2>5. n \in Stats
    BY <1>2, <2>3 DEF Stats
  <2> QED BY <2>1, <2>2, <2>4, <2>5
<1> QED BY <1>1, <1>3 DEF MapLessenedIs

\* Those who wait at a price once one of them has left.
MapRest(b, side, p, ref) ==
    ClosedUp(b.levels[side][p].fifo, PlaceOf(b.levels[side][p].fifo, ref))

\* c is b once an order has left, and its level with it if no rest waits.
MapDetachedIs(c, b, ref, side, p, rest) ==
    /\ DOMAIN c = {"orders", "levels", "stats"}
    /\ c.orders = MapWithout(b.orders, ref)
    /\ c.levels = [b.levels EXCEPT ![side] =
          IF rest = << >> THEN MapWithout(b.levels[side], p)
          ELSE [b.levels[side] EXCEPT ![p].fifo = rest]]
    /\ c.stats \in Stats
    /\ c.stats.total_qty = b.stats.total_qty
    /\ c.stats.level_count = [b.stats.level_count EXCEPT ![side] =
          IF rest = << >> THEN @ - 1 ELSE @]
    /\ c.stats.order_count = b.stats.order_count - 1

LEMMA MapDetachedParts ==
  ASSUME NEW b, MapFields(b), NEW ref \in DOMAIN b.orders,
         NEW side, side = b.orders[ref].side, NEW p, p = b.orders[ref].price,
         NEW rest, rest = MapRest(b, side, p, ref),
         NEW c, c = References!Detached(b, ref)
  PROVE  MapDetachedIs(c, b, ref, side, p, rest)
<1>1. PICK O : O = MapWithout(b.orders, ref)
  OBVIOUS
<1>2. PICK L : L = IF rest = << >> THEN MapWithout(b.levels[side], p)
                   ELSE [b.levels[side] EXCEPT ![p].fifo = rest]
  OBVIOUS
<1>3. c = [b EXCEPT !.levels[side] = L,
                    !.stats.level_count[side] = IF rest = << >> THEN @ - 1 ELSE @,
                    !.stats.order_count = @ - 1,
                    !.orders = O]
  BY <1>1, <1>2, SamePlaces DEF References!Detached, References!Without, MapWithout, MapRest
<1>4. /\ DOMAIN c = {"orders", "levels", "stats"}
      /\ c.orders = O
      /\ c.levels = [b.levels EXCEPT ![side] = L]
      /\ c.stats = [b.stats EXCEPT !.level_count[side] = IF rest = << >> THEN @ - 1 ELSE @,
                                   !.order_count = @ - 1]
  BY <1>3 DEF MapFields
<1>5. b.stats \in Stats /\ side \in Sides
  BY DEF MapFields, MapEntries
<1>6. /\ c.stats \in Stats
      /\ c.stats.total_qty = b.stats.total_qty
      /\ c.stats.level_count = [b.stats.level_count EXCEPT ![side] =
                                  IF rest = << >> THEN @ - 1 ELSE @]
      /\ c.stats.order_count = b.stats.order_count - 1
  <2>1. PICK st \in Stats : st = b.stats
    BY <1>5
  <2>2. PICK n : n = c.stats
    OBVIOUS
  <2>3. PICK left : left = IF rest = << >> THEN st.level_count[side] - 1 ELSE st.level_count[side]
    OBVIOUS
  <2>4. left \in Int /\ st.order_count - 1 \in Int
    <3>1. st.level_count[side] \in Int /\ st.order_count \in Int
      BY <1>5 DEF Stats
    <3>2. st.level_count[side] - 1 \in Int /\ st.order_count - 1 \in Int
      BY <3>1
    <3>3. left = st.level_count[side] - 1 \/ left = st.level_count[side]
      BY <2>3, Zenon
    <3> QED BY <3>1, <3>2, <3>3
  <2>5. n = [st EXCEPT !.level_count[side] = left, !.order_count = @ - 1]
    BY <1>4, <2>1, <2>2, <2>3
  <2>6. /\ n.total_qty = st.total_qty
        /\ n.level_count = [st.level_count EXCEPT ![side] = left]
        /\ n.order_count = st.order_count - 1
    BY <2>5 DEF Stats
  <2>7. n \in Stats
    BY <1>5, <2>4, <2>5 DEF Stats
  <2> QED BY <2>1, <2>2, <2>3, <2>6, <2>7
<1> QED BY <1>1, <1>2, <1>4, <1>6 DEF MapDetachedIs

------------------------------------------------------------------------------
(* A mutation of the reference book keeps it whole. *)

\* What a whole book has at a price.
LEMMA MapAtPrice ==
  ASSUME NEW b, MapFields(b), NEW side \in Sides
  PROVE  /\ MapQty(b, side) \in [Prices -> Int]
         /\ MapFifo(b, side) \in [Prices -> Seq(Refs)]
         /\ MapDepth(b, side) \in [Prices -> Nat]
         /\ \A p \in Prices : IsFiniteSet(MapOn(b, side, p)) /\ MapOn(b, side, p) \in SUBSET Refs
         /\ \A p \in Prices : MapDepth(b, side)[p] = Len(MapFifo(b, side)[p])
<1>1. \A p \in DOMAIN b.levels[side] :
         b.levels[side][p].qty \in Int /\ b.levels[side][p].fifo \in Seq(Refs)
  BY DEF MapFields, MapLevels
<1>2. MapQty(b, side) \in [Prices -> Int]
  BY <1>1 DEF MapQty
<1>3. << >> \in Seq(Refs)
  OBVIOUS
<1>4. MapFifo(b, side) \in [Prices -> Seq(Refs)]
  BY <1>1, <1>3 DEF MapFifo
<1>5. MapDepth(b, side) \in [Prices -> Nat]
  BY <1>4 DEF MapDepth
<1>6. ASSUME NEW p \in Prices
      PROVE  IsFiniteSet(MapOn(b, side, p)) /\ MapOn(b, side, p) \in SUBSET Refs
  <2>1. MapOn(b, side, p) \in SUBSET (DOMAIN b.orders)
    BY DEF MapOn
  <2> QED BY <2>1, FS_Subset DEF MapFields
<1> QED BY <1>2, <1>4, <1>5, <1>6 DEF MapDepth

LEMMA MapHeldType ==
  ASSUME NEW b, MapFields(b)
  PROVE  MapHeld(b) \in [Refs -> Nat]
<1>1. \A r \in DOMAIN b.orders : b.orders[r].qty \in Nat
  BY DEF MapFields, MapEntries
<1> QED BY <1>1 DEF MapHeld

MapEntryOf(b) ==
    [ref \in Refs |-> IF ref \in DOMAIN b.orders THEN b.orders[ref] ELSE NoOrder]

\* What c then shows at each key.
MapInsertedShows(c, b, ref, e, side, p) ==
    /\ MapFields(c)
    /\ DOMAIN c.orders = DOMAIN b.orders \cup {ref}
    /\ \A r \in DOMAIN c.orders : c.orders[r] = IF r = ref THEN e ELSE b.orders[r]
    /\ MapEntryOf(c) = [MapEntryOf(b) EXCEPT ![ref] = e]
    /\ \A x \in Sides \ {side} : c.levels[x] = b.levels[x]
    /\ DOMAIN c.levels[side] = DOMAIN b.levels[side] \cup {p}
    /\ MapFifo(c, side) = [MapFifo(b, side) EXCEPT ![p] = Append(@, ref)]
    /\ MapQty(c, side) = [MapQty(b, side) EXCEPT ![p] = @ + e.qty]

LEMMA MapInsertedPoints ==
  ASSUME NEW b, MapFields(b), NEW ref \in Refs, NEW e \in MapEntries,
         NEW c, c = References!Inserted(b, ref, e),
         NEW side, side = e.side, NEW p, p = e.price
  PROVE  MapInsertedShows(c, b, ref, e, side, p)
<1>1. side \in Sides /\ p \in Prices /\ e.qty \in Nat
  BY DEF MapEntries
<1>2. PICK D : D = DOMAIN b.levels[side]
  OBVIOUS
<1>3. PICK level : level = MapJoined(b, ref, e)
  OBVIOUS
<1>4. /\ DOMAIN c = {"orders", "levels", "stats"}
      /\ c.orders = MapWith(b.orders, ref, e)
      /\ c.levels = [b.levels EXCEPT ![side] = MapWith(b.levels[side], p, level)]
      /\ c.stats \in Stats
  <2>1. MapInsertedIs(c, b, ref, e)
    BY MapInsertedParts
  <2> QED BY <1>3, <2>1 DEF MapInsertedIs
<1>5. DOMAIN b.levels = Sides
  BY DEF MapFields
<1>6. /\ DOMAIN c.orders = DOMAIN b.orders \cup {ref}
      /\ \A r \in DOMAIN c.orders : c.orders[r] = IF r = ref THEN e ELSE b.orders[r]
  BY <1>4 DEF MapWith
<1>7. /\ DOMAIN c.levels = Sides
      /\ \A x \in Sides \ {side} : c.levels[x] = b.levels[x]
      /\ c.levels[side] = MapWith(b.levels[side], p, level)
  BY <1>1, <1>4, <1>5
<1>8. /\ DOMAIN c.levels[side] = D \cup {p}
      /\ \A x \in DOMAIN c.levels[side] :
            c.levels[side][x] = IF x = p THEN level ELSE b.levels[side][x]
  BY <1>2, <1>7 DEF MapWith
<1>9. /\ D \in SUBSET Prices
      /\ \A x \in D : b.levels[side][x] \in MapLevels
  BY <1>1, <1>2 DEF MapFields
<1>10. level \in MapLevels
  <2>1. CASE p \in D
    <3>1. b.levels[side][p].qty \in Int /\ b.levels[side][p].fifo \in Seq(Refs)
      BY <1>9, <2>1 DEF MapLevels
    <3>2. Append(b.levels[side][p].fifo, ref) \in Seq(Refs)
      BY <3>1, AppendProperties
    <3>3. b.levels[side][p].qty + e.qty \in Int
      BY <1>1, <3>1
    <3> QED BY <1>2, <1>3, <2>1, <3>2, <3>3 DEF MapLevels, MapJoined
  <2>2. CASE p \notin D
    <3>1. << >> \in Seq(Refs)
      OBVIOUS
    <3>2. Append(<< >>, ref) \in Seq(Refs)
      BY <3>1, AppendProperties
    <3> QED BY <1>1, <1>2, <1>3, <2>2, <3>2 DEF MapLevels, MapJoined
  <2> QED BY <2>1, <2>2
<1>11. MapFields(c)
  <2>1. DOMAIN c.orders \in SUBSET Refs /\ IsFiniteSet(DOMAIN c.orders)
    BY <1>6, FS_AddElement DEF MapFields
  <2>2. \A r \in DOMAIN c.orders : c.orders[r] \in MapEntries
    BY <1>6 DEF MapFields
  <2>3. ASSUME NEW x \in Sides
        PROVE  /\ IsMap(c.levels[x]) /\ DOMAIN c.levels[x] \in SUBSET Prices
               /\ \A y \in DOMAIN c.levels[x] : c.levels[x][y] \in MapLevels
    <3>1. CASE x = side
      <4>1. IsMap(c.levels[side])
        BY <1>7 DEF IsMap, MapWith
      <4> QED BY <1>1, <1>8, <1>9, <1>10, <3>1, <4>1
    <3>2. CASE x # side
      BY <1>7, <3>2 DEF MapFields
    <3> QED BY <3>1, <3>2
  <2> QED BY <1>4, <1>7, <2>1, <2>2, <2>3 DEF MapFields
<1>12. MapEntryOf(c) = [MapEntryOf(b) EXCEPT ![ref] = e]
  BY <1>6 DEF MapEntryOf
<1>13. MapFifo(c, side) = [MapFifo(b, side) EXCEPT ![p] = Append(@, ref)]
  <2>1. \A x \in Prices \ {p} : MapFifo(c, side)[x] = MapFifo(b, side)[x]
    BY <1>2, <1>8 DEF MapFifo
  <2>2. MapFifo(c, side)[p] = level.fifo
    BY <1>1, <1>8 DEF MapFifo
  <2>3. level.fifo = Append(MapFifo(b, side)[p], ref)
    BY <1>1, <1>2, <1>3 DEF MapFifo, MapJoined
  <2>4. DOMAIN MapFifo(c, side) = Prices /\ DOMAIN MapFifo(b, side) = Prices
    BY DEF MapFifo
  <2> QED BY <2>1, <2>2, <2>3, <2>4 DEF MapFifo
<1>14. MapQty(c, side) = [MapQty(b, side) EXCEPT ![p] = @ + e.qty]
  <2>1. \A x \in Prices \ {p} : MapQty(c, side)[x] = MapQty(b, side)[x]
    BY <1>2, <1>8 DEF MapQty
  <2>2. MapQty(c, side)[p] = level.qty
    BY <1>1, <1>8 DEF MapQty
  <2>3. level.qty = MapQty(b, side)[p] + e.qty
    BY <1>1, <1>2, <1>3 DEF MapQty, MapJoined
  <2> QED BY <2>1, <2>2, <2>3 DEF MapQty
<1> QED BY <1>2, <1>6, <1>7, <1>8, <1>11, <1>12, <1>13, <1>14 DEF MapInsertedShows

\* What is the same on a side whose levels are the same.
LEMMA MapSameSide ==
  ASSUME NEW b, NEW c, NEW side, c.levels[side] = b.levels[side]
  PROVE  /\ MapQty(c, side) = MapQty(b, side)
         /\ MapFifo(c, side) = MapFifo(b, side)
         /\ MapDepth(c, side) = MapDepth(b, side)
<1>1. MapQty(c, side) = MapQty(b, side)
  BY DEF MapQty
<1>2. MapFifo(c, side) = MapFifo(b, side)
  BY DEF MapFifo
<1> QED BY <1>1, <1>2 DEF MapDepth

\* A sum over the prices when what is at one of them changes.
LEMMA SumAtPrices ==
  ASSUME NEW f \in [Prices -> Int], NEW g \in [Prices -> Int], NEW p \in Prices,
         \A y \in Prices \ {p} : f[y] = g[y]
  PROVE  /\ SumFunctionOnSet(f, Prices) \in Int
         /\ SumFunctionOnSet(g, Prices) = SumFunctionOnSet(f, Prices) - f[p] + g[p]
<1>1. \A y \in Prices : f[y] \in Int /\ g[y] \in Int
  OBVIOUS
<1>2. IsFiniteSet(Prices)
  BY FlatBookAssumption
<1>3. SumFunctionOnSet(f, Prices) \in Int
  BY <1>1, <1>2, SumSplits
<1>4. SumFunctionOnSet(g, Prices) = SumFunctionOnSet(f, Prices) - f[p] + g[p]
  BY <1>1, <1>2, SumChanges
<1> QED BY <1>3, <1>4

\* insert() keeps the book sound.
LEMMA MapInsertedSound ==
  ASSUME NEW b, MapSound(b), NEW ref \in Refs, ref \notin DOMAIN b.orders,
         NEW e \in MapEntries, e.qty > 0,
         NEW c, c = References!Inserted(b, ref, e)
  PROVE  MapSound(c)
<1>1. PICK s \in Sides, p \in Prices : s = e.side /\ p = e.price
  BY DEF MapEntries
<1>2. MapFields(b) /\ MapStatsOK(b) /\ \A x \in Sides, y \in Prices : MapQueueOK(b, x, y)
  BY DEF MapSound, MapWhole
<1>3. /\ MapFields(c)
      /\ DOMAIN c.orders = DOMAIN b.orders \cup {ref}
      /\ \A r \in DOMAIN c.orders : c.orders[r] = IF r = ref THEN e ELSE b.orders[r]
      /\ \A x \in Sides \ {s} : c.levels[x] = b.levels[x]
      /\ DOMAIN c.levels[s] = DOMAIN b.levels[s] \cup {p}
      /\ MapFifo(c, s) = [MapFifo(b, s) EXCEPT ![p] = Append(@, ref)]
      /\ MapQty(c, s) = [MapQty(b, s) EXCEPT ![p] = @ + e.qty]
  <2>1. MapInsertedShows(c, b, ref, e, s, p)
    BY <1>1, <1>2, MapInsertedPoints
  <2> QED BY <2>1 DEF MapInsertedShows
<1>4. e.qty \in Nat
  BY DEF MapEntries
<1>5. \A x \in Sides, y \in Prices :
         MapOn(c, x, y) = IF x = s /\ y = p THEN MapOn(b, x, y) \cup {ref} ELSE MapOn(b, x, y)
  BY <1>1, <1>3 DEF MapOn
<1>6. MapHeld(c) = [MapHeld(b) EXCEPT ![ref] = e.qty]
  BY <1>3 DEF MapHeld
<1>7. MapHeld(b) \in [Refs -> Nat]
  BY <1>2, MapHeldType
<1>8. ASSUME NEW x \in Sides, NEW y \in Prices
      PROVE  /\ IsFiniteSet(MapOn(b, x, y)) /\ MapOn(b, x, y) \in SUBSET Refs
             /\ ref \notin MapOn(b, x, y)
             /\ SumFunctionOnSet(MapHeld(c), MapOn(b, x, y)) =
                   SumFunctionOnSet(MapHeld(b), MapOn(b, x, y))
  <2>1. /\ IsFiniteSet(MapOn(b, x, y)) /\ MapOn(b, x, y) \in SUBSET Refs
        /\ ref \notin MapOn(b, x, y)
    <3>1. ref \notin MapOn(b, x, y)
      BY DEF MapOn
    <3> QED BY <1>2, <3>1, MapAtPrice
  <2>2. \A r \in MapOn(b, x, y) : MapHeld(c)[r] = MapHeld(b)[r]
    BY <1>6, <1>7, <2>1
  <2> QED BY <2>1, <2>2, SumSame
<1>9. SumFunctionOnSet(MapHeld(c), MapOn(c, s, p)) =
         SumFunctionOnSet(MapHeld(b), MapOn(b, s, p)) + e.qty
  <2>1. MapHeld(c)[ref] = e.qty
    BY <1>6, <1>7
  <2>2. \A r \in MapOn(b, s, p) \cup {ref} : MapHeld(c)[r] \in Int
    BY <1>4, <1>6, <1>7, <1>8
  <2>3. SumFunctionOnSet(MapHeld(c), MapOn(b, s, p) \cup {ref}) =
           SumFunctionOnSet(MapHeld(c), MapOn(b, s, p)) + MapHeld(c)[ref]
    BY <1>8, <2>2, SumGrows
  <2> QED BY <1>5, <1>8, <2>1, <2>3
<1>10. ASSUME NEW x \in Sides
       PROVE  /\ MapQty(b, x) \in [Prices -> Int] /\ MapFifo(b, x) \in [Prices -> Seq(Refs)]
              /\ MapDepth(b, x) \in [Prices -> Nat] /\ MapDepth(b, x) \in [Prices -> Int]
              /\ \A y \in Prices : MapDepth(b, x)[y] = Len(MapFifo(b, x)[y])
  <2>1. /\ MapQty(b, x) \in [Prices -> Int] /\ MapFifo(b, x) \in [Prices -> Seq(Refs)]
        /\ MapDepth(b, x) \in [Prices -> Nat]
        /\ \A y \in Prices : MapDepth(b, x)[y] = Len(MapFifo(b, x)[y])
    BY <1>2, MapAtPrice
  <2> QED BY <2>1
<1>11. MapQueueOK(c, s, p)
  <2>1. PICK q : q = MapFifo(b, s)[p]
    OBVIOUS
  <2>2. q \in Seq(Refs) /\ Distinct(q) /\ Range(q) = MapOn(b, s, p)
    BY <1>2, <1>10, <2>1 DEF MapQueueOK
  <2>3. /\ Append(q, ref) \in Seq(Refs) /\ Distinct(Append(q, ref))
        /\ Range(Append(q, ref)) = Range(q) \cup {ref}
    BY <1>8, <2>2, Joining
  <2>4. Append(q, ref) # << >>
    <3>1. Len(Append(q, ref)) = Len(q) + 1 /\ Len(q) \in Nat
      BY <2>2, AppendProperties, LenProperties
    <3> QED BY <2>3, <3>1, EmptySeq
  <2>5. MapFifo(c, s)[p] = Append(q, ref)
    BY <1>3, <1>10, <2>1
  <2>6. MapQty(c, s)[p] = SumFunctionOnSet(MapHeld(c), MapOn(c, s, p))
    <3>1. MapQty(c, s)[p] = MapQty(b, s)[p] + e.qty
      BY <1>3, <1>10
    <3>2. MapQty(b, s)[p] = SumFunctionOnSet(MapHeld(b), MapOn(b, s, p))
      BY <1>2 DEF MapQueueOK
    <3> QED BY <1>9, <3>1, <3>2
  <2> QED BY <1>3, <1>5, <2>2, <2>3, <2>4, <2>5, <2>6 DEF MapQueueOK
<1>12. ASSUME NEW x \in Sides, NEW y \in Prices, x # s \/ y # p
       PROVE  MapQueueOK(c, x, y)
  <2>1. /\ MapFifo(c, x)[y] = MapFifo(b, x)[y] /\ MapQty(c, x)[y] = MapQty(b, x)[y]
        /\ y \in DOMAIN c.levels[x] <=> y \in DOMAIN b.levels[x]
    <3>1. CASE x = s
      <4>1. y # p
        BY <1>12, <3>1
      <4>2. MapFifo(c, s)[y] = MapFifo(b, s)[y] /\ MapQty(c, s)[y] = MapQty(b, s)[y]
        BY <1>3, <1>10, <4>1
      <4> QED BY <1>3, <3>1, <4>1, <4>2
    <3>2. CASE x # s
      <4>1. c.levels[x] = b.levels[x]
        BY <1>3, <3>2
      <4>2. MapFifo(c, x) = MapFifo(b, x) /\ MapQty(c, x) = MapQty(b, x)
        BY <4>1, MapSameSide
      <4> QED BY <4>1, <4>2
    <3> QED BY <3>1, <3>2
  <2>2. MapOn(c, x, y) = MapOn(b, x, y)
    BY <1>5, <1>12
  <2>3. MapQueueOK(b, x, y)
    BY <1>2
  <2> QED BY <1>8, <2>1, <2>2, <2>3 DEF MapQueueOK
<1>13. MapInsertedIs(c, b, ref, e)
  BY <1>2, MapInsertedParts
<1>14. ASSUME NEW x \in Sides
       PROVE  /\ c.stats.total_qty[x] = SumFunctionOnSet(MapQty(c, x), Prices)
              /\ c.stats.level_count[x] = Cardinality(DOMAIN c.levels[x])
  <2>1. /\ b.stats.total_qty[x] = SumFunctionOnSet(MapQty(b, x), Prices)
        /\ b.stats.level_count[x] = Cardinality(DOMAIN b.levels[x])
    BY <1>2 DEF MapStatsOK
  <2>2. b.stats \in Stats
    BY <1>2 DEF MapFields
  <2>3. CASE x # s
    <3>1. c.stats.total_qty[x] = b.stats.total_qty[x] /\ c.stats.level_count[x] = b.stats.level_count[x]
      BY <1>1, <1>13, <2>2, <2>3 DEF MapInsertedIs, Stats
    <3>2. c.levels[x] = b.levels[x]
      BY <1>3, <2>3
    <3> QED BY <2>1, <3>1, <3>2, MapSameSide
  <2>4. CASE x = s
    <3>1. c.stats.total_qty[s] = b.stats.total_qty[s] + e.qty
      BY <1>1, <1>13, <2>2 DEF MapInsertedIs, Stats
    <3>2. MapQty(b, s)[p] \in Int /\ MapQty(b, s)[p] + e.qty \in Int
      BY <1>4, <1>10
    <3>3. /\ SumFunctionOnSet(MapQty(b, s), Prices) \in Int
          /\ SumFunctionOnSet(MapQty(c, s), Prices) =
               SumFunctionOnSet(MapQty(b, s), Prices) - MapQty(b, s)[p] + (MapQty(b, s)[p] + e.qty)
      <4>1. MapQty(c, s) \in [Prices -> Int] /\ MapQty(c, s)[p] = MapQty(b, s)[p] + e.qty
        BY <1>3, <1>10, <3>2
      <4>2. \A y \in Prices \ {p} : MapQty(b, s)[y] = MapQty(c, s)[y]
        BY <1>3, <1>10
      <4>3. MapQty(b, s) \in [Prices -> Int]
        BY <1>10
      <4> QED BY <4>1, <4>2, <4>3, SumAtPrices
    <3>4. c.stats.total_qty[s] = SumFunctionOnSet(MapQty(c, s), Prices)
      BY <1>4, <2>1, <2>4, <3>1, <3>2, <3>3
    <3>5. IsFiniteSet(DOMAIN b.levels[s])
      BY <1>2, FlatBookAssumption, FS_Subset DEF MapFields
    <3>6. CASE p \in DOMAIN b.levels[s]
      <4>1. c.stats.level_count[s] = b.stats.level_count[s]
        BY <1>1, <1>13, <2>2, <3>6 DEF MapInsertedIs, Stats
      <4>2. DOMAIN c.levels[s] = DOMAIN b.levels[s]
        BY <1>3, <3>6
      <4> QED BY <2>1, <2>4, <3>4, <4>1, <4>2
    <3>7. CASE p \notin DOMAIN b.levels[s]
      <4>1. c.stats.level_count[s] = b.stats.level_count[s] + 1
        BY <1>1, <1>13, <2>2, <3>7 DEF MapInsertedIs, Stats
      <4>2. Cardinality(DOMAIN c.levels[s]) = Cardinality(DOMAIN b.levels[s]) + 1
        BY <1>3, <3>5, <3>7, FS_AddElement
      <4> QED BY <2>1, <2>4, <3>4, <4>1, <4>2
    <3> QED BY <3>6, <3>7
  <2> QED BY <2>3, <2>4
<1>15. /\ c.stats.order_count = Cardinality(DOMAIN c.orders)
       /\ c.stats.order_count = SumFunctionOnSet(MapDepth(c, "Buy"), Prices) +
                                SumFunctionOnSet(MapDepth(c, "Sell"), Prices)
  <2>1. c.stats.order_count = b.stats.order_count + 1
    BY <1>13 DEF MapInsertedIs
  <2>2. Cardinality(DOMAIN c.orders) = Cardinality(DOMAIN b.orders) + 1
    BY <1>2, <1>3, FS_AddElement DEF MapFields
  <2>3. ASSUME NEW x \in Sides \ {s}
        PROVE  SumFunctionOnSet(MapDepth(c, x), Prices) = SumFunctionOnSet(MapDepth(b, x), Prices)
    BY <1>3, MapSameSide
  <2>4. /\ SumFunctionOnSet(MapDepth(b, s), Prices) \in Int
        /\ SumFunctionOnSet(MapDepth(c, s), Prices) =
              SumFunctionOnSet(MapDepth(b, s), Prices) + 1
    <3>1. \A y \in Prices : MapFifo(c, s)[y] =
             IF y = p THEN Append(MapFifo(b, s)[y], ref) ELSE MapFifo(b, s)[y]
      BY <1>3, <1>10
    <3>2. MapFifo(b, s)[p] \in Seq(Refs)
      BY <1>10
    <3>3. Len(Append(MapFifo(b, s)[p], ref)) = MapDepth(b, s)[p] + 1
      BY <1>10, <3>2
    <3>4. MapDepth(c, s) = [MapDepth(b, s) EXCEPT ![p] = MapDepth(b, s)[p] + 1]
      BY <3>1, <3>3 DEF MapDepth
    <3>5. MapDepth(b, s)[p] \in Int /\ MapDepth(b, s)[p] + 1 \in Int
      BY <1>10
    <3>6. /\ SumFunctionOnSet(MapDepth(b, s), Prices) \in Int
          /\ SumFunctionOnSet(MapDepth(c, s), Prices) =
                SumFunctionOnSet(MapDepth(b, s), Prices) - MapDepth(b, s)[p] + (MapDepth(b, s)[p] + 1)
      <4>1. /\ MapDepth(c, s) \in [Prices -> Int] /\ MapDepth(b, s) \in [Prices -> Int]
            /\ MapDepth(c, s)[p] = MapDepth(b, s)[p] + 1
        BY <1>10, <3>4, <3>5
      <4>2. \A y \in Prices \ {p} : MapDepth(b, s)[y] = MapDepth(c, s)[y]
        BY <1>10, <3>4
      <4> QED BY <4>1, <4>2, SumAtPrices
    <3> QED BY <3>5, <3>6
  <2>5. ASSUME NEW x \in Sides PROVE SumFunctionOnSet(MapDepth(b, x), Prices) \in Int
    <3>1. IsFiniteSet(Prices) /\ \A y \in Prices : MapDepth(b, x)[y] \in Int
      BY <1>10, FlatBookAssumption
    <3> QED BY <3>1, SumSplits
  <2>6. /\ b.stats.order_count = Cardinality(DOMAIN b.orders)
        /\ b.stats.order_count = SumFunctionOnSet(MapDepth(b, "Buy"), Prices) +
                                 SumFunctionOnSet(MapDepth(b, "Sell"), Prices)
    BY <1>2 DEF MapStatsOK
  <2>7. "Buy" \in Sides /\ "Sell" \in Sides /\ "Buy" # "Sell" /\ (s = "Buy" \/ s = "Sell")
    BY DEF Sides
  <2> QED BY <2>1, <2>2, <2>3, <2>4, <2>5, <2>6, <2>7
<1>16. \A r \in DOMAIN c.orders : c.orders[r].qty > 0
  BY <1>3 DEF MapSound
<1>17. MapStatsOK(c)
  BY <1>14, <1>15 DEF MapStatsOK
<1> QED BY <1>3, <1>11, <1>12, <1>16, <1>17 DEF MapSound, MapWhole

\* Where a resting order is queued.
LEMMA MapQueued ==
  ASSUME NEW b, MapWhole(b), NEW ref \in DOMAIN b.orders,
         NEW side, side = b.orders[ref].side, NEW p, p = b.orders[ref].price
  PROVE  /\ ref \in Refs /\ side \in Sides /\ p \in Prices /\ b.orders[ref] \in MapEntries
         /\ MapFifo(b, side)[p] \in Seq(Refs) /\ ref \in Range(MapFifo(b, side)[p])
         /\ p \in DOMAIN b.levels[side]
         /\ MapFifo(b, side)[p] = b.levels[side][p].fifo
         /\ MapQty(b, side)[p] = b.levels[side][p].qty
<1>1. MapFields(b)
  BY DEF MapWhole
<1>2. ref \in Refs /\ side \in Sides /\ p \in Prices /\ b.orders[ref] \in MapEntries
  BY <1>1 DEF MapFields, MapEntries
<1>3. MapQueueOK(b, side, p)
  BY <1>2 DEF MapWhole
<1>4. MapFifo(b, side)[p] \in Seq(Refs)
  BY <1>1, <1>2, MapAtPrice
<1>5. ref \in Range(MapFifo(b, side)[p])
  BY <1>3 DEF MapQueueOK, MapOn
<1>6. MapFifo(b, side)[p] # << >>
  <2>1. PICK i \in DOMAIN MapFifo(b, side)[p] : MapFifo(b, side)[p][i] = ref
    BY <1>5 DEF Range
  <2>2. DOMAIN << >> = {}
    OBVIOUS
  <2> QED BY <2>1, <2>2
<1>7. p \in DOMAIN b.levels[side]
  BY <1>3, <1>6 DEF MapQueueOK
<1> QED BY <1>2, <1>4, <1>5, <1>7 DEF MapFifo, MapQty

\* What c shows at each key once shares have come off an order.
MapLessenedShows(c, b, ref, shares, side, p) ==
    /\ MapFields(c)
    /\ DOMAIN c.orders = DOMAIN b.orders
    /\ \A r \in DOMAIN c.orders :
          c.orders[r] = IF r = ref THEN [b.orders[r] EXCEPT !.qty = @ - shares] ELSE b.orders[r]
    /\ \A x \in Sides \ {side} : c.levels[x] = b.levels[x]
    /\ DOMAIN c.levels[side] = DOMAIN b.levels[side]
    /\ MapFifo(c, side) = MapFifo(b, side)
    /\ MapQty(c, side) = [MapQty(b, side) EXCEPT ![p] = @ - shares]

LEMMA MapLessenedPoints ==
  ASSUME NEW b, MapWhole(b), NEW ref \in DOMAIN b.orders,
         NEW shares \in Nat, shares <= b.orders[ref].qty,
         NEW side, side = b.orders[ref].side, NEW p, p = b.orders[ref].price,
         NEW c, c = MapLessened(b, ref, shares)
  PROVE  MapLessenedShows(c, b, ref, shares, side, p)
<1>1. MapFields(b)
  BY DEF MapWhole
<1>2. MapLessenedIs(c, b, ref, side, p, shares)
  BY <1>1, MapLessenedParts
<1>3. /\ ref \in Refs /\ side \in Sides /\ p \in Prices /\ b.orders[ref] \in MapEntries
      /\ p \in DOMAIN b.levels[side]
  BY MapQueued
<1>4. PICK level : level = b.levels[side][p]
  OBVIOUS
<1>5. level \in MapLevels
  BY <1>1, <1>3, <1>4 DEF MapFields
<1>6. PICK v : v = [level EXCEPT !.qty = @ - shares]
  OBVIOUS
<1>7. v \in MapLevels /\ v.qty = level.qty - shares /\ v.fifo = level.fifo
  BY <1>5, <1>6 DEF MapLevels
<1>8. PICK e : e = [b.orders[ref] EXCEPT !.qty = @ - shares]
  OBVIOUS
<1>9. e \in MapEntries
  <2>1. b.orders[ref].qty \in Nat /\ b.orders[ref].qty - shares \in Nat
    BY <1>3 DEF MapEntries
  <2> QED BY <1>3, <1>8, <2>1 DEF MapEntries
<1>10. /\ DOMAIN c.orders = DOMAIN b.orders
       /\ \A r \in DOMAIN c.orders : c.orders[r] = IF r = ref THEN e ELSE b.orders[r]
  BY <1>2, <1>8 DEF MapLessenedIs
<1>11. c.levels = [b.levels EXCEPT ![side] = [b.levels[side] EXCEPT ![p] = v]]
  BY <1>2, <1>4, <1>6 DEF MapLessenedIs
<1>12. DOMAIN b.levels = Sides
  BY <1>1 DEF MapFields
<1>13. /\ DOMAIN c.levels = Sides
       /\ \A x \in Sides \ {side} : c.levels[x] = b.levels[x]
       /\ c.levels[side] = [b.levels[side] EXCEPT ![p] = v]
  BY <1>3, <1>11, <1>12
<1>14. /\ DOMAIN c.levels[side] = DOMAIN b.levels[side]
       /\ c.levels[side][p] = v
       /\ \A y \in DOMAIN b.levels[side] \ {p} : c.levels[side][y] = b.levels[side][y]
  BY <1>3, <1>13
<1>15. MapFields(c)
  <2>1. DOMAIN c.orders \in SUBSET Refs /\ IsFiniteSet(DOMAIN c.orders)
    BY <1>1, <1>10 DEF MapFields
  <2>2. \A r \in DOMAIN c.orders : c.orders[r] \in MapEntries
    BY <1>1, <1>9, <1>10 DEF MapFields
  <2>3. ASSUME NEW x \in Sides
        PROVE  /\ IsMap(c.levels[x]) /\ DOMAIN c.levels[x] \in SUBSET Prices
               /\ \A y \in DOMAIN c.levels[x] : c.levels[x][y] \in MapLevels
    <3>1. /\ IsMap(b.levels[x]) /\ DOMAIN b.levels[x] \in SUBSET Prices
          /\ \A y \in DOMAIN b.levels[x] : b.levels[x][y] \in MapLevels
      BY <1>1 DEF MapFields
    <3>2. CASE x = side
      <4>1. IsMap(c.levels[side])
        BY <1>13 DEF IsMap
      <4> QED BY <1>7, <1>14, <3>1, <3>2, <4>1
    <3>3. CASE x # side
      BY <1>13, <3>1, <3>3
    <3> QED BY <3>2, <3>3
  <2>4. DOMAIN c = {"orders", "levels", "stats"} /\ c.stats \in Stats
    BY <1>2 DEF MapLessenedIs
  <2> QED BY <1>13, <2>1, <2>2, <2>3, <2>4 DEF MapFields
<1>16. MapFifo(c, side) = MapFifo(b, side)
  <2>1. \A y \in DOMAIN b.levels[side] : c.levels[side][y].fifo = b.levels[side][y].fifo
    BY <1>4, <1>7, <1>14
  <2> QED BY <1>14, <2>1 DEF MapFifo
<1>17. MapQty(c, side) = [MapQty(b, side) EXCEPT ![p] = @ - shares]
  <2>1. \A y \in Prices \ {p} : MapQty(c, side)[y] = MapQty(b, side)[y]
    BY <1>14 DEF MapQty
  <2>2. MapQty(c, side)[p] = v.qty /\ MapQty(b, side)[p] = level.qty
    BY <1>3, <1>4, <1>14 DEF MapQty
  <2>3. MapQty(c, side) \in [Prices -> Int] /\ MapQty(b, side) \in [Prices -> Int]
    BY <1>1, <1>3, <1>15, MapAtPrice
  <2>4. MapQty(c, side)[p] = MapQty(b, side)[p] - shares
    BY <1>7, <2>2
  <2>5. PICK f \in [Prices -> Int] : f = MapQty(b, side)
    BY <2>3
  <2>6. PICK g \in [Prices -> Int] : g = MapQty(c, side)
    BY <2>3
  <2>7. g = [f EXCEPT ![p] = @ - shares]
    BY <1>3, <2>1, <2>4, <2>5, <2>6
  <2> QED BY <2>5, <2>6, <2>7
<1> QED BY <1>8, <1>10, <1>13, <1>14, <1>15, <1>16, <1>17 DEF MapLessenedShows

\* The first half of reduce() keeps the book whole.
LEMMA MapLessenedWhole ==
  ASSUME NEW b, MapWhole(b), NEW ref \in DOMAIN b.orders,
         NEW shares \in Nat, shares <= b.orders[ref].qty,
         NEW c, c = MapLessened(b, ref, shares)
  PROVE  MapWhole(c)
<1>1. PICK s, p : s = b.orders[ref].side /\ p = b.orders[ref].price
  OBVIOUS
<1>2. MapFields(b) /\ MapStatsOK(b) /\ \A x \in Sides, y \in Prices : MapQueueOK(b, x, y)
  BY DEF MapWhole
<1>3. ref \in Refs /\ s \in Sides /\ p \in Prices /\ b.orders[ref] \in MapEntries
  BY <1>1, MapQueued
<1>4. /\ MapFields(c)
      /\ DOMAIN c.orders = DOMAIN b.orders
      /\ \A r \in DOMAIN c.orders :
            c.orders[r] = IF r = ref THEN [b.orders[r] EXCEPT !.qty = @ - shares] ELSE b.orders[r]
      /\ \A x \in Sides \ {s} : c.levels[x] = b.levels[x]
      /\ DOMAIN c.levels[s] = DOMAIN b.levels[s]
      /\ MapFifo(c, s) = MapFifo(b, s)
      /\ MapQty(c, s) = [MapQty(b, s) EXCEPT ![p] = @ - shares]
  <2>1. MapLessenedShows(c, b, ref, shares, s, p)
    BY <1>1, MapLessenedPoints
  <2> QED BY <2>1 DEF MapLessenedShows
<1>5. PICK e : e = c.orders[ref]
  OBVIOUS
<1>6. /\ e.qty = b.orders[ref].qty - shares /\ e.side = s /\ e.price = p
      /\ \A r \in DOMAIN c.orders : c.orders[r] = IF r = ref THEN e ELSE b.orders[r]
  BY <1>1, <1>3, <1>4, <1>5 DEF MapEntries
<1>7. \A x \in Sides, y \in Prices : MapOn(c, x, y) = MapOn(b, x, y)
  BY <1>1, <1>4, <1>6 DEF MapOn
<1>8. MapHeld(c) = [MapHeld(b) EXCEPT ![ref] = e.qty]
  BY <1>4, <1>6 DEF MapHeld
<1>9. /\ MapHeld(b) \in [Refs -> Nat] /\ MapHeld(c) \in [Refs -> Nat]
      /\ MapHeld(b)[ref] = b.orders[ref].qty /\ MapHeld(c)[ref] = e.qty
  <2>1. MapHeld(b) \in [Refs -> Nat] /\ MapHeld(c) \in [Refs -> Nat]
    BY <1>2, <1>4, MapHeldType
  <2>2. MapHeld(b)[ref] = b.orders[ref].qty
    BY <1>3 DEF MapHeld
  <2> QED BY <1>3, <1>8, <2>1, <2>2
<1>10. ASSUME NEW x \in Sides
       PROVE  /\ MapQty(b, x) \in [Prices -> Int] /\ MapQty(c, x) \in [Prices -> Int]
              /\ \A y \in Prices : IsFiniteSet(MapOn(b, x, y)) /\ MapOn(b, x, y) \in SUBSET Refs
  BY <1>2, <1>4, MapAtPrice
<1>11. MapQueueOK(c, s, p)
  <2>1. MapQueueOK(b, s, p)
    BY <1>2, <1>3
  <2>2. ref \in MapOn(b, s, p)
    BY <1>1 DEF MapOn
  <2>3. /\ IsFiniteSet(MapOn(b, s, p))
        /\ \A r \in MapOn(b, s, p) : MapHeld(b)[r] \in Int /\ MapHeld(c)[r] \in Int
        /\ \A r \in MapOn(b, s, p) \ {ref} : MapHeld(b)[r] = MapHeld(c)[r]
    BY <1>3, <1>8, <1>9, <1>10
  <2>4. SumFunctionOnSet(MapHeld(c), MapOn(b, s, p)) =
           SumFunctionOnSet(MapHeld(b), MapOn(b, s, p)) - MapHeld(b)[ref] + MapHeld(c)[ref]
    BY <2>2, <2>3, SumChanges
  <2>5. MapQty(c, s)[p] = MapQty(b, s)[p] - shares /\ MapQty(b, s)[p] \in Int
    BY <1>3, <1>4, <1>10
  <2>6. MapQty(b, s)[p] = SumFunctionOnSet(MapHeld(b), MapOn(b, s, p))
    BY <2>1 DEF MapQueueOK
  <2>7. b.orders[ref].qty \in Nat
    BY <1>3 DEF MapEntries
  <2>8. MapQty(c, s)[p] = SumFunctionOnSet(MapHeld(c), MapOn(b, s, p))
    BY <1>6, <1>9, <2>4, <2>5, <2>6, <2>7
  <2>9. MapOn(c, s, p) = MapOn(b, s, p)
    BY <1>3, <1>7
  <2> QED BY <1>4, <2>1, <2>8, <2>9 DEF MapQueueOK
<1>12. ASSUME NEW x \in Sides, NEW y \in Prices, x # s \/ y # p
       PROVE  MapQueueOK(c, x, y)
  <2>1. /\ MapFifo(c, x)[y] = MapFifo(b, x)[y] /\ MapQty(c, x)[y] = MapQty(b, x)[y]
        /\ y \in DOMAIN c.levels[x] <=> y \in DOMAIN b.levels[x]
    <3>1. CASE x = s
      <4>1. y # p
        BY <1>12, <3>1
      <4>2. MapQty(c, s)[y] = MapQty(b, s)[y]
        BY <1>4, <1>10, <3>1, <4>1
      <4> QED BY <1>4, <3>1, <4>2
    <3>2. CASE x # s
      <4>1. c.levels[x] = b.levels[x]
        BY <1>4, <3>2
      <4>2. MapFifo(c, x) = MapFifo(b, x) /\ MapQty(c, x) = MapQty(b, x)
        BY <4>1, MapSameSide
      <4> QED BY <4>1, <4>2
    <3> QED BY <3>1, <3>2
  <2>2. MapOn(c, x, y) = MapOn(b, x, y)
    BY <1>7
  <2>3. SumFunctionOnSet(MapHeld(c), MapOn(b, x, y)) = SumFunctionOnSet(MapHeld(b), MapOn(b, x, y))
    <3>1. ref \notin MapOn(b, x, y)
      BY <1>1, <1>12 DEF MapOn
    <3>2. \A r \in MapOn(b, x, y) : MapHeld(c)[r] = MapHeld(b)[r]
      BY <1>8, <1>9, <1>10, <3>1
    <3>3. IsFiniteSet(MapOn(b, x, y))
      BY <1>10
    <3> QED BY <3>2, <3>3, SumSame
  <2>4. MapQueueOK(b, x, y)
    BY <1>2
  <2> QED BY <2>1, <2>2, <2>3, <2>4 DEF MapQueueOK
<1>13. /\ c.stats.total_qty = [b.stats.total_qty EXCEPT ![s] = @ - shares]
       /\ c.stats.level_count = b.stats.level_count
       /\ c.stats.order_count = b.stats.order_count
  <2>1. MapLessenedIs(c, b, ref, s, p, shares)
    BY <1>1, <1>2, MapLessenedParts
  <2> QED BY <2>1 DEF MapLessenedIs
<1>14. ASSUME NEW x \in Sides
       PROVE  /\ c.stats.total_qty[x] = SumFunctionOnSet(MapQty(c, x), Prices)
              /\ c.stats.level_count[x] = Cardinality(DOMAIN c.levels[x])
              /\ MapDepth(c, x) = MapDepth(b, x)
  <2>1. /\ b.stats.total_qty[x] = SumFunctionOnSet(MapQty(b, x), Prices)
        /\ b.stats.level_count[x] = Cardinality(DOMAIN b.levels[x])
    BY <1>2 DEF MapStatsOK
  <2>2. b.stats \in Stats
    BY <1>2 DEF MapFields
  <2>3. CASE x # s
    <3>1. c.stats.total_qty[x] = b.stats.total_qty[x]
      BY <1>13, <2>2, <2>3 DEF Stats
    <3>2. c.levels[x] = b.levels[x]
      BY <1>4, <2>3
    <3>3. MapQty(c, x) = MapQty(b, x) /\ MapDepth(c, x) = MapDepth(b, x)
      BY <3>2, MapSameSide
    <3> QED BY <1>13, <2>1, <3>1, <3>2, <3>3
  <2>4. CASE x = s
    <3>1. c.stats.total_qty[s] = b.stats.total_qty[s] - shares
      BY <1>3, <1>13, <2>2 DEF Stats
    <3>2. MapQty(c, s)[p] = MapQty(b, s)[p] - shares /\ MapQty(b, s)[p] \in Int
      BY <1>3, <1>4, <1>10
    <3>3. /\ SumFunctionOnSet(MapQty(b, s), Prices) \in Int
          /\ SumFunctionOnSet(MapQty(c, s), Prices) =
                SumFunctionOnSet(MapQty(b, s), Prices) - MapQty(b, s)[p] + MapQty(c, s)[p]
      <4>1. \A y \in Prices \ {p} : MapQty(b, s)[y] = MapQty(c, s)[y]
        BY <1>3, <1>4, <1>10
      <4>2. MapQty(b, s) \in [Prices -> Int] /\ MapQty(c, s) \in [Prices -> Int]
        BY <1>3, <1>10
      <4> QED BY <1>3, <4>1, <4>2, SumAtPrices
    <3>4. MapDepth(c, s) = MapDepth(b, s)
      BY <1>4 DEF MapDepth
    <3>5. c.stats.total_qty[s] = SumFunctionOnSet(MapQty(c, s), Prices)
      BY <2>1, <2>4, <3>1, <3>2, <3>3
    <3> QED BY <1>4, <1>13, <2>1, <2>4, <3>4, <3>5
  <2> QED BY <2>3, <2>4
<1>15. /\ c.stats.order_count = Cardinality(DOMAIN c.orders)
       /\ c.stats.order_count = SumFunctionOnSet(MapDepth(c, "Buy"), Prices) +
                                SumFunctionOnSet(MapDepth(c, "Sell"), Prices)
  <2>1. "Buy" \in Sides /\ "Sell" \in Sides
    BY DEF Sides
  <2>2. MapDepth(c, "Buy") = MapDepth(b, "Buy") /\ MapDepth(c, "Sell") = MapDepth(b, "Sell")
    BY <1>14, <2>1
  <2> QED BY <1>2, <1>4, <1>13, <2>2 DEF MapStatsOK
<1>16. MapStatsOK(c)
  BY <1>14, <1>15 DEF MapStatsOK
<1> QED BY <1>4, <1>11, <1>12, <1>16 DEF MapWhole

\* What c shows at each key once an order with nothing left has gone.
MapDetachedShows(c, b, ref, side, p, rest) ==
    /\ MapFields(c)
    /\ DOMAIN c.orders = DOMAIN b.orders \ {ref}
    /\ \A r \in DOMAIN c.orders : c.orders[r] = b.orders[r]
    /\ \A x \in Sides \ {side} : c.levels[x] = b.levels[x]
    /\ DOMAIN c.levels[side] = IF rest = << >> THEN DOMAIN b.levels[side] \ {p}
                               ELSE DOMAIN b.levels[side]
    /\ MapFifo(c, side) = [MapFifo(b, side) EXCEPT ![p] = rest]
    /\ MapQty(c, side) = [MapQty(b, side) EXCEPT ![p] = IF rest = << >> THEN 0 ELSE @]

LEMMA MapDetachedPoints ==
  ASSUME NEW b, MapWhole(b), NEW ref \in DOMAIN b.orders,
         NEW side, side = b.orders[ref].side, NEW p, p = b.orders[ref].price,
         NEW rest \in Seq(Refs), rest = MapRest(b, side, p, ref),
         NEW c, c = References!Detached(b, ref)
  PROVE  MapDetachedShows(c, b, ref, side, p, rest)
<1>1. MapFields(b)
  BY DEF MapWhole
<1>2. /\ DOMAIN c = {"orders", "levels", "stats"}
      /\ c.orders = MapWithout(b.orders, ref)
      /\ c.levels = [b.levels EXCEPT ![side] =
            IF rest = << >> THEN MapWithout(b.levels[side], p)
            ELSE [b.levels[side] EXCEPT ![p].fifo = rest]]
      /\ c.stats \in Stats
  <2>1. MapDetachedIs(c, b, ref, side, p, rest)
    BY <1>1, MapDetachedParts
  <2> QED BY <2>1 DEF MapDetachedIs
<1>3. /\ side \in Sides /\ p \in Prices /\ p \in DOMAIN b.levels[side]
      /\ MapFifo(b, side)[p] = b.levels[side][p].fifo
  BY MapQueued
<1>4. PICK level : level = b.levels[side][p]
  OBVIOUS
<1>5. level \in MapLevels
  BY <1>1, <1>3, <1>4 DEF MapFields
<1>6. PICK v : v = [level EXCEPT !.fifo = rest]
  OBVIOUS
<1>7. v \in MapLevels /\ v.qty = level.qty /\ v.fifo = rest
  BY <1>5, <1>6 DEF MapLevels
<1>8. /\ DOMAIN c.orders = DOMAIN b.orders \ {ref}
      /\ \A r \in DOMAIN c.orders : c.orders[r] = b.orders[r]
  BY <1>2 DEF MapWithout
<1>9. PICK L : L = IF rest = << >> THEN MapWithout(b.levels[side], p)
                   ELSE [b.levels[side] EXCEPT ![p] = v]
  OBVIOUS
<1>10. c.levels = [b.levels EXCEPT ![side] = L]
  BY <1>2, <1>4, <1>6, <1>9
<1>11. DOMAIN b.levels = Sides
  BY <1>1 DEF MapFields
<1>12. /\ DOMAIN c.levels = Sides
       /\ \A x \in Sides \ {side} : c.levels[x] = b.levels[x]
       /\ c.levels[side] = L
  BY <1>3, <1>10, <1>11
<1>13. /\ DOMAIN L = IF rest = << >> THEN DOMAIN b.levels[side] \ {p} ELSE DOMAIN b.levels[side]
       /\ \A y \in DOMAIN b.levels[side] \ {p} : L[y] = b.levels[side][y]
       /\ rest # << >> => L[p] = v
  <2>1. CASE rest = << >>
    BY <1>9, <2>1 DEF MapWithout
  <2>2. CASE rest # << >>
    BY <1>3, <1>9, <2>2
  <2> QED BY <2>1, <2>2
<1>14. MapFields(c)
  <2>1. DOMAIN c.orders \in SUBSET Refs /\ IsFiniteSet(DOMAIN c.orders)
    BY <1>1, <1>8, FS_RemoveElement DEF MapFields
  <2>2. \A r \in DOMAIN c.orders : c.orders[r] \in MapEntries
    BY <1>1, <1>8 DEF MapFields
  <2>3. ASSUME NEW x \in Sides
        PROVE  /\ IsMap(c.levels[x]) /\ DOMAIN c.levels[x] \in SUBSET Prices
               /\ \A y \in DOMAIN c.levels[x] : c.levels[x][y] \in MapLevels
    <3>1. /\ IsMap(b.levels[x]) /\ DOMAIN b.levels[x] \in SUBSET Prices
          /\ \A y \in DOMAIN b.levels[x] : b.levels[x][y] \in MapLevels
      BY <1>1 DEF MapFields
    <3>2. CASE x = side
      <4>1. DOMAIN L \in SUBSET Prices
        BY <1>13, <3>1, <3>2
      <4>2. \A y \in DOMAIN L : L[y] \in MapLevels
        BY <1>7, <1>13, <3>1, <3>2
      <4>3. IsMap(L)
        <5>1. CASE rest = << >>
          BY <1>9, <5>1 DEF IsMap, MapWithout
        <5>2. CASE rest # << >>
          BY <1>9, <5>2 DEF IsMap
        <5> QED BY <5>1, <5>2
      <4> QED BY <1>12, <3>2, <4>1, <4>2, <4>3
    <3>3. CASE x # side
      BY <1>12, <3>1, <3>3
    <3> QED BY <3>2, <3>3
  <2> QED BY <1>2, <1>12, <2>1, <2>2, <2>3 DEF MapFields
<1>15. MapFifo(c, side) = [MapFifo(b, side) EXCEPT ![p] = rest]
  <2>1. \A y \in Prices \ {p} : MapFifo(c, side)[y] = MapFifo(b, side)[y]
    BY <1>12, <1>13 DEF MapFifo
  <2>2. MapFifo(c, side)[p] = rest
    BY <1>3, <1>7, <1>12, <1>13 DEF MapFifo
  <2>3. MapFifo(c, side) \in [Prices -> Seq(Refs)] /\ MapFifo(b, side) \in [Prices -> Seq(Refs)]
    BY <1>1, <1>3, <1>14, MapAtPrice
  <2> QED BY <1>3, <2>1, <2>2, <2>3
<1>16. MapQty(c, side) = [MapQty(b, side) EXCEPT ![p] = IF rest = << >> THEN 0 ELSE @]
  <2>1. \A y \in Prices \ {p} : MapQty(c, side)[y] = MapQty(b, side)[y]
    BY <1>12, <1>13 DEF MapQty
  <2>2. MapQty(b, side)[p] = level.qty
    BY <1>3, <1>4 DEF MapQty
  <2>3. MapQty(c, side)[p] = IF rest = << >> THEN 0 ELSE level.qty
    BY <1>3, <1>7, <1>12, <1>13 DEF MapQty
  <2>4. MapQty(c, side) \in [Prices -> Int] /\ MapQty(b, side) \in [Prices -> Int]
    BY <1>1, <1>3, <1>14, MapAtPrice
  <2> QED BY <1>3, <2>1, <2>2, <2>3, <2>4
<1> QED BY <1>8, <1>12, <1>13, <1>14, <1>15, <1>16 DEF MapDetachedShows

\* The second half of reduce() keeps the book whole, and leaves no level empty.
LEMMA MapDetachedWhole ==
  ASSUME NEW b, MapWhole(b), NEW ref \in DOMAIN b.orders, b.orders[ref].qty = 0,
         NEW c, c = References!Detached(b, ref)
  PROVE  MapWhole(c)
<1>1. PICK s, p : s = b.orders[ref].side /\ p = b.orders[ref].price
  OBVIOUS
<1>2. MapFields(b) /\ MapStatsOK(b) /\ \A x \in Sides, y \in Prices : MapQueueOK(b, x, y)
  BY DEF MapWhole
<1>3. /\ ref \in Refs /\ s \in Sides /\ p \in Prices /\ b.orders[ref] \in MapEntries
      /\ p \in DOMAIN b.levels[s]
      /\ MapFifo(b, s)[p] \in Seq(Refs) /\ ref \in Range(MapFifo(b, s)[p])
      /\ MapFifo(b, s)[p] = b.levels[s][p].fifo
  BY <1>1, MapQueued
<1>4. PICK q : q = MapFifo(b, s)[p]
  OBVIOUS
<1>5. q \in Seq(Refs) /\ Distinct(q) /\ Range(q) = MapOn(b, s, p) /\ ref \in Range(q)
  BY <1>2, <1>3, <1>4 DEF MapQueueOK
<1>6. PICK rest : rest = ClosedUp(q, PlaceOf(q, ref))
  OBVIOUS
<1>7. rest \in Seq(Refs) /\ Distinct(rest) /\ Range(rest) = Range(q) \ {ref}
  BY <1>5, <1>6, Leaving
<1>8. Len(rest) = Len(q) - 1
  <2>1. PICK i \in DOMAIN q : q[i] = ref
    BY <1>5 DEF Range
  <2>2. PlaceOf(q, ref) \in DOMAIN q
    BY <2>1 DEF PlaceOf
  <2>3. PlaceOf(q, ref) \in 1 .. Len(q)
    BY <1>5, <2>2, LenProperties
  <2> QED BY <1>5, <1>6, <2>3, ClosedUpPlaces
<1>9. /\ MapFields(c)
      /\ DOMAIN c.orders = DOMAIN b.orders \ {ref}
      /\ \A r \in DOMAIN c.orders : c.orders[r] = b.orders[r]
      /\ \A x \in Sides \ {s} : c.levels[x] = b.levels[x]
      /\ DOMAIN c.levels[s] = IF rest = << >> THEN DOMAIN b.levels[s] \ {p}
                              ELSE DOMAIN b.levels[s]
      /\ MapFifo(c, s) = [MapFifo(b, s) EXCEPT ![p] = rest]
      /\ MapQty(c, s) = [MapQty(b, s) EXCEPT ![p] = IF rest = << >> THEN 0 ELSE @]
  <2>1. rest = MapRest(b, s, p, ref)
    BY <1>3, <1>4, <1>6 DEF MapRest
  <2>2. MapDetachedShows(c, b, ref, s, p, rest)
    BY <1>1, <1>7, <2>1, MapDetachedPoints
  <2> QED BY <2>2 DEF MapDetachedShows
<1>10. \A x \in Sides, y \in Prices :
          MapOn(c, x, y) = IF x = s /\ y = p THEN MapOn(b, x, y) \ {ref} ELSE MapOn(b, x, y)
  BY <1>1, <1>9 DEF MapOn
<1>11. MapHeld(c) = MapHeld(b) /\ MapHeld(b) \in [Refs -> Nat] /\ MapHeld(b)[ref] = 0
  <2>1. MapHeld(b) \in [Refs -> Nat]
    BY <1>2, MapHeldType
  <2>2. MapHeld(c) = MapHeld(b)
    BY <1>9 DEF MapHeld
  <2>3. MapHeld(b)[ref] = 0
    BY <1>3 DEF MapHeld
  <2> QED BY <2>1, <2>2, <2>3
<1>12. ASSUME NEW x \in Sides
       PROVE  /\ MapQty(b, x) \in [Prices -> Int] /\ MapFifo(b, x) \in [Prices -> Seq(Refs)]
              /\ MapDepth(b, x) \in [Prices -> Int]
              /\ \A y \in Prices : IsFiniteSet(MapOn(b, x, y)) /\ MapOn(b, x, y) \in SUBSET Refs
  <2>1. /\ MapQty(b, x) \in [Prices -> Int] /\ MapFifo(b, x) \in [Prices -> Seq(Refs)]
        /\ MapDepth(b, x) \in [Prices -> Nat]
        /\ \A y \in Prices : IsFiniteSet(MapOn(b, x, y)) /\ MapOn(b, x, y) \in SUBSET Refs
    BY <1>2, MapAtPrice
  <2> QED BY <2>1
<1>13. /\ MapQty(b, s)[p] = SumFunctionOnSet(MapHeld(b), MapOn(b, s, p) \ {ref})
       /\ rest = << >> => MapQty(b, s)[p] = 0
  <2>1. MapQty(b, s)[p] = SumFunctionOnSet(MapHeld(b), MapOn(b, s, p))
    BY <1>2, <1>3 DEF MapQueueOK
  <2>2. /\ IsFiniteSet(MapOn(b, s, p)) /\ ref \in MapOn(b, s, p)
        /\ \A r \in MapOn(b, s, p) : MapHeld(b)[r] \in Int
    BY <1>3, <1>5, <1>11, <1>12
  <2>3. SumFunctionOnSet(MapHeld(b), MapOn(b, s, p)) =
           MapHeld(b)[ref] + SumFunctionOnSet(MapHeld(b), MapOn(b, s, p) \ {ref})
    BY <2>2, SumSplits
  <2>4. IsFiniteSet(MapOn(b, s, p) \ {ref})
    BY <2>2, FS_RemoveElement
  <2>5. SumFunctionOnSet(MapHeld(b), MapOn(b, s, p) \ {ref}) \in Int
    BY <2>2, <2>4, SumSplits
  <2>6. rest = << >> => SumFunctionOnSet(MapHeld(b), MapOn(b, s, p) \ {ref}) = 0
    <3>1. rest = << >> => Range(rest) = {}
      BY DEF Range
    <3> QED BY <1>5, <1>7, <3>1, SumEmpty
  <2> QED BY <1>11, <2>1, <2>3, <2>5, <2>6
<1>14. MapQty(c, s) = MapQty(b, s)
  BY <1>3, <1>9, <1>12, <1>13
<1>15. MapQueueOK(c, s, p)
  <2>1. MapFifo(c, s)[p] = rest
    BY <1>3, <1>9, <1>12
  <2>2. MapQty(c, s)[p] = SumFunctionOnSet(MapHeld(c), MapOn(c, s, p))
    BY <1>3, <1>10, <1>11, <1>13, <1>14
  <2>3. p \in DOMAIN c.levels[s] <=> rest # << >>
    BY <1>3, <1>9
  <2>4. Range(rest) = MapOn(c, s, p)
    BY <1>3, <1>5, <1>7, <1>10
  <2> QED BY <1>7, <2>1, <2>2, <2>3, <2>4 DEF MapQueueOK
<1>16. ASSUME NEW x \in Sides, NEW y \in Prices, x # s \/ y # p
       PROVE  MapQueueOK(c, x, y)
  <2>1. /\ MapFifo(c, x)[y] = MapFifo(b, x)[y] /\ MapQty(c, x)[y] = MapQty(b, x)[y]
        /\ y \in DOMAIN c.levels[x] <=> y \in DOMAIN b.levels[x]
    <3>1. CASE x = s
      <4>1. y # p
        BY <1>16, <3>1
      <4>2. MapFifo(c, s)[y] = MapFifo(b, s)[y]
        BY <1>9, <1>12, <3>1, <4>1
      <4>3. y \in DOMAIN c.levels[s] <=> y \in DOMAIN b.levels[s]
        BY <1>9, <4>1
      <4> QED BY <1>14, <3>1, <4>2, <4>3
    <3>2. CASE x # s
      <4>1. c.levels[x] = b.levels[x]
        BY <1>9, <3>2
      <4>2. MapFifo(c, x) = MapFifo(b, x) /\ MapQty(c, x) = MapQty(b, x)
        BY <4>1, MapSameSide
      <4> QED BY <4>1, <4>2
    <3> QED BY <3>1, <3>2
  <2>2. MapOn(c, x, y) = MapOn(b, x, y)
    BY <1>10, <1>16
  <2>3. MapQueueOK(b, x, y)
    BY <1>2
  <2> QED BY <1>11, <2>1, <2>2, <2>3 DEF MapQueueOK
<1>17. /\ c.stats.total_qty = b.stats.total_qty
       /\ c.stats.level_count = [b.stats.level_count EXCEPT ![s] =
             IF rest = << >> THEN @ - 1 ELSE @]
       /\ c.stats.order_count = b.stats.order_count - 1
  <2>1. rest = MapRest(b, s, p, ref)
    BY <1>3, <1>4, <1>6 DEF MapRest
  <2>2. MapDetachedIs(c, b, ref, s, p, rest)
    BY <1>1, <1>2, <2>1, MapDetachedParts
  <2> QED BY <2>2 DEF MapDetachedIs
<1>18. ASSUME NEW x \in Sides
       PROVE  /\ c.stats.total_qty[x] = SumFunctionOnSet(MapQty(c, x), Prices)
              /\ c.stats.level_count[x] = Cardinality(DOMAIN c.levels[x])
  <2>1. /\ b.stats.total_qty[x] = SumFunctionOnSet(MapQty(b, x), Prices)
        /\ b.stats.level_count[x] = Cardinality(DOMAIN b.levels[x])
    BY <1>2 DEF MapStatsOK
  <2>2. b.stats.level_count \in [Sides -> Int]
    BY <1>2 DEF MapFields, Stats
  <2>3. CASE x # s
    <3>1. c.levels[x] = b.levels[x]
      BY <1>9, <2>3
    <3>2. MapQty(c, x) = MapQty(b, x)
      BY <3>1, MapSameSide
    <3>3. c.stats.level_count[x] = b.stats.level_count[x]
      BY <1>17, <2>2, <2>3
    <3> QED BY <1>17, <2>1, <3>1, <3>2, <3>3
  <2>4. CASE x = s
    <3>1. IsFiniteSet(DOMAIN b.levels[s])
      BY <1>2, <1>3, FlatBookAssumption, FS_Subset DEF MapFields
    <3>2. c.stats.level_count[s] = Cardinality(DOMAIN c.levels[s])
      <4>1. CASE rest = << >>
        <5>1. Cardinality(DOMAIN c.levels[s]) = Cardinality(DOMAIN b.levels[s]) - 1
          <6>1. DOMAIN c.levels[s] = DOMAIN b.levels[s] \ {p}
            BY <1>9, <4>1
          <6>2. PICK D : D = DOMAIN b.levels[s]
            OBVIOUS
          <6>3. Cardinality(D \ {p}) = Cardinality(D) - 1
            BY <1>3, <3>1, <6>2, FS_RemoveElement
          <6> QED BY <6>1, <6>2, <6>3
        <5>2. c.stats.level_count[s] = b.stats.level_count[s] - 1
          BY <1>3, <1>17, <2>2, <4>1
        <5> QED BY <2>1, <2>4, <5>1, <5>2
      <4>2. CASE rest # << >>
        <5>1. c.stats.level_count[s] = b.stats.level_count[s]
          BY <1>3, <1>17, <2>2, <4>2
        <5> QED BY <1>9, <2>1, <2>4, <4>2, <5>1
      <4> QED BY <4>1, <4>2
    <3> QED BY <1>14, <1>17, <2>1, <2>4, <3>2
  <2> QED BY <2>3, <2>4
<1>19. /\ c.stats.order_count = Cardinality(DOMAIN c.orders)
       /\ c.stats.order_count = SumFunctionOnSet(MapDepth(c, "Buy"), Prices) +
                                SumFunctionOnSet(MapDepth(c, "Sell"), Prices)
  <2>1. Cardinality(DOMAIN c.orders) = Cardinality(DOMAIN b.orders) - 1
    BY <1>2, <1>9, FS_RemoveElement DEF MapFields
  <2>2. ASSUME NEW x \in Sides \ {s}
        PROVE  SumFunctionOnSet(MapDepth(c, x), Prices) = SumFunctionOnSet(MapDepth(b, x), Prices)
    <3>1. c.levels[x] = b.levels[x]
      BY <1>9
    <3> QED BY <3>1, MapSameSide
  <2>3. /\ SumFunctionOnSet(MapDepth(b, s), Prices) \in Int
        /\ SumFunctionOnSet(MapDepth(c, s), Prices) =
              SumFunctionOnSet(MapDepth(b, s), Prices) - 1
    <3>1. MapDepth(c, s) \in [Prices -> Nat] /\ MapDepth(b, s) \in [Prices -> Nat]
      BY <1>2, <1>3, <1>9, MapAtPrice
    <3>2. MapDepth(c, s)[p] = Len(rest) /\ MapDepth(b, s)[p] = Len(q)
      BY <1>3, <1>4, <1>9, <1>12 DEF MapDepth
    <3>3. \A y \in Prices \ {p} : MapFifo(b, s)[y] = MapFifo(c, s)[y]
      BY <1>3, <1>9, <1>12
    <3>4. \A y \in Prices \ {p} : MapDepth(b, s)[y] = MapDepth(c, s)[y]
      BY <3>3 DEF MapDepth
    <3>5. MapDepth(c, s) \in [Prices -> Int] /\ MapDepth(b, s) \in [Prices -> Int]
      BY <3>1
    <3>6. /\ SumFunctionOnSet(MapDepth(b, s), Prices) \in Int
          /\ SumFunctionOnSet(MapDepth(c, s), Prices) =
                SumFunctionOnSet(MapDepth(b, s), Prices) - MapDepth(b, s)[p] + MapDepth(c, s)[p]
      BY <1>3, <3>4, <3>5, SumAtPrices
    <3>7. Len(q) \in Nat
      BY <1>5, LenProperties
    <3> QED BY <1>8, <3>2, <3>6, <3>7
  <2>4. ASSUME NEW x \in Sides PROVE SumFunctionOnSet(MapDepth(b, x), Prices) \in Int
    <3>1. IsFiniteSet(Prices) /\ \A y \in Prices : MapDepth(b, x)[y] \in Int
      BY <1>12, FlatBookAssumption
    <3> QED BY <3>1, SumSplits
  <2>5. /\ b.stats.order_count = Cardinality(DOMAIN b.orders)
        /\ b.stats.order_count = SumFunctionOnSet(MapDepth(b, "Buy"), Prices) +
                                 SumFunctionOnSet(MapDepth(b, "Sell"), Prices)
    BY <1>2 DEF MapStatsOK
  <2>6. "Buy" \in Sides /\ "Sell" \in Sides /\ "Buy" # "Sell" /\ (s = "Buy" \/ s = "Sell")
    BY <1>3 DEF Sides
  <2> QED BY <1>17, <2>1, <2>2, <2>3, <2>4, <2>5, <2>6
<1>20. MapStatsOK(c)
  BY <1>18, <1>19 DEF MapStatsOK
<1> QED BY <1>9, <1>15, <1>16, <1>20 DEF MapWhole

------------------------------------------------------------------------------
(* The reference book, as the entries and queues it shows. *)

MapFifoOf(b) == [side \in Sides |-> MapFifo(b, side)]

\* ref has left: the entries and queues of c are those of b without it.
MapWithdraws(c, b, ref) ==
    LET e == b.orders[ref]
        q == MapFifoOf(b)[e.side][e.price]
    IN  /\ MapEntryOf(c) = [MapEntryOf(b) EXCEPT ![ref] = NoOrder]
        /\ MapFifoOf(c) = [MapFifoOf(b) EXCEPT ![e.side][e.price] = ClosedUp(q, PlaceOf(q, ref))]

\* ref has joined the back of its queue.
MapAdds(c, b, ref, e) ==
    /\ MapEntryOf(c) = [MapEntryOf(b) EXCEPT ![ref] = e]
    /\ MapFifoOf(c) = [MapFifoOf(b) EXCEPT ![e.side][e.price] = Append(@, ref)]

\* Shares have come off an order that keeps some.
MapAmends(c, b, ref, shares) ==
    /\ MapEntryOf(c) = [MapEntryOf(b) EXCEPT ![ref].qty = @ - shares]
    /\ MapFifoOf(c) = MapFifoOf(b)

\* When one side's queue at a price becomes q, so it does in the book.
MapFifoBecomes(c, b, side, p, q) == MapFifoOf(c) = [MapFifoOf(b) EXCEPT ![side][p] = q]

LEMMA MapFifoChanges ==
  ASSUME NEW b, NEW c, NEW side \in Sides, NEW p \in Prices, NEW q,
         \A x \in Sides \ {side} : c.levels[x] = b.levels[x],
         MapFifo(c, side) = [MapFifo(b, side) EXCEPT ![p] = q]
  PROVE  MapFifoBecomes(c, b, side, p, q)
<1>1. \A x \in Sides \ {side} : MapFifo(c, x) = MapFifo(b, x)
  <2>1. ASSUME NEW x \in Sides \ {side} PROVE MapFifo(c, x) = MapFifo(b, x)
    <3>1. c.levels[x] = b.levels[x]
      OBVIOUS
    <3> QED BY <3>1, MapSameSide
  <2> QED BY <2>1
<1> QED BY <1>1 DEF MapFifoOf, MapFifoBecomes

LEMMA MapInsertedSteps ==
  ASSUME NEW b, MapSound(b), NEW ref \in Refs, ref \notin DOMAIN b.orders,
         NEW e \in MapEntries, e.qty > 0,
         NEW c, c = References!Inserted(b, ref, e)
  PROVE  MapSound(c) /\ MapAdds(c, b, ref, e)
<1>1. PICK s \in Sides, p \in Prices : s = e.side /\ p = e.price
  BY DEF MapEntries
<1>2. MapFields(b)
  BY DEF MapSound, MapWhole
<1>3. /\ MapEntryOf(c) = [MapEntryOf(b) EXCEPT ![ref] = e]
      /\ \A x \in Sides \ {s} : c.levels[x] = b.levels[x]
      /\ MapFifo(c, s) = [MapFifo(b, s) EXCEPT ![p] = Append(@, ref)]
  <2>1. MapInsertedShows(c, b, ref, e, s, p)
    BY <1>1, <1>2, MapInsertedPoints
  <2> QED BY <2>1 DEF MapInsertedShows
<1>4. PICK q : q = Append(MapFifo(b, s)[p], ref)
  OBVIOUS
<1>5. MapFifoOf(c) = [MapFifoOf(b) EXCEPT ![s][p] = q]
  <2>1. MapFifo(c, s) = [MapFifo(b, s) EXCEPT ![p] = q]
    BY <1>3, <1>4
  <2>2. MapFifoBecomes(c, b, s, p, q)
    BY <1>3, <2>1, MapFifoChanges
  <2> QED BY <2>2 DEF MapFifoBecomes
<1>6. MapFifoOf(b)[s][p] = MapFifo(b, s)[p]
  BY DEF MapFifoOf
<1>7. MapSound(c)
  BY MapInsertedSound
<1> QED BY <1>1, <1>3, <1>4, <1>5, <1>6, <1>7 DEF MapAdds

\* reduce(), whole: what is left of the order is less, or the order has gone.
LEMMA MapReducedSteps ==
  ASSUME NEW b, MapSound(b), NEW ref \in DOMAIN b.orders,
         NEW shares \in Nat, shares <= b.orders[ref].qty,
         NEW c, c = References!Reduced(b, ref, shares)
  PROVE  /\ MapSound(c)
         /\ IF shares < b.orders[ref].qty
            THEN MapAmends(c, b, ref, shares)
            ELSE MapWithdraws(c, b, ref) /\ DOMAIN c.orders = DOMAIN b.orders \ {ref}
<1>1. PICK s, p : s = b.orders[ref].side /\ p = b.orders[ref].price
  OBVIOUS
<1>2. PICK m : m = MapLessened(b, ref, shares)
  OBVIOUS
<1>3. MapWhole(b) /\ \A r \in DOMAIN b.orders : b.orders[r].qty > 0
  BY DEF MapSound
<1>4. /\ ref \in Refs /\ s \in Sides /\ p \in Prices /\ b.orders[ref] \in MapEntries
  BY <1>1, <1>3, MapQueued
<1>5. MapWhole(m)
  BY <1>2, <1>3, MapLessenedWhole
<1>6. /\ DOMAIN m.orders = DOMAIN b.orders
      /\ \A r \in DOMAIN m.orders :
            m.orders[r] = IF r = ref THEN [b.orders[r] EXCEPT !.qty = @ - shares] ELSE b.orders[r]
      /\ \A x \in Sides \ {s} : m.levels[x] = b.levels[x]
      /\ MapFifo(m, s) = MapFifo(b, s)
  <2>1. MapLessenedShows(m, b, ref, shares, s, p)
    BY <1>1, <1>2, <1>3, MapLessenedPoints
  <2> QED BY <2>1 DEF MapLessenedShows
<1>7. MapFifoOf(m) = MapFifoOf(b)
  <2>1. ASSUME NEW x \in Sides PROVE MapFifo(m, x) = MapFifo(b, x)
    <3>1. CASE x = s
      BY <1>6, <3>1
    <3>2. CASE x # s
      <4>1. m.levels[x] = b.levels[x]
        BY <1>6, <3>2
      <4> QED BY <4>1, MapSameSide
    <3> QED BY <3>1, <3>2
  <2> QED BY <2>1 DEF MapFifoOf
<1>8. /\ m.orders[ref].qty = b.orders[ref].qty - shares
      /\ m.orders[ref].side = s /\ m.orders[ref].price = p
      /\ b.orders[ref].qty \in Nat
  BY <1>1, <1>4, <1>6 DEF MapEntries
<1>9. c = IF shares < b.orders[ref].qty THEN m ELSE References!Detached(m, ref)
  <2>1. References!Reduced(b, ref, shares) =
           IF shares < b.orders[ref].qty THEN MapLessened(b, ref, shares)
           ELSE References!Detached(MapLessened(b, ref, shares), ref)
    BY DEF References!Reduced, MapLessened
  <2> QED BY <1>2, <2>1
<1>10. CASE shares < b.orders[ref].qty
  <2>1. \A r \in DOMAIN m.orders : m.orders[r].qty > 0
    <3>1. m.orders[ref].qty > 0
      BY <1>8, <1>10
    <3> QED BY <1>3, <1>6, <3>1
  <2>2. MapEntryOf(m) = [MapEntryOf(b) EXCEPT ![ref].qty = @ - shares]
    BY <1>4, <1>6 DEF MapEntryOf
  <2> QED BY <1>5, <1>7, <1>9, <1>10, <2>1, <2>2 DEF MapSound, MapAmends
<1>11. CASE ~ (shares < b.orders[ref].qty)
  <2>1. c = References!Detached(m, ref) /\ m.orders[ref].qty = 0
    BY <1>8, <1>9, <1>11
  <2>2. MapWhole(c)
    BY <1>5, <1>6, <2>1, MapDetachedWhole
  <2>3. PICK q : q = MapFifo(m, s)[p]
    OBVIOUS
  <2>4. PICK rest : rest = ClosedUp(q, PlaceOf(q, ref))
    OBVIOUS
  <2>5. /\ q \in Seq(Refs) /\ ref \in Range(q) /\ q = m.levels[s][p].fifo
        /\ MapQueueOK(m, s, p)
    BY <1>4, <1>5, <1>6, <1>8, <2>3, MapQueued DEF MapWhole
  <2>6. rest \in Seq(Refs) /\ rest = MapRest(m, s, p, ref)
    <3>1. Distinct(q)
      BY <2>3, <2>5 DEF MapQueueOK
    <3> QED BY <2>4, <2>5, <3>1, Leaving DEF MapRest
  <2>7. /\ DOMAIN c.orders = DOMAIN m.orders \ {ref}
        /\ \A r \in DOMAIN c.orders : c.orders[r] = m.orders[r]
        /\ \A x \in Sides \ {s} : c.levels[x] = m.levels[x]
        /\ MapFifo(c, s) = [MapFifo(m, s) EXCEPT ![p] = rest]
    <3>1. MapDetachedShows(c, m, ref, s, p, rest)
      BY <1>5, <1>6, <1>8, <2>1, <2>6, MapDetachedPoints
    <3> QED BY <3>1 DEF MapDetachedShows
  <2>8. \A r \in DOMAIN c.orders : c.orders[r].qty > 0
    BY <1>3, <1>6, <2>7
  <2>9. MapEntryOf(c) = [MapEntryOf(b) EXCEPT ![ref] = NoOrder]
    BY <1>6, <2>7 DEF MapEntryOf
  <2>10. MapFifoOf(c) = [MapFifoOf(b) EXCEPT ![s][p] = rest]
    <3>1. MapFifoOf(c) = [MapFifoOf(m) EXCEPT ![s][p] = rest]
      BY <1>4, <2>7, MapFifoChanges DEF MapFifoBecomes
    <3> QED BY <1>7, <3>1
  <2>11. MapFifoOf(b)[s][p] = q
    BY <1>4, <1>7, <2>3 DEF MapFifoOf
  <2>12. MapWithdraws(c, b, ref)
    BY <1>1, <2>4, <2>9, <2>10, <2>11 DEF MapWithdraws
  <2> QED BY <1>6, <1>11, <2>2, <2>7, <2>8, <2>12 DEF MapSound
<1> QED BY <1>10, <1>11

------------------------------------------------------------------------------
(* The reference book, driven. *)

MapInv == MapSound(book)

LEMMA MapShows ==
  /\ References!RestingEntry = MapEntryOf(book)
  /\ References!RestingQueues = MapFifoOf(book)
<1>1. References!RestingEntry = MapEntryOf(book)
  BY DEF References!RestingEntry, References!contains, MapEntryOf
<1>2. References!RestingQueues = MapFifoOf(book)
  BY SamePlaces DEF References!RestingQueues, MapFifoOf, MapFifo
<1> QED BY <1>1, <1>2

LEMMA MapShowsNext ==
  /\ References!RestingEntry' = MapEntryOf(book')
  /\ References!RestingQueues' = MapFifoOf(book')
<1>1. References!RestingEntry' = MapEntryOf(book')
  BY DEF References!RestingEntry, References!contains, MapEntryOf
<1>2. References!RestingQueues' = MapFifoOf(book')
  BY SamePlaces DEF References!RestingQueues, MapFifoOf, MapFifo
<1> QED BY <1>1, <1>2

LEMMA MapStarts == References!Init => MapInv /\ References!Promised!BookInit
<1> SUFFICES ASSUME References!Init PROVE MapInv /\ References!Promised!BookInit
  OBVIOUS
<1>1. book = [orders |-> << >>,
              levels |-> [side \in Sides |-> << >>],
              stats  |-> [total_qty |-> [side \in Sides |-> 0],
                          level_count |-> [side \in Sides |-> 0],
                          order_count |-> 0]]
  BY SamePlaces DEF References!Init, References!EmptyBook
<1>2. DOMAIN book.orders = {} /\ \A side \in Sides : DOMAIN book.levels[side] = {}
  BY <1>1
<1>3. MapFields(book)
  <2>1. book.stats \in Stats
    BY <1>1 DEF Stats
  <2>2. DOMAIN book = {"orders", "levels", "stats"} /\ DOMAIN book.levels = Sides
    BY <1>1
  <2>3. \A side \in Sides : IsMap(book.levels[side])
    BY <1>1 DEF IsMap
  <2> QED BY <1>2, <2>1, <2>2, <2>3, FS_EmptySet DEF MapFields
<1>4. ASSUME NEW side \in Sides
      PROVE  /\ MapFifo(book, side) = [p \in Prices |-> << >>]
             /\ MapQty(book, side) = [p \in Prices |-> 0]
             /\ MapDepth(book, side) = [p \in Prices |-> 0]
  <2>1. MapFifo(book, side) = [p \in Prices |-> << >>]
    BY <1>2 DEF MapFifo
  <2>2. MapQty(book, side) = [p \in Prices |-> 0]
    BY <1>2 DEF MapQty
  <2>3. Len(<< >>) = 0
    OBVIOUS
  <2> QED BY <2>1, <2>2, <2>3 DEF MapDepth
<1>5. ASSUME NEW side \in Sides, NEW p \in Prices PROVE MapQueueOK(book, side, p)
  <2>1. MapOn(book, side, p) = {} /\ Range(<< >>) = {} /\ Distinct(<< >>)
    BY <1>2 DEF MapOn, Range, Distinct
  <2> QED BY <1>2, <1>4, <2>1, SumEmpty DEF MapQueueOK
<1>6. MapStatsOK(book)
  <2>1. \A side \in Sides : /\ SumFunctionOnSet(MapQty(book, side), Prices) = 0
                            /\ SumFunctionOnSet(MapDepth(book, side), Prices) = 0
    <3>1. IsFiniteSet(Prices)
      BY FlatBookAssumption
    <3>2. \A f : (\A x \in Prices : f[x] = 0) => SumFunctionOnSet(f, Prices) = 0
      BY <3>1, SumZero
    <3> QED BY <1>4, <3>2
  <2>2. /\ book.stats.order_count = 0
        /\ \A side \in Sides : book.stats.total_qty[side] = 0 /\ book.stats.level_count[side] = 0
    BY <1>1
  <2>3. "Buy" \in Sides /\ "Sell" \in Sides
    BY DEF Sides
  <2> QED BY <1>2, <2>1, <2>2, <2>3, FS_EmptySet DEF MapStatsOK
<1>7. MapInv
  BY <1>2, <1>3, <1>5, <1>6 DEF MapInv, MapSound, MapWhole
<1>8. References!RestingEntry = [ref \in Refs |-> NoOrder]
  BY <1>2, MapShows DEF MapEntryOf
<1>9. References!RestingQueues = [side \in Sides |-> [p \in Prices |-> << >>]]
  BY <1>4, MapShows DEF MapFifoOf
<1>10. References!Promised!Sides = Sides
  BY DEF References!Promised!Sides, Sides
<1> QED BY <1>7, <1>8, <1>9, <1>10 DEF References!Promised!BookInit

LEMMA MapWithdrawnIs ==
  ASSUME NEW e, NEW f, References!RestingEntry = e, References!RestingQueues = f, NEW ref
  PROVE  References!Promised!Withdrawn(ref) =
            [f EXCEPT ![e[ref].side][e[ref].price] =
                ClosedUp(f[e[ref].side][e[ref].price],
                         PlaceOf(f[e[ref].side][e[ref].price], ref))]
  BY SamePromises DEF References!Promised!Withdrawn

\* Every operation of the reference book is the same operation of the abstract one.
LEMMA MapOperations ==
  ASSUME MapInv
  PROVE  /\ \A ref \in Refs, side \in Sides, p \in Prices, qty \in Quantities, owner \in Owners :
               AllAdd(ref, side, p, qty, owner) =>
                 MapInv' /\ References!Promised!Add(ref, side, p, qty, owner)
         /\ \A ref \in Refs, shares \in Quantities :
               AllCancel(ref, shares) => MapInv' /\ References!Promised!Reduce(ref, shares)
         /\ \A ref \in Refs : AllRemove(ref) => MapInv' /\ References!Promised!Remove(ref)
         /\ \A old, new \in Refs, p \in Prices, qty \in Quantities :
               AllReplace(old, new, p, qty) =>
                 MapInv' /\ References!Promised!Replace(old, new, p, qty)
<1>1. PICK e, f : e = MapEntryOf(book) /\ f = MapFifoOf(book)
  OBVIOUS
<1>2. /\ References!RestingEntry = e /\ References!RestingQueues = f
      /\ References!RestingEntry' = MapEntryOf(book')
      /\ References!RestingQueues' = MapFifoOf(book')
  BY <1>1, MapShows, MapShowsNext
<1>3. MapSound(book) /\ MapWhole(book) /\ MapFields(book)
  BY DEF MapInv, MapSound, MapWhole
<1>4. \A r \in DOMAIN book.orders : r \in Refs /\ book.orders[r] \in MapEntries
  BY <1>3 DEF MapFields
<1>5. /\ \A r \in Refs : e[r] = IF r \in DOMAIN book.orders THEN book.orders[r] ELSE NoOrder
      /\ \A r \in Refs : e[r] # NoOrder <=> r \in DOMAIN book.orders
  <2>1. NoOrder \notin MapEntries
    BY NoOrderAssumption DEF MapEntries
  <2> QED BY <1>1, <1>4, <2>1 DEF MapEntryOf
<1>6. \A r : References!contains(r) <=> r \in DOMAIN book.orders
  BY DEF References!contains
<1>7. Quantities \subseteq Nat /\ References!Promised!Sides = Sides
  BY FlatBookAssumption DEF References!Promised!Sides, Sides
<1>8. ASSUME NEW c, NEW ref \in DOMAIN book.orders, MapWithdraws(c, book, ref)
      PROVE  /\ MapEntryOf(c) = [e EXCEPT ![ref] = NoOrder]
             /\ MapFifoOf(c) = References!Promised!Withdrawn(ref)
  <2>1. e[ref] = book.orders[ref]
    BY <1>4, <1>5
  <2>2. /\ MapEntryOf(c) = [e EXCEPT ![ref] = NoOrder]
        /\ MapFifoOf(c) = [f EXCEPT ![e[ref].side][e[ref].price] =
                             ClosedUp(f[e[ref].side][e[ref].price],
                                      PlaceOf(f[e[ref].side][e[ref].price], ref))]
    BY <1>1, <1>8, <2>1 DEF MapWithdraws
  <2> QED BY <1>2, <2>2, MapWithdrawnIs
<1>9. ASSUME NEW ref \in Refs, NEW side \in Sides, NEW p \in Prices, NEW qty \in Quantities,
             NEW owner \in Owners, AllAdd(ref, side, p, qty, owner)
      PROVE  MapInv' /\ References!Promised!Add(ref, side, p, qty, owner)
  <2>1. PICK o : o = [side |-> side, price |-> p, qty |-> qty, owner |-> owner]
    OBVIOUS
  <2>2. o \in MapEntries /\ o.qty = qty /\ o.side = side /\ o.price = p
    BY <1>7, <2>1 DEF MapEntries
  <2>3. /\ qty > 0 /\ ref \notin DOMAIN book.orders
        /\ book' = References!Inserted(book, ref, o)
    BY <1>6, <1>9, <2>1, <2>2 DEF AllAdd, References!BothAdd, References!Add
  <2>4. MapSound(book') /\ MapAdds(book', book, ref, o)
    BY <1>3, <2>2, <2>3, MapInsertedSteps
  <2>5. /\ References!RestingEntry' = [e EXCEPT ![ref] = o]
        /\ References!RestingQueues' = [f EXCEPT ![side][p] = Append(f[side][p], ref)]
    BY <1>1, <1>2, <2>2, <2>4 DEF MapAdds
  <2>6. e[ref] = NoOrder
    BY <1>5, <2>3
  <2>7. References!Promised!Add(ref, side, p, qty, owner)
    BY <1>2, <2>1, <2>3, <2>5, <2>6 DEF References!Promised!Add
  <2> QED BY <1>7, <2>4, <2>7 DEF MapInv
<1>10. ASSUME NEW ref \in Refs, NEW shares \in Quantities, AllCancel(ref, shares)
       PROVE  MapInv' /\ References!Promised!Reduce(ref, shares)
  <2>1. /\ ref \in DOMAIN book.orders /\ shares <= book.orders[ref].qty
        /\ book' = References!Reduced(book, ref, shares)
    BY <1>6, <1>10 DEF AllCancel, References!BothReduce, References!Reduce
  <2>2. shares \in Nat
    BY <1>7
  <2>3. /\ MapSound(book')
        /\ IF shares < book.orders[ref].qty
           THEN MapAmends(book', book, ref, shares)
           ELSE MapWithdraws(book', book, ref) /\ DOMAIN book'.orders = DOMAIN book.orders \ {ref}
    BY <1>3, <2>1, <2>2, MapReducedSteps
  <2>4. e[ref] = book.orders[ref] /\ e[ref] # NoOrder
    BY <1>5, <2>1
  <2>5. CASE shares < e[ref].qty
    <3>1. /\ References!RestingEntry' = [e EXCEPT ![ref].qty = e[ref].qty - shares]
          /\ References!RestingQueues' = f
      BY <1>1, <1>2, <2>3, <2>4, <2>5 DEF MapAmends
    <3>2. References!Promised!Reduce(ref, shares)
      BY <1>2, <2>1, <2>4, <2>5, <3>1 DEF References!Promised!Reduce
    <3> QED BY <2>3, <3>2 DEF MapInv
  <2>6. CASE ~ (shares < e[ref].qty)
    <3>1. /\ References!RestingEntry' = [e EXCEPT ![ref] = NoOrder]
          /\ References!RestingQueues' = References!Promised!Withdrawn(ref)
      BY <1>2, <1>8, <2>1, <2>3, <2>4, <2>6
    <3>2. References!Promised!Reduce(ref, shares)
      BY <1>2, <2>1, <2>4, <2>6, <3>1 DEF References!Promised!Reduce
    <3> QED BY <2>3, <3>2 DEF MapInv
  <2> QED BY <2>5, <2>6
<1>11. ASSUME NEW ref \in DOMAIN book.orders, NEW c,
              c = References!Reduced(book, ref, book.orders[ref].qty)
       PROVE  /\ MapSound(c) /\ MapWithdraws(c, book, ref)
              /\ DOMAIN c.orders = DOMAIN book.orders \ {ref}
  <2>1. book.orders[ref].qty \in Nat
    BY <1>4 DEF MapEntries
  <2>2. PICK shares \in Nat : shares = book.orders[ref].qty
    BY <2>1
  <2>3. /\ MapSound(c)
        /\ IF shares < book.orders[ref].qty
           THEN MapAmends(c, book, ref, shares)
           ELSE MapWithdraws(c, book, ref) /\ DOMAIN c.orders = DOMAIN book.orders \ {ref}
    BY <1>3, <1>11, <2>2, MapReducedSteps
  <2> QED BY <2>2, <2>3
<1>12. ASSUME NEW ref \in Refs, AllRemove(ref)
       PROVE  MapInv' /\ References!Promised!Remove(ref)
  <2>1. /\ ref \in DOMAIN book.orders
        /\ book' = References!Reduced(book, ref, book.orders[ref].qty)
    BY <1>6, <1>12 DEF AllRemove, References!BothRemove, References!Remove
  <2>2. MapSound(book') /\ MapWithdraws(book', book, ref)
    BY <1>11, <2>1
  <2>3. e[ref] # NoOrder
    BY <1>5, <2>1
  <2>4. References!Promised!Remove(ref)
    BY <1>2, <1>8, <2>1, <2>2, <2>3 DEF References!Promised!Remove
  <2> QED BY <2>2, <2>4 DEF MapInv
<1>13. ASSUME NEW old \in Refs, NEW new \in Refs, NEW p \in Prices, NEW qty \in Quantities,
              AllReplace(old, new, p, qty)
       PROVE  MapInv' /\ References!Promised!Replace(old, new, p, qty)
  <2>1. PICK m, o : /\ m = References!Reduced(book, old, book.orders[old].qty)
                    /\ o = [book.orders[old] EXCEPT !.price = p, !.qty = qty]
    OBVIOUS
  <2>2. /\ old \in DOMAIN book.orders /\ qty > 0 /\ (new = old \/ new \notin DOMAIN book.orders)
        /\ book' = References!Inserted(m, new, o)
    BY <1>6, <1>13, <2>1 DEF AllReplace, References!BothReplace, References!Replace
  <2>3. /\ MapSound(m) /\ MapWithdraws(m, book, old)
        /\ DOMAIN m.orders = DOMAIN book.orders \ {old}
    BY <1>11, <2>1, <2>2
  <2>4. book.orders[old] \in [side : Sides, price : Prices, qty : Nat, owner : Owners]
    BY <1>4, <2>2 DEF MapEntries
  <2>5. o = [side |-> book.orders[old].side, price |-> p, qty |-> qty,
             owner |-> book.orders[old].owner]
    BY <2>1, <2>4, Repriced
  <2>6. o \in MapEntries /\ o.qty = qty /\ o.side = book.orders[old].side /\ o.price = p
    BY <1>7, <2>4, <2>5 DEF MapEntries
  <2>7. MapSound(book') /\ MapAdds(book', m, new, o)
    BY <2>2, <2>3, <2>6, MapInsertedSteps
  <2>8. /\ e[old] = book.orders[old] /\ e[old] # NoOrder
        /\ new = old \/ e[new] = NoOrder
    BY <1>5, <2>2
  <2>9. PICK g : g = References!Promised!Withdrawn(old)
    OBVIOUS
  <2>10. MapEntryOf(m) = [e EXCEPT ![old] = NoOrder] /\ MapFifoOf(m) = g
    BY <1>8, <2>2, <2>3, <2>9
  <2>11. /\ References!RestingEntry' = [MapEntryOf(m) EXCEPT ![new] = o]
         /\ References!RestingQueues' = [g EXCEPT ![e[old].side][p] = Append(g[e[old].side][p], new)]
    BY <1>2, <2>6, <2>7, <2>8, <2>10 DEF MapAdds
  <2>12. References!RestingEntry' = [e EXCEPT ![old] = NoOrder,
                                              ![new] = [e[old] EXCEPT !.price = p, !.qty = qty]]
    BY <2>1, <2>8, <2>10, <2>11
  <2>13. References!Promised!Replace(old, new, p, qty)
    BY <1>2, <2>2, <2>8, <2>9, <2>11, <2>12 DEF References!Promised!Replace
  <2> QED BY <2>7, <2>13 DEF MapInv
<1> QED BY <1>9, <1>10, <1>12, <1>13

LEMMA MapStep ==
  ASSUME MapInv, AllNext
  PROVE  MapInv' /\ References!Promised!BookNext
<1>0. References!Promised!Sides = Sides
  BY DEF References!Promised!Sides, Sides
<1>1. ASSUME NEW ref \in Refs, NEW side \in Sides, NEW p \in Prices, NEW qty \in Quantities,
             NEW owner \in Owners, AllAdd(ref, side, p, qty, owner)
      PROVE  MapInv' /\ References!Promised!BookNext
  BY <1>0, <1>1, MapOperations DEF References!Promised!BookNext
<1>2. ASSUME NEW ref \in Refs, NEW shares \in Quantities, AllCancel(ref, shares)
      PROVE  MapInv' /\ References!Promised!BookNext
  BY <1>2, MapOperations DEF References!Promised!BookNext
<1>3. ASSUME NEW ref \in Refs, AllRemove(ref) PROVE MapInv' /\ References!Promised!BookNext
  BY <1>3, MapOperations DEF References!Promised!BookNext
<1>4. ASSUME NEW old \in Refs, NEW new \in Refs, NEW p \in Prices, NEW qty \in Quantities,
             AllReplace(old, new, p, qty)
      PROVE  MapInv' /\ References!Promised!BookNext
  BY <1>4, MapOperations DEF References!Promised!BookNext
<1> QED BY <1>1, <1>2, <1>3, <1>4 DEF AllNext

LEMMA MapStutters ==
  ASSUME MapInv, UNCHANGED allVars
  PROVE  MapInv' /\ UNCHANGED References!Promised!bookVars
<1>1. book' = book
  BY DEF allVars
<1>2. /\ References!RestingEntry' = References!RestingEntry
      /\ References!RestingQueues' = References!RestingQueues
  BY <1>1, MapShows, MapShowsNext
<1> QED BY <1>1, <1>2 DEF MapInv, References!Promised!bookVars

LEMMA MapInvInvariant == AllSpec => []MapInv
<1>1. AllInit => MapInv
  BY MapStarts DEF AllInit, References!BothInit
<1>2. MapInv /\ [AllNext]_allVars => MapInv'
  BY MapStep, MapStutters
<1> QED BY <1>1, <1>2, PTL DEF AllSpec

\* Read through its queries, the reference book is the price-time priority book
\* too: MapBook's hash map and lists and FlatBook's pools and links promise the same.
THEOREM MapBookImplements == AllSpec => MapImplementsLimitOrderBook
<1>1. AllInit => References!Promised!BookInit
  BY MapStarts DEF AllInit, References!BothInit
<1>2. MapInv /\ [AllNext]_allVars => [References!Promised!BookNext]_References!Promised!bookVars
  BY MapStep, MapStutters
<1> QED BY <1>1, <1>2, MapInvInvariant, PTL
        DEF AllSpec, MapImplementsLimitOrderBook, References!ImplementsLimitOrderBook,
            References!Promised!BookSpec

------------------------------------------------------------------------------
(* What validate() asserts of the reference book. *)

LEMMA SameRange == \A f : References!Range(f) = Range(f)
  BY DEF References!Range, Range

\* What is zero outside a set adds up over the set alone.
LEMMA SumWithin ==
  ASSUME NEW T, IsFiniteSet(T), NEW D \in SUBSET T, NEW f, \A x \in T : f[x] \in Int,
         \A x \in T \ D : f[x] = 0, NEW g, \A x \in D : g[x] = f[x]
  PROVE  SumFunctionOnSet(g, D) = SumFunctionOnSet(f, T)
<1>1. PICK E : E = T \ D
  OBVIOUS
<1>2. IsFiniteSet(D) /\ IsFiniteSet(E)
  BY <1>1, FS_Subset
<1>3. D \cap E = {} /\ D \cup E = T
  BY <1>1
<1>4. \A x \in D \cup E : f[x] \in Int
  BY <1>3
<1>5. SumFunctionOnSet(f, D \cup E) = SumFunctionOnSet(f, D) + SumFunctionOnSet(f, E)
  BY <1>2, <1>3, <1>4, SumJoined
<1>6. SumFunctionOnSet(f, E) = 0
  <2>1. \A x \in E : f[x] = 0
    BY <1>1
  <2> QED BY <1>2, <2>1, SumZero
<1>7. SumFunctionOnSet(g, D) = SumFunctionOnSet(f, D)
  BY <1>2, SumSame
<1>8. SumFunctionOnSet(f, D) \in Int
  <2>1. \A x \in D : f[x] \in Int
    BY <1>4
  <2> QED BY <1>2, <2>1, SumSplits
<1>9. PICK n \in Int : n = SumFunctionOnSet(f, D)
  BY <1>8
<1>10. SumFunctionOnSet(f, T) = n + 0
  BY <1>3, <1>5, <1>6, <1>9, Zenon
<1> QED BY <1>7, <1>9, <1>10

\* Over the two sides.
LEMMA SumOverSides ==
  ASSUME NEW f, f["Buy"] \in Int, f["Sell"] \in Int
  PROVE  SumFunctionOnSet(f, Sides) = f["Buy"] + f["Sell"]
<1>1. IsFiniteSet({"Buy"})
  BY FS_Singleton
<1>2. PICK S : S = {"Buy"}
  OBVIOUS
<1>3. S \ {"Buy"} = {} /\ IsFiniteSet(S) /\ "Buy" \in S /\ \A x \in S : f[x] \in Int
  BY <1>1, <1>2
<1>4. SumFunctionOnSet(f, S) = f["Buy"] + SumFunctionOnSet(f, S \ {"Buy"})
  BY <1>3, SumSplits
<1>5. SumFunctionOnSet(f, S) = f["Buy"]
  BY <1>3, <1>4, SumEmpty
<1>6. "Sell" \notin S /\ S \cup {"Sell"} = Sides
  BY <1>2 DEF Sides
<1>7. \A y \in S \cup {"Sell"} : f[y] \in Int
  BY <1>3
<1>8. SumFunctionOnSet(f, S \cup {"Sell"}) = SumFunctionOnSet(f, S) + f["Sell"]
  BY <1>3, <1>6, <1>7, SumGrows
<1> QED BY <1>5, <1>6, <1>8

LEMMA MapSides == ASSUME MapInv, NEW side \in Sides
  PROVE  /\ MapFields(book)
         /\ DOMAIN book.levels[side] \in SUBSET Prices
         /\ IsFiniteSet(DOMAIN book.levels[side])
         /\ \A p \in Prices : MapQueueOK(book, side, p)
<1>1. MapWhole(book)
  BY DEF MapInv, MapSound
<1>2. MapFields(book) /\ \A p \in Prices : MapQueueOK(book, side, p)
  BY <1>1 DEF MapWhole
<1>3. DOMAIN book.levels[side] \in SUBSET Prices
  BY <1>2 DEF MapFields
<1>4. IsFiniteSet(Prices)
  BY FlatBookAssumption
<1>5. IsFiniteSet(DOMAIN book.levels[side])
  BY <1>3, <1>4, FS_Subset
<1> QED BY <1>2, <1>3, <1>5

\* The levels are not empty, and add up to their orders.
LEMMA MapLevelSound ==
  ASSUME MapInv, NEW side \in Sides, NEW p \in DOMAIN book.levels[side]
  PROVE  References!LevelSound(side, p)
<1>1. PICK q : q = book.levels[side][p].fifo
  OBVIOUS
<1>2. p \in Prices /\ MapFields(book) /\ MapQueueOK(book, side, p)
  BY MapSides
<1>3. MapFifo(book, side)[p] = q /\ MapQty(book, side)[p] = book.levels[side][p].qty
  BY <1>1, <1>2 DEF MapFifo, MapQty
<1>4. PICK S : S = Range(q)
  OBVIOUS
<1>5. /\ q # << >> /\ S = MapOn(book, side, p)
      /\ book.levels[side][p].qty = SumFunctionOnSet(MapHeld(book), S)
  BY <1>2, <1>3, <1>4 DEF MapQueueOK
<1>6. \A r \in S : /\ r \in DOMAIN book.orders
                   /\ book.orders[r].side = side /\ book.orders[r].price = p
                   /\ book.orders[r].qty > 0
  BY <1>5 DEF MapOn, MapInv, MapSound
<1>7. PICK f : f = [r \in S |-> book.orders[r].qty]
  OBVIOUS
<1>8. SumFunctionOnSet(MapHeld(book), S) = SumFunctionOnSet(f, S)
  <2>1. IsFiniteSet(S) /\ S \in SUBSET Refs
    BY <1>2, <1>5, MapAtPrice
  <2>2. \A r \in S : MapHeld(book)[r] = f[r]
    BY <1>6, <1>7, <2>1 DEF MapHeld
  <2> QED BY <2>1, <2>2, SumSame
<1>9. References!SumFunctionOnSet(f, S) = SumFunctionOnSet(f, S) /\ References!Range(q) = S
  BY <1>4, SameSum, SameRange
<1>10. book.levels[side][p].qty = References!SumFunctionOnSet(f, S)
  BY <1>5, <1>8, <1>9, Zenon
<1> QED BY <1>1, <1>5, <1>6, <1>7, <1>9, <1>10, Zenon
        DEF References!LevelSound, References!contains

\* The counters of a side are what its levels add up to.
LEMMA MapSideCounts ==
  ASSUME MapInv, NEW side \in Sides, NEW D, D = DOMAIN book.levels[side]
  PROVE  /\ book.stats.total_qty[side] =
              References!SumFunctionOnSet([p \in D |-> book.levels[side][p].qty], D)
         /\ book.stats.level_count[side] = References!Cardinality(D)
         /\ References!SumFunctionOnSet([p \in D |-> References!orders_at(side, p)], D) =
              SumFunctionOnSet(MapDepth(book, side), Prices)
         /\ SumFunctionOnSet(MapDepth(book, side), Prices) \in Int
<1>1. MapFields(book) /\ D \in SUBSET Prices /\ IsFiniteSet(Prices)
  BY MapSides, FlatBookAssumption
<1>2. /\ book.stats.total_qty[side] = SumFunctionOnSet(MapQty(book, side), Prices)
      /\ book.stats.level_count[side] = Cardinality(D)
  BY DEF MapInv, MapSound, MapWhole, MapStatsOK
<1>3. PICK f : f = [p \in D |-> book.levels[side][p].qty]
  OBVIOUS
<1>4. PICK g : g = [p \in D |-> References!orders_at(side, p)]
  OBVIOUS
<1>5. MapQty(book, side) \in [Prices -> Int] /\ MapDepth(book, side) \in [Prices -> Nat]
  BY <1>1, MapAtPrice
<1>6. SumFunctionOnSet(f, D) = SumFunctionOnSet(MapQty(book, side), Prices)
  <2>1. PICK h : h = MapQty(book, side)
    OBVIOUS
  <2>2. \A x \in Prices : h[x] \in Int
    BY <1>5, <2>1
  <2>3. \A x \in Prices \ D : h[x] = 0
    BY <2>1 DEF MapQty
  <2>4. \A x \in D : f[x] = h[x]
    BY <1>1, <1>3, <2>1 DEF MapQty
  <2>5. SumFunctionOnSet(f, D) = SumFunctionOnSet(h, Prices)
    BY <1>1, <2>2, <2>3, <2>4, SumWithin
  <2> QED BY <2>1, <2>5
<1>7. SumFunctionOnSet(g, D) = SumFunctionOnSet(MapDepth(book, side), Prices)
  <2>1. PICK h : h = MapDepth(book, side)
    OBVIOUS
  <2>2. \A x \in Prices : h[x] \in Int
    BY <1>5, <2>1
  <2>3. \A x \in Prices \ D : h[x] = 0
    <3>1. Len(<< >>) = 0
      OBVIOUS
    <3> QED BY <2>1, <3>1 DEF MapDepth, MapFifo
  <2>4. \A x \in D : g[x] = h[x]
    BY <1>1, <1>4, <2>1 DEF MapDepth, MapFifo, References!orders_at
  <2>5. SumFunctionOnSet(g, D) = SumFunctionOnSet(h, Prices)
    BY <1>1, <2>2, <2>3, <2>4, SumWithin
  <2> QED BY <2>1, <2>5
<1>8. SumFunctionOnSet(MapDepth(book, side), Prices) \in Int
  <2>1. \A x \in Prices : MapDepth(book, side)[x] \in Int
    BY <1>5
  <2> QED BY <1>1, <2>1, SumSplits
<1>9. /\ References!SumFunctionOnSet(f, D) = SumFunctionOnSet(f, D)
      /\ References!SumFunctionOnSet(g, D) = SumFunctionOnSet(g, D)
      /\ References!Cardinality(D) = Cardinality(D)
  BY SameSum, SameSizes
<1>10. book.stats.total_qty[side] = References!SumFunctionOnSet(f, D)
  BY <1>2, <1>6, <1>9, Zenon
<1>11. References!SumFunctionOnSet(g, D) = SumFunctionOnSet(MapDepth(book, side), Prices)
  BY <1>7, <1>9, Zenon
<1> QED BY <1>2, <1>3, <1>4, <1>8, <1>9, <1>10, <1>11, Zenon

\* A walk of a side starts at its best price and goes outwards.
LEMMA MapWalks ==
  ASSUME MapInv, NEW side \in Sides, NEW walk, walk = References!Snapshot(side, 0)
  PROVE  /\ ~ References!empty(side) => walk[1].price = References!best(side)
         /\ \A i \in 1 .. Len(walk) - 1 :
               References!Before(side, walk[i].price, walk[i + 1].price)
<1>1. PICK D : D = DOMAIN book.levels[side]
  OBVIOUS
<1>2. D \in SUBSET Nat /\ IsFiniteSet(D)
  BY <1>1, MapSides, FlatBookAssumption
<1>3. PICK o : o = Outwards(side, D)
  OBVIOUS
<1>4. ReadsOutwards(side, D, o)
  BY <1>2, <1>3, OutwardsFacts
<1>5. o \in Seq(D) /\ Len(o) \in Nat /\ InOrder(side, o) /\ \A p \in D : \E i \in 1 .. Len(o) : o[i] = p
  BY <1>4 DEF ReadsOutwards
<1>6. References!Walk(book, side) = o
  BY <1>1, <1>3, SameWalks DEF References!Walk
<1>7. PICK see : see = [p \in D |-> [price |-> p, qty |-> References!qty_at(side, p),
                                    orders |-> References!orders_at(side, p)]]
  OBVIOUS
<1>8. walk = [i \in 1 .. Len(o) |-> see[o[i]]]
  <2>1. walk = [i \in 1 .. Len(o) |->
                  [price |-> o[i], qty |-> References!qty_at(side, o[i]),
                   orders |-> References!orders_at(side, o[i])]]
    BY <1>6 DEF References!Snapshot
  <2>2. \A i \in 1 .. Len(o) : o[i] \in D
    BY <1>5
  <2> QED BY <1>7, <2>1, <2>2
<1>9. \A i \in 1 .. Len(o) : o[i] \in D /\ walk[i].price = o[i]
  <2>1. \A i \in 1 .. Len(o) : o[i] \in D
    BY <1>5
  <2> QED BY <1>7, <1>8, <2>1
<1>10. Len(walk) = Len(o)
  BY <1>5, <1>8
<1>11. ASSUME NEW i \in 1 .. Len(walk) - 1
       PROVE  References!Before(side, walk[i].price, walk[i + 1].price)
  <2>1. i \in 1 .. Len(o) /\ i + 1 \in 1 .. Len(o) /\ i < i + 1
    BY <1>5, <1>10
  <2>2. Before(side, o[i], o[i + 1])
    BY <1>5, <2>1 DEF InOrder
  <2> QED BY <1>9, <2>1, <2>2, SamePlaces
<1>12. ASSUME ~ References!empty(side) PROVE walk[1].price = References!best(side)
  <2>1. D # {}
    BY <1>1, <1>12 DEF References!empty
  <2>2. References!best(side) = Inside(side, D)
    BY <1>1, <1>12, SameWalks DEF References!best
  <2>3. Len(o) >= 1
    <3>1. PICK p : p \in D
      BY <2>1
    <3>2. PICK i \in 1 .. Len(o) : o[i] = p
      BY <1>5, <3>1
    <3> QED BY <1>5, <3>2
  <2>4. 1 \in 1 .. Len(o) /\ o[1] \in D
    BY <1>5, <1>9, <2>3
  <2>5. \A p \in D : p = o[1] \/ Before(side, o[1], p)
    <3>1. ASSUME NEW p \in D PROVE p = o[1] \/ Before(side, o[1], p)
      <4>1. PICK i \in 1 .. Len(o) : o[i] = p
        BY <1>5
      <4>2. i = 1 \/ 1 < i
        BY <1>5
      <4> QED BY <1>5, <2>4, <4>1, <4>2 DEF InOrder
    <3> QED BY <3>1
  <2>6. Inside(side, D) = o[1]
    <3>1. PICK x \in D : x = o[1]
      BY <2>4
    <3>2. \A p \in D : p \in Nat
      BY <1>2
    <3>3. side = "Buy" => \A p \in D : p <= x
      BY <2>5, <3>1, <3>2 DEF Before
    <3>4. side = "Sell" => \A p \in D : x <= p
      BY <2>5, <3>1, <3>2 DEF Before
    <3>5. Inside(side, D) = x
      BY <1>2, <3>3, <3>4, InsideUnique
    <3> QED BY <3>1, <3>5
  <2> QED BY <1>9, <2>2, <2>4, <2>6
<1> QED BY <1>11, <1>12

LEMMA MapBookChecks == MapInv => References!Validates
<1> SUFFICES ASSUME MapInv PROVE References!Validates
  OBVIOUS
<1> DEFINE D(side) == DOMAIN book.levels[side]
           walk(side) == References!Snapshot(side, 0)
           waiting == [side \in Sides |->
              References!SumFunctionOnSet([p \in D(side) |-> References!orders_at(side, p)], D(side))]
<1>1. ASSUME NEW side \in Sides
      PROVE  /\ \A p \in D(side) : References!LevelSound(side, p)
             /\ book.stats.total_qty[side] =
                  References!SumFunctionOnSet([p \in D(side) |-> book.levels[side][p].qty], D(side))
             /\ book.stats.level_count[side] = References!Cardinality(D(side))
             /\ ~ References!empty(side) => walk(side)[1].price = References!best(side)
             /\ \A i \in 1 .. Len(walk(side)) - 1 :
                   References!Before(side, walk(side)[i].price, walk(side)[i + 1].price)
  BY MapLevelSound, MapSideCounts, MapWalks
<1>2. /\ book.stats.order_count = Cardinality(DOMAIN book.orders)
      /\ book.stats.order_count = SumFunctionOnSet(MapDepth(book, "Buy"), Prices) +
                                  SumFunctionOnSet(MapDepth(book, "Sell"), Prices)
  BY DEF MapInv, MapSound, MapWhole, MapStatsOK
<1>3. book.stats.order_count = References!Cardinality(DOMAIN book.orders)
  BY <1>2, SameSizes
<1>4. book.stats.order_count = References!SumFunctionOnSet(waiting, References!Sides)
  <2>1. \A side \in Sides :
          /\ waiting[side] = SumFunctionOnSet(MapDepth(book, side), Prices)
          /\ waiting[side] \in Int
    BY MapSideCounts
  <2>2. "Buy" \in Sides /\ "Sell" \in Sides
    BY DEF Sides
  <2>3. PICK w : w = waiting
    OBVIOUS
  <2> HIDE DEF waiting
  <2>4. SumFunctionOnSet(w, Sides) = w["Buy"] + w["Sell"]
    BY <2>1, <2>2, <2>3, SumOverSides
  <2>5. References!SumFunctionOnSet(w, Sides) = SumFunctionOnSet(w, Sides) /\ References!Sides = Sides
    BY SameSum, SamePlaces
  <2>6. book.stats.order_count = SumFunctionOnSet(w, Sides)
    BY <1>2, <2>1, <2>2, <2>3, <2>4
  <2> QED BY <2>3, <2>5, <2>6, Zenon
<1> QED BY <1>1, <1>3, <1>4, SamePlaces, Zenon DEF References!Validates

THEOREM MapBookValidates == AllSpec => []Validates
  BY MapInvInvariant, MapBookChecks, PTL DEF Validates
------------------------------------------------------------------------------
(* Sums and sizes under other names. *)

\* As many names as things named, when no two have one name.
LEMMA SizeRenamed ==
  ASSUME NEW X, IsFiniteSet(X), NEW g, NEW Y, Y = {g[x] : x \in X},
         \A x, y \in X : g[x] = g[y] => x = y
  PROVE  IsFiniteSet(Y) /\ Cardinality(Y) = Cardinality(X)
<1>1. PICK k : k = [x \in X |-> g[x]]
  OBVIOUS
<1>2. k \in Surjection(X, Y) /\ k \in Injection(X, Y)
  <2>1. k \in [X -> Y]
    BY <1>1
  <2>2. \A y \in Y : \E x \in X : k[x] = y
    BY <1>1
  <2>3. \A x, y \in X : k[x] = k[y] => x = y
    BY <1>1
  <2> QED BY <2>1, <2>2, <2>3 DEF Surjection, Injection, IsInjective
<1> QED BY <1>2, FS_Surjection

\* The length of a sequence of distinct elements.
LEMMA SizeOfQueue ==
  ASSUME NEW S, NEW q \in Seq(S), Distinct(q)
  PROVE  IsFiniteSet(Range(q)) /\ Cardinality(Range(q)) = Len(q)
<1>1. Len(q) \in Nat /\ DOMAIN q = 1 .. Len(q)
  BY LenProperties
<1>2. IsFiniteSet(1 .. Len(q)) /\ Cardinality(1 .. Len(q)) = Len(q)
  BY <1>1, FS_Interval
<1>3. PICK X : X = 1 .. Len(q)
  OBVIOUS
<1>4. Range(q) = {q[i] : i \in X}
  BY <1>1, <1>3 DEF Range
<1>5. \A i, j \in X : q[i] = q[j] => i = j
  BY <1>1, <1>3 DEF Distinct
<1>6. IsFiniteSet(Range(q)) /\ Cardinality(Range(q)) = Cardinality(X)
  BY <1>2, <1>3, <1>4, <1>5, SizeRenamed
<1> QED BY <1>2, <1>3, <1>6

\* A sum over names is that over the things named; by the least size of a set where
\* it is not.
LEMMA SumRenamed ==
  ASSUME NEW X, IsFiniteSet(X), NEW g, NEW f, NEW h,
         \A x \in X : f[g[x]] \in Int /\ h[x] = f[g[x]],
         \A x, y \in X : g[x] = g[y] => x = y
  PROVE  SumFunctionOnSet(h, X) = SumFunctionOnSet(f, {g[x] : x \in X})
<1> DEFINE Named(s) == {g[x] : x \in s}
           Agrees(s) == SumFunctionOnSet(h, s) = SumFunctionOnSet(f, Named(s))
           Failing == {n \in Nat : \E s \in SUBSET X : Cardinality(s) = n /\ ~ Agrees(s)}
<1>1. ASSUME NEW s \in SUBSET X
      PROVE  /\ IsFiniteSet(s) /\ Cardinality(s) \in Nat /\ IsFiniteSet(Named(s))
             /\ \A x \in s : h[x] \in Int
             /\ \A y \in Named(s) : f[y] \in Int
  <2>1. IsFiniteSet(s) /\ Cardinality(s) \in Nat
    BY FS_Subset, FS_CardinalityType
  <2>2. \A x, y \in s : g[x] = g[y] => x = y
    OBVIOUS
  <2>3. IsFiniteSet(Named(s))
    <3>1. PICK Y : Y = Named(s)
      OBVIOUS
    <3>2. IsFiniteSet(Y)
      BY <2>1, <2>2, <3>1, SizeRenamed
    <3> QED BY <3>1, <3>2
  <2> QED BY <2>1, <2>3
<1>2. SUFFICES ASSUME ~ Agrees(X) PROVE FALSE
  OBVIOUS
<1>3. Failing \in SUBSET Nat /\ Failing # {}
  <2>1. X \in SUBSET X /\ Cardinality(X) \in Nat
    BY FS_CardinalityType
  <2>2. Cardinality(X) \in Failing
    BY <1>2, <2>1
  <2> QED BY <2>2
<1>4. PICK m \in Failing : \A n \in Failing : m <= n
  <2> HIDE DEF Failing
  <2> QED BY <1>3, LeastNatural
<1>5. PICK s \in SUBSET X : Cardinality(s) = m /\ ~ Agrees(s)
  BY <1>4
<1>6. s # {}
  <2>1. Named({}) = {} /\ Agrees({})
    BY SumEmpty
  <2> QED BY <1>5, <2>1
<1>7. PICK x : x \in s
  BY <1>6
<1>8. PICK t \in SUBSET X : t = s \ {x}
  BY <1>5
<1>9. Cardinality(t) = m - 1 /\ Cardinality(t) \in Nat
  BY <1>1, <1>5, <1>7, <1>8, FS_RemoveElement
<1>10. Agrees(t)
  <2>1. m \in Nat
    BY <1>4
  <2>2. ~ (m - 1 \in Failing)
    <3>1. ~ (m <= m - 1)
      BY <2>1
    <3> HIDE DEF Failing
    <3> QED BY <1>4, <3>1, Zenon
  <2> HIDE DEF Agrees
  <2> QED BY <1>9, <2>2
<1>11. SumFunctionOnSet(h, s) = h[x] + SumFunctionOnSet(h, t)
  <2>1. IsFiniteSet(s) /\ \A z \in s : h[z] \in Int
    BY <1>1
  <2> QED BY <1>7, <1>8, <2>1, SumSplits
<1>12. PICK Y, Z, y : Y = Named(s) /\ Z = Named(t) /\ y = g[x]
  OBVIOUS
<1>13. y \in Y /\ Y \ {y} = Z
  <2>1. \A z \in s : g[z] = y => z = x
    BY <1>5, <1>7, <1>12
  <2>2. y \in Y
    BY <1>7, <1>12
  <2>3. \A w \in Y \ {y} : w \in Z
    BY <1>8, <1>12
  <2>4. \A w \in Z : w \in Y /\ w # y
    BY <1>8, <1>12, <2>1
  <2> QED BY <2>2, <2>3, <2>4
<1>14. SumFunctionOnSet(f, Y) = f[y] + SumFunctionOnSet(f, Z)
  <2>1. IsFiniteSet(Y) /\ \A z \in Y : f[z] \in Int
    BY <1>1, <1>12
  <2> QED BY <1>13, <2>1, SumSplits
<1>15. h[x] = f[y]
  BY <1>7, <1>12
<1> QED BY <1>5, <1>10, <1>11, <1>12, <1>14, <1>15

\* q adds f up over X under each key of T.
KeyedSums(q, T, f, X, key) ==
    /\ IsFiniteSet(T) /\ IsFiniteSet(X)
    /\ \A x \in X : f[x] \in Int /\ key[x] \in T
    /\ \A k \in T : q[k] = SumFunctionOnSet(f, {x \in X : key[x] = k})

\* Adding up key by key is adding up; by the least size of a set of keys for which
\* it is not.
LEMMA SumByKey ==
  ASSUME NEW q, NEW T, NEW f, NEW X, NEW key, KeyedSums(q, T, f, X, key)
  PROVE  SumFunctionOnSet(q, T) = SumFunctionOnSet(f, X)
<1> SUFFICES ASSUME IsFiniteSet(T), IsFiniteSet(X),
                    \A x \in X : f[x] \in Int, \A x \in X : key[x] \in T,
                    \A k \in T : q[k] = SumFunctionOnSet(f, {x \in X : key[x] = k})
             PROVE  SumFunctionOnSet(q, T) = SumFunctionOnSet(f, X)
  BY DEF KeyedSums
<1> DEFINE Of(s) == {x \in X : key[x] \in s}
           Agrees(s) == SumFunctionOnSet(q, s) = SumFunctionOnSet(f, Of(s))
           Failing == {n \in Nat : \E s \in SUBSET T : Cardinality(s) = n /\ ~ Agrees(s)}
<1>0. Of(T) = X
  OBVIOUS
<1>1. ASSUME NEW Y \in SUBSET X
      PROVE  IsFiniteSet(Y) /\ \A x \in Y : f[x] \in Int
  BY FS_Subset
<1>2. \A k \in T : q[k] \in Int
  <2>1. ASSUME NEW k \in T PROVE q[k] \in Int
    <3>1. PICK Y \in SUBSET X : Y = {x \in X : key[x] = k}
      OBVIOUS
    <3>2. SumFunctionOnSet(f, Y) \in Int
      BY <1>1, SumSplits
    <3> QED BY <3>1, <3>2
  <2> QED BY <2>1
<1>3. SUFFICES ASSUME ~ Agrees(T) PROVE FALSE
  BY <1>0
<1>4. Failing \in SUBSET Nat /\ Failing # {}
  <2>1. T \in SUBSET T /\ Cardinality(T) \in Nat
    BY FS_CardinalityType
  <2>2. Cardinality(T) \in Failing
    BY <1>3, <2>1
  <2> QED BY <2>2
<1>5. PICK m \in Failing : \A n \in Failing : m <= n
  <2> HIDE DEF Failing
  <2> QED BY <1>4, LeastNatural
<1>6. PICK s \in SUBSET T : Cardinality(s) = m /\ ~ Agrees(s)
  BY <1>5
<1>7. s # {}
  <2>1. Of({}) = {} /\ Agrees({})
    BY SumEmpty
  <2> QED BY <1>6, <2>1
<1>8. PICK k : k \in s
  BY <1>7
<1>9. PICK t \in SUBSET T : t = s \ {k}
  BY <1>6
<1>10. IsFiniteSet(s) /\ IsFiniteSet(t) /\ \A z \in s : q[z] \in Int
  BY <1>2, FS_Subset
<1>11. Cardinality(t) = m - 1 /\ Cardinality(t) \in Nat
  BY <1>6, <1>8, <1>9, <1>10, FS_RemoveElement, FS_CardinalityType
<1>12. Agrees(t)
  <2>1. m \in Nat
    BY <1>5
  <2>2. ~ (m - 1 \in Failing)
    <3>1. ~ (m <= m - 1)
      BY <2>1
    <3> HIDE DEF Failing
    <3> QED BY <1>5, <3>1, Zenon
  <2> HIDE DEF Agrees
  <2> QED BY <1>11, <2>2
<1>13. SumFunctionOnSet(q, s) = q[k] + SumFunctionOnSet(q, t)
  BY <1>8, <1>9, <1>10, SumSplits
<1>14. PICK Y \in SUBSET X : Y = {x \in X : key[x] = k}
  OBVIOUS
<1>15. PICK Z \in SUBSET X : Z = Of(t)
  OBVIOUS
<1>16. Of(s) = Y \cup Z /\ Y \cap Z = {}
  BY <1>8, <1>9, <1>14, <1>15
<1>17. SumFunctionOnSet(f, Y \cup Z) = SumFunctionOnSet(f, Y) + SumFunctionOnSet(f, Z)
  <2>1. \A x \in Y \cup Z : f[x] \in Int
    OBVIOUS
  <2> QED BY <1>1, <1>16, <2>1, SumJoined
<1>18. q[k] = SumFunctionOnSet(f, Y) /\ SumFunctionOnSet(q, t) = SumFunctionOnSet(f, Z)
  BY <1>8, <1>12, <1>14, <1>15
<1> QED BY <1>6, <1>13, <1>16, <1>17, <1>18

------------------------------------------------------------------------------
(* The naive book: its orders, and the queues they stand in, by arrival. *)

\* t is what stands in n at the places S, in its order.
StandsAt(t, n, S) ==
    /\ \A i \in DOMAIN t : \E k \in S : t[i] = n[k]
    /\ \A i, j \in DOMAIN t : i < j => \E k, l \in S : k < l /\ t[i] = n[k] /\ t[j] = n[l]
    /\ \A k \in S : \E i \in DOMAIN t : t[i] = n[k]
    /\ \A k, l \in S : k < l => \E i, j \in DOMAIN t : i < j /\ t[i] = n[k] /\ t[j] = n[l]

LEMMA StandingFacts ==
  ASSUME NEW X, NEW n \in Seq(X), NEW S \in SUBSET (DOMAIN n),
         NEW t, t = References!Standing(n, S)
  PROVE  t \in Seq(X) /\ StandsAt(t, n, S)
<1>1. Len(n) \in Nat /\ DOMAIN n = 1 .. Len(n) /\ \A i \in 1 .. Len(n) : n[i] \in X
  BY LenProperties, ElementOfSeq
<1>2. S \in SUBSET Nat /\ IsFiniteSet(S) /\ \A k \in S : n[k] \in X
  <2>1. IsFiniteSet(1 .. Len(n))
    BY <1>1, FS_Interval
  <2> QED BY <1>1, <2>1, FS_Subset
<1>3. PICK o : o = Outwards("Sell", S)
  OBVIOUS
<1>4. ReadsOutwards("Sell", S, o)
  BY <1>2, <1>3, OutwardsFacts DEF Sides
<1>5. /\ o \in Seq(S) /\ Len(o) = Cardinality(S) /\ Len(o) \in Nat
      /\ \A k \in S : \E i \in 1 .. Len(o) : o[i] = k
      /\ \A i, j \in 1 .. Len(o) : i < j => Before("Sell", o[i], o[j])
  BY <1>4 DEF ReadsOutwards, InOrder
<1>6. \A i \in 1 .. Len(o) : o[i] \in S
  BY <1>5, ElementOfSeq
<1>7. \A i, j \in 1 .. Len(o) : i < j => o[i] < o[j]
  BY <1>5 DEF Before
<1>8. t = [i \in 1 .. Len(o) |-> n[o[i]]]
  BY <1>3, <1>5, SameWalks, SameSizes DEF References!Standing
<1>9. t \in Seq(X) /\ DOMAIN t = 1 .. Len(o) /\ \A i \in 1 .. Len(o) : t[i] = n[o[i]]
  <2>1. t \in [1 .. Len(o) -> X]
    BY <1>2, <1>6, <1>8
  <2> QED BY <1>5, <1>8, <2>1, IsSequence
<1>10. ASSUME NEW k \in S, NEW l \in S, k < l
       PROVE  \E i, j \in DOMAIN t : i < j /\ t[i] = n[k] /\ t[j] = n[l]
  <2>1. PICK i \in 1 .. Len(o), j \in 1 .. Len(o) : o[i] = k /\ o[j] = l
    BY <1>5
  <2>2. i < j
    <3>1. ~ (l < k) /\ k # l
      BY <1>2, <1>10
    <3>2. ~ (j < i) /\ i # j
      BY <1>7, <2>1, <3>1
    <3> QED BY <1>5, <2>1, <3>2
  <2> QED BY <1>9, <2>1, <2>2
<1>11. \A k \in S : \E i \in DOMAIN t : t[i] = n[k]
  BY <1>5, <1>9
<1>12. \A i, j \in DOMAIN t : i < j => \E k, l \in S : k < l /\ t[i] = n[k] /\ t[j] = n[l]
  BY <1>6, <1>7, <1>9
<1>13. \A i \in DOMAIN t : \E k \in S : t[i] = n[k]
  BY <1>6, <1>9
<1> QED BY <1>9, <1>10, <1>11, <1>12, <1>13 DEF StandsAt

NaiveRecs == [ref : Refs, side : Sides, price : Prices, qty : Int]

\* The entries and the queues of a price-time priority book.
Waiting(E, F) ==
    /\ E \in [Refs -> MapEntries \cup {NoOrder}]
    /\ F \in [Sides -> [Prices -> Seq(Refs)]]
    /\ \A side \in Sides, p \in Prices :
          /\ Distinct(F[side][p])
          /\ Range(F[side][p]) =
                {r \in Refs : E[r] # NoOrder /\ E[r].side = side /\ E[r].price = p}

\* n holds the orders that rest, each once and as it is.
Recorded(E, n) ==
    /\ n \in Seq(NaiveRecs)
    /\ \A i, j \in DOMAIN n : n[i].ref = n[j].ref => i = j
    /\ \A r \in Refs : E[r] # NoOrder <=> \E i \in DOMAIN n : n[i].ref = r
    /\ \A i \in DOMAIN n :
          LET e == E[n[i].ref]
          IN  n[i].side = e.side /\ n[i].price = e.price /\ n[i].qty = e.qty

\* a has arrived before b.
Ahead(n, a, b) == \E k, l \in DOMAIN n : k < l /\ n[k].ref = a /\ n[l].ref = b

\* Every queue is in order of arrival.
ByArrival(F, n) ==
    \A side \in Sides, p \in Prices : \A i, j \in DOMAIN F[side][p] :
        i < j => Ahead(n, F[side][p][i], F[side][p][j])

Arrived(E, F, n) == Waiting(E, F) /\ Recorded(E, n) /\ ByArrival(F, n)

LEMMA EntriesAre == NoOrder \notin MapEntries
  BY NoOrderAssumption DEF MapEntries

\* One queue of the book changes.
LEMMA QueueChanges ==
  ASSUME NEW F \in [Sides -> [Prices -> Seq(Refs)]], NEW s \in Sides, NEW p \in Prices,
         NEW q \in Seq(Refs), NEW G, G = [F EXCEPT ![s][p] = q]
  PROVE  /\ G \in [Sides -> [Prices -> Seq(Refs)]]
         /\ G[s][p] = q
         /\ \A x \in Sides, y \in Prices : x # s \/ y # p => G[x][y] = F[x][y]
<1>1. PICK f : f = [F[s] EXCEPT ![p] = q]
  OBVIOUS
<1>2. F[s] \in [Prices -> Seq(Refs)]
  OBVIOUS
<1>3. f \in [Prices -> Seq(Refs)] /\ f[p] = q /\ \A y \in Prices : y # p => f[y] = F[s][y]
  BY <1>1, <1>2
<1>4. G = [F EXCEPT ![s] = f]
  BY <1>1
<1> QED BY <1>3, <1>4

\* An order joins: it is the last to arrive.
LEMMA WaitingJoins ==
  ASSUME NEW E, NEW F, Waiting(E, F), NEW ref \in Refs, E[ref] = NoOrder, NEW o \in MapEntries,
         NEW s, NEW p, s = o.side, p = o.price, NEW D, D = [E EXCEPT ![ref] = o],
         NEW G, G = [F EXCEPT ![s][p] = Append(F[s][p], ref)]
  PROVE  Waiting(D, G)
<1>1. s \in Sides /\ p \in Prices
  BY DEF MapEntries
<1>2. /\ E \in [Refs -> MapEntries \cup {NoOrder}]
      /\ F \in [Sides -> [Prices -> Seq(Refs)]]
  BY DEF Waiting
<1>3. PICK q \in Seq(Refs) : q = F[s][p]
  BY <1>1, <1>2
<1>4. /\ Distinct(q)
      /\ Range(q) = {r \in Refs : E[r] # NoOrder /\ E[r].side = s /\ E[r].price = p}
  BY <1>1, <1>3 DEF Waiting
<1>5. ref \notin Range(q)
  BY <1>4
<1>6. PICK w : w = Append(q, ref)
  OBVIOUS
<1>7. w \in Seq(Refs) /\ Distinct(w) /\ Range(w) = Range(q) \cup {ref}
  BY <1>4, <1>5, <1>6, Joining
<1>8. /\ G \in [Sides -> [Prices -> Seq(Refs)]]
      /\ G[s][p] = w
      /\ \A x \in Sides, y \in Prices : x # s \/ y # p => G[x][y] = F[x][y]
  <2>1. G = [F EXCEPT ![s][p] = w]
    BY <1>3, <1>6
  <2> QED BY <1>1, <1>2, <1>7, <2>1, QueueChanges
<1>9. /\ D \in [Refs -> MapEntries \cup {NoOrder}] /\ D[ref] = o /\ D[ref] # NoOrder
      /\ \A r \in Refs \ {ref} : D[r] = E[r]
  BY <1>2, EntriesAre
<1>10. ASSUME NEW x \in Sides, NEW y \in Prices
       PROVE  /\ Distinct(G[x][y])
              /\ Range(G[x][y]) =
                    {r \in Refs : D[r] # NoOrder /\ D[r].side = x /\ D[r].price = y}
  <2>1. CASE x = s /\ y = p
    <3>1. G[x][y] = w
      BY <1>8, <2>1
    <3>2. D[ref].side = x /\ D[ref].price = y
      BY <1>9, <2>1
    <3>3. Range(w) = {r \in Refs : D[r] # NoOrder /\ D[r].side = x /\ D[r].price = y}
      BY <1>4, <1>7, <1>9, <2>1, <3>2
    <3> QED BY <1>7, <3>1, <3>3
  <2>2. CASE x # s \/ y # p
    <3>1. /\ Distinct(F[x][y])
          /\ Range(F[x][y]) = {r \in Refs : E[r] # NoOrder /\ E[r].side = x /\ E[r].price = y}
      BY DEF Waiting
    <3> QED BY <1>8, <1>9, <2>2, <3>1
  <2> QED BY <2>1, <2>2
<1> QED BY <1>8, <1>9, <1>10 DEF Waiting

LEMMA RecordJoins ==
  ASSUME NEW E, NEW F, Waiting(E, F), NEW n, Recorded(E, n),
         NEW ref \in Refs, E[ref] = NoOrder, NEW o \in MapEntries,
         NEW D, D = [E EXCEPT ![ref] = o],
         NEW m, m = Append(n, [ref |-> ref, side |-> o.side, price |-> o.price, qty |-> o.qty])
  PROVE  Recorded(D, m) /\ \A a, b : Ahead(n, a, b) => Ahead(m, a, b)
<1>1. PICK x : x = [ref |-> ref, side |-> o.side, price |-> o.price, qty |-> o.qty]
  OBVIOUS
<1>2. /\ x \in NaiveRecs /\ x.ref = ref
      /\ x.side = o.side /\ x.price = o.price /\ x.qty = o.qty
  BY <1>1 DEF NaiveRecs, MapEntries
<1>3. n \in Seq(NaiveRecs) /\ Len(n) \in Nat /\ DOMAIN n = 1 .. Len(n)
  BY LenProperties DEF Recorded
<1>4. m = Append(n, x)
  BY <1>1
<1>5. /\ m \in Seq(NaiveRecs) /\ DOMAIN m = 1 .. Len(n) + 1
      /\ m[Len(n) + 1] = x /\ \A i \in 1 .. Len(n) : m[i] = n[i]
  BY <1>2, <1>3, <1>4
<1>6. /\ D[ref] = o /\ D[ref] # NoOrder
      /\ \A r \in Refs \ {ref} : D[r] = E[r]
  BY EntriesAre DEF Waiting
<1>7. \A i \in 1 .. Len(n) : n[i].ref \in Refs /\ n[i].ref # ref
  <2>1. \A i \in 1 .. Len(n) : n[i] \in NaiveRecs
    BY <1>3, ElementOfSeq
  <2>2. \A i \in 1 .. Len(n) : n[i].ref \in Refs
    BY <2>1 DEF NaiveRecs
  <2> QED BY <1>3, <2>2 DEF Recorded
<1>8. \A i, j \in DOMAIN m : m[i].ref = m[j].ref => i = j
  <2>1. \A i, j \in 1 .. Len(n) : n[i].ref = n[j].ref => i = j
    BY <1>3 DEF Recorded
  <2>2. \A i \in DOMAIN m : i \in 1 .. Len(n) \/ i = Len(n) + 1
    BY <1>3, <1>5
  <2> QED BY <1>2, <1>5, <1>7, <2>1, <2>2
<1>9. ASSUME NEW r \in Refs
      PROVE  D[r] # NoOrder <=> \E i \in DOMAIN m : m[i].ref = r
  <2>1. CASE r = ref
    <3>1. Len(n) + 1 \in DOMAIN m
      BY <1>3, <1>5
    <3> QED BY <1>2, <1>5, <1>6, <2>1, <3>1
  <2>2. CASE r # ref
    <3>1. E[r] # NoOrder <=> \E i \in 1 .. Len(n) : n[i].ref = r
      BY <1>3 DEF Recorded
    <3>2. \A i \in DOMAIN m : i \in 1 .. Len(n) \/ i = Len(n) + 1
      BY <1>3, <1>5
    <3>3. \A i \in 1 .. Len(n) : i \in DOMAIN m
      BY <1>3, <1>5
    <3> QED BY <1>2, <1>5, <1>6, <2>2, <3>1, <3>2, <3>3
  <2> QED BY <2>1, <2>2
<1>10. ASSUME NEW i \in DOMAIN m
       PROVE  /\ m[i].side = D[m[i].ref].side /\ m[i].price = D[m[i].ref].price
              /\ m[i].qty = D[m[i].ref].qty
  <2>1. CASE i = Len(n) + 1
    BY <1>2, <1>5, <1>6, <2>1
  <2>2. CASE i # Len(n) + 1
    <3>1. i \in 1 .. Len(n)
      BY <1>3, <1>5, <2>2
    <3>2. /\ n[i].side = E[n[i].ref].side /\ n[i].price = E[n[i].ref].price
          /\ n[i].qty = E[n[i].ref].qty
      BY <1>3, <3>1 DEF Recorded
    <3> QED BY <1>5, <1>6, <1>7, <3>1, <3>2
  <2> QED BY <2>1, <2>2
<1>11. \A a, b : Ahead(n, a, b) => Ahead(m, a, b)
  <2>1. ASSUME NEW a, NEW b, Ahead(n, a, b) PROVE Ahead(m, a, b)
    <3>1. PICK k \in 1 .. Len(n), l \in 1 .. Len(n) : k < l /\ n[k].ref = a /\ n[l].ref = b
      BY <1>3, <2>1 DEF Ahead
    <3>2. k \in DOMAIN m /\ l \in DOMAIN m /\ m[k] = n[k] /\ m[l] = n[l]
      BY <1>3, <1>5, <3>1
    <3> QED BY <3>1, <3>2 DEF Ahead
  <2> QED BY <2>1
<1> QED BY <1>5, <1>8, <1>9, <1>10, <1>11 DEF Recorded

LEMMA ArrivedJoins ==
  ASSUME NEW E, NEW F, NEW n, Arrived(E, F, n), NEW ref \in Refs, E[ref] = NoOrder,
         NEW o \in MapEntries, NEW s, NEW p, s = o.side, p = o.price,
         NEW D, D = [E EXCEPT ![ref] = o],
         NEW G, G = [F EXCEPT ![s][p] = Append(F[s][p], ref)],
         NEW m, m = Append(n, [ref |-> ref, side |-> s, price |-> p, qty |-> o.qty])
  PROVE  Arrived(D, G, m)
<1>1. Waiting(E, F) /\ Recorded(E, n) /\ ByArrival(F, n)
  BY DEF Arrived
<1>2. Recorded(D, m) /\ \A a, b : Ahead(n, a, b) => Ahead(m, a, b)
  <2>1. m = Append(n, [ref |-> ref, side |-> o.side, price |-> o.price, qty |-> o.qty])
    OBVIOUS
  <2> QED BY <1>1, <2>1, RecordJoins
<1>3. Waiting(D, G)
  BY <1>1, WaitingJoins
<1>4. s \in Sides /\ p \in Prices /\ F \in [Sides -> [Prices -> Seq(Refs)]]
  BY <1>1 DEF MapEntries, Waiting
<1>5. PICK q \in Seq(Refs) : q = F[s][p]
  BY <1>4
<1>6. /\ Distinct(q)
      /\ Range(q) = {r \in Refs : E[r] # NoOrder /\ E[r].side = s /\ E[r].price = p}
  BY <1>1, <1>4, <1>5 DEF Waiting
<1>7. PICK w : w = Append(q, ref)
  OBVIOUS
<1>8. ref \notin Range(q)
  BY <1>6
<1>9. /\ w \in Seq(Refs)
      /\ \A i, j \in DOMAIN w : i < j =>
           /\ i \in DOMAIN q /\ w[i] = q[i]
           /\ (j = Len(w) /\ w[j] = ref) \/ (j \in DOMAIN q /\ w[j] = q[j])
  BY <1>6, <1>7, <1>8, Joining
<1>10. /\ G[s][p] = w
       /\ \A x \in Sides, y \in Prices : x # s \/ y # p => G[x][y] = F[x][y]
  <2>1. G = [F EXCEPT ![s][p] = w]
    BY <1>5, <1>7
  <2> QED BY <1>4, <1>9, <2>1, QueueChanges
<1>11. \A a \in Range(q) : Ahead(m, a, ref)
  <2>1. ASSUME NEW a \in Range(q) PROVE Ahead(m, a, ref)
    <3>1. n \in Seq(NaiveRecs) /\ Len(n) \in Nat /\ DOMAIN n = 1 .. Len(n)
      BY <1>1, LenProperties DEF Recorded
    <3>2. PICK k \in 1 .. Len(n) : n[k].ref = a
      BY <1>1, <1>6, <3>1 DEF Recorded
    <3>3. PICK x : x = [ref |-> ref, side |-> s, price |-> p, qty |-> o.qty]
      OBVIOUS
    <3>4. m = Append(n, x) /\ x.ref = ref
      BY <3>3
    <3>5. /\ k \in DOMAIN m /\ Len(n) + 1 \in DOMAIN m /\ k < Len(n) + 1
          /\ m[k] = n[k] /\ m[Len(n) + 1] = x
      BY <3>1, <3>4
    <3> QED BY <3>2, <3>4, <3>5 DEF Ahead
  <2> QED BY <2>1
<1>12. ASSUME NEW x \in Sides, NEW y \in Prices, NEW i \in DOMAIN G[x][y], NEW j \in DOMAIN G[x][y],
              i < j
       PROVE  Ahead(m, G[x][y][i], G[x][y][j])
  <2>1. CASE x = s /\ y = p
    <3>1. G[x][y] = w
      BY <1>10, <2>1
    <3>2. /\ i \in DOMAIN q /\ w[i] = q[i]
          /\ (j = Len(w) /\ w[j] = ref) \/ (j \in DOMAIN q /\ w[j] = q[j])
      BY <1>9, <1>12, <3>1
    <3>3. CASE w[j] = ref
      <4>1. w[i] \in Range(q)
        BY <3>2 DEF Range
      <4> QED BY <1>11, <3>1, <3>3, <4>1
    <3>4. CASE j \in DOMAIN q /\ w[j] = q[j]
      <4>1. Ahead(n, q[i], q[j])
        BY <1>1, <1>4, <1>5, <1>12, <3>2, <3>4 DEF ByArrival
      <4> QED BY <1>2, <3>1, <3>2, <3>4, <4>1
    <3> QED BY <3>2, <3>3, <3>4
  <2>2. CASE x # s \/ y # p
    <3>1. G[x][y] = F[x][y]
      BY <1>10, <2>2
    <3>2. Ahead(n, G[x][y][i], G[x][y][j])
      BY <1>1, <1>12, <3>1 DEF ByArrival
    <3> QED BY <1>2, <3>2
  <2> QED BY <2>1, <2>2
<1> QED BY <1>2, <1>3, <1>12 DEF Arrived, ByArrival

\* Shares come off an order, which keeps its place.
LEMMA ArrivedAmends ==
  ASSUME NEW E, NEW F, NEW n, Arrived(E, F, n), NEW ref \in Refs, E[ref] # NoOrder,
         NEW shares \in Nat, shares <= E[ref].qty,
         NEW D, D = [E EXCEPT ![ref].qty = E[ref].qty - shares],
         NEW k \in DOMAIN n, n[k].ref = ref,
         NEW m, m = [n EXCEPT ![k].qty = n[k].qty - shares]
  PROVE  Arrived(D, F, m)
<1>1. Waiting(E, F) /\ Recorded(E, n) /\ ByArrival(F, n)
  BY DEF Arrived
<1>2. n \in Seq(NaiveRecs) /\ Len(n) \in Nat /\ DOMAIN n = 1 .. Len(n)
  BY <1>1, LenProperties DEF Recorded
<1>3. \A i \in DOMAIN n : n[i] \in NaiveRecs
  BY <1>2, ElementOfSeq
<1>4. PICK e \in MapEntries : e = E[ref]
  BY <1>1 DEF Waiting
<1>5. PICK d : d = [e EXCEPT !.qty = e.qty - shares]
  OBVIOUS
<1>6. /\ d \in MapEntries /\ d.side = e.side /\ d.price = e.price /\ d.qty = e.qty - shares
  BY <1>4, <1>5 DEF MapEntries
<1>7. /\ D \in [Refs -> MapEntries \cup {NoOrder}] /\ D[ref] = d /\ D[ref] # NoOrder
      /\ \A r \in Refs \ {ref} : D[r] = E[r]
  <2>1. D = [E EXCEPT ![ref] = d]
    BY <1>4, <1>5
  <2>2. E \in [Refs -> MapEntries \cup {NoOrder}]
    BY <1>1 DEF Waiting
  <2> QED BY <1>6, <2>1, <2>2, EntriesAre
<1>8. PICK z : z = [n[k] EXCEPT !.qty = n[k].qty - shares]
  OBVIOUS
<1>9. /\ z \in NaiveRecs /\ z.ref = ref /\ z.side = n[k].side /\ z.price = n[k].price
      /\ z.qty = n[k].qty - shares
  BY <1>3, <1>8 DEF NaiveRecs
<1>10. /\ m \in Seq(NaiveRecs) /\ DOMAIN m = DOMAIN n
       /\ \A i \in DOMAIN n : m[i].ref = n[i].ref
       /\ m[k] = z /\ \A i \in DOMAIN n \ {k} : m[i] = n[i]
  <2>1. m = [n EXCEPT ![k] = z]
    BY <1>8
  <2>2. m \in [1 .. Len(n) -> NaiveRecs]
    BY <1>2, <1>3, <1>9, <2>1
  <2>3. m \in Seq(NaiveRecs)
    BY <1>2, <2>2, IsSequence
  <2> QED BY <1>2, <1>9, <2>1, <2>3
<1>11. Waiting(D, F)
  <2>1. ASSUME NEW x \in Sides, NEW y \in Prices
        PROVE  {r \in Refs : D[r] # NoOrder /\ D[r].side = x /\ D[r].price = y} =
               {r \in Refs : E[r] # NoOrder /\ E[r].side = x /\ E[r].price = y}
    BY <1>4, <1>6, <1>7
  <2> QED BY <1>1, <1>7, <2>1 DEF Waiting
<1>12. Recorded(D, m)
  <2>1. \A i, j \in DOMAIN m : m[i].ref = m[j].ref => i = j
    BY <1>1, <1>10 DEF Recorded
  <2>2. \A r \in Refs : D[r] # NoOrder <=> \E i \in DOMAIN m : m[i].ref = r
    BY <1>1, <1>7, <1>10 DEF Recorded
  <2>3. ASSUME NEW i \in DOMAIN m
        PROVE  /\ m[i].side = D[m[i].ref].side /\ m[i].price = D[m[i].ref].price
               /\ m[i].qty = D[m[i].ref].qty
    <3>1. /\ n[i].side = E[n[i].ref].side /\ n[i].price = E[n[i].ref].price
          /\ n[i].qty = E[n[i].ref].qty
      BY <1>1, <1>10 DEF Recorded
    <3>2. CASE i = k
      <4>1. n[k].side = e.side /\ n[k].price = e.price /\ n[k].qty = e.qty
        BY <1>4, <3>1, <3>2
      <4>2. m[i] = z /\ m[i].ref = ref
        BY <1>9, <1>10, <3>2
      <4> QED BY <1>6, <1>7, <1>9, <4>1, <4>2
    <3>3. CASE i # k
      <4>1. n[i].ref # ref /\ n[i].ref \in Refs
        BY <1>1, <1>3, <1>10, <3>3 DEF Recorded, NaiveRecs
      <4> QED BY <1>7, <1>10, <3>1, <3>3, <4>1
    <3> QED BY <3>2, <3>3
  <2> QED BY <1>10, <2>1, <2>2, <2>3 DEF Recorded
<1>13. ByArrival(F, m)
  <2>1. \A a, b : Ahead(n, a, b) => Ahead(m, a, b)
    BY <1>10 DEF Ahead
  <2> QED BY <1>1, <2>1 DEF ByArrival
<1> QED BY <1>11, <1>12, <1>13 DEF Arrived

\* An order leaves; those that stay keep their order.
LEMMA ArrivedLeaves ==
  ASSUME NEW E, NEW F, NEW n, Arrived(E, F, n), NEW ref \in Refs, E[ref] # NoOrder,
         NEW s, NEW p, s = E[ref].side, p = E[ref].price,
         NEW D, D = [E EXCEPT ![ref] = NoOrder],
         NEW G, G = [F EXCEPT ![s][p] = ClosedUp(F[s][p], PlaceOf(F[s][p], ref))],
         NEW m, m = References!Standing(n, {i \in DOMAIN n : n[i].ref # ref})
  PROVE  Arrived(D, G, m)
<1>1. Waiting(E, F) /\ Recorded(E, n) /\ ByArrival(F, n)
  BY DEF Arrived
<1>2. n \in Seq(NaiveRecs)
  BY <1>1 DEF Recorded
<1>3. PICK S \in SUBSET (DOMAIN n) : S = {i \in DOMAIN n : n[i].ref # ref}
  OBVIOUS
<1>4. /\ m \in Seq(NaiveRecs)
      /\ \A i \in DOMAIN m : \E k \in S : m[i] = n[k]
      /\ \A i, j \in DOMAIN m : i < j => \E k, l \in S : k < l /\ m[i] = n[k] /\ m[j] = n[l]
      /\ \A k \in S : \E i \in DOMAIN m : m[i] = n[k]
      /\ \A k, l \in S : k < l => \E i, j \in DOMAIN m : i < j /\ m[i] = n[k] /\ m[j] = n[l]
  <2>1. m = References!Standing(n, S)
    BY <1>3
  <2>2. m \in Seq(NaiveRecs) /\ StandsAt(m, n, S)
    BY <1>2, <2>1, StandingFacts
  <2> QED BY <2>2 DEF StandsAt
<1>5. PICK e \in MapEntries : e = E[ref]
  BY <1>1 DEF Waiting
<1>6. s \in Sides /\ p \in Prices
  BY <1>5 DEF MapEntries
<1>7. F \in [Sides -> [Prices -> Seq(Refs)]] /\ E \in [Refs -> MapEntries \cup {NoOrder}]
  BY <1>1 DEF Waiting
<1>8. /\ D \in [Refs -> MapEntries \cup {NoOrder}] /\ D[ref] = NoOrder
      /\ \A r \in Refs \ {ref} : D[r] = E[r]
  BY <1>7
<1>9. PICK q \in Seq(Refs) : q = F[s][p]
  BY <1>6, <1>7
<1>10. /\ Distinct(q)
       /\ Range(q) = {r \in Refs : E[r] # NoOrder /\ E[r].side = s /\ E[r].price = p}
  BY <1>1, <1>6, <1>9 DEF Waiting
<1>11. PICK w : w = ClosedUp(q, PlaceOf(q, ref))
  OBVIOUS
<1>12. w \in Seq(Refs) /\ Distinct(w) /\ Range(w) = Range(q) \ {ref} /\ KeepsOrder(q, w)
  <2>1. ref \in Range(q)
    BY <1>10
  <2> QED BY <1>10, <1>11, <2>1, Leaving
<1>13. /\ G \in [Sides -> [Prices -> Seq(Refs)]]
       /\ G[s][p] = w
       /\ \A x \in Sides, y \in Prices : x # s \/ y # p => G[x][y] = F[x][y]
  <2>1. G = [F EXCEPT ![s][p] = w]
    BY <1>9, <1>11
  <2> QED BY <1>6, <1>7, <1>12, <2>1, QueueChanges
<1>14. ASSUME NEW x \in Sides, NEW y \in Prices
       PROVE  /\ Distinct(G[x][y])
              /\ Range(G[x][y]) =
                    {r \in Refs : D[r] # NoOrder /\ D[r].side = x /\ D[r].price = y}
  <2>1. CASE x = s /\ y = p
    <3>1. G[x][y] = w
      BY <1>13, <2>1
    <3>2. Range(w) = {r \in Refs : D[r] # NoOrder /\ D[r].side = x /\ D[r].price = y}
      BY <1>8, <1>10, <1>12, <2>1
    <3> QED BY <1>12, <3>1, <3>2
  <2>2. CASE x # s \/ y # p
    <3>1. /\ Distinct(F[x][y])
          /\ Range(F[x][y]) = {r \in Refs : E[r] # NoOrder /\ E[r].side = x /\ E[r].price = y}
      BY <1>1 DEF Waiting
    <3>2. ~ (E[ref].side = x /\ E[ref].price = y)
      BY <2>2
    <3>3. G[x][y] = F[x][y]
      BY <1>13, <2>2
    <3> QED BY <1>8, <3>1, <3>2, <3>3
  <2> QED BY <2>1, <2>2
<1>15. \A k \in DOMAIN n : n[k].ref \in Refs
  <2>1. \A k \in DOMAIN n : n[k] \in NaiveRecs
    BY <1>2, LenProperties, ElementOfSeq
  <2> QED BY <2>1 DEF NaiveRecs
<1>16. Recorded(D, m)
  <2>1. ASSUME NEW i \in DOMAIN m, NEW j \in DOMAIN m, m[i].ref = m[j].ref, i # j
        PROVE  FALSE
    <3>1. i \in Nat /\ j \in Nat
      BY <1>4, LenProperties
    <3>2. \A k, l \in DOMAIN n : k < l => n[k].ref # n[l].ref
      <4>1. \A k, l \in DOMAIN n : n[k].ref = n[l].ref => k = l
        BY <1>1 DEF Recorded
      <4>2. \A k \in DOMAIN n : k \in Nat
        BY <1>2, LenProperties
      <4> QED BY <4>1, <4>2
    <3>3. CASE i < j
      BY <1>4, <2>1, <3>2, <3>3
    <3>4. CASE j < i
      BY <1>4, <2>1, <3>2, <3>4
    <3> QED BY <2>1, <3>1, <3>3, <3>4
  <2>2. ASSUME NEW r \in Refs
        PROVE  D[r] # NoOrder <=> \E i \in DOMAIN m : m[i].ref = r
    <3>1. E[r] # NoOrder <=> \E k \in DOMAIN n : n[k].ref = r
      BY <1>1 DEF Recorded
    <3>2. CASE r = ref
      BY <1>3, <1>4, <1>8, <3>2
    <3>3. CASE r # ref
      <4>1. (\E k \in DOMAIN n : n[k].ref = r) <=> \E k \in S : n[k].ref = r
        BY <1>3, <3>3
      <4>2. (\E k \in S : n[k].ref = r) => \E i \in DOMAIN m : m[i].ref = r
        <5>1. \A k \in S : \E i \in DOMAIN m : m[i] = n[k]
          BY <1>4
        <5> QED BY <5>1
      <4>3. (\E i \in DOMAIN m : m[i].ref = r) => \E k \in S : n[k].ref = r
        <5>1. \A i \in DOMAIN m : \E k \in S : m[i] = n[k]
          BY <1>4
        <5> QED BY <5>1
      <4> QED BY <1>8, <3>1, <3>3, <4>1, <4>2, <4>3
    <3> QED BY <3>2, <3>3
  <2>3. ASSUME NEW i \in DOMAIN m
        PROVE  /\ m[i].side = D[m[i].ref].side /\ m[i].price = D[m[i].ref].price
               /\ m[i].qty = D[m[i].ref].qty
    <3>1. PICK k \in S : m[i] = n[k]
      BY <1>4
    <3>2. /\ n[k].side = E[n[k].ref].side /\ n[k].price = E[n[k].ref].price
          /\ n[k].qty = E[n[k].ref].qty
      BY <1>1 DEF Recorded
    <3>3. n[k].ref \in Refs \ {ref}
      BY <1>3, <1>15
    <3> QED BY <1>8, <3>1, <3>2, <3>3
  <2> QED BY <1>4, <2>1, <2>2, <2>3 DEF Recorded
<1>17. ASSUME NEW a, NEW b, Ahead(n, a, b), a # ref, b # ref PROVE Ahead(m, a, b)
  <2>1. PICK k \in S, l \in S : k < l /\ n[k].ref = a /\ n[l].ref = b
    BY <1>3, <1>17 DEF Ahead
  <2>2. PICK i \in DOMAIN m, j \in DOMAIN m : i < j /\ m[i] = n[k] /\ m[j] = n[l]
    BY <1>4, <2>1
  <2> QED BY <2>1, <2>2 DEF Ahead
<1>18. ASSUME NEW x \in Sides, NEW y \in Prices, NEW i \in DOMAIN G[x][y], NEW j \in DOMAIN G[x][y],
              i < j
       PROVE  Ahead(m, G[x][y][i], G[x][y][j])
  <2>1. G[x][y][i] # ref /\ G[x][y][j] # ref
    <3>1. G[x][y][i] \in Range(G[x][y]) /\ G[x][y][j] \in Range(G[x][y])
      BY DEF Range
    <3>2. \A r \in Range(G[x][y]) : D[r] # NoOrder
      BY <1>14
    <3>3. ref \notin Range(G[x][y])
      BY <1>8, <3>2
    <3> QED BY <3>1, <3>3
  <2>2. Ahead(n, G[x][y][i], G[x][y][j])
    <3>1. CASE x = s /\ y = p
      <4>1. G[x][y] = w
        BY <1>13, <3>1
      <4>2. PICK k \in DOMAIN q, l \in DOMAIN q : k < l /\ q[k] = w[i] /\ q[l] = w[j]
        BY <1>12, <1>18, <4>1 DEF KeepsOrder
      <4>3. Ahead(n, q[k], q[l])
        BY <1>1, <1>6, <1>9, <4>2 DEF ByArrival
      <4> QED BY <4>1, <4>2, <4>3
    <3>2. CASE x # s \/ y # p
      <4>1. G[x][y] = F[x][y]
        BY <1>13, <3>2
      <4> QED BY <1>1, <1>18, <4>1 DEF ByArrival
    <3> QED BY <3>1, <3>2
  <2> QED BY <1>17, <2>1, <2>2
<1> QED BY <1>8, <1>13, <1>14, <1>16, <1>18 DEF Arrived, Waiting, ByArrival

\* The naive book finds an order that rests, as it is.
LEMMA NaiveFinds ==
  ASSUME NEW E, NEW F, Arrived(E, F, naive), NEW ref \in Refs, E[ref] # NoOrder,
         NEW k, k = References!NaiveFind(ref)
  PROVE  /\ k \in DOMAIN naive /\ naive[k].ref = ref
         /\ naive[k].side = E[ref].side /\ naive[k].qty = E[ref].qty
         /\ E[ref] \in MapEntries
<1>1. Waiting(E, F) /\ Recorded(E, naive)
  BY DEF Arrived
<1>2. \E i \in DOMAIN naive : naive[i].ref = ref
  BY <1>1 DEF Recorded
<1>3. k \in DOMAIN naive /\ naive[k].ref = ref
  BY <1>2 DEF References!NaiveFind
<1> QED BY <1>1, <1>3 DEF Recorded, Waiting

\* cancel() of the naive book.
LEMMA NaiveCancels ==
  ASSUME NEW E, NEW F, Arrived(E, F, naive), NEW ref \in Refs, E[ref] # NoOrder,
         NEW shares \in Nat, shares <= E[ref].qty,
         NEW m, m = References!NaiveCancelled(ref, shares)
  PROVE  /\ shares < E[ref].qty =>
               Arrived([E EXCEPT ![ref].qty = E[ref].qty - shares], F, m)
         /\ ~ (shares < E[ref].qty) =>
               Arrived([E EXCEPT ![ref] = NoOrder],
                       [F EXCEPT ![E[ref].side][E[ref].price] =
                          ClosedUp(F[E[ref].side][E[ref].price],
                                   PlaceOf(F[E[ref].side][E[ref].price], ref))], m)
<1>1. PICK k : k = References!NaiveFind(ref)
  OBVIOUS
<1>2. /\ k \in DOMAIN naive /\ naive[k].ref = ref
      /\ naive[k].qty = E[ref].qty /\ E[ref] \in MapEntries
  BY <1>1, NaiveFinds
<1>3. E[ref].qty \in Nat
  BY <1>2 DEF MapEntries
<1>4. PICK t : t = [naive EXCEPT ![k].qty = naive[k].qty - shares]
  OBVIOUS
<1>5. t[k].qty = E[ref].qty - shares
  <2>1. naive[k] \in NaiveRecs
    BY <1>2, ElementOfSeq DEF Arrived, Recorded
  <2>2. PICK z : z = [naive[k] EXCEPT !.qty = naive[k].qty - shares]
    OBVIOUS
  <2>3. z.qty = naive[k].qty - shares
    BY <2>1, <2>2 DEF NaiveRecs
  <2>4. t[k] = z
    BY <1>2, <1>4, <2>2
  <2> QED BY <1>2, <2>3, <2>4
<1>6. m = IF t[k].qty = 0
          THEN References!Standing(naive, {i \in DOMAIN naive : naive[i].ref # ref}) ELSE t
  BY <1>1, <1>4 DEF References!NaiveCancelled
<1>7. CASE shares < E[ref].qty
  <2>1. m = t
    BY <1>3, <1>5, <1>6, <1>7
  <2>2. PICK D : D = [E EXCEPT ![ref].qty = E[ref].qty - shares]
    OBVIOUS
  <2>3. PICK lessened : lessened = [naive EXCEPT ![k].qty = naive[k].qty - shares]
    OBVIOUS
  <2>4. Arrived(D, F, lessened)
    BY <1>2, <2>2, <2>3, ArrivedAmends
  <2> QED BY <1>4, <1>7, <2>1, <2>2, <2>3, <2>4
<1>8. CASE ~ (shares < E[ref].qty)
  <2>1. m = References!Standing(naive, {i \in DOMAIN naive : naive[i].ref # ref})
    BY <1>3, <1>5, <1>6, <1>8
  <2>2. PICK s, p : s = E[ref].side /\ p = E[ref].price
    OBVIOUS
  <2>3. Arrived([E EXCEPT ![ref] = NoOrder],
                [F EXCEPT ![s][p] = ClosedUp(F[s][p], PlaceOf(F[s][p], ref))], m)
    BY <2>1, <2>2, ArrivedLeaves
  <2> QED BY <1>8, <2>2, <2>3
<1> QED BY <1>7, <1>8

------------------------------------------------------------------------------
(* The three books, given the same calls. *)

NaiveInv == Arrived(References!RestingEntry, References!RestingQueues, naive)

\* The flat book and the reference book show the same entries and queues.
Alike ==
    /\ RestingEntry = References!RestingEntry
    /\ RestingQueues = References!RestingQueues

LEMMA AllStarts ==
  ASSUME AllInit
  PROVE  FlatInv /\ MapInv /\ NaiveInv /\ Alike
<1>1. Init /\ References!Init /\ naive = << >>
  BY DEF AllInit, References!BothInit
<1>2. FlatInv /\ Reference!BookInit
  BY <1>1, InitFlat, InitMaps DEF FlatInv
<1>3. MapInv /\ References!Promised!BookInit
  BY <1>1, MapStarts
<1>4. Reference!Sides = Sides /\ References!Promised!Sides = Sides
  BY DEF Reference!Sides, References!Promised!Sides, Sides
<1>5. PICK E, F : E = References!RestingEntry /\ F = References!RestingQueues
  OBVIOUS
<1>6. /\ E = [ref \in Refs |-> NoOrder]
      /\ F = [side \in Sides |-> [p \in Prices |-> << >>]]
  BY <1>3, <1>4, <1>5 DEF References!Promised!BookInit
<1>7. Alike
  BY <1>2, <1>4, <1>5, <1>6 DEF Alike, Reference!BookInit
<1>8. Distinct(<< >>) /\ Range(<< >>) = {} /\ DOMAIN << >> = {} /\ \A X : << >> \in Seq(X)
  BY DEF Distinct, Range
<1>9. Waiting(E, F)
  BY <1>6, <1>8 DEF Waiting
<1>10. Recorded(E, << >>)
  BY <1>6, <1>8 DEF Recorded
<1>11. ByArrival(F, << >>)
  BY <1>6, <1>8 DEF ByArrival
<1> QED BY <1>1, <1>2, <1>3, <1>5, <1>7, <1>9, <1>10, <1>11 DEF NaiveInv, Arrived

\* Every call keeps the naive book's orders those of the reference book, and in order.
LEMMA NaiveAdds ==
  ASSUME MapInv, NaiveInv, NEW ref \in Refs, NEW side \in Sides, NEW p \in Prices,
         NEW qty \in Quantities, NEW owner \in Owners, AllAdd(ref, side, p, qty, owner)
  PROVE  NaiveInv'
<1>1. PICK E, F : E = References!RestingEntry /\ F = References!RestingQueues
  OBVIOUS
<1>2. PICK o : o = [side |-> side, price |-> p, qty |-> qty, owner |-> owner]
  OBVIOUS
<1>3. qty \in Nat
  BY FlatBookAssumption
<1>4. o \in MapEntries /\ o.side = side /\ o.price = p /\ o.qty = qty
  BY <1>2, <1>3 DEF MapEntries
<1>5. References!Promised!Add(ref, side, p, qty, owner)
  BY MapOperations
<1>6. /\ E[ref] = NoOrder
      /\ References!RestingEntry' = [E EXCEPT ![ref] = o]
      /\ References!RestingQueues' = [F EXCEPT ![side][p] = Append(F[side][p], ref)]
  BY <1>1, <1>2, <1>5 DEF References!Promised!Add
<1>7. naive' = Append(naive, [ref |-> ref, side |-> side, price |-> p, qty |-> qty])
  BY DEF AllAdd, References!BothAdd, References!NaiveAdded
<1>8. PICK D, G, m : /\ D = [E EXCEPT ![ref] = o]
                     /\ G = [F EXCEPT ![side][p] = Append(F[side][p], ref)]
                     /\ m = Append(naive, [ref |-> ref, side |-> side, price |-> p, qty |-> o.qty])
  OBVIOUS
<1>9. Arrived(E, F, naive)
  BY <1>1 DEF NaiveInv
<1>10. Arrived(D, G, m)
  BY <1>4, <1>6, <1>8, <1>9, ArrivedJoins
<1> QED BY <1>4, <1>6, <1>7, <1>8, <1>10 DEF NaiveInv

LEMMA NaiveReduces ==
  ASSUME MapInv, NaiveInv, NEW ref \in Refs, NEW shares \in Quantities, AllCancel(ref, shares)
  PROVE  NaiveInv'
<1>1. PICK E, F : E = References!RestingEntry /\ F = References!RestingQueues
  OBVIOUS
<1>2. shares \in Nat
  BY FlatBookAssumption
<1>3. References!Promised!Reduce(ref, shares)
  BY MapOperations
<1>4. /\ E[ref] # NoOrder /\ shares <= E[ref].qty
      /\ IF shares < E[ref].qty
         THEN /\ References!RestingEntry' = [E EXCEPT ![ref].qty = E[ref].qty - shares]
              /\ References!RestingQueues' = F
         ELSE /\ References!RestingEntry' = [E EXCEPT ![ref] = NoOrder]
              /\ References!RestingQueues' =
                   [F EXCEPT ![E[ref].side][E[ref].price] =
                      ClosedUp(F[E[ref].side][E[ref].price],
                               PlaceOf(F[E[ref].side][E[ref].price], ref))]
  BY <1>1, <1>3, MapWithdrawnIs DEF References!Promised!Reduce
<1>5. PICK m : m = References!NaiveCancelled(ref, shares)
  OBVIOUS
<1>6. naive' = m
  BY <1>5 DEF AllCancel, References!BothReduce
<1>7. Arrived(E, F, naive)
  BY <1>1 DEF NaiveInv
<1>8. /\ shares < E[ref].qty =>
            Arrived([E EXCEPT ![ref].qty = E[ref].qty - shares], F, m)
      /\ ~ (shares < E[ref].qty) =>
            Arrived([E EXCEPT ![ref] = NoOrder],
                    [F EXCEPT ![E[ref].side][E[ref].price] =
                       ClosedUp(F[E[ref].side][E[ref].price],
                                PlaceOf(F[E[ref].side][E[ref].price], ref))], m)
  BY <1>2, <1>4, <1>5, <1>7, NaiveCancels
<1>9. Arrived(References!RestingEntry', References!RestingQueues', m)
  BY <1>4, <1>8
<1> QED BY <1>6, <1>9 DEF NaiveInv

\* remove() of the naive book cancels all there is.
LEMMA NaiveRemoves ==
  ASSUME NEW E, NEW F, Arrived(E, F, naive), NEW ref \in Refs, E[ref] # NoOrder,
         NEW m, m = References!NaiveCancelled(ref, References!NaiveQty(ref)),
         NEW s, NEW p, s = E[ref].side, p = E[ref].price
  PROVE  Arrived([E EXCEPT ![ref] = NoOrder],
                 [F EXCEPT ![s][p] = ClosedUp(F[s][p], PlaceOf(F[s][p], ref))], m)
<1>1. PICK k : k = References!NaiveFind(ref)
  OBVIOUS
<1>2. naive[k].qty = E[ref].qty /\ E[ref] \in MapEntries
  BY <1>1, NaiveFinds
<1>3. References!NaiveQty(ref) = E[ref].qty
  BY <1>1, <1>2 DEF References!NaiveQty
<1>4. PICK shares \in Nat : shares = E[ref].qty
  BY <1>2 DEF MapEntries
<1>5. m = References!NaiveCancelled(ref, shares)
  BY <1>3, <1>4
<1>6. shares <= E[ref].qty /\ ~ (shares < E[ref].qty)
  BY <1>4
<1> QED BY <1>5, <1>6, NaiveCancels

LEMMA NaiveErases ==
  ASSUME MapInv, NaiveInv, NEW ref \in Refs, AllRemove(ref)
  PROVE  NaiveInv'
<1>1. PICK E, F : E = References!RestingEntry /\ F = References!RestingQueues
  OBVIOUS
<1>2. References!Promised!Remove(ref)
  BY MapOperations
<1>3. PICK s, p : s = E[ref].side /\ p = E[ref].price
  OBVIOUS
<1>4. /\ E[ref] # NoOrder
      /\ References!RestingEntry' = [E EXCEPT ![ref] = NoOrder]
      /\ References!RestingQueues' =
            [F EXCEPT ![s][p] = ClosedUp(F[s][p], PlaceOf(F[s][p], ref))]
  BY <1>1, <1>2, <1>3, MapWithdrawnIs DEF References!Promised!Remove
<1>5. PICK m : m = References!NaiveCancelled(ref, References!NaiveQty(ref))
  OBVIOUS
<1>6. naive' = m
  BY <1>5 DEF AllRemove, References!BothRemove
<1>7. Arrived(E, F, naive)
  BY <1>1 DEF NaiveInv
<1>8. Arrived([E EXCEPT ![ref] = NoOrder],
              [F EXCEPT ![s][p] = ClosedUp(F[s][p], PlaceOf(F[s][p], ref))], m)
  BY <1>3, <1>4, <1>5, <1>7, NaiveRemoves
<1> QED BY <1>4, <1>6, <1>8 DEF NaiveInv

LEMMA NaiveReplaces ==
  ASSUME MapInv, NaiveInv, NEW old \in Refs, NEW new \in Refs, NEW p \in Prices,
         NEW qty \in Quantities, AllReplace(old, new, p, qty)
  PROVE  NaiveInv'
<1>1. PICK E, F : E = References!RestingEntry /\ F = References!RestingQueues
  OBVIOUS
<1>2. References!Promised!Replace(old, new, p, qty)
  BY MapOperations
<1>3. PICK s, x : s = E[old].side /\ x = E[old].price
  OBVIOUS
<1>4. PICK o : o = [E[old] EXCEPT !.price = p, !.qty = qty]
  OBVIOUS
<1>5. PICK G : G = [F EXCEPT ![s][x] = ClosedUp(F[s][x], PlaceOf(F[s][x], old))]
  OBVIOUS
<1>6. References!Promised!Withdrawn(old) = G
  BY <1>1, <1>3, <1>5, MapWithdrawnIs
<1>7. /\ E[old] # NoOrder /\ (new = old \/ E[new] = NoOrder)
      /\ References!RestingEntry' = [E EXCEPT ![old] = NoOrder, ![new] = o]
      /\ References!RestingQueues' = [G EXCEPT ![s][p] = Append(G[s][p], new)]
  BY <1>1, <1>2, <1>3, <1>4, <1>6 DEF References!Promised!Replace
<1>8. PICK D : D = [E EXCEPT ![old] = NoOrder]
  OBVIOUS
<1>9. Arrived(E, F, naive)
  BY <1>1 DEF NaiveInv
<1>10. PICK k : k = References!NaiveFind(old)
  OBVIOUS
<1>11. naive[k].side = s /\ E[old] \in MapEntries
  BY <1>3, <1>7, <1>9, <1>10, NaiveFinds
<1>12. PICK m : m = References!NaiveCancelled(old, References!NaiveQty(old))
  OBVIOUS
<1>13. Arrived(D, G, m)
  BY <1>3, <1>5, <1>7, <1>8, <1>9, <1>12, NaiveRemoves
<1>14. o \in MapEntries /\ o.side = s /\ o.price = p /\ o.qty = qty
  <2>1. PICK e \in [side : Sides, price : Prices, qty : Nat, owner : Owners] : e = E[old]
    BY <1>11 DEF MapEntries
  <2>2. o = [side |-> e.side, price |-> p, qty |-> qty, owner |-> e.owner]
    BY <1>4, <2>1, Repriced
  <2>3. qty \in Nat
    BY FlatBookAssumption
  <2> QED BY <1>3, <2>1, <2>2, <2>3 DEF MapEntries
<1>15. D[new] = NoOrder
  BY <1>7, <1>8, <1>9 DEF Arrived, Waiting
<1>16. naive' = Append(m, [ref |-> new, side |-> s, price |-> p, qty |-> qty])
  BY <1>10, <1>11, <1>12 DEF AllReplace, References!BothReplace, References!NaiveAdded
<1>17. PICK A, B, t : /\ A = [D EXCEPT ![new] = o]
                      /\ B = [G EXCEPT ![s][p] = Append(G[s][p], new)]
                      /\ t = Append(m, [ref |-> new, side |-> s, price |-> p, qty |-> o.qty])
  OBVIOUS
<1>18. Arrived(A, B, t)
  BY <1>13, <1>14, <1>15, <1>17, ArrivedJoins
<1>19. A = References!RestingEntry' /\ B = References!RestingQueues' /\ t = naive'
  BY <1>7, <1>8, <1>14, <1>16, <1>17
<1> QED BY <1>18, <1>19 DEF NaiveInv

LEMMA WithdrawnAlike ==
  ASSUME Alike, NEW ref
  PROVE  Reference!Withdrawn(ref) = References!Promised!Withdrawn(ref)
<1>1. PICK E, F : E = RestingEntry /\ F = RestingQueues
  OBVIOUS
<1>2. E = References!RestingEntry /\ F = References!RestingQueues
  BY <1>1 DEF Alike
<1>3. PICK G : G = [F EXCEPT ![E[ref].side][E[ref].price] =
                      ClosedUp(F[E[ref].side][E[ref].price],
                               PlaceOf(F[E[ref].side][E[ref].price], ref))]
  OBVIOUS
<1>4. Reference!Withdrawn(ref) = G
  BY <1>1, <1>3, WithdrawnIs
<1>5. References!Promised!Withdrawn(ref) = G
  BY <1>2, <1>3, MapWithdrawnIs
<1> QED BY <1>4, <1>5

\* The flat book and the reference book, shown alike, take the same step.
LEMMA AlikeAdds ==
  ASSUME FlatInv, MapInv, Alike, NEW ref \in Refs, NEW side \in Sides, NEW p \in Prices,
         NEW qty \in Quantities, NEW owner \in Owners, AllAdd(ref, side, p, qty, owner)
  PROVE  Alike'
<1>1. Reference!Add(ref, side, p, qty, owner)
  BY OperationsMap DEF AllAdd
<1>2. References!Promised!Add(ref, side, p, qty, owner)
  BY MapOperations
<1> QED BY <1>1, <1>2 DEF Alike, Reference!Add, References!Promised!Add

LEMMA AlikeReduces ==
  ASSUME FlatInv, MapInv, Alike, NEW ref \in Refs, NEW shares \in Quantities,
         AllCancel(ref, shares)
  PROVE  Alike'
<1>1. Reference!Reduce(ref, shares)
  BY OperationsMap DEF AllCancel
<1>2. References!Promised!Reduce(ref, shares)
  BY MapOperations
<1>3. Reference!Withdrawn(ref) = References!Promised!Withdrawn(ref)
  BY WithdrawnAlike
<1> QED BY <1>1, <1>2, <1>3 DEF Alike, Reference!Reduce, References!Promised!Reduce

LEMMA AlikeRemoves ==
  ASSUME FlatInv, MapInv, Alike, NEW ref \in Refs, AllRemove(ref)
  PROVE  Alike'
<1>1. Reference!Remove(ref)
  BY OperationsMap DEF AllRemove
<1>2. References!Promised!Remove(ref)
  BY MapOperations
<1>3. Reference!Withdrawn(ref) = References!Promised!Withdrawn(ref)
  BY WithdrawnAlike
<1> QED BY <1>1, <1>2, <1>3 DEF Alike, Reference!Remove, References!Promised!Remove

LEMMA AlikeReplaces ==
  ASSUME FlatInv, MapInv, Alike, NEW old \in Refs, NEW new \in Refs, NEW p \in Prices,
         NEW qty \in Quantities, AllReplace(old, new, p, qty)
  PROVE  Alike'
<1>1. Reference!Replace(old, new, p, qty)
  BY OperationsMap DEF AllReplace
<1>2. References!Promised!Replace(old, new, p, qty)
  BY MapOperations
<1>3. PICK G : G = Reference!Withdrawn(old) /\ G = References!Promised!Withdrawn(old)
  BY WithdrawnAlike
<1>4. PICK E : E = RestingEntry /\ E = References!RestingEntry
  BY DEF Alike
<1>5. /\ RestingEntry' = [E EXCEPT ![old] = NoOrder,
                                   ![new] = [E[old] EXCEPT !.price = p, !.qty = qty]]
      /\ RestingQueues' = [G EXCEPT ![E[old].side][p] = Append(@, new)]
  BY <1>1, <1>3, <1>4 DEF Reference!Replace
<1>6. /\ References!RestingEntry' =
            [E EXCEPT ![old] = NoOrder, ![new] = [E[old] EXCEPT !.price = p, !.qty = qty]]
      /\ References!RestingQueues' = [G EXCEPT ![E[old].side][p] = Append(@, new)]
  BY <1>2, <1>3, <1>4 DEF References!Promised!Replace
<1> QED BY <1>5, <1>6 DEF Alike

AllInv == FlatInv /\ MapInv /\ NaiveInv /\ Alike

LEMMA AllStep ==
  ASSUME AllInv, AllNext
  PROVE  AllInv'
<1>1. ASSUME NEW ref \in Refs, NEW side \in Sides, NEW p \in Prices, NEW qty \in Quantities,
             NEW owner \in Owners, AllAdd(ref, side, p, qty, owner)
      PROVE  AllInv'
  <2>1. Next
    BY <1>1 DEF AllAdd, Next
  <2> QED BY <1>1, <2>1, FlatInvKept, MapStep, NaiveAdds, AlikeAdds DEF AllInv
<1>2. ASSUME NEW ref \in Refs, NEW shares \in Quantities, AllCancel(ref, shares)
      PROVE  AllInv'
  <2>1. Next
    BY <1>2 DEF AllCancel, Next
  <2> QED BY <1>2, <2>1, FlatInvKept, MapStep, NaiveReduces, AlikeReduces DEF AllInv
<1>3. ASSUME NEW ref \in Refs, AllRemove(ref) PROVE AllInv'
  <2>1. Next
    BY <1>3 DEF AllRemove, Next
  <2> QED BY <1>3, <2>1, FlatInvKept, MapStep, NaiveErases, AlikeRemoves DEF AllInv
<1>4. ASSUME NEW old \in Refs, NEW new \in Refs, NEW p \in Prices, NEW qty \in Quantities,
             AllReplace(old, new, p, qty)
      PROVE  AllInv'
  <2>1. Next
    BY <1>4 DEF AllReplace, Next
  <2> QED BY <1>4, <2>1, FlatInvKept, MapStep, NaiveReplaces, AlikeReplaces DEF AllInv
<1> QED BY <1>1, <1>2, <1>3, <1>4 DEF AllNext

LEMMA AllStutters ==
  ASSUME AllInv, UNCHANGED allVars
  PROVE  AllInv'
<1>1. UNCHANGED vars /\ book' = book /\ naive' = naive
  BY DEF allVars, vars
<1>2. FlatInv' /\ UNCHANGED Reference!bookVars
  BY <1>1, FlatInvKept, OperationsMap DEF AllInv
<1>3. MapInv' /\ UNCHANGED References!Promised!bookVars
  BY MapStutters DEF AllInv
<1>4. /\ RestingEntry' = RestingEntry /\ RestingQueues' = RestingQueues
      /\ References!RestingEntry' = References!RestingEntry
      /\ References!RestingQueues' = References!RestingQueues
  BY <1>2, <1>3 DEF Reference!bookVars, References!Promised!bookVars
<1> QED BY <1>1, <1>2, <1>3, <1>4 DEF AllInv, NaiveInv, Alike

LEMMA AllInvariant == AllSpec => []AllInv
<1>1. AllInit => AllInv
  BY AllStarts DEF AllInv
<1>2. AllInv /\ [AllNext]_allVars => AllInv'
  BY AllStep, AllStutters
<1> QED BY <1>1, <1>2, PTL DEF AllSpec

------------------------------------------------------------------------------
(* What the flat book keeps is what the reference book keeps. *)

\* The records in use are the orders of the reference book, under other names.
LEMMA RecordsNamed ==
  ASSUME AllInv
  PROVE  /\ \A h \in LiveOrders :
              /\ orders[h].ref \in DOMAIN book.orders
              /\ book.orders[orders[h].ref].side = orders[h].side
              /\ book.orders[orders[h].ref].qty = orders[h].qty
         /\ \A h, i \in LiveOrders : orders[h].ref = orders[i].ref => h = i
         /\ \A r \in DOMAIN book.orders : \E h \in LiveOrders : orders[h].ref = r
         /\ DOMAIN book.orders \in SUBSET Refs
<1>1. TypeOK /\ IndexExact
  BY FlatHandles DEF AllInv, FlatInv, HandlesExact
<1>2. RestingEntry = MapEntryOf(book)
  BY MapShows DEF AllInv, Alike
<1>3. /\ DOMAIN book.orders \in SUBSET Refs
      /\ \A r \in DOMAIN book.orders : book.orders[r] \in MapEntries
  BY DEF AllInv, MapInv, MapSound, MapWhole, MapFields
<1>4. \A h \in LiveOrders : h \in OrderHandles /\ orders[h] \in Orders
  BY <1>1 DEF TypeOK, LiveOrders
<1>5. \A h \in LiveOrders : orders[h].ref \in Refs /\ index[orders[h].ref] = h
  BY <1>1, <1>4 DEF IndexExact, Orders
<1>6. ASSUME NEW h \in LiveOrders
      PROVE  /\ orders[h].ref \in DOMAIN book.orders
             /\ book.orders[orders[h].ref].side = orders[h].side
             /\ book.orders[orders[h].ref].qty = orders[h].qty
  <2>1. PICK r \in Refs : r = orders[h].ref /\ index[r] = h
    BY <1>5
  <2>2. PICK x : x = [side |-> orders[h].side, price |-> orders[h].price, qty |-> orders[h].qty,
                      owner |-> orders[h].owner]
    OBVIOUS
  <2>3. x \in MapEntries /\ x.side = orders[h].side /\ x.qty = orders[h].qty
    BY <1>4, <2>2 DEF Orders, MapEntries
  <2>4. RestingEntry[r] = x
    BY <2>1, <2>2 DEF RestingEntry
  <2>5. MapEntryOf(book)[r] # NoOrder
    BY <1>2, <2>3, <2>4, EntriesAre
  <2>6. r \in DOMAIN book.orders /\ book.orders[r] = x
    BY <1>2, <2>4, <2>5 DEF MapEntryOf
  <2> QED BY <2>1, <2>3, <2>6
<1>7. ASSUME NEW r \in DOMAIN book.orders PROVE \E h \in LiveOrders : orders[h].ref = r
  <2>1. r \in Refs /\ book.orders[r] # NoOrder
    BY <1>3, EntriesAre
  <2>2. RestingEntry[r] # NoOrder
    BY <1>2, <2>1 DEF MapEntryOf
  <2>3. index[r] \in LiveOrders
    BY <2>1, <2>2 DEF RestingEntry
  <2>4. Null \notin LiveOrders
    BY FlatBookAssumption DEF LiveOrders
  <2> QED BY <1>1, <2>1, <2>3, <2>4 DEF IndexExact
<1>8. \A h, i \in LiveOrders : orders[h].ref = orders[i].ref => h = i
  BY <1>5
<1> QED BY <1>3, <1>6, <1>7, <1>8

\* Shares add up alike over records and over the references they hold.
LEMMA SharesNamed ==
  ASSUME AllInv, NEW X \in SUBSET LiveOrders, NEW Y, Y = {orders[h].ref : h \in X}
  PROVE  /\ SumFunctionOnSet(Shares, X) = SumFunctionOnSet(MapHeld(book), Y)
         /\ Cardinality(X) = Cardinality(Y)
<1>1. PICK g : g = [h \in LiveOrders |-> orders[h].ref]
  OBVIOUS
<1>2. IsFiniteSet(X)
  <2>1. X \in SUBSET OrderHandles
    BY DEF LiveOrders
  <2> QED BY <2>1, FlatBookAssumption, FS_Subset
<1>3. Y = {g[h] : h \in X} /\ \A h \in X : g[h] = orders[h].ref
  BY <1>1
<1>4. \A h, i \in X : g[h] = g[i] => h = i
  BY <1>3, RecordsNamed
<1>5. MapHeld(book) \in [Refs -> Nat]
  BY MapHeldType DEF AllInv, MapInv, MapSound, MapWhole
<1>6. \A h \in X : MapHeld(book)[g[h]] \in Int /\ Shares[h] = MapHeld(book)[g[h]]
  <2>1. ASSUME NEW h \in X
        PROVE  MapHeld(book)[g[h]] \in Int /\ Shares[h] = MapHeld(book)[g[h]]
    <3>1. /\ h \in OrderHandles /\ orders[h] # Free /\ g[h] \in Refs
          /\ g[h] \in DOMAIN book.orders /\ book.orders[g[h]].qty = orders[h].qty
      BY <1>3, RecordsNamed DEF LiveOrders
    <3>2. Shares[h] = orders[h].qty
      BY <3>1 DEF Shares
    <3>3. MapHeld(book)[g[h]] = book.orders[g[h]].qty
      BY <3>1 DEF MapHeld
    <3> QED BY <1>5, <3>1, <3>2, <3>3
  <2> QED BY <2>1
<1>7. Cardinality(X) = Cardinality(Y)
  BY <1>2, <1>3, <1>4, SizeRenamed
<1>8. PICK f, s : f = MapHeld(book) /\ s = Shares
  OBVIOUS
<1>9. SumFunctionOnSet(s, X) = SumFunctionOnSet(f, {g[h] : h \in X})
  BY <1>2, <1>4, <1>6, <1>8, SumRenamed
<1> QED BY <1>3, <1>7, <1>8, <1>9

\* The orders of a side.
MapOf(b, side) == {r \in DOMAIN b.orders : b.orders[r].side = side}

\* What the levels of a side add up to is what its orders do.
LEMMA MapSideTotal ==
  ASSUME MapInv, NEW side \in Sides
  PROVE  /\ SumFunctionOnSet(MapQty(book, side), Prices) =
              SumFunctionOnSet(MapHeld(book), MapOf(book, side))
         /\ book.stats.total_qty[side] = SumFunctionOnSet(MapHeld(book), MapOf(book, side))
         /\ IsFiniteSet(MapOf(book, side)) /\ MapOf(book, side) \in SUBSET Refs
<1>1. MapFields(book) /\ MapStatsOK(book) /\ \A p \in Prices : MapQueueOK(book, side, p)
  BY DEF MapInv, MapSound, MapWhole
<1>2. /\ DOMAIN book.orders \in SUBSET Refs /\ IsFiniteSet(DOMAIN book.orders)
      /\ \A r \in DOMAIN book.orders : book.orders[r] \in MapEntries
  BY <1>1 DEF MapFields
<1>3. PICK X : X = MapOf(book, side)
  OBVIOUS
<1>4. X \in SUBSET (DOMAIN book.orders) /\ IsFiniteSet(X) /\ X \in SUBSET Refs
  <2>1. X \in SUBSET (DOMAIN book.orders)
    BY <1>3 DEF MapOf
  <2> QED BY <1>2, <2>1, FS_Subset
<1>5. PICK key : key = [r \in X |-> book.orders[r].price]
  OBVIOUS
<1>6. \A r \in X : key[r] \in Prices
  BY <1>2, <1>4, <1>5 DEF MapEntries
<1>7. PICK f, q : f = MapHeld(book) /\ q = MapQty(book, side)
  OBVIOUS
<1>8. \A r \in X : f[r] \in Int
  <2>1. f \in [Refs -> Nat]
    BY <1>1, <1>7, MapHeldType
  <2> QED BY <1>4, <2>1
<1>9. \A p \in Prices : q[p] = SumFunctionOnSet(f, {r \in X : key[r] = p})
  <2>1. ASSUME NEW p \in Prices
        PROVE  q[p] = SumFunctionOnSet(f, {r \in X : key[r] = p})
    <3>1. {r \in X : key[r] = p} = MapOn(book, side, p)
      BY <1>3, <1>5 DEF MapOn, MapOf
    <3>2. q[p] = SumFunctionOnSet(f, MapOn(book, side, p))
      BY <1>1, <1>7 DEF MapQueueOK
    <3> QED BY <3>1, <3>2
  <2> QED BY <2>1
<1>10. SumFunctionOnSet(q, Prices) = SumFunctionOnSet(f, X)
  <2>1. KeyedSums(q, Prices, f, X, key)
    BY <1>4, <1>6, <1>8, <1>9, FlatBookAssumption DEF KeyedSums
  <2> QED BY <2>1, SumByKey
<1>11. book.stats.total_qty[side] = SumFunctionOnSet(q, Prices)
  BY <1>1, <1>7 DEF MapStatsOK
<1> QED BY <1>3, <1>4, <1>7, <1>10, <1>11

\* A level the flat book stores is the reference book's.
LEMMA LevelsSame ==
  ASSUME AllInv, NEW side \in Sides, NEW p \in Prices, NEW lh, lh = ladders[side][p]
  PROVE  /\ lh # Null <=> p \in DOMAIN book.levels[side]
         /\ lh # Null =>
              [qty |-> levels[lh].total_qty,
               fifo |-> [i \in DOMAIN QueueOf(lh) |-> orders[QueueOf(lh)[i]].ref]] =
                 book.levels[side][p]
<1>1. /\ TypeOK /\ HandlesExact /\ QueueLinks /\ CountsExact
  BY FlatHandles, FlatQueues, FlatCounts DEF AllInv, FlatInv
<1>2. RestingQueues = MapFifoOf(book)
  BY MapShows DEF AllInv, Alike
<1>3. MapFields(book) /\ MapQueueOK(book, side, p)
  BY DEF AllInv, MapInv, MapSound, MapWhole
<1>4. Null \notin LiveLevels
  BY FlatBookAssumption DEF LiveLevels
<1>5. PICK q : q = RestingQueues[side][p]
  OBVIOUS
<1>6. MapFifo(book, side)[p] = q
  BY <1>2, <1>5 DEF MapFifoOf
<1>7. /\ p \in DOMAIN book.levels[side] <=> q # << >>
      /\ Range(q) = MapOn(book, side, p)
      /\ MapQty(book, side)[p] = SumFunctionOnSet(MapHeld(book), MapOn(book, side, p))
  BY <1>3, <1>6 DEF MapQueueOK
<1>8. CASE lh = Null
  <2>1. q = << >>
    BY <1>4, <1>5, <1>8 DEF RestingQueues
  <2> QED BY <1>7, <1>8, <2>1
<1>9. CASE lh # Null
  <2>1. lh \in LiveLevels /\ OrdersOn(lh) # {}
    BY <1>1, <1>9 DEF HandlesExact, LevelsExact
  <2>2. PICK c : c = QueueOf(lh)
    OBVIOUS
  <2>3. q = [i \in DOMAIN c |-> orders[c[i]].ref]
    BY <1>5, <2>1, <2>2 DEF RestingQueues
  <2>4. Range(c) = OrdersOn(lh)
    BY <1>1, <2>1, <2>2 DEF QueueLinks
  <2>5. Range(q) = {orders[h].ref : h \in OrdersOn(lh)}
    BY <2>3, <2>4 DEF Range
  <2>6. q # << >>
    <3>1. DOMAIN c # {}
      BY <2>1, <2>4 DEF Range
    <3>2. DOMAIN q # {} /\ DOMAIN << >> = {}
      BY <2>3, <3>1
    <3> QED BY <3>2
  <2>7. p \in DOMAIN book.levels[side]
    BY <1>7, <2>6
  <2>8. PICK v \in MapLevels : v = book.levels[side][p]
    BY <1>3, <2>7 DEF MapFields
  <2>9. v = [qty |-> v.qty, fifo |-> v.fifo]
    BY DEF MapLevels
  <2>10. v.fifo = q /\ v.qty = MapQty(book, side)[p]
    BY <1>6, <2>7, <2>8 DEF MapFifo, MapQty
  <2>11. levels[lh].total_qty = v.qty
    <3>1. levels[lh].total_qty = SumFunctionOnSet(Shares, OrdersOn(lh))
      BY <1>1, <2>1 DEF CountsExact, LevelTotals
    <3>2. OrdersOn(lh) \in SUBSET LiveOrders
      BY DEF OrdersOn
    <3>3. SumFunctionOnSet(Shares, OrdersOn(lh)) = SumFunctionOnSet(MapHeld(book), Range(q))
      BY <2>5, <3>2, SharesNamed
    <3> QED BY <1>7, <2>10, <3>1, <3>3
  <2> QED BY <1>9, <2>2, <2>3, <2>7, <2>8, <2>9, <2>10, <2>11
<1> QED BY <1>8, <1>9

\* The same prices have a level.
LEMMA StoredSame ==
  ASSUME AllInv, NEW side \in Sides
  PROVE  StoredPrices(Book, side) = DOMAIN book.levels[side]
<1>1. DOMAIN book.levels[side] \in SUBSET Prices
  BY DEF AllInv, MapInv, MapSound, MapWhole, MapFields
<1>2. \A p \in Prices : ladders[side][p] # Null <=> p \in DOMAIN book.levels[side]
  BY LevelsSame
<1>3. StoredPrices(Book, side) = {p \in Prices : ladders[side][p] # Null}
  BY DEF StoredPrices, Book
<1> QED BY <1>1, <1>2, <1>3

\* The counters are the same.
LEMMA StatsSame ==
  ASSUME AllInv
  PROVE  stats = book.stats
<1>1. TypeOK /\ CountsExact
  BY FlatHandles, FlatCounts DEF AllInv, FlatInv
<1>2. MapFields(book) /\ MapStatsOK(book) /\ MapInv
  BY DEF AllInv, MapInv, MapSound, MapWhole
<1>3. stats \in Stats /\ book.stats \in Stats
  BY <1>1, <1>2 DEF TypeOK, MapFields
<1>4. stats.order_count = book.stats.order_count
  <2>1. DOMAIN book.orders = {orders[h].ref : h \in LiveOrders}
    BY RecordsNamed
  <2>2. Cardinality(LiveOrders) = Cardinality(DOMAIN book.orders)
    BY <2>1, SharesNamed
  <2> QED BY <1>1, <1>2, <2>2 DEF CountsExact, StatsExact, MapStatsOK
<1>5. ASSUME NEW side \in Sides
      PROVE  /\ stats.total_qty[side] = book.stats.total_qty[side]
             /\ stats.level_count[side] = book.stats.level_count[side]
  <2>1. PICK X : X = {h \in LiveOrders : orders[h].side = side}
    OBVIOUS
  <2>2. X \in SUBSET LiveOrders
    BY <2>1
  <2>3. MapOf(book, side) = {orders[h].ref : h \in X}
    <3>1. \A h \in X : orders[h].ref \in MapOf(book, side)
      BY <2>1, RecordsNamed DEF MapOf
    <3>2. ASSUME NEW r \in MapOf(book, side) PROVE \E h \in X : orders[h].ref = r
      <4>1. PICK h \in LiveOrders : orders[h].ref = r
        BY RecordsNamed DEF MapOf
      <4>2. orders[h].side = side
        BY <4>1, RecordsNamed DEF MapOf
      <4> QED BY <2>1, <4>1, <4>2
    <3> QED BY <3>1, <3>2
  <2>4. SumFunctionOnSet(Shares, X) = SumFunctionOnSet(MapHeld(book), MapOf(book, side))
    BY <2>2, <2>3, SharesNamed
  <2>5. stats.total_qty[side] = SumFunctionOnSet(Shares, X)
    BY <1>1, <2>1 DEF CountsExact, StatsExact
  <2>6. book.stats.total_qty[side] = SumFunctionOnSet(MapHeld(book), MapOf(book, side))
    BY <1>2, MapSideTotal
  <2>7. StoredPrices(Book, side) = DOMAIN book.levels[side]
    BY StoredSame
  <2>8. stats.level_count[side] = Cardinality(StoredPrices(Book, side))
    BY <1>1 DEF CountsExact, StatsExact
  <2>9. book.stats.level_count[side] = Cardinality(DOMAIN book.levels[side])
    BY <1>2 DEF MapStatsOK
  <2> QED BY <2>4, <2>5, <2>6, <2>7, <2>8, <2>9
<1>6. stats.total_qty = book.stats.total_qty /\ stats.level_count = book.stats.level_count
  BY <1>3, <1>5 DEF Stats
<1> QED BY <1>3, <1>4, <1>6 DEF Stats

\* Every answer of the flat book is the reference book's.
LEMMA BooksSame ==
  ASSUME AllInv, kNoPrice \notin Prices
  PROVE  Same
<1>1. stats = book.stats
  BY StatsSame
<1>2. MapFields(book) /\ BestCached
  BY FlatBest DEF AllInv, FlatInv, MapInv, MapSound, MapWhole
<1>3. ASSUME NEW side \in Sides
      PROVE  Layout(side) = book.levels[side] /\ best[side] = References!best(side)
  <2>1. StoredPrices(Book, side) = DOMAIN book.levels[side]
    BY StoredSame
  <2>2. best[side] = IF DOMAIN book.levels[side] = {} THEN kNoPrice
                     ELSE Inside(side, DOMAIN book.levels[side])
    BY <1>2, <2>1 DEF BestCached
  <2>3. best[side] = References!best(side)
    BY <2>2, SameWalks, SamePlaces DEF References!best, References!empty
  <2>4. PICK v : v = book.levels[side]
    OBVIOUS
  <2>5. \A p \in DOMAIN v :
          [qty |-> levels[ladders[side][p]].total_qty,
           fifo |-> [i \in DOMAIN QueueOf(ladders[side][p]) |->
                       orders[QueueOf(ladders[side][p])[i]].ref]] = v[p]
    BY <1>2, <2>4, LevelsSame DEF MapFields
  <2>6. Layout(side) = [p \in DOMAIN v |-> v[p]]
    BY <2>1, <2>4, <2>5 DEF Layout
  <2>7. v = [p \in DOMAIN v |-> v[p]]
    BY <1>2, <2>4 DEF MapFields, IsMap
  <2> QED BY <2>3, <2>4, <2>6, <2>7
<1> QED BY <1>1, <1>3 DEF Same

------------------------------------------------------------------------------
(* What the naive book computes is what the reference book keeps. *)

\* An order's place in the naive book is its rank.
Ranks(n) == [r \in {n[i].ref : i \in DOMAIN n} |-> CHOOSE i \in DOMAIN n : n[i].ref = r]

LEMMA RanksAre ==
  ASSUME NEW E, NEW n, Recorded(E, n), NEW k \in DOMAIN n
  PROVE  Ranks(n)[n[k].ref] = k /\ k \in Nat
<1>1. \A i, j \in DOMAIN n : n[i].ref = n[j].ref => i = j
  BY DEF Recorded
<1>2. k \in Nat
  <2>1. DOMAIN n = 1 .. Len(n) /\ Len(n) \in Nat
    BY LenProperties DEF Recorded
  <2> QED BY <2>1
<1>3. PICK c : c = CHOOSE i \in DOMAIN n : n[i].ref = n[k].ref
  OBVIOUS
<1>4. c \in DOMAIN n /\ n[c].ref = n[k].ref
  BY <1>3
<1>5. c = k
  BY <1>1, <1>4
<1>6. Ranks(n)[n[k].ref] = c
  BY <1>3 DEF Ranks
<1> QED BY <1>2, <1>5, <1>6

\* Elements listed by rank.
ByRank(g, q) == \A i, j \in DOMAIN q : i < j => g[q[i]] \in Nat /\ g[q[j]] \in Nat /\ g[q[i]] < g[q[j]]

\* Two listings by rank of the same elements are one; by the least place at which
\* they differ.
LEMMA ListedAlike ==
  ASSUME NEW S, NEW a \in Seq(S), NEW b \in Seq(S), NEW g, ByRank(g, a), ByRank(g, b),
         Distinct(a), Distinct(b), Range(a) = Range(b)
  PROVE  a = b
<1>1. /\ Len(a) \in Nat /\ DOMAIN a = 1 .. Len(a)
      /\ Len(b) \in Nat /\ DOMAIN b = 1 .. Len(b)
  BY LenProperties
<1>2. Len(a) = Len(b)
  BY SizeOfQueue
<1>3. SUFFICES ASSUME \E i \in 1 .. Len(a) : a[i] # b[i] PROVE FALSE
  BY <1>1, <1>2, SeqEqual
<1>4. PICK D : D = {i \in 1 .. Len(a) : a[i] # b[i]}
  OBVIOUS
<1>5. D \in SUBSET Nat /\ D # {}
  BY <1>1, <1>3, <1>4
<1>6. PICK m \in D : \A i \in D : m <= i
  BY <1>5, LeastNatural
<1>7. m \in 1 .. Len(a) /\ a[m] # b[m] /\ m \in Nat
  BY <1>1, <1>4, <1>6
<1>8. \A i \in 1 .. Len(a) : i < m => a[i] = b[i]
  <2>1. ASSUME NEW i \in 1 .. Len(a), i < m PROVE a[i] = b[i]
    <3>1. ~ (m <= i)
      BY <1>7, <2>1
    <3> QED BY <1>4, <1>6, <3>1
  <2> QED BY <2>1
<1>9. PICK k \in 1 .. Len(a) : a[k] = b[m]
  BY <1>1, <1>2, <1>7 DEF Range
<1>10. PICK l \in 1 .. Len(a) : b[l] = a[m]
  BY <1>1, <1>2, <1>7 DEF Range
<1>11. m < k
  <2>1. ~ (k < m)
    <3>1. SUFFICES ASSUME k < m PROVE FALSE
      OBVIOUS
    <3>2. b[k] = b[m]
      BY <1>8, <1>9, <3>1
    <3> QED BY <1>1, <1>2, <1>7, <3>1, <3>2 DEF Distinct
  <2> QED BY <1>1, <1>7, <1>9, <2>1
<1>12. m < l
  <2>1. ~ (l < m)
    <3>1. SUFFICES ASSUME l < m PROVE FALSE
      OBVIOUS
    <3>2. a[l] = a[m]
      BY <1>8, <1>10, <3>1
    <3> QED BY <1>1, <1>7, <3>1, <3>2 DEF Distinct
  <2> QED BY <1>1, <1>7, <1>10, <2>1
<1>13. g[a[m]] \in Nat /\ g[a[k]] \in Nat /\ g[a[m]] < g[a[k]]
  BY <1>1, <1>7, <1>11 DEF ByRank
<1>14. g[b[m]] \in Nat /\ g[b[l]] \in Nat /\ g[b[m]] < g[b[l]]
  BY <1>1, <1>2, <1>7, <1>12 DEF ByRank
<1>15. g[a[m]] < g[b[m]] /\ g[b[m]] < g[a[m]]
  BY <1>9, <1>10, <1>13, <1>14
<1> QED BY <1>13, <1>14, <1>15

\* Nobody waits in the empty queue only.
LEMMA RangeEmpty ==
  ASSUME NEW S, NEW q \in Seq(S)
  PROVE  q = << >> <=> Range(q) = {}
<1>1. Len(q) \in Nat /\ DOMAIN q = 1 .. Len(q)
  BY LenProperties
<1>2. q = << >> <=> Len(q) = 0
  BY EmptySeq
<1>3. Len(q) = 0 <=> DOMAIN q = {}
  <2>1. CASE Len(q) = 0
    BY <1>1, <2>1
  <2>2. CASE Len(q) # 0
    <3>1. 1 \in DOMAIN q
      BY <1>1, <2>2
    <3> QED BY <2>2, <3>1
  <2> QED BY <2>1, <2>2
<1>4. DOMAIN q = {} <=> Range(q) = {}
  BY DEF Range
<1> QED BY <1>2, <1>3, <1>4

\* The records of the naive book are the orders of the reference book.
LEMMA NaiveHas ==
  ASSUME AllInv
  PROVE  /\ Recorded(MapEntryOf(book), naive)
         /\ naive \in Seq(NaiveRecs)
         /\ ByArrival(MapFifoOf(book), naive)
         /\ \A i \in DOMAIN naive :
              /\ naive[i].ref \in DOMAIN book.orders
              /\ naive[i].side = book.orders[naive[i].ref].side
              /\ naive[i].price = book.orders[naive[i].ref].price
              /\ naive[i].qty = book.orders[naive[i].ref].qty
         /\ \A i, j \in DOMAIN naive : naive[i].ref = naive[j].ref => i = j
         /\ \A r \in DOMAIN book.orders : \E i \in DOMAIN naive : naive[i].ref = r
<1>1. PICK E, F : E = MapEntryOf(book) /\ F = MapFifoOf(book)
  OBVIOUS
<1>2. Arrived(E, F, naive)
  BY <1>1, MapShows DEF AllInv, NaiveInv
<1>3. Recorded(E, naive) /\ ByArrival(F, naive) /\ naive \in Seq(NaiveRecs)
  BY <1>2 DEF Arrived, Recorded
<1>4. /\ DOMAIN book.orders \in SUBSET Refs
      /\ \A r \in DOMAIN book.orders : book.orders[r] \in MapEntries
  BY DEF AllInv, MapInv, MapSound, MapWhole, MapFields
<1>5. \A r \in Refs : /\ r \in DOMAIN book.orders <=> E[r] # NoOrder
                      /\ r \in DOMAIN book.orders => E[r] = book.orders[r]
  BY <1>1, <1>4, EntriesAre DEF MapEntryOf
<1>6. \A i \in DOMAIN naive : naive[i].ref \in Refs
  <2>1. DOMAIN naive = 1 .. Len(naive)
    BY <1>3, LenProperties
  <2>2. \A i \in DOMAIN naive : naive[i] \in NaiveRecs
    BY <1>3, <2>1, ElementOfSeq
  <2> QED BY <2>2 DEF NaiveRecs
<1>7. ASSUME NEW i \in DOMAIN naive
      PROVE  /\ naive[i].ref \in DOMAIN book.orders
             /\ naive[i].side = book.orders[naive[i].ref].side
             /\ naive[i].price = book.orders[naive[i].ref].price
             /\ naive[i].qty = book.orders[naive[i].ref].qty
  <2>1. PICK r \in Refs : r = naive[i].ref
    BY <1>6
  <2>2. E[r] # NoOrder
    BY <1>3, <2>1 DEF Recorded
  <2>3. r \in DOMAIN book.orders /\ E[r] = book.orders[r]
    BY <1>5, <2>2
  <2>4. naive[i].side = E[r].side /\ naive[i].price = E[r].price /\ naive[i].qty = E[r].qty
    BY <1>3, <2>1 DEF Recorded
  <2> QED BY <2>1, <2>3, <2>4
<1>8. \A i, j \in DOMAIN naive : naive[i].ref = naive[j].ref => i = j
  BY <1>3 DEF Recorded
<1>9. ASSUME NEW r \in DOMAIN book.orders PROVE \E i \in DOMAIN naive : naive[i].ref = r
  <2>1. r \in Refs /\ E[r] # NoOrder
    BY <1>4, <1>5
  <2> QED BY <1>3, <2>1 DEF Recorded
<1> QED BY <1>1, <1>3, <1>7, <1>8, <1>9

\* Shares add up alike over records of the naive book and over the references.
LEMMA NaiveAddsUp ==
  ASSUME AllInv, NEW X, NEW D \in SUBSET (DOMAIN naive), X = {naive[i] : i \in D},
         NEW Y, Y = {naive[i].ref : i \in D}
  PROVE  /\ References!QtyOf(X) = SumFunctionOnSet(MapHeld(book), Y)
         /\ Cardinality(D) = Cardinality(Y)
<1>1. PICK g, h : g = [x \in X |-> x.ref] /\ h = [x \in X |-> x.qty]
  OBVIOUS
<1>2. IsFiniteSet(D) /\ IsFiniteSet(X)
  <2>1. Len(naive) \in Nat /\ DOMAIN naive = 1 .. Len(naive)
    BY NaiveHas, LenProperties
  <2>2. IsFiniteSet(DOMAIN naive)
    BY <2>1, FS_Interval
  <2>3. IsFiniteSet(D)
    BY <2>2, FS_Subset
  <2>4. PICK k : k = [i \in D |-> naive[i]]
    OBVIOUS
  <2>5. X = {k[i] : i \in D} /\ \A i, j \in D : k[i] = k[j] => i = j
    BY <2>4, NaiveHas
  <2> QED BY <2>3, <2>5, SizeRenamed
<1>3. \A x, y \in X : g[x] = g[y] => x = y
  BY <1>1, NaiveHas
<1>4. Y = {g[x] : x \in X}
  <2>1. \A i \in D : naive[i] \in X /\ g[naive[i]] = naive[i].ref
    BY <1>1
  <2>2. \A x \in X : \E i \in D : g[x] = naive[i].ref
    BY <1>1
  <2> QED BY <2>1, <2>2
<1>5. PICK f \in [Refs -> Nat] : f = MapHeld(book)
  BY MapHeldType DEF AllInv, MapInv, MapSound, MapWhole
<1>6. \A x \in X : f[g[x]] \in Int /\ h[x] = f[g[x]]
  <2>1. ASSUME NEW i \in D PROVE f[g[naive[i]]] \in Int /\ h[naive[i]] = f[g[naive[i]]]
    <3>1. PICK r : r = naive[i].ref
      OBVIOUS
    <3>2. r \in DOMAIN book.orders /\ naive[i].qty = book.orders[r].qty
      BY <3>1, NaiveHas
    <3>3. r \in Refs
      BY <3>2, RecordsNamed
    <3>4. f[r] = naive[i].qty
      BY <1>5, <3>2, <3>3 DEF MapHeld
    <3>5. naive[i] \in X
      OBVIOUS
    <3>6. g[naive[i]] = r /\ h[naive[i]] = naive[i].qty
      BY <1>1, <3>1, <3>5
    <3> QED BY <1>5, <3>3, <3>4, <3>6
  <2> QED BY <2>1
<1>7. SumFunctionOnSet(h, X) = SumFunctionOnSet(f, Y)
  <2>1. SumFunctionOnSet(h, X) = SumFunctionOnSet(f, {g[x] : x \in X})
    BY <1>2, <1>3, <1>6, SumRenamed
  <2> QED BY <1>4, <2>1
<1>8. References!QtyOf(X) = SumFunctionOnSet(h, X)
  BY <1>1, SameSum DEF References!QtyOf
<1>9. Cardinality(D) = Cardinality(Y)
  <2>1. PICK k : k = [i \in D |-> naive[i].ref]
    OBVIOUS
  <2>2. Y = {k[i] : i \in D} /\ \A i, j \in D : k[i] = k[j] => i = j
    BY <2>1, NaiveHas
  <2> QED BY <1>2, <2>2, SizeRenamed
<1> QED BY <1>5, <1>7, <1>8, <1>9

\* The orders and the totals.
LEMMA NaiveCounts ==
  ASSUME AllInv
  PROVE  /\ {r.ref : r \in References!Orders} = DOMAIN book.orders
         /\ book.stats.order_count = Len(naive)
         /\ \A r \in References!Orders : book.orders[r.ref].qty = r.qty
         /\ \A side \in Sides :
               /\ book.stats.total_qty[side] = References!QtyOf(References!OfSide(side))
               /\ DOMAIN book.levels[side] = References!NaivePrices(side)
<1>1. References!Orders = {naive[i] : i \in DOMAIN naive}
  BY SameRange DEF References!Orders, Range
<1>2. {r.ref : r \in References!Orders} = {naive[i].ref : i \in DOMAIN naive}
  BY <1>1
<1>3. {naive[i].ref : i \in DOMAIN naive} = DOMAIN book.orders
  BY NaiveHas
<1>4. MapFields(book) /\ MapStatsOK(book) /\ MapInv
  BY DEF AllInv, MapInv, MapSound, MapWhole
<1>5. book.stats.order_count = Len(naive)
  <2>1. Len(naive) \in Nat /\ DOMAIN naive = 1 .. Len(naive)
    BY NaiveHas, LenProperties
  <2>2. Cardinality(DOMAIN naive) = Len(naive)
    <3>1. PICK n \in Nat : n = Len(naive)
      BY <2>1
    <3>2. Cardinality(1 .. n) = n
      BY FS_Interval
    <3> QED BY <2>1, <3>1, <3>2
  <2>3. Cardinality(DOMAIN naive) = Cardinality(DOMAIN book.orders)
    BY <1>1, <1>3, NaiveAddsUp
  <2> QED BY <1>4, <2>1, <2>2, <2>3 DEF MapStatsOK
<1>6. \A r \in References!Orders : book.orders[r.ref].qty = r.qty
  BY <1>1, NaiveHas
<1>7. ASSUME NEW side \in Sides
      PROVE  book.stats.total_qty[side] = References!QtyOf(References!OfSide(side))
  <2>1. PICK D \in SUBSET (DOMAIN naive) : D = {i \in DOMAIN naive : naive[i].side = side}
    OBVIOUS
  <2>2. References!OfSide(side) = {naive[i] : i \in D}
    BY <1>1, <2>1 DEF References!OfSide
  <2>3. MapOf(book, side) = {naive[i].ref : i \in D}
    <3>1. \A i \in D : naive[i].ref \in MapOf(book, side)
      BY <2>1, NaiveHas DEF MapOf
    <3>2. \A r \in MapOf(book, side) : \E i \in D : naive[i].ref = r
      BY <2>1, NaiveHas DEF MapOf
    <3> QED BY <3>1, <3>2
  <2>4. References!QtyOf(References!OfSide(side)) =
           SumFunctionOnSet(MapHeld(book), MapOf(book, side))
    BY <2>2, <2>3, NaiveAddsUp
  <2>5. book.stats.total_qty[side] = SumFunctionOnSet(MapHeld(book), MapOf(book, side))
    BY <1>4, MapSideTotal
  <2> QED BY <2>4, <2>5
<1>8. ASSUME NEW side \in Sides
      PROVE  DOMAIN book.levels[side] = References!NaivePrices(side)
  <2>1. DOMAIN book.levels[side] \in SUBSET Prices
    BY <1>4 DEF MapFields
  <2>2. \A p \in Prices : p \in DOMAIN book.levels[side] <=> MapOn(book, side, p) # {}
    <3>1. ASSUME NEW p \in Prices
          PROVE  p \in DOMAIN book.levels[side] <=> MapOn(book, side, p) # {}
      <4>1. PICK q : q = MapFifo(book, side)[p]
        OBVIOUS
      <4>2. /\ Range(q) = MapOn(book, side, p)
            /\ p \in DOMAIN book.levels[side] <=> q # << >>
        BY <4>1 DEF AllInv, MapInv, MapSound, MapWhole, MapQueueOK
      <4>3. q \in Seq(Refs)
        BY <1>4, <4>1, MapAtPrice
      <4>4. q = << >> <=> Range(q) = {}
        BY <4>3, RangeEmpty
      <4> QED BY <4>2, <4>4
    <3> QED BY <3>1
  <2>3. \A r \in DOMAIN book.orders : book.orders[r].price \in Prices
    BY <1>4 DEF MapFields, MapEntries
  <2>4. References!NaivePrices(side) =
           {naive[i].price : i \in {k \in DOMAIN naive : naive[k].side = side}}
    BY <1>1 DEF References!NaivePrices, References!OfSide
  <2>5. \A p : p \in References!NaivePrices(side) <=> p \in Prices /\ MapOn(book, side, p) # {}
    <3>1. \A i \in DOMAIN naive : naive[i].side = side =>
            naive[i].price \in Prices /\ naive[i].ref \in MapOn(book, side, naive[i].price)
      BY <2>3, NaiveHas DEF MapOn
    <3>2. \A p : \A r \in MapOn(book, side, p) :
            \E i \in DOMAIN naive : naive[i].side = side /\ naive[i].price = p
      BY NaiveHas DEF MapOn
    <3> QED BY <2>4, <3>1, <3>2
  <2> QED BY <2>1, <2>2, <2>5
<1> QED BY <1>2, <1>3, <1>5, <1>6, <1>7, <1>8

\* A queue of the reference book is the naive book's.
LEMMA NaiveQueues ==
  ASSUME AllInv, NEW side \in Sides, NEW p \in Prices,
         NEW t, t = References!NaiveLevel(side, p)
  PROVE  /\ References!qty_at(side, p) = References!QtyOf(References!Range(t))
         /\ References!orders_at(side, p) = Len(t)
         /\ \A i \in DOMAIN t : book.levels[side][p].fifo[i] = t[i].ref
<1>1. PICK D \in SUBSET (DOMAIN naive) :
         D = {i \in DOMAIN naive : naive[i].side = side /\ naive[i].price = p}
  OBVIOUS
<1>2. t \in Seq(NaiveRecs) /\ StandsAt(t, naive, D)
  <2>1. t = References!Standing(naive, D)
    BY <1>1 DEF References!NaiveLevel
  <2> QED BY <2>1, NaiveHas, StandingFacts
<1>3. Len(t) \in Nat /\ DOMAIN t = 1 .. Len(t) /\ \A i \in DOMAIN t : t[i].ref \in Refs
  <2>1. Len(t) \in Nat /\ DOMAIN t = 1 .. Len(t)
    BY <1>2, LenProperties
  <2>2. \A i \in DOMAIN t : t[i] \in NaiveRecs
    BY <1>2, <2>1, ElementOfSeq
  <2> QED BY <2>1, <2>2 DEF NaiveRecs
<1>4. PICK b : b = [i \in 1 .. Len(t) |-> t[i].ref]
  OBVIOUS
<1>5. b \in Seq(Refs) /\ DOMAIN b = DOMAIN t /\ Len(b) = Len(t)
  <2>1. b \in [1 .. Len(t) -> Refs]
    BY <1>3, <1>4
  <2>2. b \in Seq(Refs)
    BY <1>3, <2>1, IsSequence
  <2> QED BY <1>3, <1>4, <2>2, LenProperties
<1>6. \A i \in DOMAIN b : b[i] = t[i].ref
  BY <1>3, <1>4
<1>7. PICK g : g = Ranks(naive)
  OBVIOUS
<1>8. \A k \in DOMAIN naive : g[naive[k].ref] = k /\ k \in Nat
  BY <1>7, NaiveHas, RanksAre
<1>9. ByRank(g, b)
  <2>1. ASSUME NEW i \in DOMAIN b, NEW j \in DOMAIN b, i < j
        PROVE  g[b[i]] \in Nat /\ g[b[j]] \in Nat /\ g[b[i]] < g[b[j]]
    <3>1. PICK k \in D, l \in D : k < l /\ t[i] = naive[k] /\ t[j] = naive[l]
      BY <1>2, <1>5, <2>1 DEF StandsAt
    <3>2. g[b[i]] = k /\ g[b[j]] = l /\ k \in Nat /\ l \in Nat
      BY <1>6, <1>8, <3>1
    <3> QED BY <3>1, <3>2
  <2> QED BY <2>1 DEF ByRank
<1>10. MapFields(book) /\ MapQueueOK(book, side, p)
  BY DEF AllInv, MapInv, MapSound, MapWhole
<1>11. PICK a \in Seq(Refs) : a = MapFifo(book, side)[p]
  BY <1>10, MapAtPrice
<1>12. Distinct(a) /\ Range(a) = MapOn(book, side, p)
  BY <1>10, <1>11 DEF MapQueueOK
<1>13. ByRank(g, a)
  <2>1. a = MapFifoOf(book)[side][p]
    BY <1>11 DEF MapFifoOf
  <2>2. ASSUME NEW i \in DOMAIN a, NEW j \in DOMAIN a, i < j
        PROVE  g[a[i]] \in Nat /\ g[a[j]] \in Nat /\ g[a[i]] < g[a[j]]
    <3>1. Ahead(naive, a[i], a[j])
      BY <2>1, <2>2, NaiveHas DEF ByArrival
    <3>2. PICK k \in DOMAIN naive, l \in DOMAIN naive :
             k < l /\ naive[k].ref = a[i] /\ naive[l].ref = a[j]
      BY <3>1 DEF Ahead
    <3>3. g[a[i]] = k /\ g[a[j]] = l /\ k \in Nat /\ l \in Nat
      BY <1>8, <3>2
    <3> QED BY <3>2, <3>3
  <2> QED BY <2>2 DEF ByRank
<1>14. Distinct(b)
  <2>1. ASSUME NEW i \in DOMAIN b, NEW j \in DOMAIN b, b[i] = b[j], i # j PROVE FALSE
    <3>1. i \in Nat /\ j \in Nat
      BY <1>3, <1>5
    <3>2. i < j \/ j < i
      BY <2>1, <3>1
    <3>3. g[b[i]] \in Nat /\ (g[b[i]] < g[b[j]] \/ g[b[j]] < g[b[i]])
      BY <1>9, <3>2 DEF ByRank
    <3> QED BY <2>1, <3>3
  <2> QED BY <2>1 DEF Distinct
<1>15. {naive[k].ref : k \in D} = MapOn(book, side, p)
  <2>1. \A k \in D : naive[k].ref \in MapOn(book, side, p)
    BY <1>1, NaiveHas DEF MapOn
  <2>2. \A r \in MapOn(book, side, p) : \E k \in D : naive[k].ref = r
    BY <1>1, NaiveHas DEF MapOn
  <2> QED BY <2>1, <2>2
<1>16. Range(t) = {naive[k] : k \in D} /\ Range(b) = {naive[k].ref : k \in D}
  <2>1. \A i \in DOMAIN t : \E k \in D : t[i] = naive[k]
    BY <1>2 DEF StandsAt
  <2>2. \A k \in D : \E i \in DOMAIN t : t[i] = naive[k]
    BY <1>2 DEF StandsAt
  <2> QED BY <1>5, <1>6, <2>1, <2>2 DEF Range
<1>17. a = b
  BY <1>5, <1>9, <1>12, <1>13, <1>14, <1>11, <1>15, <1>16, ListedAlike
<1>18. References!qty_at(side, p) = References!QtyOf(References!Range(t))
  <2>1. References!qty_at(side, p) = MapQty(book, side)[p]
    BY DEF References!qty_at, MapQty
  <2>2. MapQty(book, side)[p] = SumFunctionOnSet(MapHeld(book), MapOn(book, side, p))
    BY <1>10 DEF MapQueueOK
  <2>3. References!QtyOf(Range(t)) = SumFunctionOnSet(MapHeld(book), MapOn(book, side, p))
    BY <1>15, <1>16, NaiveAddsUp
  <2> QED BY <2>1, <2>2, <2>3, SameRange
<1>19. References!orders_at(side, p) = Len(t)
  <2>1. References!orders_at(side, p) = Len(a)
    BY <1>11, EmptySeq DEF References!orders_at, MapFifo
  <2> QED BY <1>5, <1>17, <2>1
<1>20. ASSUME NEW i \in DOMAIN t PROVE book.levels[side][p].fifo[i] = t[i].ref
  <2>1. a # << >>
    <3>1. Range(a) # {}
      BY <1>5, <1>17 DEF Range
    <3> QED BY <1>11, <3>1, RangeEmpty
  <2>2. p \in DOMAIN book.levels[side]
    BY <1>10, <1>11, <2>1 DEF MapQueueOK
  <2>3. a = book.levels[side][p].fifo
    BY <1>11, <2>2 DEF MapFifo
  <2> QED BY <1>5, <1>6, <1>17, <2>3
<1> QED BY <1>18, <1>19, <1>20

\* Every answer of the naive book is the reference book's.
LEMMA NaiveAgrees ==
  ASSUME AllInv
  PROVE  References!AnswersAgree
<1>1. MapStatsOK(book)
  BY DEF AllInv, MapInv, MapSound, MapWhole
<1>2. ASSUME NEW side \in Sides
      PROVE  /\ References!best(side) = References!NaiveBest(side)
             /\ book.stats.level_count[side] = References!Cardinality(References!NaivePrices(side))
  <2>1. PICK D : D = DOMAIN book.levels[side]
    OBVIOUS
  <2>2. D = References!NaivePrices(side)
    BY <2>1, NaiveCounts
  <2>3. References!OfSide(side) = {} <=> D = {}
    BY <2>2 DEF References!NaivePrices
  <2>4. References!best(side) = References!NaiveBest(side)
    BY <2>1, <2>2, <2>3, SamePlaces DEF References!best, References!empty, References!NaiveBest
  <2>5. book.stats.level_count[side] = References!Cardinality(References!NaivePrices(side))
    BY <1>1, <2>1, <2>2, SameSizes DEF MapStatsOK
  <2> QED BY <2>4, <2>5
<1> QED BY <1>2, NaiveCounts, NaiveQueues, SamePlaces DEF References!AnswersAgree

\* The three books, given the same calls, give the same answers after every one, as
\* the differential tests compare them: the counters, the best prices and every level
\* with its queue that the two books keep along are what the naive book computes from
\* scratch.  The flat book's cached best marks an empty side with kNoPrice, so no order
\* may have that price.
THEOREM BooksAgree ==
  ASSUME kNoPrice \notin Prices
  PROVE  AllSpec => []AnswersAgree
<1>1. AllInv => AnswersAgree
  BY BooksSame, NaiveAgrees DEF AnswersAgree
<1> QED BY <1>1, AllInvariant, PTL
==============================================================================
