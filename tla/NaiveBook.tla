------------------------------ MODULE NaiveBook ------------------------------
(***************************************************************************)
(* itch::test::NaiveBook, the reference of the differential tests: every   *)
(* resting order in one sequence, in order of arrival, and every answer    *)
(* computed from scratch.  As in the tests it is driven with the calls a   *)
(* MapBook takes, whose preconditions it does not check itself.            *)
(***************************************************************************)
EXTENDS BookDigest

VARIABLE naive  \* orders_

Orders == Range(naive)

\* The elements of a sequence that stand at some places, lowest place first.
Standing(q, places) ==
    [i \in 1 .. Cardinality(places) |-> q[Outwards("Sell", places)[i]]]

NaiveFind(ref) == CHOOSE i \in DOMAIN naive : naive[i].ref = ref

NaiveAdded(orders, ref, side, p, qty) ==
    Append(orders, [ref |-> ref, side |-> side, price |-> p, qty |-> qty])

\* cancel(): an order with nothing left is erased.
NaiveCancelled(ref, shares) ==
    LET lessened == [naive EXCEPT ![NaiveFind(ref)].qty = @ - shares]
    IN  IF lessened[NaiveFind(ref)].qty = 0
        THEN Standing(naive, {i \in DOMAIN naive : naive[i].ref # ref})
        ELSE lessened

NaiveQty(ref) == naive[NaiveFind(ref)].qty

BothAdd(ref, e) ==
    /\ Add(ref, e)
    /\ naive' = NaiveAdded(naive, ref, e.side, e.price, e.qty)

BothReduce(ref, shares) ==
    /\ Reduce(ref, shares)
    /\ naive' = NaiveCancelled(ref, shares)

BothRemove(ref) ==
    /\ Remove(ref)
    /\ naive' = NaiveCancelled(ref, NaiveQty(ref))

\* The side is read before the old order is erased.
BothReplace(old, new, p, qty) ==
    /\ Replace(old, new, p, qty)
    /\ naive' = NaiveAdded(NaiveCancelled(old, NaiveQty(old)), new,
                           naive[NaiveFind(old)].side, p, qty)

BothInit == Init /\ naive = << >>

------------------------------------------------------------------------------
(* The naive answers. *)

OfSide(side) == {r \in Orders : r.side = side}

NaivePrices(side) == {r.price : r \in OfSide(side)}

NaiveBest(side) ==
    IF OfSide(side) = {} THEN kNoPrice ELSE Inside(side, NaivePrices(side))

NaiveLevel(side, p) ==
    Standing(naive, {i \in DOMAIN naive : naive[i].side = side /\ naive[i].price = p})

QtyOf(records) == SumFunctionOnSet([r \in records |-> r.qty], records)

------------------------------------------------------------------------------
(* Properties. *)

\* After every call the counters and queues that are kept along give the answers
\* computed from scratch: each order's quantity and place in its queue, each
\* level, the best prices and the totals.  Arrival order is time priority.
AnswersAgree ==
    /\ {r.ref : r \in Orders} = DOMAIN book.orders
    /\ book.stats.order_count = Len(naive)
    /\ \A r \in Orders : book.orders[r.ref].qty = r.qty
    /\ \A side \in Sides :
          /\ best(side) = NaiveBest(side)
          /\ book.stats.total_qty[side] = QtyOf(OfSide(side))
          /\ book.stats.level_count[side] = Cardinality(NaivePrices(side))
          /\ DOMAIN book.levels[side] = NaivePrices(side)
          /\ \A p \in Prices :
                LET queue == NaiveLevel(side, p)
                IN  /\ qty_at(side, p) = QtyOf(Range(queue))
                    /\ orders_at(side, p) = Len(queue)
                    /\ \A i \in DOMAIN queue : book.levels[side][p].fifo[i] = queue[i].ref
==============================================================================
