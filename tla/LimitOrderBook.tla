---------------------------- MODULE LimitOrderBook ----------------------------
(***************************************************************************)
(* What every implementation of the book promises: a price-time priority   *)
(* book holding, for each side and price, the queue of the orders resting  *)
(* there.  It has no incremental state of its own, in the way of the       *)
(* NaiveBook the differential tests compare against; best prices, level    *)
(* quantities and counts are computed from the queues.  A call that breaks *)
(* a precondition ends the process, so it has no step.                     *)
(***************************************************************************)
EXTENDS BookTypes, Sequences, FiniteSetsExt, Functions

CONSTANTS
    Refs,       \* order reference numbers
    Prices,     \* prices an order may name
    Quantities, \* quantities an order may name
    Owners,     \* owners, for self-trade prevention
    NoOrder     \* the absence of an order

ASSUME LimitOrderBookAssumption ==
    /\ Quantities \subseteq Nat
    /\ Prices \subseteq Nat
    /\ IsFiniteSet(Prices)
    /\ NoOrder \notin [side : Sides, price : Prices, qty : Nat, owner : Owners]

VARIABLES
    entry,  \* entry[ref]: the resting order, or NoOrder
    fifo    \* fifo[side][price]: the references resting there, first in first out

bookVars == <<entry, fifo>>

Entries == [side : Sides, price : Prices, qty : Nat, owner : Owners]

Resting == {ref \in Refs : entry[ref] # NoOrder}

BookTypeOK ==
    /\ entry \in [Refs -> Entries \cup {NoOrder}]
    /\ fifo \in [Sides -> [Prices -> Seq(Refs)]]

BookInit ==
    /\ entry = [ref \in Refs |-> NoOrder]
    /\ fifo = [side \in Sides |-> [p \in Prices |-> <<>>]]

------------------------------------------------------------------------------
(* Queries. *)

LevelPrices(side) == {p \in Prices : fifo[side][p] # <<>>}

EmptySide(side) == LevelPrices(side) = {}

BestPrice(side) ==
    IF EmptySide(side) THEN kNoPrice ELSE Inside(side, LevelPrices(side))

\* A mutant: the order at the back.
BackAt(side, p) == fifo[side][p][Len(fifo[side][p])]

\* front_at(): the order with time priority at a price.
FrontAt(side, p) == Head(fifo[side][p])

Crossed ==
    /\ ~EmptySide("Buy")
    /\ ~EmptySide("Sell")
    /\ BestPrice("Buy") >= BestPrice("Sell")

------------------------------------------------------------------------------
(* Mutations. *)

\* A mutant: whoever leaves, the order at the front is taken out.
FrontWithdrawn(ref) ==
    [fifo EXCEPT ![entry[ref].side][entry[ref].price] = Tail(@)]

\* The queues once ref has left its own.
Withdrawn(ref) ==
    [fifo EXCEPT ![entry[ref].side][entry[ref].price] = ClosedUp(@, PlaceOf(@, ref))]

\* A mutant: new orders join at the front.
AddInFront(ref, side, p, qty, owner) ==
    /\ qty > 0
    /\ entry[ref] = NoOrder
    /\ entry' = [entry EXCEPT
                    ![ref] = [side |-> side, price |-> p, qty |-> qty, owner |-> owner]]
    /\ fifo' = [fifo EXCEPT ![side][p] = <<ref>> \o @]

Add(ref, side, p, qty, owner) ==
    /\ qty > 0
    /\ entry[ref] = NoOrder
    /\ entry' = [entry EXCEPT
                    ![ref] = [side |-> side, price |-> p, qty |-> qty, owner |-> owner]]
    /\ fifo' = [fifo EXCEPT ![side][p] = Append(@, ref)]

\* cancel() and execute(): take shares off a resting order, which leaves its
\* queue when none are left and keeps its place otherwise.
Reduce(ref, shares) ==
    /\ entry[ref] # NoOrder
    /\ shares <= entry[ref].qty
    /\ IF shares < entry[ref].qty
       THEN /\ entry' = [entry EXCEPT ![ref].qty = @ - shares]
            /\ UNCHANGED fifo
       ELSE /\ entry' = [entry EXCEPT ![ref] = NoOrder]
            /\ fifo' = Withdrawn(ref)

Remove(ref) ==
    /\ entry[ref] # NoOrder
    /\ entry' = [entry EXCEPT ![ref] = NoOrder]
    /\ fifo' = Withdrawn(ref)

\* Delete then add: the replacement joins the back of its queue.
Replace(old, new, p, qty) ==
    /\ entry[old] # NoOrder
    /\ qty > 0
    /\ new = old \/ entry[new] = NoOrder
    /\ entry' = [entry EXCEPT
                    ![old] = NoOrder,
                    ![new] = [entry[old] EXCEPT !.price = p, !.qty = qty]]
    /\ fifo' = [Withdrawn(old) EXCEPT ![entry[old].side][p] = Append(@, new)]

BookNext ==
    \/ \E ref \in Refs, side \in Sides, p \in Prices, qty \in Quantities, owner \in Owners :
          Add(ref, side, p, qty, owner)
    \/ \E ref \in Refs, shares \in Quantities : Reduce(ref, shares)
    \/ \E ref \in Refs : Remove(ref)
    \/ \E old, new \in Refs, p \in Prices, qty \in Quantities : Replace(old, new, p, qty)

BookSpec == BookInit /\ [][BookNext]_bookVars

------------------------------------------------------------------------------
(* Properties. *)

\* A resting order is queued once, at its own side and price, and nothing else
\* is queued anywhere: no order is lost, orphaned or reachable twice.
QueuedExactlyOnce ==
    \A side \in Sides, p \in Prices :
        /\ \A i, j \in DOMAIN fifo[side][p] :
              fifo[side][p][i] = fifo[side][p][j] => i = j
        /\ Range(fifo[side][p]) =
              {ref \in Resting : entry[ref].side = side /\ entry[ref].price = p}

\* In a step a queue loses orders and gains at most one at its back; no order
\* passes another, also when it is partly executed or replaced at its own price.
KeepsQueues ==
    \A side \in Sides, p \in Prices :
        LET old == fifo[side][p]
            new == fifo'[side][p]
        IN  \A i, j \in DOMAIN new : i < j =>
                \E k \in DOMAIN old :
                    /\ old[k] = new[i]
                    /\ \/ j = Len(new)
                       \/ \E l \in DOMAIN old : k < l /\ old[l] = new[j]

\* Time priority, in every step.
NoQueueJumping == [][KeepsQueues]_bookVars
==============================================================================
