------------------------------ MODULE BookTypes ------------------------------
(***************************************************************************)
(* itch/book/book_types.hpp: the two sides of a book, the price that marks *)
(* an empty side, and the inside of a side; and the queue of the orders at *)
(* one price, as every implementation of the book keeps it.                *)
(***************************************************************************)
EXTENDS Integers, Sequences, FiniteSets

Sides == {"Buy", "Sell"}

Opposite(side) == IF side = "Buy" THEN "Sell" ELSE "Buy"

kNoPrice == 0

Highest(S) == CHOOSE x \in S : \A y \in S : y <= x
Lowest(S)  == CHOOSE x \in S : \A y \in S : x <= y

\* The element of S nearest the other side of the book: the highest bid, the
\* lowest ask.
Inside(side, S) == IF side = "Buy" THEN Highest(S) ELSE Lowest(S)

\* The order in which a side is walked from the inside outwards.
Before(side, a, b) == IF side = "Buy" THEN a > b ELSE a < b

\* A set of slots or prices from the inside outwards: the place of each is how
\* many come before it.
Outwards(side, S) ==
    [i \in 1 .. Cardinality(S) |->
        CHOOSE p \in S : Cardinality({q \in S : Before(side, q, p)}) = i - 1]

------------------------------------------------------------------------------
(* A queue of orders. *)

PlaceOf(queue, ref) == CHOOSE i \in DOMAIN queue : queue[i] = ref

\* A queue once the order at a place has left it; those behind it move up.
ClosedUp(queue, place) ==
    [i \in 1 .. Len(queue) - 1 |-> queue[IF i < place THEN i ELSE i + 1]]
==============================================================================
