----------------------------- MODULE Differential -----------------------------
(***************************************************************************)
(* The differential tests of the book: a FlatBook, a MapBook and the naive *)
(* book are given the same calls and compared after each, every level and  *)
(* queue of them and not only what each says of itself.                    *)
(***************************************************************************)
EXTENDS FlatBook

VARIABLES
    book,   \* the MapBook
    naive   \* the naive book

References == INSTANCE NaiveBook

allVars == <<orders, levels, index, ladders, stats, best, book, naive>>

AllInit == Init /\ References!BothInit

AllAdd(ref, side, p, qty, owner) ==
    /\ Add(ref, side, p, qty, owner)
    /\ References!BothAdd(ref, [side |-> side, price |-> p, qty |-> qty, owner |-> owner])

AllCancel(ref, shares) == Cancel(ref, shares) /\ References!BothReduce(ref, shares)

AllRemove(ref) == Remove(ref) /\ References!BothRemove(ref)

AllReplace(old, new, p, qty) ==
    /\ Replace(old, new, p, qty)
    /\ References!BothReplace(old, new, p, qty)

AllNext ==
    \/ \E ref \in Refs, side \in Sides, p \in Prices, qty \in Quantities, owner \in Owners :
          AllAdd(ref, side, p, qty, owner)
    \/ \E ref \in Refs, shares \in Quantities : AllCancel(ref, shares)
    \/ \E ref \in Refs : AllRemove(ref)
    \/ \E old, new \in Refs, p \in Prices, qty \in Quantities : AllReplace(old, new, p, qty)

AllSpec == AllInit /\ [][AllNext]_allVars

\* layout(): the levels of a side of the flat book, each with its queue.
Layout(side) ==
    [p \in StoredPrices(Book, side) |->
        LET lh == ladders[side][p]
        IN  [qty |-> levels[lh].total_qty,
             fifo |-> [i \in DOMAIN QueueOf(lh) |-> orders[QueueOf(lh)[i]].ref]]]

\* same(): every answer of the flat book is the map book's.
Same ==
    /\ stats = book.stats
    /\ \A side \in Sides :
          /\ Layout(side) = book.levels[side]
          /\ best[side] = References!best(side)

------------------------------------------------------------------------------
(* Properties. *)

\* The three books, given the same calls, give the same answers after every
\* one: totals, best prices, and each level with its queue; and what the first
\* two keep along is what the naive book computes from scratch.
AnswersAgree == Same /\ References!AnswersAgree

\* The reference book passes its own validate() after every operation.
Validates == References!Validates

\* The reference book is a price-time priority book, the same one as the flat
\* book is shown to be.
MapImplementsLimitOrderBook == References!ImplementsLimitOrderBook

\* What book_digest() feeds determines every queue of the book it is taken of.
DigestDeterminesQueues == References!DigestDeterminesQueues
==============================================================================
