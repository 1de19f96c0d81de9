------------------------------ MODULE BookDigest ------------------------------
(***************************************************************************)
(* itch::book::book_digest() and what a digest says of the book it was     *)
(* taken of.  The hash chain is taken to tell any two streams of fed       *)
(* numbers apart, so that a digest is the sequence it was fed.             *)
(***************************************************************************)
EXTENDS MapBook, TLC

Seqs == INSTANCE SequencesExt

side_index(side) == IF side = "Buy" THEN 0 ELSE 1

\* The number fed after the levels of a side, which no other number equals.
Terminator == -1

\* A mutant: the depth is fed and not the queue.
LevelFedWithoutQueue(b, side, p) ==
    <<p, b.levels[side][p].qty, Len(b.levels[side][p].fifo)>>

\* What one level feeds: price, quantity, number of orders, and its queue.
LevelFed(b, side, p) ==
    <<p, b.levels[side][p].qty, Len(b.levels[side][p].fifo)>> \o b.levels[side][p].fifo

SideFed(b, side) ==
    <<side_index(side)>> \o
    Seqs!FlattenSeq([i \in DOMAIN Walk(b, side) |-> LevelFed(b, side, Walk(b, side)[i])]) \o
    <<Terminator>>

Digest(b) == SideFed(b, "Buy") \o SideFed(b, "Sell")

------------------------------------------------------------------------------
(* Properties. *)

\* The levels of the side whose index stands at place i of a digest, read back.
ReadBack(digest, i) ==
    LET At(j) == IF j \in DOMAIN digest THEN digest[j] ELSE Terminator
        Queue(j) == [k \in 1 .. At(j + 2) |-> At(j + 2 + k)]
        levels[j \in Nat] ==
            IF At(j) = Terminator THEN << >>
            ELSE (At(j) :> [qty |-> At(j + 1), fifo |-> Queue(j)])
                    @@ levels[j + 3 + Len(Queue(j))]
    IN  levels[i + 1]

\* A digest says what is on every level of either side and in which order the
\* orders wait there: two books with one digest have the same depth and the
\* same queues, time priority included, as the comment on book_digest() says.
DigestDeterminesQueues ==
    /\ book.levels["Buy"] = ReadBack(Digest(book), 1)
    /\ book.levels["Sell"] = ReadBack(Digest(book), Len(SideFed(book, "Buy")) + 1)
==============================================================================
