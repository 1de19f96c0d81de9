------------------------------ MODULE MCTwoBooks ------------------------------
(***************************************************************************)
(* Two books driven independently, as two runs or two implementations may  *)
(* be, and compared by their digests.                                      *)
(***************************************************************************)
EXTENDS BookDigest

VARIABLE other  \* the second book

Other == INSTANCE MapBook WITH book <- other

TwoInit == Init /\ Other!Init

TwoNext ==
    \/ Next /\ UNCHANGED other
    \/ Other!Next /\ UNCHANGED book

TwoSpec == TwoInit /\ [][TwoNext]_<<book, other>>

\* The comment on book_digest(): it feeds a book's full state, so that two
\* implementations that agree on the digest agree on the book.
DigestDeterminesBook == Digest(book) = Digest(other) => book = other
==============================================================================
