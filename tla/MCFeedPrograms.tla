---------------------------- MODULE MCFeedPrograms ----------------------------
(***************************************************************************)
(* Two stocks, AAA and BBB.  The builder is asked for one of them, for one *)
(* that is not listed, or for whichever is announced first; the workload   *)
(* is AAA's, replayed twice; the session names two prices.  The histogram  *)
(* has a penny of two units, a table of four pennies and four prices: half *)
(* a penny, a penny and a half, and more than the table apart.             *)
(***************************************************************************)
EXTENDS FeedPrograms, TLC

Listed == (1 :> "AAA") @@ (2 :> "BBB")

Symmetry == Permutations(Refs)
==============================================================================
