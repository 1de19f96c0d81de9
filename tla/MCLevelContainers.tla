------------------------- MODULE MCLevelContainers -------------------------
(***************************************************************************)
(* The two level containers a side of a BookT may be built on, one run of  *)
(* which uses one of them: the template parameter is `container'.          *)
(*                                                                         *)
(* A ladder with a window of 8 ticks of 2 raw units.  8, 12 and 14 share   *)
(* a window with most inside positions; 9 and 23 are sub-penny; 22, 40 and *)
(* 50 force the window to move; every tick is at least half a window, so   *)
(* no rebase takes the base below zero.  A tree of five prices, enough for *)
(* both double rotations, on insert and on erase, and for an erase with    *)
(* two children whose successor has a child or lies deep on the right;     *)
(* each price is offered one handle, its own.                              *)
(***************************************************************************)
EXTENDS LadderWalk, TLC

CONSTANT TreePrices

VARIABLES
    container,                  \* BookT's template parameter
    nodes, root, free, size     \* the tree, an AvlLevelMap

MCPrices == {8, 9, 12, 14, 22, 23, 40, 50}

Avl == INSTANCE AvlLevelMap WITH
    Prices <- TreePrices, Handles <- TreePrices, Null <- 0,
    Offered <- [p \in TreePrices |-> {p}]

ASSUME PricesFit

ASSUME Avl!AvlAssumption

Symmetry == Permutations(Handles)

MCInit ==
    /\ Init
    /\ Avl!Init
    /\ container \in {"PriceLadder", "AvlLevelMap"}
    /\ container = "AvlLevelMap" => ladder.side = "Buy"

LadderStep ==
    /\ container = "PriceLadder"
    /\ Next
    /\ UNCHANGED <<container, nodes, root, free, size>>

TreeStep ==
    /\ container = "AvlLevelMap"
    /\ Avl!Next
    /\ UNCHANGED <<container, ladder, price, aborted>>

MCNext == LadderStep \/ TreeStep

MCSpec == MCInit /\ [][MCNext]_<<ladder, price, aborted, container, nodes, root, free, size>>

------------------------------------------------------------------------------

\* The tree keeps every node it ever made once, stays ordered, balanced and
\* counted as validate() has it, and is walked inside out from either side.
TreeSound == Avl!TreeSound

\* The tree is the map from price to level that BookT asks of its container,
\* the one the ladder is shown to be.
TreeImplementsHandleMap == Avl!ImplementsHandleMap
==============================================================================
