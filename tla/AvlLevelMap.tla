----------------------------- MODULE AvlLevelMap -----------------------------
(***************************************************************************)
(* itch::book::AvlLevelMap: the price levels of one side in a hand-written *)
(* AVL tree.  Nodes live in a vector that only grows, and a node that is   *)
(* given back waits on a free list chained through its left link.  The     *)
(* tree is seen by its client as a map from price to level.                *)
(***************************************************************************)
EXTENDS BookTypes, Sequences, Functions

CONSTANTS
    Prices,     \* the prices levels are created at
    Handles,    \* the handles of level records
    Null,       \* the null handle
    Offered     \* Offered[p]: the handles the pool may issue for a level at p

\* What is assumed of the constants, where the module is instantiated.
AvlAssumption ==
    /\ Prices \subseteq Nat
    /\ Null \notin Handles
    /\ Offered \in [Prices -> SUBSET Handles]

VARIABLES
    nodes,      \* nodes_: the vector of nodes, numbered from 1
    root,       \* root_
    free,       \* free_: the head of the free list
    size        \* size_: the number of levels

vars == <<nodes, root, free, size>>

kNull == 0

\* A node: its payload, its children by direction, and the height it stores.
Node(p, h) == [price |-> p, level |-> h, left |-> kNull, right |-> kNull, height |-> 1]

Init ==
    /\ nodes = <<>>
    /\ root = kNull
    /\ free = kNull
    /\ size = 0

\* The tree as a value, for insert_at() and erase_at() thread it through their
\* recursion; a call returns the tree and the top of the subtree it worked on.
Tree == [nodes |-> nodes, free |-> free, size |-> size]

Result(T, n) == [tree |-> T, top |-> n]

Becomes(r) ==
    /\ nodes' = r.tree.nodes
    /\ free' = r.tree.free
    /\ size' = r.tree.size
    /\ root' = r.top

------------------------------------------------------------------------------
(* Balance.  Left and right are treated alike, in a direction d. *)

Other(d) == IF d = "left" THEN "right" ELSE "left"

HeightOf(T, n) == IF n = kNull THEN 0 ELSE T.nodes[n].height

\* How much higher n is on side d; balance_of() for d = "left".
Lean(T, n, d) ==
    IF n = kNull THEN 0
    ELSE HeightOf(T, T.nodes[n][d]) - HeightOf(T, T.nodes[n][Other(d)])

Retuned(T, n) ==
    LET l == HeightOf(T, T.nodes[n].left)
        r == HeightOf(T, T.nodes[n].right)
    IN  [T EXCEPT !.nodes[n].height = 1 + (IF l > r THEN l ELSE r)]

\* A mutant: the node that comes up keeps the height it had.
RotatedStale(T, n, d) ==
    LET up == T.nodes[n][d]
    IN  Result(Retuned([T EXCEPT !.nodes[n][d] = T.nodes[up][Other(d)],
                                 !.nodes[up][Other(d)] = n], n), up)

\* rotate_right() for d = "left", rotate_left() for d = "right": the child on
\* side d comes up.
Rotated(T, n, d) ==
    LET up == T.nodes[n][d]
    IN  Result(Retuned(Retuned([T EXCEPT !.nodes[n][d] = T.nodes[up][Other(d)],
                                         !.nodes[up][Other(d)] = n], n), up), up)

\* rebalance(): one rotation, or two when the heavy child leans the other way.
Rebalanced(T, n) ==
    LET tuned == Retuned(T, n)
        heavy == {d \in {"left", "right"} : Lean(tuned, n, d) > 1}
        d     == CHOOSE d \in heavy : TRUE
        child == tuned.nodes[n][d]
        inner == Rotated(tuned, child, Other(d))
    IN  IF heavy = {} THEN Result(tuned, n)
        ELSE IF Lean(tuned, child, d) < 0
        THEN Rotated([inner.tree EXCEPT !.nodes[n][d] = inner.top], n, d)
        ELSE Rotated(tuned, n, d)

------------------------------------------------------------------------------
(* insert() and erase(). *)

\* new_node(): from the free list, or a new element of the vector.
NewNode(T, p, h) ==
    IF T.free = kNull
    THEN Result([T EXCEPT !.nodes = Append(@, Node(p, h))], Len(T.nodes) + 1)
    ELSE Result([T EXCEPT !.nodes[T.free] = Node(p, h),
                          !.free = T.nodes[T.free].left], T.free)

\* release(): only the link of a node given back is looked at again.
Released(T, n) == [T EXCEPT !.nodes[n] = [Node(0, Null) EXCEPT !.left = T.free], !.free = n]

\* Which way p lies from node n.
Toward(T, n, p) == IF p < T.nodes[n].price THEN "left" ELSE "right"

RECURSIVE InsertAt(_, _, _, _)
InsertAt(T, n, p, h) ==
    IF n = kNull THEN NewNode(T, p, h)
    ELSE LET d     == Toward(T, n, p)
             below == InsertAt(T, T.nodes[n][d], p, h)
         IN  Rebalanced([below.tree EXCEPT !.nodes[n][d] = below.top], n)

\* The end of the subtree at n in direction d.
RECURSIVE EndOf(_, _, _)
EndOf(T, n, d) == IF T.nodes[n][d] = kNull THEN n ELSE EndOf(T, T.nodes[n][d], d)

\* A mutant: the successor's price moves up without its level.
PriceMoved(T, n, s) == [T EXCEPT !.nodes[n].price = s.price]

\* The payload of the in-order successor replaces that of the node erased.
Moved(T, n, s) == [T EXCEPT !.nodes[n].price = s.price, !.nodes[n].level = s.level]

\* ++size_ ahead of the recursive call, which takes it off for the successor.
CountedBack(T) == [T EXCEPT !.size = @ + 1]

RECURSIVE EraseAt(_, _, _)
EraseAt(T, n, p) ==
    IF n = kNull THEN Result(T, kNull)
    ELSE LET node  == T.nodes[n]
             d     == Toward(T, n, p)
             below == EraseAt(T, node[d], p)
             less  == [T EXCEPT !.size = @ - 1]
             s     == T.nodes[EndOf(T, node.right, "left")]
             moved == EraseAt(CountedBack(less), node.right, s.price)
         IN  IF p # node.price
             THEN Rebalanced([below.tree EXCEPT !.nodes[n][d] = below.top], n)
             ELSE IF node.left = kNull THEN Result(Released(less, n), node.right)
             ELSE IF node.right = kNull THEN Result(Released(less, n), node.left)
             ELSE Rebalanced(Moved([moved.tree EXCEPT !.nodes[n].right = moved.top], n, s), n)

\* find(): the level at a price.
RECURSIVE FindFrom(_, _, _)
FindFrom(T, n, p) ==
    IF n = kNull THEN Null
    ELSE IF p = T.nodes[n].price THEN T.nodes[n].level
    ELSE FindFrom(T, T.nodes[n][Toward(T, n, p)], p)

Find(p) == FindFrom(Tree, root, p)

\* insert(): a level that is not there, under a handle that is in use nowhere
\* else, as level_for() allocates it.
Insert(p, h) ==
    /\ Find(p) = Null
    /\ \A q \in Prices : Find(q) # h
    /\ LET r == InsertAt(Tree, root, p, h)
       IN  Becomes(Result([r.tree EXCEPT !.size = @ + 1], r.top))

\* erase(): of an absent level the count does not change, and the assertion on
\* it ends the process.
Erase(p) ==
    /\ size > 0
    /\ Becomes(EraseAt(Tree, root, p))
    /\ size' = size - 1

Next ==
    \/ \E p \in Prices : \E h \in Offered[p] : Insert(p, h)
    \/ \E p \in Prices : Erase(p)

Spec == Init /\ [][Next]_vars

------------------------------------------------------------------------------
(* Queries, for a tree that holds the bids or the asks. *)

\* Where the inside of a side is: the highest bid, the lowest ask.
Inner(side) == IF side = "Buy" THEN "right" ELSE "left"

Best(side) == nodes[EndOf(Tree, root, Inner(side))].price

\* The loop of for_each_level(): down towards the inside, stacking what is
\* passed, then the node on top of the stack and its other side.
RECURSIVE WalkFrom(_, _, _)
WalkFrom(side, n, stack) ==
    IF n # kNull THEN WalkFrom(side, nodes[n][Inner(side)], <<n>> \o stack)
    ELSE IF stack = <<>> THEN <<>>
    ELSE <<nodes[Head(stack)].price>> \o
            WalkFrom(side, nodes[Head(stack)][Other(Inner(side))], Tail(stack))

ForEachLevel(side) == WalkFrom(side, root, <<>>)

------------------------------------------------------------------------------
(* Properties. *)

\* check() and walk_ascending(): the nodes of the subtree at n in order.
RECURSIVE Ascending(_)
Ascending(n) ==
    IF n = kNull THEN <<>>
    ELSE Ascending(nodes[n].left) \o <<n>> \o Ascending(nodes[n].right)

\* The free list from node n on, cut off after as many nodes as there are.
FreeFrom ==
    LET walk[k \in 0 .. Len(nodes), n \in 0 .. Len(nodes)] ==
            IF k = 0 \/ n = kNull THEN <<>> ELSE <<n>> \o walk[k - 1, nodes[n].left]
    IN  walk[Len(nodes), free]

Levels == {p \in Prices : Find(p) # Null}

\* What check() asserts of a node: the stored height right, and no child more
\* than one higher than the other.
NodeSound(n) ==
    /\ nodes[n].height = Retuned(Tree, n).nodes[n].height
    /\ Lean(Tree, n, "left") \in -1 .. 1
    /\ nodes[n].level # Null

\* What validate() asserts: prices in order and the count exact, besides.
Validates ==
    LET inorder == Ascending(root)
    IN  /\ \A i \in 2 .. Len(inorder) : nodes[inorder[i - 1]].price < nodes[inorder[i]].price
        /\ size = Len(inorder)
        /\ \A n \in Range(inorder) : NodeSound(n)

\* best() and the walk of for_each_level(), whose stack replaces recursion, go
\* from the inside outwards over every level once, for either side.
WalksInsideOut ==
    \A side \in Sides :
        LET walk == ForEachLevel(side)
        IN  /\ Range(walk) = Levels
            /\ \A i \in 2 .. Len(walk) : Before(side, walk[i - 1], walk[i])
            /\ Levels # {} => Best(side) = walk[1]

\* After any inserts and erases, whatever rotations they caused, the tree is
\* what validate() says, and each node ever made is in the tree or on the free
\* list and on neither twice: none is lost and none can be issued while in use.
\* Every walk of it, from either side, starts at the best price and misses none.
TreeSound ==
    /\ Validates
    /\ IsInjective(Ascending(root) \o FreeFrom)
    /\ Range(Ascending(root) \o FreeFrom) = DOMAIN nodes
    /\ WalksInsideOut

\* Read through find(), the tree is a map from price to level: no rotation and
\* no payload moved by an erase shows in it.
LevelMap == INSTANCE HandleMap WITH
    Keys <- Prices, at <- [p \in Prices |-> Find(p)]

ImplementsHandleMap == LevelMap!Spec
==============================================================================
