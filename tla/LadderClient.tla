---------------------------- MODULE LadderClient ----------------------------
(***************************************************************************)
(* One side of a BookT driving its PriceLadder: a level is created and     *)
(* inserted only when find() reports none at the price (level_for), and    *)
(* erased by the price recorded in the level (reduce).  `price' stands for *)
(* the live level records, so what the ladder answers can be compared with *)
(* what was stored in it.                                                  *)
(***************************************************************************)
EXTENDS PriceLadder

CONSTANT NoPrice    \* the price of a level record that is not live

ASSUME NoPriceAssumption == NoPrice \notin Prices

VARIABLES
    ladder,     \* the ladder of the side
    price,      \* price[h]: Level.price of a live level, NoPrice otherwise
    aborted     \* an ITCH_ASSERT failed and the process ended

vars == <<ladder, price, aborted>>

Live == {h \in Handles : price[h] # NoPrice}

LivePrices == {price[h] : h \in Live}

TypeOK ==
    /\ ladder \in Ladders
    /\ price \in [Handles -> Prices \cup {NoPrice}]
    /\ aborted \in BOOLEAN

Init ==
    /\ \E side \in Sides : ladder = NewLadder(side)
    /\ price = [h \in Handles |-> NoPrice]
    /\ aborted = FALSE

\* level_for() on a price with no level: allocate a record and insert it.
Insert(p, h) ==
    /\ ~aborted
    /\ price[h] = NoPrice
    /\ Find(ladder, p) = NoLevel
    /\ price' = [price EXCEPT ![h] = p]
    /\ ladder' = Inserted(ladder, p, h)
    /\ aborted' = ~InsertHolds(ladder, p, h)

\* reduce() or remove() emptying level h: erase its price, free the record.
Erase(h) ==
    /\ ~aborted
    /\ price[h] # NoPrice
    /\ IF EraseHolds(ladder, price[h])
       THEN /\ ladder' = Erased(ladder, price[h])
            /\ price' = [price EXCEPT ![h] = NoPrice]
            /\ aborted' = FALSE
       ELSE /\ aborted' = TRUE
            /\ UNCHANGED <<ladder, price>>

Next ==
    \/ \E p \in Prices, h \in Handles : Insert(p, h)
    \/ \E h \in Handles : Erase(h)

Spec == Init /\ [][Next]_vars

------------------------------------------------------------------------------
(* Properties. *)

\* No assertion of insert(), erase() or best() can fail: BookT never erases a
\* level the ladder cannot see, and a rebase never empties the side.
NeverAborts == ~aborted

\* Every live level is found at its price by the single probe of find(),
\* wherever earlier rebases have moved it.
LookupFindsLevel == \A h \in Live : Find(ladder, price[h]) = h

\* The file's invariant, asserted by validate(): a level is in the window if
\* and only if its price is penny aligned and within the window's ticks.
WindowIffInRange == WellFormed(ladder)

\* best() is the highest live bid or the lowest live ask, whether it is in the
\* window, in overflow or sub-penny.
BestIsInside ==
    Live # {} => Best(ladder) = Inside(ladder.side, LivePrices)

\* Together: wherever rebases have moved the window, the ladder stays whole, is
\* searched by one probe and ends at the inside, and none of its assertions fails.
LadderSound ==
    /\ TypeOK
    /\ NeverAborts
    /\ LookupFindsLevel
    /\ WindowIffInRange
    /\ BestIsInside

\* The ladder, seen only through find(), is an exact map from price to level.
Map == INSTANCE HandleMap WITH
    Keys <- Prices, Null <- NoLevel, at <- [p \in Prices |-> Find(ladder, p)]

ImplementsHandleMap == Map!Spec
==============================================================================
