----------------------------- MODULE PriceLadder -----------------------------
(***************************************************************************)
(* itch::book::PriceLadder as a data structure: the ladder of one side of  *)
(* a book is a record, and every member function is an operator over it.   *)
(* Penny-aligned prices within WindowTicks ticks of the base live in an    *)
(* array of slots with a bitmap of the occupied ones; every other price    *)
(* lives in an ordered overflow map.  When the inside drifts to an edge    *)
(* the window is rebased around it.                                        *)
(*                                                                         *)
(* A ladder is a record with the fields                                    *)
(*   side      which side of the book it holds                             *)
(*   base      base_: first tick of the window, possibly negative          *)
(*   slots     slots_: the handle at each window slot                      *)
(*   words     words_: the set of slots whose bit is set                   *)
(*   overflow  overflow_: the handle at each price of the map, NoLevel     *)
(*             where the map has no entry                                  *)
(*   levels    levels_                                                     *)
(* The diagnostic counters (hits, rebases, displaced) are left out.        *)
(***************************************************************************)
EXTENDS BookTypes, FiniteSets

CONSTANTS
    WindowTicks,    \* kWindowTicks
    RebaseMargin,   \* kRebaseMargin
    TickUnits,      \* kTickUnits, raw price units in a tick
    PriceMod,       \* 2^width of Price
    Prices,         \* the prices levels may rest at
    Handles,        \* level handles
    NoLevel         \* the null handle

ASSUME LadderAssumption ==
    /\ WindowTicks \in Nat \ {0}
    /\ WindowTicks % 2 = 0
    /\ RebaseMargin \in Nat
    /\ TickUnits \in Nat \ {0}
    /\ PriceMod \in Nat \ {0}
    /\ Prices \subseteq 0 .. PriceMod - 1
    /\ NoLevel \notin Handles

Slots == 0 .. WindowTicks - 1

MaybeLevel == Handles \cup {NoLevel}

Ladders ==
    [side : Sides, base : Int, slots : [Slots -> MaybeLevel],
     words : SUBSET Slots, overflow : [Prices -> MaybeLevel], levels : Int]

NewLadder(side) ==
    [side |-> side, base |-> 0, slots |-> [s \in Slots |-> NoLevel],
     words |-> {}, overflow |-> [p \in Prices |-> NoLevel], levels |-> 0]

------------------------------------------------------------------------------
(* Geometry of the window. *)

Aligned(p) == p % TickUnits = 0

TickOf(p) == p \div TickUnits

InWindow(base, p) ==
    /\ Aligned(p)
    /\ TickOf(p) >= base
    /\ TickOf(p) < base + WindowTicks

SlotOf(base, p) == TickOf(p) - base

\* static_cast<Price>: a 32-bit unsigned price, so reduced modulo PriceMod.
PriceOfTick(t) == (t * TickUnits) % PriceMod

PriceOfSlot(base, s) == PriceOfTick(base + s)

------------------------------------------------------------------------------
(* Lookup and the inside of the side. *)

Find(L, p) ==
    IF InWindow(L.base, p)
    THEN IF SlotOf(L.base, p) \in L.words THEN L.slots[SlotOf(L.base, p)] ELSE NoLevel
    ELSE L.overflow[p]

OverflowPrices(L) == {p \in Prices : L.overflow[p] # NoLevel}

BestInWindow(L) ==
    IF L.words = {} THEN kNoPrice ELSE PriceOfSlot(L.base, Inside(L.side, L.words))

Best(L) ==
    LET fromWindow   == BestInWindow(L)
        fromOverflow == Inside(L.side, OverflowPrices(L))
    IN  IF OverflowPrices(L) = {} THEN fromWindow
        ELSE IF fromWindow = kNoPrice THEN fromOverflow
        ELSE Inside(L.side, {fromWindow, fromOverflow})

\* The assertions of best(): the side is not empty, and a side with nothing
\* in overflow has something in the window.
BestHolds(L) ==
    /\ L.levels # 0
    /\ OverflowPrices(L) = {} => BestInWindow(L) # kNoPrice

------------------------------------------------------------------------------
(* Recentring. *)

\* The window lifted out as a map from price to handle (the scratch vector).
Lifted(L) ==
    [p \in Prices |->
        IF \E s \in L.words : PriceOfSlot(L.base, s) = p
        THEN L.slots[CHOOSE s \in L.words : PriceOfSlot(L.base, s) = p]
        ELSE NoLevel]

\* The lifted prices that still belong in a window starting at base.
Kept(L, base) == {p \in Prices : Lifted(L)[p] # NoLevel /\ InWindow(base, p)}

\* A mutant: levels that leave the window are dropped.
SpilledNowhere(L, base) == L.overflow

\* The overflow map once the rest has been sent to it: emplace does not
\* overwrite an entry already there.
Spilled(L, base) ==
    [p \in Prices |->
        IF L.overflow[p] = NoLevel /\ p \notin Kept(L, base)
        THEN Lifted(L)[p] ELSE L.overflow[p]]

\* A mutant: a rebase does not look at the overflow map.
NothingPulled(L, base) == {}

\* What the scan of the map pulls in: lower_bound of the window's first price,
\* up to one past its last, both computed as 32-bit prices.
Pulled(L, base) ==
    {p \in Prices :
        /\ Spilled(L, base)[p] # NoLevel
        /\ PriceOfTick(base) <= p
        /\ p < PriceOfTick(base + WindowTicks)
        /\ InWindow(base, p)}

\* rebase() once the base is known to move; a pulled level overwrites the slot.
Recentred(L, base) ==
    LET kept   == Kept(L, base)
        pulled == Pulled(L, base)
    IN  [L EXCEPT !.base = base,
                  !.words = {SlotOf(base, p) : p \in kept \cup pulled},
                  !.slots = [s \in Slots |->
                      IF \E p \in pulled : SlotOf(base, p) = s
                      THEN Spilled(L, base)[CHOOSE p \in pulled : SlotOf(base, p) = s]
                      ELSE IF \E p \in kept : SlotOf(base, p) = s
                      THEN Lifted(L)[CHOOSE p \in kept : SlotOf(base, p) = s]
                      ELSE NoLevel],
                  !.overflow = [p \in Prices |->
                      IF p \in pulled THEN NoLevel ELSE Spilled(L, base)[p]]]

Rebased(L, anchor) ==
    LET base == anchor - (WindowTicks \div 2)
    IN  IF base = L.base THEN L ELSE Recentred(L, base)

Centred(L, t) ==
    /\ t >= L.base + RebaseMargin
    /\ t < L.base + WindowTicks - RebaseMargin

MaybeRebased(L) ==
    LET t == TickOf(Best(L)) IN IF Centred(L, t) THEN L ELSE Rebased(L, t)

------------------------------------------------------------------------------
(* Mutation. *)

\* insert() up to maybe_rebase().  The map's emplace keeps an existing entry.
Placed(L, p, h) ==
    IF InWindow(L.base, p)
    THEN [L EXCEPT !.slots[SlotOf(L.base, p)] = h,
                   !.words = @ \cup {SlotOf(L.base, p)},
                   !.levels = @ + 1]
    ELSE [L EXCEPT !.overflow[p] = IF @ = NoLevel THEN h ELSE @,
                   !.levels = @ + 1]

\* insert() leaves the ladder unchanged further when best() fails its assertion.
Inserted(L, p, h) ==
    LET M == Placed(L, p, h) IN IF BestHolds(M) THEN MaybeRebased(M) ELSE M

InsertHolds(L, p, h) == BestHolds(Placed(L, p, h))

\* The assertions of erase(): the level is there.
EraseHolds(L, p) ==
    /\ IF InWindow(L.base, p)
       THEN SlotOf(L.base, p) \in L.words
       ELSE L.overflow[p] # NoLevel
    /\ L.levels > 0

Erased(L, p) ==
    IF InWindow(L.base, p)
    THEN [L EXCEPT !.slots[SlotOf(L.base, p)] = NoLevel,
                   !.words = @ \ {SlotOf(L.base, p)},
                   !.levels = @ - 1]
    ELSE [L EXCEPT !.overflow[p] = NoLevel, !.levels = @ - 1]

------------------------------------------------------------------------------
(* What a ladder must satisfy. *)

\* validate(), but for the count of levels: an occupied slot holds the handle
\* of a price that belongs there, and nothing in overflow belongs in the window.
WellFormed(L) ==
    /\ \A s \in L.words :
          /\ L.slots[s] # NoLevel
          /\ \E p \in Prices : InWindow(L.base, p) /\ SlotOf(L.base, p) = s
    /\ \A p \in OverflowPrices(L) : ~InWindow(L.base, p)

\* A window centred on any of the prices starts at a tick that is not negative
\* and ends at a price that Price can hold, so neither bound rebase() casts
\* back to Price wraps around.
PricesFit ==
    \A p \in Prices :
        /\ TickOf(p) >= WindowTicks \div 2
        /\ (TickOf(p) + WindowTicks \div 2) * TickUnits < PriceMod
==============================================================================
