-------------------------- MODULE LadderClientProof --------------------------
(***************************************************************************)
(* The ladder as BookT drives it: for every window, every set of prices    *)
(* that fits it and every number of levels, no assertion fails, every live *)
(* level is found, nothing that belongs in the window is left in overflow, *)
(* best() is the inside, for_each_level() walks from there outwards, and   *)
(* the ladder implements the map of HandleMap. What an insertion, an       *)
(* erasure and a rebase do to the map from price to level that find()      *)
(* shows comes first, then the steps of the client, then the walk.         *)
(***************************************************************************)
EXTENDS LadderWalk, BookTypesProof, FiniteSetTheorems, TLAPS

\* The map from price to level that find() shows.
FindMap(L) == [p \in Prices |-> Find(L, p)]

Stored(L) == {p \in Prices : Find(L, p) # NoLevel}

------------------------------------------------------------------------------
(* Arithmetic of the window. *)

\* A price's tick is a natural, and an aligned price is recovered from it.
LEMMA TickFacts ==
  ASSUME NEW p \in Prices
  PROVE  /\ p \in Nat
         /\ p < PriceMod
         /\ TickOf(p) \in Nat
         /\ Aligned(p) => p = TickOf(p) * TickUnits /\ PriceOfTick(TickOf(p)) = p
<1>1. p \in Nat /\ p < PriceMod
  BY LadderAssumption
<1>2. TickOf(p) \in Nat
  BY <1>1, LadderAssumption DEF TickOf
<1>3. Aligned(p) => p = TickOf(p) * TickUnits
  BY <1>1, LadderAssumption DEF TickOf, Aligned
<1>4. p % PriceMod = p
  BY <1>1, LadderAssumption
<1> QED BY <1>1, <1>2, <1>3, <1>4 DEF PriceOfTick

\* A price in the window has a slot, its slot gives the price back, and no two
\* prices of the window share one.
LEMMA SlotFacts ==
  ASSUME NEW base \in Int, NEW p \in Prices, InWindow(base, p)
  PROVE  /\ SlotOf(base, p) \in Slots
         /\ PriceOfSlot(base, SlotOf(base, p)) = p
         /\ \A q \in Prices :
               InWindow(base, q) /\ SlotOf(base, q) = SlotOf(base, p) => q = p
<1>1. TickOf(p) \in Nat /\ PriceOfTick(TickOf(p)) = p
  BY TickFacts DEF InWindow
<1>2. SlotOf(base, p) \in Slots
  BY <1>1, LadderAssumption DEF SlotOf, Slots, InWindow
<1>3. base + SlotOf(base, p) = TickOf(p)
  BY <1>1 DEF SlotOf
<1>4. PriceOfSlot(base, SlotOf(base, p)) = p
  BY <1>1, <1>3 DEF PriceOfSlot
<1>5. ASSUME NEW q \in Prices, InWindow(base, q), SlotOf(base, q) = SlotOf(base, p)
      PROVE  q = p
  <2>1. TickOf(q) \in Nat /\ PriceOfTick(TickOf(q)) = q
    BY <1>5, TickFacts DEF InWindow
  <2>2. TickOf(q) = TickOf(p)
    BY <1>1, <1>5, <2>1 DEF SlotOf
  <2> QED BY <1>1, <2>1, <2>2
<1> QED BY <1>2, <1>4, <1>5

\* Around the tick of a price neither bound of the pull wraps, so the pull's
\* range test holds of every price in the window.
LEMMA WindowRange ==
  ASSUME PricesFit, NEW q \in Prices, NEW base \in Int,
         base = TickOf(q) - (WindowTicks \div 2),
         NEW p \in Prices, InWindow(base, p)
  PROVE  PriceOfTick(base) <= p /\ p < PriceOfTick(base + WindowTicks)
<1> DEFINE half == WindowTicks \div 2
<1>1. half \in Nat /\ WindowTicks = half + half
  BY LadderAssumption
<1>2. TickOf(q) \in Nat /\ TickOf(p) \in Nat /\ p = TickOf(p) * TickUnits
  BY TickFacts DEF InWindow
<1>3. TickOf(q) >= half /\ (TickOf(q) + half) * TickUnits < PriceMod
  BY DEF PricesFit
<1> HIDE DEF half
<1>4. base \in Nat /\ base + WindowTicks = TickOf(q) + half
  BY <1>1, <1>2, <1>3 DEF half
<1>5. base <= TickOf(p) /\ TickOf(p) < TickOf(q) + half
  BY <1>4 DEF InWindow
<1> DEFINE lo == base * TickUnits
           hi == (TickOf(q) + half) * TickUnits
<1>6. lo \in Nat /\ hi \in Nat /\ lo <= p /\ p < hi
  BY <1>1, <1>2, <1>4, <1>5, LadderAssumption
<1>7. PriceOfTick(base + WindowTicks) = hi % PriceMod /\ PriceOfTick(base) = lo % PriceMod
  BY <1>4 DEF PriceOfTick
<1>8. hi < PriceMod
  BY <1>3
<1> HIDE DEF lo, hi
<1>9. lo % PriceMod = lo /\ hi % PriceMod = hi
  <2>1. lo \in Nat /\ hi \in Nat /\ lo < PriceMod /\ p \in Nat
    BY <1>6, <1>8, TickFacts, LadderAssumption
  <2> QED BY <2>1, <1>8, LadderAssumption
<1> QED BY <1>6, <1>7, <1>9

------------------------------------------------------------------------------
(* The map find() shows, and what mutations do to it. *)

\* A new ladder shows no level and is well formed.
LEMMA NewLadderFacts ==
  ASSUME NEW side \in Sides
  PROVE  /\ NewLadder(side) \in Ladders
         /\ WellFormed(NewLadder(side))
         /\ FindMap(NewLadder(side)) = [p \in Prices |-> NoLevel]
<1> DEFINE L == NewLadder(side)
<1>1. L \in Ladders
  BY DEF NewLadder, Ladders, MaybeLevel
<1>2. L.words = {} /\ L.overflow = [p \in Prices |-> NoLevel]
  BY DEF NewLadder
<1>3. OverflowPrices(L) = {}
  BY <1>2 DEF OverflowPrices
<1> HIDE DEF L
<1>4. WellFormed(L)
  BY <1>2, <1>3 DEF WellFormed
<1>5. \A p \in Prices : Find(L, p) = NoLevel
  BY <1>2 DEF Find
<1> QED BY <1>1, <1>4, <1>5 DEF FindMap, L

\* In a well-formed ladder the window shows what is in its range and overflow
\* shows the rest.
LEMMA FindCases ==
  ASSUME NEW L \in Ladders, WellFormed(L), NEW p \in Prices
  PROVE  /\ InWindow(L.base, p) => L.overflow[p] = NoLevel
         /\ ~InWindow(L.base, p) => L.overflow[p] = Find(L, p)
         /\ InWindow(L.base, p) =>
               (Find(L, p) # NoLevel <=> SlotOf(L.base, p) \in L.words)
         /\ Find(L, p) \in MaybeLevel
<1>1. L.base \in Int /\ L.slots \in [Slots -> MaybeLevel]
      /\ L.overflow \in [Prices -> MaybeLevel] /\ L.words \subseteq Slots
  BY DEF Ladders
<1>2. InWindow(L.base, p) => L.overflow[p] = NoLevel
  BY DEF WellFormed, OverflowPrices
<1>3. \A s \in L.words : L.slots[s] # NoLevel /\ s \in Slots
  BY <1>1 DEF WellFormed
<1>4. NoLevel \in MaybeLevel
  BY DEF MaybeLevel
<1> QED BY <1>1, <1>2, <1>3, <1>4 DEF Find

\* Placing a level where find() shows none adds it and nothing else.
LEMMA PlacedFacts ==
  ASSUME NEW L \in Ladders, WellFormed(L), NEW p \in Prices, NEW h \in Handles,
         Find(L, p) = NoLevel
  PROVE  /\ Placed(L, p, h) \in Ladders
         /\ WellFormed(Placed(L, p, h))
         /\ FindMap(Placed(L, p, h)) = [FindMap(L) EXCEPT ![p] = h]
         /\ Placed(L, p, h).levels = L.levels + 1
         /\ Placed(L, p, h).side = L.side
         /\ Placed(L, p, h).base = L.base
<1> DEFINE M == Placed(L, p, h)
           s == SlotOf(L.base, p)
<1>1. /\ L.side \in Sides /\ L.base \in Int /\ L.slots \in [Slots -> MaybeLevel]
      /\ L.words \in SUBSET Slots /\ L.overflow \in [Prices -> MaybeLevel]
      /\ L.levels \in Int
  BY DEF Ladders
<1>2. h \in MaybeLevel /\ h # NoLevel
  BY LadderAssumption DEF MaybeLevel
<1>3. CASE InWindow(L.base, p)
  <2>1. s \in Slots
    BY <1>1, <1>3, SlotFacts
  <2>2. M = [L EXCEPT !.slots = [L.slots EXCEPT ![s] = h],
                      !.words = L.words \cup {s}, !.levels = L.levels + 1]
    BY <1>3 DEF Placed
  <2>3. /\ M.side = L.side /\ M.base = L.base /\ M.overflow = L.overflow
        /\ M.slots = [L.slots EXCEPT ![s] = h] /\ M.words = L.words \cup {s}
        /\ M.levels = L.levels + 1
    BY <2>2 DEF Ladders
  <2>4. M \in Ladders
    <3> DEFINE slots == [L.slots EXCEPT ![s] = h]
               words == L.words \cup {s}
               levels == L.levels + 1
    <3>1. /\ slots \in [Slots -> MaybeLevel] /\ words \in SUBSET Slots
          /\ levels \in Int
      BY <1>1, <1>2, <2>1
    <3>2. M = [L EXCEPT !.slots = slots, !.words = words, !.levels = levels]
      BY <2>2
    <3> HIDE DEF slots, words, levels, M
    <3> QED BY <1>1, <3>1, <3>2 DEF Ladders
  <2> HIDE DEF M
  <2>5. OverflowPrices(M) = OverflowPrices(L)
    BY <2>3 DEF OverflowPrices
  <2>6. WellFormed(M)
    <3>1. ASSUME NEW r \in M.words
          PROVE  /\ M.slots[r] # NoLevel
                 /\ \E q \in Prices : InWindow(M.base, q) /\ SlotOf(M.base, q) = r
      <4>1. CASE r = s
        BY <4>1, <1>1, <1>2, <1>3, <2>1, <2>3
      <4>2. CASE r # s
        <5>1. r \in L.words BY <4>2, <2>3
        <5> QED BY <5>1, <4>2, <1>1, <2>1, <2>3 DEF WellFormed
      <4> QED BY <4>1, <4>2
    <3>2. \A q \in OverflowPrices(M) : ~InWindow(M.base, q)
      BY <2>3, <2>5 DEF WellFormed
    <3> QED BY <3>1, <3>2 DEF WellFormed
  <2>7. ASSUME NEW q \in Prices
        PROVE  Find(M, q) = IF q = p THEN h ELSE Find(L, q)
    <3>1. CASE q = p
      BY <3>1, <1>1, <1>3, <2>1, <2>3 DEF Find
    <3>2. CASE q # p /\ InWindow(L.base, q)
      <4>1. SlotOf(L.base, q) # s /\ SlotOf(L.base, q) \in Slots
        BY <3>2, <1>1, <1>3, SlotFacts
      <4> QED BY <4>1, <3>2, <1>1, <2>1, <2>3 DEF Find
    <3>3. CASE q # p /\ ~InWindow(L.base, q)
      BY <3>3, <2>3 DEF Find
    <3> QED BY <3>1, <3>2, <3>3
  <2>8. FindMap(M) = [FindMap(L) EXCEPT ![p] = h]
    BY <2>7 DEF FindMap
  <2> QED BY <2>3, <2>4, <2>6, <2>8 DEF M
<1>4. CASE ~InWindow(L.base, p)
  <2>1. L.overflow[p] = NoLevel
    BY <1>4 DEF Find
  <2>2. M = [L EXCEPT !.overflow = [L.overflow EXCEPT ![p] = h],
                      !.levels = L.levels + 1]
    BY <1>1, <1>4, <2>1 DEF Placed
  <2>3. /\ M.side = L.side /\ M.base = L.base /\ M.slots = L.slots
        /\ M.overflow = [L.overflow EXCEPT ![p] = h] /\ M.words = L.words
        /\ M.levels = L.levels + 1
    BY <2>2 DEF Ladders
  <2>4. M \in Ladders
    <3> DEFINE overflow == [L.overflow EXCEPT ![p] = h]
               levels == L.levels + 1
    <3>1. overflow \in [Prices -> MaybeLevel] /\ levels \in Int
      BY <1>1, <1>2
    <3>2. M = [L EXCEPT !.overflow = overflow, !.levels = levels]
      BY <2>2
    <3> HIDE DEF overflow, levels, M
    <3> QED BY <1>1, <3>1, <3>2 DEF Ladders
  <2> HIDE DEF M
  <2>5. \A q \in OverflowPrices(M) : q = p \/ q \in OverflowPrices(L)
    BY <1>1, <2>3 DEF OverflowPrices
  <2>6. WellFormed(M)
    BY <1>4, <2>3, <2>5 DEF WellFormed
  <2>7. \A q \in Prices : Find(M, q) = IF q = p THEN h ELSE Find(L, q)
    BY <1>1, <1>4, <2>3 DEF Find
  <2>8. FindMap(M) = [FindMap(L) EXCEPT ![p] = h]
    BY <2>7 DEF FindMap
  <2> QED BY <2>3, <2>4, <2>6, <2>8 DEF M
<1> QED BY <1>3, <1>4

\* Erasing a level that find() shows removes it and nothing else.
LEMMA ErasedFacts ==
  ASSUME NEW L \in Ladders, WellFormed(L), NEW p \in Prices,
         Find(L, p) # NoLevel, L.levels > 0
  PROVE  /\ EraseHolds(L, p)
         /\ Erased(L, p) \in Ladders
         /\ WellFormed(Erased(L, p))
         /\ FindMap(Erased(L, p)) = [FindMap(L) EXCEPT ![p] = NoLevel]
         /\ Erased(L, p).levels = L.levels - 1
         /\ Erased(L, p).side = L.side
<1> DEFINE M == Erased(L, p)
           s == SlotOf(L.base, p)
<1>1. /\ L.side \in Sides /\ L.base \in Int /\ L.slots \in [Slots -> MaybeLevel]
      /\ L.words \in SUBSET Slots /\ L.overflow \in [Prices -> MaybeLevel]
      /\ L.levels \in Int
  BY DEF Ladders
<1>2. NoLevel \in MaybeLevel
  BY DEF MaybeLevel
<1>3. EraseHolds(L, p)
  BY DEF EraseHolds, Find
<1>4. CASE InWindow(L.base, p)
  <2>1. s \in Slots
    BY <1>1, <1>4, SlotFacts
  <2>2. M = [L EXCEPT !.slots = [L.slots EXCEPT ![s] = NoLevel],
                      !.words = L.words \ {s}, !.levels = L.levels - 1]
    BY <1>4 DEF Erased
  <2>3. /\ M.side = L.side /\ M.base = L.base /\ M.overflow = L.overflow
        /\ M.slots = [L.slots EXCEPT ![s] = NoLevel] /\ M.words = L.words \ {s}
        /\ M.levels = L.levels - 1
    BY <2>2 DEF Ladders
  <2>4. M \in Ladders
    <3> DEFINE slots == [L.slots EXCEPT ![s] = NoLevel]
               words == L.words \ {s}
               levels == L.levels - 1
    <3>1. /\ slots \in [Slots -> MaybeLevel] /\ words \in SUBSET Slots
          /\ levels \in Int
      BY <1>1, <1>2, <2>1
    <3>2. M = [L EXCEPT !.slots = slots, !.words = words, !.levels = levels]
      BY <2>2
    <3> HIDE DEF slots, words, levels, M
    <3> QED BY <1>1, <3>1, <3>2 DEF Ladders
  <2> HIDE DEF M
  <2>5. OverflowPrices(M) = OverflowPrices(L)
    BY <2>3 DEF OverflowPrices
  <2>6. WellFormed(M)
    <3>1. \A r \in M.words : r \in L.words /\ r # s /\ M.slots[r] = L.slots[r]
      BY <1>1, <2>1, <2>3
    <3> QED BY <3>1, <2>3, <2>5 DEF WellFormed
  <2>7. ASSUME NEW q \in Prices
        PROVE  Find(M, q) = IF q = p THEN NoLevel ELSE Find(L, q)
    <3>1. CASE q = p
      BY <3>1, <1>4, <2>3 DEF Find
    <3>2. CASE q # p /\ InWindow(L.base, q)
      <4>1. SlotOf(L.base, q) # s /\ SlotOf(L.base, q) \in Slots
        BY <3>2, <1>1, <1>4, SlotFacts
      <4> QED BY <4>1, <3>2, <1>1, <2>1, <2>3 DEF Find
    <3>3. CASE q # p /\ ~InWindow(L.base, q)
      BY <3>3, <2>3 DEF Find
    <3> QED BY <3>1, <3>2, <3>3
  <2>8. FindMap(M) = [FindMap(L) EXCEPT ![p] = NoLevel]
    BY <2>7 DEF FindMap
  <2> QED BY <1>3, <2>3, <2>4, <2>6, <2>8 DEF M
<1>5. CASE ~InWindow(L.base, p)
  <2>2. M = [L EXCEPT !.overflow = [L.overflow EXCEPT ![p] = NoLevel],
                      !.levels = L.levels - 1]
    BY <1>5 DEF Erased
  <2>3. /\ M.side = L.side /\ M.base = L.base /\ M.slots = L.slots
        /\ M.overflow = [L.overflow EXCEPT ![p] = NoLevel] /\ M.words = L.words
        /\ M.levels = L.levels - 1
    BY <2>2 DEF Ladders
  <2>4. M \in Ladders
    <3> DEFINE overflow == [L.overflow EXCEPT ![p] = NoLevel]
               levels == L.levels - 1
    <3>1. overflow \in [Prices -> MaybeLevel] /\ levels \in Int
      BY <1>1, <1>2
    <3>2. M = [L EXCEPT !.overflow = overflow, !.levels = levels]
      BY <2>2
    <3> HIDE DEF overflow, levels, M
    <3> QED BY <1>1, <3>1, <3>2 DEF Ladders
  <2> HIDE DEF M
  <2>5. \A q \in OverflowPrices(M) : q \in OverflowPrices(L)
    BY <1>1, <2>3 DEF OverflowPrices
  <2>6. WellFormed(M)
    BY <2>3, <2>5 DEF WellFormed
  <2>7. \A q \in Prices : Find(M, q) = IF q = p THEN NoLevel ELSE Find(L, q)
    BY <1>1, <1>5, <2>3 DEF Find
  <2>8. FindMap(M) = [FindMap(L) EXCEPT ![p] = NoLevel]
    BY <2>7 DEF FindMap
  <2> QED BY <1>3, <2>3, <2>4, <2>6, <2>8 DEF M
<1> QED BY <1>4, <1>5

------------------------------------------------------------------------------
(* Recentring. *)

\* Lifting the window out gives exactly the levels find() shows in its range.
LEMMA LiftedFacts ==
  ASSUME NEW L \in Ladders, WellFormed(L), NEW p \in Prices
  PROVE  Lifted(L)[p] = IF InWindow(L.base, p) THEN Find(L, p) ELSE NoLevel
<1>1. L.base \in Int /\ L.words \subseteq Slots
  BY DEF Ladders
<1>2. ASSUME NEW s \in L.words, PriceOfSlot(L.base, s) = p
      PROVE  InWindow(L.base, p) /\ SlotOf(L.base, p) = s
  <2>1. PICK q \in Prices : InWindow(L.base, q) /\ SlotOf(L.base, q) = s
    BY DEF WellFormed
  <2>2. q = p
    BY <1>1, <1>2, <2>1, SlotFacts
  <2> QED BY <2>1, <2>2
<1>3. CASE \E s \in L.words : PriceOfSlot(L.base, s) = p
  <2>1. PICK s \in L.words : PriceOfSlot(L.base, s) = p
    BY <1>3
  <2>2. \A r \in L.words : PriceOfSlot(L.base, r) = p => r = s
    BY <1>2, <2>1
  <2>3. (CHOOSE r \in L.words : PriceOfSlot(L.base, r) = p) = s
    BY <2>1, <2>2
  <2>4. Lifted(L)[p] = L.slots[s]
    BY <1>3, <2>3 DEF Lifted
  <2>5. InWindow(L.base, p) /\ SlotOf(L.base, p) = s
    BY <1>2, <2>1
  <2> QED BY <2>1, <2>4, <2>5 DEF Find
<1>4. CASE ~ \E s \in L.words : PriceOfSlot(L.base, s) = p
  <2>1. Lifted(L)[p] = NoLevel
    BY <1>4 DEF Lifted
  <2>2. InWindow(L.base, p) => SlotOf(L.base, p) \notin L.words
    BY <1>1, <1>4, SlotFacts
  <2> QED BY <2>1, <2>2 DEF Find
<1> QED BY <1>3, <1>4

\* A window that covers its own range of prices takes over every level in
\* that range and no other; every level stays where find() shows it.
LEMMA RecentredFacts ==
  ASSUME NEW L \in Ladders, WellFormed(L), NEW base \in Int,
         \A p \in Prices : InWindow(base, p) =>
            PriceOfTick(base) <= p /\ p < PriceOfTick(base + WindowTicks)
  PROVE  /\ Recentred(L, base) \in Ladders
         /\ WellFormed(Recentred(L, base))
         /\ FindMap(Recentred(L, base)) = FindMap(L)
         /\ Recentred(L, base).levels = L.levels
         /\ Recentred(L, base).side = L.side
<1> DEFINE M == Recentred(L, base)
           kept == Kept(L, base)
           spilled == Spilled(L, base)
           pulled == Pulled(L, base)
           lifted == Lifted(L)
           slots == [s \in Slots |->
                      IF \E p \in pulled : SlotOf(base, p) = s
                      THEN spilled[CHOOSE p \in pulled : SlotOf(base, p) = s]
                      ELSE IF \E p \in kept : SlotOf(base, p) = s
                      THEN lifted[CHOOSE p \in kept : SlotOf(base, p) = s]
                      ELSE NoLevel]
           words == {SlotOf(base, p) : p \in kept \cup pulled}
           overflow == [p \in Prices |-> IF p \in pulled THEN NoLevel ELSE spilled[p]]
<1>1. \A p \in Prices :
         lifted[p] = IF InWindow(L.base, p) THEN Find(L, p) ELSE NoLevel
  BY LiftedFacts
<1>2. \A p \in Prices :
         L.overflow[p] = IF InWindow(L.base, p) THEN NoLevel ELSE Find(L, p)
  BY FindCases
<1>3. kept = {p \in Prices : /\ Find(L, p) # NoLevel /\ InWindow(L.base, p)
                             /\ InWindow(base, p)}
  BY <1>1 DEF Kept
<1>4. \A p \in Prices : spilled[p] = IF p \in kept THEN NoLevel ELSE Find(L, p)
  <2>1. \A p \in Prices :
           spilled[p] = IF L.overflow[p] = NoLevel /\ p \notin kept
                        THEN lifted[p] ELSE L.overflow[p]
    BY DEF Spilled
  <2> HIDE DEF kept, spilled, lifted
  <2> QED BY <1>1, <1>2, <1>3, <2>1
<1>5. pulled = {p \in Prices : /\ Find(L, p) # NoLevel /\ ~InWindow(L.base, p)
                               /\ InWindow(base, p)}
  <2>1. pulled = {p \in Prices : spilled[p] # NoLevel /\ InWindow(base, p)}
    BY DEF Pulled
  <2> HIDE DEF kept, spilled, pulled
  <2> QED BY <1>3, <1>4, <2>1
<1>6. M = [L EXCEPT !.base = base, !.words = words, !.slots = slots,
                    !.overflow = overflow]
  BY DEF Recentred
<1> HIDE DEF M, kept, spilled, pulled, lifted
<1>7. \A p \in Prices : Find(L, p) \in MaybeLevel
  BY FindCases
<1>8. \A p \in kept \cup pulled : SlotOf(base, p) \in Slots
  BY <1>3, <1>5, SlotFacts
<1>9. ASSUME NEW p \in kept \cup pulled
      PROVE  slots[SlotOf(base, p)] = Find(L, p)
  <2>1. p \in Prices /\ InWindow(base, p) /\ SlotOf(base, p) \in Slots
    BY <1>3, <1>5, <1>8
  <2>2. \A q \in kept \cup pulled : SlotOf(base, q) = SlotOf(base, p) => q = p
    BY <1>3, <1>5, <2>1, SlotFacts
  <2>3. CASE p \in pulled
    <3>1. (CHOOSE q \in pulled : SlotOf(base, q) = SlotOf(base, p)) = p
      BY <2>2, <2>3
    <3>2. slots[SlotOf(base, p)] = spilled[p]
      BY <2>1, <2>3, <3>1
    <3>3. spilled[p] = Find(L, p)
      BY <1>3, <1>4, <1>5, <2>3
    <3> QED BY <3>2, <3>3
  <2>4. CASE p \notin pulled
    <3>1. p \in kept
      BY <2>4
    <3>2. ~ \E q \in pulled : SlotOf(base, q) = SlotOf(base, p)
      BY <2>2, <2>4
    <3>3. (CHOOSE q \in kept : SlotOf(base, q) = SlotOf(base, p)) = p
      BY <2>2, <3>1
    <3>4. slots[SlotOf(base, p)] = lifted[p]
      BY <2>1, <3>1, <3>2, <3>3
    <3>5. lifted[p] = Find(L, p)
      BY <1>1, <1>3, <3>1
    <3> QED BY <3>4, <3>5
  <2> QED BY <2>3, <2>4
<1>10. \A p \in Prices :
          overflow[p] = IF InWindow(base, p) THEN NoLevel ELSE Find(L, p)
  BY <1>3, <1>4, <1>5
<1>11. slots \in [Slots -> MaybeLevel]
  <2>1. ASSUME NEW s \in Slots
        PROVE  slots[s] \in MaybeLevel
    <3>1. CASE \E p \in kept \cup pulled : SlotOf(base, p) = s
      <4>1. PICK p \in kept \cup pulled : SlotOf(base, p) = s
        BY <3>1
      <4>2. slots[s] = Find(L, p) /\ p \in Prices
        BY <1>3, <1>5, <1>9, <4>1
      <4> QED BY <1>7, <4>2
    <3>2. CASE ~ \E p \in kept \cup pulled : SlotOf(base, p) = s
      <4>1. slots[s] = NoLevel
        BY <3>2
      <4> QED BY <4>1 DEF MaybeLevel
    <3> QED BY <3>1, <3>2
  <2> QED BY <2>1
<1>12. overflow \in [Prices -> MaybeLevel]
  BY <1>7, <1>10 DEF MaybeLevel
<1>13. words \in SUBSET Slots
  BY <1>8
<1>14. \A s : s \in words <=> \E p \in kept \cup pulled : SlotOf(base, p) = s
  OBVIOUS
<1> HIDE DEF slots, words, overflow
<1>15. M \in Ladders
  BY <1>6, <1>11, <1>12, <1>13 DEF Ladders
<1>16. /\ M.base = base /\ M.words = words /\ M.slots = slots
       /\ M.overflow = overflow /\ M.levels = L.levels /\ M.side = L.side
  BY <1>6 DEF Ladders
<1>17. WellFormed(M)
  <2>1. ASSUME NEW s \in M.words
        PROVE  /\ M.slots[s] # NoLevel
               /\ \E p \in Prices : InWindow(M.base, p) /\ SlotOf(M.base, p) = s
    <3>1. PICK p \in kept \cup pulled : SlotOf(base, p) = s
      BY <1>14, <1>16, <2>1
    <3> QED BY <1>3, <1>5, <1>9, <1>16, <3>1
  <2>2. \A p \in OverflowPrices(M) : ~InWindow(M.base, p)
    BY <1>10, <1>16 DEF OverflowPrices
  <2> QED BY <2>1, <2>2 DEF WellFormed
<1>18. ASSUME NEW p \in Prices
       PROVE  Find(M, p) = Find(L, p)
  <2>1. CASE ~InWindow(base, p)
    BY <1>10, <1>16, <2>1 DEF Find
  <2>2. CASE InWindow(base, p) /\ Find(L, p) # NoLevel
    <3>1. p \in kept \cup pulled
      BY <1>3, <1>5, <2>2
    <3>2. SlotOf(base, p) \in words
      BY <1>14, <3>1
    <3> QED BY <1>9, <1>16, <2>2, <3>1, <3>2 DEF Find
  <2>3. CASE InWindow(base, p) /\ Find(L, p) = NoLevel
    <3>1. SlotOf(base, p) \notin words
      <4>1. SUFFICES ASSUME NEW q \in kept \cup pulled,
                            SlotOf(base, q) = SlotOf(base, p)
                     PROVE  FALSE
        BY <1>14
      <4>2. q \in Prices /\ InWindow(base, q) /\ Find(L, q) # NoLevel
        BY <1>3, <1>5
      <4> QED BY <2>3, <4>1, <4>2, SlotFacts
    <3> QED BY <1>16, <2>3, <3>1 DEF Find
  <2> QED BY <2>1, <2>2, <2>3
<1>19. FindMap(M) = FindMap(L)
  BY <1>18 DEF FindMap
<1> QED BY <1>15, <1>16, <1>17, <1>19 DEF M

------------------------------------------------------------------------------
(* The inside. *)

\* best_in_window() is the inside of the prices stored in the window.
LEMMA BestInWindowFacts ==
  ASSUME NEW L \in Ladders, WellFormed(L), L.words # {}
  PROVE  /\ BestInWindow(L) \in Stored(L)
         /\ \A p \in Stored(L) : InWindow(L.base, p) =>
               /\ L.side = "Buy" => p <= BestInWindow(L)
               /\ L.side = "Sell" => BestInWindow(L) <= p
<1> DEFINE s == Inside(L.side, L.words)
<1>1. /\ L.side \in Sides /\ L.base \in Int /\ L.words \in SUBSET Nat
      /\ \A r \in L.words : r <= WindowTicks
  BY LadderAssumption DEF Ladders, Slots
<1>2. /\ s \in L.words
      /\ L.side = "Buy" => \A r \in L.words : r <= s
      /\ L.side = "Sell" => \A r \in L.words : s <= r
  <2>1. WindowTicks \in Nat BY LadderAssumption
  <2> QED BY <1>1, <2>1, InsideChosen
<1>3. PICK q \in Prices : InWindow(L.base, q) /\ SlotOf(L.base, q) = s
  BY <1>2 DEF WellFormed
<1>4. BestInWindow(L) = q
  BY <1>1, <1>3, SlotFacts DEF BestInWindow
<1>5. q \in Stored(L)
  BY <1>2, <1>3, FindCases DEF Stored
<1> HIDE DEF s
<1>6. ASSUME NEW p \in Stored(L), InWindow(L.base, p)
      PROVE  /\ L.side = "Buy" => p <= q
             /\ L.side = "Sell" => q <= p
  <2>1. p \in Prices /\ SlotOf(L.base, p) \in L.words
    BY <1>6, FindCases DEF Stored
  <2>2. /\ TickOf(p) \in Nat /\ p = TickOf(p) * TickUnits
        /\ TickOf(q) \in Nat /\ q = TickOf(q) * TickUnits
    BY <1>3, <1>6, <2>1, TickFacts DEF InWindow
  <2>3. /\ L.side = "Buy" => SlotOf(L.base, p) <= SlotOf(L.base, q)
        /\ L.side = "Sell" => SlotOf(L.base, q) <= SlotOf(L.base, p)
    BY <1>2, <1>3, <2>1
  <2>4. /\ L.side = "Buy" => TickOf(p) <= TickOf(q)
        /\ L.side = "Sell" => TickOf(q) <= TickOf(p)
    BY <1>1, <2>2, <2>3 DEF SlotOf
  <2> QED BY <2>2, <2>4, LadderAssumption
<1> QED BY <1>4, <1>5, <1>6

\* best() is the inside of all that is stored, in the window, in overflow or
\* in both, provided no price is the sentinel kNoPrice; and its assertion holds.
LEMMA BestFacts ==
  ASSUME NEW L \in Ladders, WellFormed(L), Stored(L) # {}, kNoPrice \notin Prices
  PROVE  /\ Best(L) \in Stored(L)
         /\ Best(L) = Inside(L.side, Stored(L))
         /\ OverflowPrices(L) = {} => BestInWindow(L) # kNoPrice
<1> DEFINE S == Stored(L)
           O == OverflowPrices(L)
           w == BestInWindow(L)
           o == Inside(L.side, O)
<1>1. /\ L.side \in Sides /\ S \in SUBSET Nat /\ O \in SUBSET Nat
      /\ \A p \in S \cup O : p <= PriceMod
  <2>1. \A p \in Prices : p \in Nat /\ p <= PriceMod
    BY LadderAssumption
  <2>2. S \subseteq Prices /\ O \subseteq Prices
    BY DEF Stored, OverflowPrices
  <2>3. L.side \in Sides
    BY DEF Ladders
  <2> HIDE DEF S, O
  <2> QED BY <2>1, <2>2, <2>3
<1>2. O = {p \in S : ~InWindow(L.base, p)}
  BY FindCases DEF Stored, OverflowPrices
<1>3. L.words # {} => /\ w \in S
                      /\ \A p \in S : InWindow(L.base, p) =>
                            /\ L.side = "Buy" => p <= w
                            /\ L.side = "Sell" => w <= p
  BY BestInWindowFacts
<1>4. L.words = {} => w = kNoPrice /\ \A p \in S : ~InWindow(L.base, p)
  BY FindCases DEF BestInWindow, Stored
<1>5. O # {} => /\ o \in O
                /\ L.side = "Buy" => \A p \in O : p <= o
                /\ L.side = "Sell" => \A p \in O : o <= p
  <2>1. PriceMod \in Nat BY LadderAssumption
  <2> QED BY <1>1, <2>1, InsideChosen
<1>6. kNoPrice \notin S
  BY DEF Stored
<1>7. Best(L) = IF O = {} THEN w ELSE IF w = kNoPrice THEN o ELSE Inside(L.side, {w, o})
  BY DEF Best
<1> HIDE DEF S, O, w, o
<1>8. O = {} => L.words # {}
  BY <1>2, <1>4 DEF S
<1>9. /\ Best(L) \in S
      /\ L.side = "Buy" => \A p \in S : p <= Best(L)
      /\ L.side = "Sell" => \A p \in S : Best(L) <= p
  <2>1. CASE O = {}
    BY <1>2, <1>3, <1>7, <1>8, <2>1
  <2>2. CASE O # {} /\ L.words = {}
    BY <1>2, <1>4, <1>5, <1>7, <2>2
  <2>3. CASE O # {} /\ L.words # {}
    <3>1. w \in Nat /\ o \in Nat /\ w # kNoPrice /\ w \in S /\ o \in S
      BY <1>1, <1>2, <1>3, <1>5, <1>6, <2>3
    <3>2. Best(L) = Inside(L.side, {w, o})
      BY <1>7, <2>3, <3>1
    <3>3. /\ Best(L) \in {w, o}
          /\ L.side = "Buy" => \A y \in {w, o} : y <= Best(L)
          /\ L.side = "Sell" => \A y \in {w, o} : Best(L) <= y
      <4> DEFINE T == {w, o}
      <4>1. T \in SUBSET Nat /\ T # {} /\ w + o \in Nat /\ \A x \in T : x <= w + o
        BY <3>1
      <4> HIDE DEF T
      <4>2. /\ Inside(L.side, T) \in T
            /\ L.side = "Buy" => \A y \in T : y <= Inside(L.side, T)
            /\ L.side = "Sell" => \A y \in T : Inside(L.side, T) <= y
        BY <1>1, <4>1, InsideChosen
      <4> QED BY <3>2, <4>2 DEF T
    <3>4. \A p \in S : p \in Nat
      BY <1>1
    <3> QED BY <1>2, <1>3, <1>5, <2>3, <3>1, <3>3, <3>4
  <2> QED BY <2>1, <2>2, <2>3
<1>10. Best(L) = Inside(L.side, S)
  BY <1>1, <1>9, InsideUnique
<1>11. O = {} => w # kNoPrice
  BY <1>3, <1>6, <1>8
<1> QED BY <1>9, <1>10, <1>11 DEF S, O, w

------------------------------------------------------------------------------
(* The client. *)

\* The inductive invariant: the ladder shows exactly the live levels, each at
\* its own price, is well formed, and counts them.
IInv ==
    /\ TypeOK
    /\ ~aborted
    /\ WellFormed(ladder)
    /\ \A h \in Live : Find(ladder, price[h]) = h
    /\ \A p \in Prices : Find(ladder, p) # NoLevel =>
          Find(ladder, p) \in Live /\ price[Find(ladder, p)] = p
    /\ IsFiniteSet(Live)
    /\ ladder.levels = Cardinality(Live)

\* No price of a set that fits the window is the sentinel.
LEMMA SentinelIsNoPrice ==
  ASSUME PricesFit
  PROVE  kNoPrice \notin Prices
<1>1. WindowTicks \div 2 \in Nat \ {0}
  BY LadderAssumption
<1>2. SUFFICES ASSUME 0 \in Prices PROVE FALSE
  BY DEF kNoPrice
<1>3. 0 \div TickUnits = 0
  BY LadderAssumption
<1>4. 0 >= WindowTicks \div 2
  BY <1>2, <1>3 DEF PricesFit, TickOf
<1> QED BY <1>1, <1>4

\* A ladder in which something is stored is rebased without losing a level.
LEMMA MaybeRebasedFacts ==
  ASSUME PricesFit, NEW L \in Ladders, WellFormed(L), Stored(L) # {}
  PROVE  /\ MaybeRebased(L) \in Ladders
         /\ WellFormed(MaybeRebased(L))
         /\ FindMap(MaybeRebased(L)) = FindMap(L)
         /\ MaybeRebased(L).levels = L.levels
<1> DEFINE q == Best(L)
           base == TickOf(q) - (WindowTicks \div 2)
<1>1. q \in Prices
  BY SentinelIsNoPrice, BestFacts DEF Stored
<1>2. base \in Int
  <2>1. TickOf(q) \in Nat
    BY <1>1, TickFacts
  <2>2. WindowTicks \div 2 \in Int
    BY LadderAssumption
  <2> QED BY <2>1, <2>2
<1>3. \A p \in Prices : InWindow(base, p) =>
         PriceOfTick(base) <= p /\ p < PriceOfTick(base + WindowTicks)
  BY <1>1, <1>2, WindowRange
<1>4. MaybeRebased(L) = L \/ MaybeRebased(L) = Recentred(L, base)
  BY DEF MaybeRebased, Rebased
<1> HIDE DEF base
<1>5. /\ Recentred(L, base) \in Ladders
      /\ WellFormed(Recentred(L, base))
      /\ FindMap(Recentred(L, base)) = FindMap(L)
      /\ Recentred(L, base).levels = L.levels
  BY <1>2, <1>3, RecentredFacts
<1> QED BY <1>4, <1>5

\* An insertion where find() shows no level passes every assertion and adds
\* the level, wherever the rebase it triggers puts the others.
LEMMA InsertedFacts ==
  ASSUME PricesFit, NEW L \in Ladders, WellFormed(L), L.levels \in Nat,
         NEW p \in Prices, NEW h \in Handles, Find(L, p) = NoLevel
  PROVE  /\ InsertHolds(L, p, h)
         /\ Inserted(L, p, h) \in Ladders
         /\ WellFormed(Inserted(L, p, h))
         /\ FindMap(Inserted(L, p, h)) = [FindMap(L) EXCEPT ![p] = h]
         /\ Inserted(L, p, h).levels = L.levels + 1
<1> DEFINE M == Placed(L, p, h)
<1>1. /\ M \in Ladders /\ WellFormed(M)
      /\ FindMap(M) = [FindMap(L) EXCEPT ![p] = h]
      /\ M.levels = L.levels + 1
  BY PlacedFacts
<1>2. Inserted(L, p, h) = IF BestHolds(M) THEN MaybeRebased(M) ELSE M
  BY DEF Inserted
<1>3. InsertHolds(L, p, h) <=> BestHolds(M)
  BY DEF InsertHolds
<1> HIDE DEF M
<1>4. p \in Stored(M)
  <2>1. FindMap(M)[p] = h
    BY <1>1 DEF FindMap
  <2> QED BY <2>1, LadderAssumption DEF FindMap, Stored
<1>5. BestHolds(M)
  BY <1>1, <1>4, SentinelIsNoPrice, BestFacts DEF BestHolds
<1> QED BY <1>1, <1>2, <1>3, <1>4, <1>5, MaybeRebasedFacts

\* The invariant holds of a new ladder.
LEMMA InitIInv == Init => IInv
<1> SUFFICES ASSUME Init PROVE IInv
  OBVIOUS
<1>1. PICK side \in Sides : ladder = NewLadder(side)
  BY DEF Init
<1>2. /\ ladder \in Ladders /\ WellFormed(ladder)
      /\ FindMap(ladder) = [p \in Prices |-> NoLevel]
  BY <1>1, NewLadderFacts
<1>3. ladder.levels = 0
  BY <1>1 DEF NewLadder
<1>4. price = [h \in Handles |-> NoPrice] /\ aborted = FALSE
  BY DEF Init
<1>5. TypeOK
  BY <1>2, <1>4 DEF TypeOK
<1>6. Live = {}
  BY <1>4 DEF Live
<1>7. \A p \in Prices : Find(ladder, p) = NoLevel
  BY <1>2 DEF FindMap
<1>8. IsFiniteSet(Live) /\ Cardinality(Live) = 0
  BY <1>6, FS_EmptySet
<1> QED BY <1>2, <1>3, <1>4, <1>5, <1>6, <1>7, <1>8 DEF IInv

\* Inserting a level keeps the invariant.
LEMMA InsertIInv ==
  ASSUME PricesFit, IInv, NEW p \in Prices, NEW h \in Handles, Insert(p, h)
  PROVE  /\ IInv'
         /\ FindMap(ladder)' = [FindMap(ladder) EXCEPT ![p] = h]
<1>1. /\ ladder \in Ladders /\ price \in [Handles -> Prices \cup {NoPrice}]
      /\ WellFormed(ladder) /\ IsFiniteSet(Live) /\ ladder.levels = Cardinality(Live)
  BY DEF IInv, TypeOK
<1>2. /\ price[h] = NoPrice /\ Find(ladder, p) = NoLevel
      /\ price' = [price EXCEPT ![h] = p] /\ ladder' = Inserted(ladder, p, h)
      /\ aborted' = ~InsertHolds(ladder, p, h)
  BY DEF Insert
<1>3. ladder.levels \in Nat
  BY <1>1, FS_CardinalityType
<1>4. /\ ~aborted' /\ aborted' \in BOOLEAN /\ ladder' \in Ladders /\ WellFormed(ladder')
      /\ FindMap(ladder') = [FindMap(ladder) EXCEPT ![p] = h]
      /\ ladder'.levels = ladder.levels + 1
  BY <1>1, <1>2, <1>3, InsertedFacts
<1>5. \A q \in Prices : Find(ladder', q) = IF q = p THEN h ELSE Find(ladder, q)
  BY <1>4 DEF FindMap
<1>6. Live' = Live \cup {h} /\ h \notin Live
  BY <1>1, <1>2, NoPriceAssumption DEF Live
<1>7. IsFiniteSet(Live') /\ Cardinality(Live') = Cardinality(Live) + 1
  BY <1>1, <1>6, FS_AddElement
<1>8. TypeOK'
  BY <1>1, <1>2, <1>4 DEF TypeOK
<1>9. \A g \in Live' : Find(ladder', price'[g]) = g
  <2>1. SUFFICES ASSUME NEW g \in Live' PROVE Find(ladder', price'[g]) = g
    OBVIOUS
  <2>2. CASE g = h
    BY <1>1, <1>2, <1>5, <2>2
  <2>3. CASE g # h
    <3>1. g \in Live /\ price'[g] = price[g] /\ price[g] \in Prices
      BY <1>1, <1>2, <1>6, <2>1, <2>3 DEF Live
    <3>2. Find(ladder, price[g]) = g
      BY <3>1 DEF IInv
    <3>3. g # NoLevel
      BY <3>1, LadderAssumption DEF Live
    <3>4. price[g] # p
      BY <1>2, <3>2, <3>3
    <3> QED BY <1>5, <3>1, <3>2, <3>4
  <2> QED BY <2>2, <2>3
<1>10. \A q \in Prices : Find(ladder', q) # NoLevel =>
          Find(ladder', q) \in Live' /\ price'[Find(ladder', q)] = q
  <2>1. SUFFICES ASSUME NEW q \in Prices, Find(ladder', q) # NoLevel
                 PROVE  Find(ladder', q) \in Live' /\ price'[Find(ladder', q)] = q
    OBVIOUS
  <2>2. CASE q = p
    BY <1>1, <1>2, <1>5, <1>6, <2>2
  <2>3. CASE q # p
    <3>1. Find(ladder', q) = Find(ladder, q)
      BY <1>5, <2>3
    <3>2. Find(ladder, q) \in Live /\ price[Find(ladder, q)] = q
      BY <2>1, <3>1 DEF IInv
    <3>3. price'[Find(ladder, q)] = price[Find(ladder, q)]
      BY <1>1, <1>2, <1>6, <3>2
    <3> QED BY <1>6, <3>1, <3>2, <3>3
  <2> QED BY <2>2, <2>3
<1>11. IInv'
  BY <1>1, <1>4, <1>7, <1>8, <1>9, <1>10 DEF IInv
<1>12. FindMap(ladder)' = FindMap(ladder')
  BY DEF FindMap, Find, InWindow, SlotOf
<1> QED BY <1>4, <1>11, <1>12

\* Erasing a level keeps the invariant.
LEMMA EraseIInv ==
  ASSUME IInv, NEW h \in Handles, Erase(h)
  PROVE  /\ IInv'
         /\ price[h] \in Prices /\ Find(ladder, price[h]) = h
         /\ FindMap(ladder)' = [FindMap(ladder) EXCEPT ![price[h]] = NoLevel]
<1> DEFINE p == price[h]
<1>1. /\ ladder \in Ladders /\ price \in [Handles -> Prices \cup {NoPrice}]
      /\ WellFormed(ladder) /\ IsFiniteSet(Live) /\ ladder.levels = Cardinality(Live)
  BY DEF IInv, TypeOK
<1>2. p # NoPrice /\ h \in Live
  BY DEF Erase, Live
<1>3. p \in Prices /\ Find(ladder, p) = h
  BY <1>1, <1>2 DEF IInv
<1>4. Find(ladder, p) # NoLevel
  BY <1>3, LadderAssumption
<1>5. /\ IsFiniteSet(Live \ {h}) /\ Cardinality(Live \ {h}) = Cardinality(Live) - 1
      /\ Cardinality(Live) \in Nat /\ Cardinality(Live \ {h}) \in Nat
  BY <1>1, <1>2, FS_RemoveElement, FS_CardinalityType
<1>6. ladder.levels > 0
  BY <1>1, <1>5
<1>7. /\ EraseHolds(ladder, p) /\ Erased(ladder, p) \in Ladders
      /\ WellFormed(Erased(ladder, p))
      /\ FindMap(Erased(ladder, p)) = [FindMap(ladder) EXCEPT ![p] = NoLevel]
      /\ Erased(ladder, p).levels = ladder.levels - 1
  BY <1>1, <1>3, <1>4, <1>6, ErasedFacts
<1>8. /\ ladder' = Erased(ladder, p) /\ price' = [price EXCEPT ![h] = NoPrice]
      /\ aborted' = FALSE
  BY <1>7 DEF Erase
<1>9. \A q \in Prices : Find(ladder', q) = IF q = p THEN NoLevel ELSE Find(ladder, q)
  BY <1>7, <1>8 DEF FindMap
<1>10. Live' = Live \ {h}
  BY <1>1, <1>8 DEF Live
<1>11. TypeOK'
  BY <1>1, <1>7, <1>8 DEF TypeOK
<1>12. \A g \in Live' : Find(ladder', price'[g]) = g
  <2>1. SUFFICES ASSUME NEW g \in Live' PROVE Find(ladder', price'[g]) = g
    OBVIOUS
  <2>2. g \in Live /\ g # h /\ price'[g] = price[g] /\ price[g] \in Prices
    BY <1>1, <1>8, <1>10 DEF Live
  <2>3. Find(ladder, price[g]) = g
    BY <2>2 DEF IInv
  <2>4. price[g] # p
    BY <1>3, <2>2, <2>3
  <2> QED BY <1>9, <2>2, <2>3, <2>4
<1>13. \A q \in Prices : Find(ladder', q) # NoLevel =>
          Find(ladder', q) \in Live' /\ price'[Find(ladder', q)] = q
  <2>1. SUFFICES ASSUME NEW q \in Prices, Find(ladder', q) # NoLevel
                 PROVE  Find(ladder', q) \in Live' /\ price'[Find(ladder', q)] = q
    OBVIOUS
  <2>2. q # p /\ Find(ladder', q) = Find(ladder, q)
    BY <1>9, <2>1
  <2>3. Find(ladder, q) \in Live /\ price[Find(ladder, q)] = q
    BY <2>1, <2>2 DEF IInv
  <2>4. Find(ladder, q) # h
    BY <2>2, <2>3
  <2>5. price'[Find(ladder, q)] = q
    BY <1>1, <1>8, <2>3, <2>4 DEF Live
  <2> QED BY <1>10, <2>2, <2>3, <2>4, <2>5
<1>14. IInv'
  BY <1>1, <1>5, <1>7, <1>8, <1>10, <1>11, <1>12, <1>13 DEF IInv
<1>15. FindMap(ladder)' = FindMap(ladder')
  BY DEF FindMap, Find, InWindow, SlotOf
<1> QED BY <1>3, <1>7, <1>8, <1>14, <1>15

\* The invariant is inductive.
THEOREM IInvInvariant ==
  ASSUME PricesFit
  PROVE  Spec => []IInv
<1>1. Init => IInv
  BY InitIInv
<1>2. IInv /\ [Next]_vars => IInv'
  <2> SUFFICES ASSUME IInv, [Next]_vars PROVE IInv'
    OBVIOUS
  <2>1. ASSUME NEW p \in Prices, NEW h \in Handles, Insert(p, h) PROVE IInv'
    BY <2>1, InsertIInv
  <2>2. ASSUME NEW h \in Handles, Erase(h) PROVE IInv'
    BY <2>2, EraseIInv
  <2>3. CASE UNCHANGED vars
    BY <2>3 DEF vars, IInv, TypeOK, WellFormed, Live, Find, OverflowPrices, InWindow,
                SlotOf
  <2> QED BY <2>1, <2>2, <2>3 DEF Next
<1> QED BY <1>1, <1>2, PTL DEF Spec

\* The ladder as its client drives it (price_ladder.hpp): types hold, none of
\* its assertions fails, a live level is found at its price, nothing that
\* belongs in the window is in overflow, and best() is the inside.
THEOREM LadderCorrect ==
  ASSUME PricesFit
  PROVE  Spec => []LadderSound
<1>1. ASSUME IInv PROVE LadderSound
  <2>1. TypeOK /\ NeverAborts /\ LookupFindsLevel /\ WindowIffInRange
    BY <1>1 DEF IInv, NeverAborts, LookupFindsLevel, WindowIffInRange
  <2>2. Stored(ladder) = LivePrices
    <3>1. ASSUME NEW p \in Stored(ladder) PROVE p \in LivePrices
      <4>1. Find(ladder, p) \in Live /\ price[Find(ladder, p)] = p
        BY <1>1 DEF IInv, Stored
      <4> QED BY <4>1 DEF LivePrices
    <3>2. ASSUME NEW p \in LivePrices PROVE p \in Stored(ladder)
      <4>1. PICK h \in Live : p = price[h]
        BY DEF LivePrices
      <4>2. price[h] \in Prices /\ Find(ladder, price[h]) = h /\ h # NoLevel
        BY <1>1, LadderAssumption DEF IInv, TypeOK, Live
      <4> QED BY <4>1, <4>2 DEF Stored
    <3> QED BY <3>1, <3>2
  <2>3. Live # {} => LivePrices # {}
    BY DEF LivePrices
  <2>4. ladder \in Ladders /\ WellFormed(ladder)
    BY <1>1 DEF IInv, TypeOK
  <2>5. BestIsInside
    BY <2>2, <2>3, <2>4, SentinelIsNoPrice, BestFacts DEF BestIsInside
  <2> QED BY <1>1, <2>1, <2>5 DEF IInv, LadderSound
<1> QED BY <1>1, IInvInvariant, PTL

\* Seen through find(), the ladder is an exact map from price to level: a rebase
\* is invisible, an insertion adds one entry and an erasure removes one.
THEOREM LadderImplementsMap ==
  ASSUME PricesFit
  PROVE  Spec => ImplementsHandleMap
<1>1. Init => Map!Init
  <2> SUFFICES ASSUME Init PROVE Map!Init
    OBVIOUS
  <2>1. PICK side \in Sides : ladder = NewLadder(side)
    BY DEF Init
  <2>2. FindMap(ladder) = [p \in Prices |-> NoLevel]
    BY <2>1, NewLadderFacts
  <2> QED BY <2>2 DEF Map!Init, FindMap
<1>2. IInv /\ IInv' /\ [Next]_vars => [Map!Next]_(FindMap(ladder))
  <2> SUFFICES ASSUME IInv, IInv', [Next]_vars
               PROVE  Map!Next \/ UNCHANGED FindMap(ladder)
    OBVIOUS
  <2>1. ASSUME NEW p \in Prices, NEW h \in Handles, Insert(p, h)
        PROVE  Map!Next
    <3>1. FindMap(ladder)' = [FindMap(ladder) EXCEPT ![p] = h]
      BY <2>1, InsertIInv
    <3>2. Find(ladder, p) = NoLevel /\ price[h] = NoPrice
      BY <2>1 DEF Insert
    <3>3. FindMap(ladder)[p] = NoLevel
      BY <3>2 DEF FindMap
    <3>4. \A q \in Prices : FindMap(ladder)[q] # h
      <4>1. SUFFICES ASSUME NEW q \in Prices, Find(ladder, q) = h PROVE FALSE
        BY DEF FindMap
      <4>2. h # NoLevel
        BY LadderAssumption
      <4>3. h \in Live
        BY <4>1, <4>2 DEF IInv
      <4> QED BY <3>2, <4>3 DEF Live
    <3>5. h \notin Map!Stored
      BY <3>4 DEF Map!Stored, FindMap
    <3>6. Map!Insert(p, h)
      BY <3>1, <3>3, <3>5 DEF Map!Insert, FindMap
    <3> QED BY <3>6 DEF Map!Next
  <2>2. ASSUME NEW h \in Handles, Erase(h)
        PROVE  Map!Next
    <3>1. /\ price[h] \in Prices /\ Find(ladder, price[h]) = h
          /\ FindMap(ladder)' = [FindMap(ladder) EXCEPT ![price[h]] = NoLevel]
      BY <2>2, EraseIInv
    <3>2. FindMap(ladder)[price[h]] # NoLevel
      BY <3>1, LadderAssumption DEF FindMap
    <3>3. Map!Erase(price[h])
      BY <3>1, <3>2 DEF Map!Erase, FindMap
    <3> QED BY <3>1, <3>3 DEF Map!Next
  <2>3. CASE UNCHANGED vars
    BY <2>3 DEF vars, FindMap, Find, InWindow, SlotOf
  <2> QED BY <2>1, <2>2, <2>3 DEF Next
<1>3. Map!Init /\ [][Map!Next]_(FindMap(ladder)) => ImplementsHandleMap
  BY DEF ImplementsHandleMap, Map!Spec, FindMap
<1> QED BY <1>1, <1>2, <1>3, IInvInvariant, PTL DEF Spec

------------------------------------------------------------------------------
(* The walk. *)

\* f counts, of the first t levels reported, up to n, those of the window.
Counts(side, win, ov, f, n) ==
    f = [t \in 0 .. n |-> IF t = 0 THEN 0 ELSE AfterPass(side, win, ov, t, f[t - 1])]

\* It has a count, however long it runs.
LEMMA CountsExist ==
  ASSUME NEW side, NEW win, NEW ov
  PROVE  \A n \in Nat : \E f : Counts(side, win, ov, f, n)
<1> DEFINE Bad == {n \in Nat : ~ \E f : Counts(side, win, ov, f, n)}
<1>1. SUFFICES ASSUME Bad # {} PROVE FALSE
  OBVIOUS
<1>2. PICK n \in Bad : \A m \in Bad : n <= m
  <2> Bad \in SUBSET Nat
    OBVIOUS
  <2> HIDE DEF Bad
  <2> QED  BY <1>1, LeastNatural
<1>3. n \in Nat /\ ~ \E f : Counts(side, win, ov, f, n)
  OBVIOUS
<1>4. CASE n = 0
  <2>1. Counts(side, win, ov, [t \in 0 .. 0 |-> 0], 0)
    BY DEF Counts
  <2> QED  BY <1>3, <1>4, <2>1
<1>5. CASE n # 0
  <2>1. n - 1 \in Nat /\ n - 1 \notin Bad
    BY <1>2, <1>3, <1>5
  <2>2. PICK f : Counts(side, win, ov, f, n - 1)
    BY <2>1
  <2> DEFINE g == [t \in 0 .. n |->
                     IF t = n THEN AfterPass(side, win, ov, n, f[n - 1]) ELSE f[t]]
  <2>3. \A t \in 0 .. n - 1 : g[t] = f[t]
    BY <1>3
  <2>4. \A t \in 0 .. n : g[t] = IF t = 0 THEN 0 ELSE AfterPass(side, win, ov, t, g[t - 1])
    <3> SUFFICES ASSUME NEW t \in 0 .. n
                 PROVE  g[t] = IF t = 0 THEN 0 ELSE AfterPass(side, win, ov, t, g[t - 1])
      OBVIOUS
    <3>1. CASE t = n
      <4>1. g[t - 1] = f[n - 1] /\ t # 0
        BY <1>3, <1>5, <2>3, <3>1
      <4> QED  BY <3>1, <4>1
    <3>2. CASE t # n
      <4>1. t \in 0 .. n - 1 /\ (t # 0 => t - 1 \in 0 .. n - 1)
        BY <1>3, <3>2
      <4>2. f[t] = IF t = 0 THEN 0 ELSE AfterPass(side, win, ov, t, f[t - 1])
        <5> HIDE DEF g
        <5>1. f = [x \in 0 .. n - 1 |-> IF x = 0 THEN 0 ELSE AfterPass(side, win, ov, x, f[x - 1])]
          BY <2>2 DEF Counts
        <5> QED  BY <4>1, <5>1
      <4>3. g[t] = f[t] /\ (t # 0 => g[t - 1] = f[t - 1])
        <5> HIDE DEF g
        <5> QED  BY <2>3, <4>1
      <4> QED  BY <4>2, <4>3
    <3> QED  BY <3>1, <3>2
  <2>5. g = [t \in 0 .. n |-> g[t]]
    OBVIOUS
  <2>6. Counts(side, win, ov, g, n)
    <3> HIDE DEF g
    <3> QED  BY <2>4, <2>5 DEF Counts
  <2> QED  BY <1>3, <2>6
<1> QED  BY <1>4, <1>5

\* The loop reads it.
LEMMA FromWindowCounts ==
  ASSUME NEW side, NEW win, NEW ov, Len(win) \in Nat, Len(ov) \in Nat
  PROVE  Counts(side, win, ov, FromWindow(side, win, ov), Len(win) + Len(ov))
<1>1. PICK f : Counts(side, win, ov, f, Len(win) + Len(ov))
  <2>1. Len(win) + Len(ov) \in Nat
    OBVIOUS
  <2> QED  BY <2>1, CountsExist
<1>2. FromWindow(side, win, ov) =
        CHOOSE f1 : f1 = [t \in 0 .. Len(win) + Len(ov) |->
                           IF t = 0 THEN 0 ELSE AfterPass(side, win, ov, t, f1[t - 1])]
  BY DEF FromWindow
<1> QED  BY <1>1, <1>2 DEF Counts

\* Two sequences that can be merged.
Mergeable(side, win, ov) ==
    /\ side \in Sides /\ win \in Seq(Nat) /\ ov \in Seq(Nat)
    /\ InOrder(side, win) /\ InOrder(side, ov)
    /\ \A i \in 1 .. Len(win), j \in 1 .. Len(ov) : win[i] # ov[j]

\* k of the first t reported came from the window: what is reported of one
\* sequence comes before what is not of the other.
Split(side, win, ov, t, k) ==
    /\ k \in 0 .. Len(win) /\ t - k \in 0 .. Len(ov)
    /\ \A i \in 1 .. Len(win), j \in 1 .. Len(ov) :
          /\ i <= k /\ j > t - k => Before(side, win[i], ov[j])
          /\ i > k /\ j <= t - k => Before(side, ov[j], win[i])

\* A pass keeps it so, and takes the next of one sequence.
LEMMA PassSplits ==
  ASSUME NEW side, NEW win, NEW ov, Mergeable(side, win, ov),
         NEW t \in 1 .. Len(win) + Len(ov), NEW k, Split(side, win, ov, t - 1, k)
  PROVE  Split(side, win, ov, t, AfterPass(side, win, ov, t, k))
<1>1. /\ Len(win) \in Nat /\ Len(ov) \in Nat /\ side \in Sides
      /\ \A i \in 1 .. Len(win) : win[i] \in Nat
      /\ \A j \in 1 .. Len(ov) : ov[j] \in Nat
  BY LenProperties, ElementOfSeq DEF Mergeable
<1>2. k \in 0 .. Len(win) /\ t - 1 - k \in 0 .. Len(ov) /\ k \in Int /\ t \in Int
  BY <1>1 DEF Split
<1>3. \A p, q, r \in Nat : Before(side, p, q) /\ Before(side, q, r) => Before(side, p, r)
  BY DEF Before
<1>4. \A p, q \in Nat : p = q \/ Before(side, p, q) \/ Before(side, q, p)
  BY DEF Before
<1>5. ASSUME t - k > Len(ov) \/ (k + 1 <= Len(win) /\ Before(side, win[k + 1], ov[t - k]))
      PROVE  Split(side, win, ov, t, k + 1)
  <2>1. k + 1 \in 1 .. Len(win) /\ t - (k + 1) \in 0 .. Len(ov)
    BY <1>1, <1>2, <1>5
  <2>2. ASSUME NEW i \in 1 .. Len(win), NEW j \in 1 .. Len(ov), i <= k + 1, j > t - (k + 1)
        PROVE  Before(side, win[i], ov[j])
    <3>1. CASE i <= k
      <4>1. j > t - 1 - k
        BY <1>2, <2>2
      <4> QED  BY <3>1, <4>1 DEF Split
    <3>2. CASE ~ (i <= k)
      <4>1. i = k + 1 /\ j >= t - k /\ t - k \in 1 .. Len(ov)
        BY <1>1, <1>2, <2>2, <3>2
      <4>2. Before(side, win[i], ov[t - k])
        BY <1>1, <1>2, <1>5, <4>1
      <4>3. j = t - k \/ Before(side, ov[t - k], ov[j])
        <5>1. PICK m \in 1 .. Len(ov) : m = t - k
          BY <4>1
        <5>2. j = m \/ m < j
          BY <1>1, <1>2, <4>1, <5>1
        <5>3. m < j => Before(side, ov[m], ov[j])
          BY DEF Mergeable, InOrder
        <5> QED  BY <5>1, <5>2, <5>3
      <4> QED  BY <1>1, <1>3, <4>1, <4>2, <4>3
    <3> QED  BY <3>1, <3>2
  <2>3. ASSUME NEW i \in 1 .. Len(win), NEW j \in 1 .. Len(ov), i > k + 1, j <= t - (k + 1)
        PROVE  Before(side, ov[j], win[i])
    <3>1. i > k /\ j <= t - 1 - k
      BY <1>2, <2>3
    <3> QED  BY <3>1 DEF Split
  <2>4. k + 1 \in 0 .. Len(win)
    BY <1>1, <2>1
  <2> QED  BY <2>1, <2>2, <2>3, <2>4 DEF Split
<1>6. ASSUME ~ (t - k > Len(ov) \/ (k + 1 <= Len(win) /\ Before(side, win[k + 1], ov[t - k])))
      PROVE  Split(side, win, ov, t, k)
  <2>1. k \in 0 .. Len(win) /\ t - k \in 1 .. Len(ov)
    BY <1>1, <1>2, <1>6
  <2>2. ASSUME NEW i \in 1 .. Len(win), NEW j \in 1 .. Len(ov), i <= k, j > t - k
        PROVE  Before(side, win[i], ov[j])
    <3>1. j > t - 1 - k
      BY <1>2, <2>2
    <3> QED  BY <2>2, <3>1 DEF Split
  <2>3. ASSUME NEW i \in 1 .. Len(win), NEW j \in 1 .. Len(ov), i > k, j <= t - k
        PROVE  Before(side, ov[j], win[i])
    <3>1. CASE j <= t - 1 - k
      BY <2>3, <3>1 DEF Split
    <3>2. CASE ~ (j <= t - 1 - k)
      <4>1. j = t - k /\ k + 1 \in 1 .. Len(win) /\ k + 1 <= i
        BY <1>1, <1>2, <2>3, <3>2
      <4>2. Before(side, ov[j], win[k + 1])
        <5>1. win[k + 1] # ov[j] /\ ~ Before(side, win[k + 1], ov[j])
          BY <1>1, <1>6, <4>1 DEF Mergeable
        <5> QED  BY <1>1, <1>4, <4>1, <5>1
      <4>3. k + 1 = i \/ Before(side, win[k + 1], win[i])
        BY <1>1, <1>2, <4>1 DEF Mergeable, InOrder
      <4> QED  BY <1>1, <1>3, <4>1, <4>2, <4>3
    <3> QED  BY <3>1, <3>2
  <2>4. t - k \in 0 .. Len(ov)
    BY <1>1, <2>1
  <2> QED  BY <2>1, <2>2, <2>3, <2>4 DEF Split
<1> QED  BY <1>5, <1>6 DEF AfterPass

\* So it is throughout the walk.
LEMMA WalkSplits ==
  ASSUME NEW side, NEW win, NEW ov, Mergeable(side, win, ov),
         NEW w, Counts(side, win, ov, w, Len(win) + Len(ov))
  PROVE  \A t \in 0 .. Len(win) + Len(ov) : Split(side, win, ov, t, w[t])
<1> DEFINE n == Len(win) + Len(ov)
           Bad == {t \in 0 .. n : ~ Split(side, win, ov, t, w[t])}
<1>1. Len(win) \in Nat /\ Len(ov) \in Nat /\ n \in Nat
  BY LenProperties DEF Mergeable
<1>2. SUFFICES ASSUME Bad # {} PROVE FALSE
  OBVIOUS
<1>3. PICK t \in Bad : \A s \in Bad : t <= s
  <2> Bad \in SUBSET Nat
    OBVIOUS
  <2> HIDE DEF Bad
  <2> QED  BY <1>2, LeastNatural
<1>4. t \in 0 .. n /\ ~ Split(side, win, ov, t, w[t])
  OBVIOUS
<1> HIDE DEF n
<1>5. \A s \in 0 .. n : w[s] = IF s = 0 THEN 0 ELSE AfterPass(side, win, ov, s, w[s - 1])
  BY DEF Counts, n
<1>6. CASE t = 0
  <2>1. w[0] = 0
    BY <1>4, <1>5, <1>6
  <2>2. Split(side, win, ov, 0, 0)
    BY <1>1 DEF Split
  <2> QED  BY <1>4, <1>6, <2>1, <2>2
<1>7. CASE t # 0
  <2>1. t \in 1 .. n /\ t - 1 \in 0 .. n /\ ~ (t <= t - 1)
    BY <1>1, <1>4, <1>7
  <2>2. Split(side, win, ov, t - 1, w[t - 1])
    BY <1>3, <2>1
  <2>3. w[t] = AfterPass(side, win, ov, t, w[t - 1])
    BY <1>5, <1>7, <2>1
  <2>4. t \in 1 .. Len(win) + Len(ov)
    BY <2>1 DEF n
  <2> QED  BY <1>4, <2>2, <2>3, <2>4, PassSplits
<1> QED  BY <1>6, <1>7

\* The price reported t-th.
Reported(win, ov, w, t) == IF w[t] > w[t - 1] THEN win[w[t]] ELSE ov[t - w[t]]

\* In n passes every level of the window and of the map is reported, and each after
\* the one that comes before it.
Merged(side, win, ov, w, n) ==
    /\ \A t \in 1 .. n : IF w[t] > w[t - 1] THEN w[t] \in 1 .. Len(win)
                                            ELSE t - w[t] \in 1 .. Len(ov)
    /\ \A i \in 1 .. Len(win) : \E t \in 1 .. n : w[t] > w[t - 1] /\ w[t] = i
    /\ \A j \in 1 .. Len(ov) : \E t \in 1 .. n : ~ (w[t] > w[t - 1]) /\ t - w[t] = j
    /\ \A t \in 1 .. n - 1 :
          Before(side, Reported(win, ov, w, t), Reported(win, ov, w, t + 1))

\* As many passes as there are levels do that.
LEMMA MergeFacts ==
  ASSUME NEW side, NEW win, NEW ov, Mergeable(side, win, ov),
         NEW w, Counts(side, win, ov, w, Len(win) + Len(ov))
  PROVE  Merged(side, win, ov, w, Len(win) + Len(ov))
<1>0. PICK n : n = Len(win) + Len(ov)
  OBVIOUS
<1>1. Len(win) \in Nat /\ Len(ov) \in Nat /\ n \in Nat /\ Counts(side, win, ov, w, n)
  BY <1>0, LenProperties DEF Mergeable
<1>2. \A t \in 0 .. n : Split(side, win, ov, t, w[t])
  BY <1>0, WalkSplits
<1>3. \A t \in 0 .. n : w[t] \in 0 .. Len(win) /\ t - w[t] \in 0 .. Len(ov) /\ w[t] \in Int
  BY <1>1, <1>2 DEF Split
<1>4. \A t \in 1 .. n : t - 1 \in 0 .. n /\ t \in 0 .. n /\ (w[t] = w[t - 1] \/ w[t] = w[t - 1] + 1)
  <2> SUFFICES ASSUME NEW t \in 1 .. n
               PROVE  t - 1 \in 0 .. n /\ t \in 0 .. n /\ (w[t] = w[t - 1] \/ w[t] = w[t - 1] + 1)
    OBVIOUS
  <2>1. t \in 0 .. n /\ t - 1 \in 0 .. n /\ t # 0
    BY <1>1
  <2>2. w[t] = AfterPass(side, win, ov, t, w[t - 1])
    BY <1>1, <2>1 DEF Counts
  <2> QED  BY <2>1, <2>2 DEF AfterPass
<1>5. w[0] = 0 /\ w[n] = Len(win)
  <2>1. w[0] = 0
    BY <1>1 DEF Counts
  <2>2. n \in 0 .. n
    BY <1>1
  <2> QED  BY <1>0, <1>1, <1>3, <2>1, <2>2
<1>6. ASSUME NEW t \in 1 .. n
      PROVE  IF w[t] > w[t - 1] THEN w[t] \in 1 .. Len(win) ELSE t - w[t] \in 1 .. Len(ov)
  BY <1>1, <1>3, <1>4
<1>7. ASSUME NEW i \in 1 .. Len(win)
      PROVE  \E t \in 1 .. n : w[t] > w[t - 1] /\ w[t] = i
  <2> DEFINE T == {t \in 0 .. n : w[t] >= i}
  <2>1. n \in T
    BY <1>1, <1>5
  <2>2. PICK t \in T : \A s \in T : t <= s
    <3> T \in SUBSET Nat
      OBVIOUS
    <3> HIDE DEF T
    <3> QED  BY <2>1, LeastNatural
  <2>3. t \in 1 .. n /\ w[t] >= i
    BY <1>1, <1>5
  <2>4. ~ (w[t - 1] >= i)
    BY <1>4, <2>2, <2>3
  <2>5. w[t] \in Int /\ w[t - 1] \in Int /\ (w[t] = w[t - 1] \/ w[t] = w[t - 1] + 1)
    BY <1>3, <1>4, <2>3
  <2>6. w[t] > w[t - 1] /\ w[t] = i
    BY <2>3, <2>4, <2>5
  <2> QED  BY <2>3, <2>6
<1>8. ASSUME NEW j \in 1 .. Len(ov)
      PROVE  \E t \in 1 .. n : ~ (w[t] > w[t - 1]) /\ t - w[t] = j
  <2> DEFINE T == {t \in 0 .. n : t - w[t] >= j}
  <2>1. n \in T
    BY <1>0, <1>1, <1>5
  <2>2. PICK t \in T : \A s \in T : t <= s
    <3> T \in SUBSET Nat
      OBVIOUS
    <3> HIDE DEF T
    <3> QED  BY <2>1, LeastNatural
  <2>3. t \in 0 .. n /\ t - w[t] >= j
    OBVIOUS
  <2>4. t # 0
    BY <1>1, <1>5, <2>3
  <2>5. t \in 1 .. n
    BY <1>1, <2>3, <2>4
  <2>6. ~ (t - 1 - w[t - 1] >= j)
    BY <1>4, <2>2, <2>5
  <2>7. /\ t \in Int /\ j \in Int /\ w[t] \in Int /\ w[t - 1] \in Int
        /\ w[t] = w[t - 1] \/ w[t] = w[t - 1] + 1
    BY <1>1, <1>3, <1>4, <2>5
  <2>8. ~ (w[t] > w[t - 1]) /\ t - w[t] = j
    BY <2>3, <2>6, <2>7
  <2> QED  BY <2>5, <2>8
<1>9. ASSUME NEW t \in 1 .. n - 1
      PROVE  Before(side, Reported(win, ov, w, t), Reported(win, ov, w, t + 1))
  <2>0. PICK u \in 1 .. n : u = t + 1 /\ u - 1 = t
    BY <1>1
  <2>1. t \in 1 .. n /\ t \in 0 .. n /\ t \in Int /\ u \in 1 .. n /\ u = t + 1 /\ u - 1 = t
    BY <1>1, <2>0
  <2>2. /\ w[t] \in Int /\ w[u] \in Int /\ w[t - 1] \in Int
        /\ w[u] = w[t] \/ w[u] = w[t] + 1
        /\ w[t] = w[t - 1] \/ w[t] = w[t - 1] + 1
    BY <1>3, <1>4, <2>1
  <2>3. Split(side, win, ov, t, w[t])
    BY <1>2, <2>1
  <2>4. CASE w[t] > w[t - 1] /\ w[u] > w[t]
    <3>1. w[t] \in 1 .. Len(win) /\ w[u] \in 1 .. Len(win)
      BY <1>6, <2>1, <2>4
    <3> QED  BY <2>1, <2>2, <2>4, <3>1 DEF Reported, Mergeable, InOrder
  <2>5. CASE w[t] > w[t - 1] /\ ~ (w[u] > w[t])
    <3>1. w[t] \in 1 .. Len(win) /\ u - w[u] \in 1 .. Len(ov)
      BY <1>6, <2>1, <2>5
    <3>2. w[t] <= w[t] /\ u - w[u] > t - w[t]
      BY <2>1, <2>2, <2>5
    <3>3. Before(side, win[w[t]], ov[u - w[u]])
      BY <2>3, <3>1, <3>2 DEF Split
    <3> QED  BY <2>1, <2>5, <3>3 DEF Reported
  <2>6. CASE ~ (w[t] > w[t - 1]) /\ w[u] > w[t]
    <3>1. t - w[t] \in 1 .. Len(ov) /\ w[u] \in 1 .. Len(win)
      BY <1>6, <2>1, <2>6
    <3>2. w[u] > w[t] /\ t - w[t] <= t - w[t]
      BY <2>1, <2>2, <2>6
    <3>3. Before(side, ov[t - w[t]], win[w[u]])
      BY <2>3, <3>1, <3>2 DEF Split
    <3> QED  BY <2>1, <2>6, <3>3 DEF Reported
  <2>7. CASE ~ (w[t] > w[t - 1]) /\ ~ (w[u] > w[t])
    <3>1. t - w[t] \in 1 .. Len(ov) /\ u - w[u] \in 1 .. Len(ov)
      BY <1>6, <2>1, <2>7
    <3>2. t - w[t] < u - w[u]
      BY <2>1, <2>2, <2>7
    <3> QED  BY <2>1, <2>7, <3>1, <3>2 DEF Reported, Mergeable, InOrder
  <2> QED  BY <2>4, <2>5, <2>6, <2>7
<1> QED  BY <1>0, <1>6, <1>7, <1>8, <1>9 DEF Merged

\* The prices of the window, as collect_window() gives them.
LEMMA WindowPricesFacts ==
  ASSUME NEW L \in Ladders, WellFormed(L), NEW win, win = WindowPrices(L)
  PROVE  /\ win \in Seq(Nat) /\ InOrder(L.side, win)
         /\ Len(win) = Cardinality(L.words) /\ IsFiniteSet(L.words)
         /\ \A i \in 1 .. Len(win) :
               /\ win[i] \in Prices /\ InWindow(L.base, win[i])
               /\ SlotOf(L.base, win[i]) \in L.words
         /\ \A p \in Stored(L) : InWindow(L.base, p) => \E i \in 1 .. Len(win) : win[i] = p
<1>1. /\ L.side \in Sides /\ L.base \in Int /\ L.words \in SUBSET Slots /\ L.words \in SUBSET Nat
  BY LadderAssumption DEF Ladders, Slots
<1>2. IsFiniteSet(L.words)
  <2>1. IsFiniteSet(Slots)
    BY LadderAssumption, FS_Interval DEF Slots
  <2> QED  BY <1>1, <2>1, FS_Subset
<1>3. PICK o : o = Outwards(L.side, L.words)
  OBVIOUS
<1>4. /\ o \in Seq(L.words) /\ Len(o) = Cardinality(L.words) /\ Len(o) \in Nat
      /\ \A s \in L.words : \E i \in 1 .. Len(o) : o[i] = s
      /\ \A i, j \in 1 .. Len(o) : i < j => Before(L.side, o[i], o[j])
  <2>1. ReadsOutwards(L.side, L.words, o)
    BY <1>1, <1>2, <1>3, OutwardsFacts
  <2> QED  BY <2>1 DEF ReadsOutwards, InOrder
<1>5. win = [i \in 1 .. Len(o) |-> PriceOfSlot(L.base, o[i])]
  BY <1>3 DEF WindowPrices
<1>6. \A i \in 1 .. Len(o) : o[i] \in L.words
  BY <1>4, ElementOfSeq
<1>7. ASSUME NEW i \in 1 .. Len(o)
      PROVE  /\ win[i] \in Prices /\ InWindow(L.base, win[i])
             /\ SlotOf(L.base, win[i]) = o[i]
  <2>1. PICK p \in Prices : InWindow(L.base, p) /\ SlotOf(L.base, p) = o[i]
    BY <1>6 DEF WellFormed
  <2>2. win[i] = p
    BY <1>1, <1>5, <2>1, SlotFacts
  <2> QED  BY <2>1, <2>2
<1>8. win \in Seq(Prices) /\ Len(win) = Len(o)
  <2>1. win \in [1 .. Len(o) -> Prices]
    BY <1>5, <1>7
  <2> QED  BY <1>4, <2>1, IsSequence
<1>9. win \in Seq(Nat)
  <2>1. win \in [1 .. Len(o) -> Nat]
    BY <1>5, <1>7, TickFacts
  <2> QED  BY <1>4, <2>1, IsSequence
<1>10. ASSUME NEW i \in 1 .. Len(o), NEW j \in 1 .. Len(o), i < j
       PROVE  Before(L.side, win[i], win[j])
  <2>1. PICK p \in Prices : p = win[i]
    BY <1>7
  <2>2. PICK q \in Prices : q = win[j]
    BY <1>7
  <2>3. /\ InWindow(L.base, p) /\ SlotOf(L.base, p) = o[i]
        /\ InWindow(L.base, q) /\ SlotOf(L.base, q) = o[j]
    BY <1>7, <2>1, <2>2
  <2>4. /\ TickOf(p) \in Nat /\ p = TickOf(p) * TickUnits
        /\ TickOf(q) \in Nat /\ q = TickOf(q) * TickUnits
    BY <2>3, TickFacts DEF InWindow
  <2>5. Before(L.side, o[i], o[j])
    BY <1>4, <1>10
  <2>6. Before(L.side, TickOf(p), TickOf(q))
    BY <1>1, <2>3, <2>4, <2>5 DEF Before, SlotOf
  <2>7. Before(L.side, p, q)
    BY <2>4, <2>6, LadderAssumption DEF Before
  <2> QED  BY <2>1, <2>2, <2>7
<1>11. ASSUME NEW p \in Stored(L), InWindow(L.base, p)
       PROVE  \E i \in 1 .. Len(o) : win[i] = p
  <2>1. p \in Prices /\ SlotOf(L.base, p) \in L.words
    BY <1>11, FindCases DEF Stored
  <2>2. PICK i \in 1 .. Len(o) : o[i] = SlotOf(L.base, p)
    BY <1>4, <2>1
  <2>3. win[i] = p
    BY <1>1, <1>7, <1>11, <2>1, <2>2, SlotFacts
  <2> QED  BY <2>3
<1> QED  BY <1>2, <1>4, <1>6, <1>7, <1>8, <1>9, <1>10, <1>11 DEF InOrder

\* Those of the overflow map.
LEMMA OverflowWalkFacts ==
  ASSUME NEW L \in Ladders, NEW ov, ov = OverflowWalk(L)
  PROVE  /\ ov \in Seq(Nat) /\ InOrder(L.side, ov)
         /\ Len(ov) = Cardinality(OverflowPrices(L)) /\ IsFiniteSet(OverflowPrices(L))
         /\ \A j \in 1 .. Len(ov) : ov[j] \in OverflowPrices(L)
         /\ \A p \in OverflowPrices(L) : \E j \in 1 .. Len(ov) : ov[j] = p
<1>1. L.side \in Sides /\ OverflowPrices(L) \in SUBSET Nat
  <2>1. \A p \in Prices : p \in Nat
    BY TickFacts
  <2> QED  BY <2>1 DEF Ladders, OverflowPrices
<1>2. IsFiniteSet(OverflowPrices(L))
  <2>1. IsFiniteSet(0 .. PriceMod - 1)
    BY LadderAssumption, FS_Interval
  <2>2. OverflowPrices(L) \in SUBSET (0 .. PriceMod - 1)
    BY LadderAssumption DEF OverflowPrices
  <2> QED  BY <2>1, <2>2, FS_Subset
<1>3. ReadsOutwards(L.side, OverflowPrices(L), ov)
  BY <1>1, <1>2, OutwardsFacts DEF OverflowWalk
<1>4. \A j \in 1 .. Len(ov) : ov[j] \in OverflowPrices(L)
  BY <1>3, ElementOfSeq DEF ReadsOutwards
<1>5. ov \in Seq(Nat)
  <2>1. ov \in [1 .. Len(ov) -> OverflowPrices(L)]
    BY <1>3, LenProperties DEF ReadsOutwards
  <2>2. ov \in [1 .. Len(ov) -> Nat]
    BY <1>1, <2>1
  <2> QED  BY <1>3, <2>2, IsSequence DEF ReadsOutwards
<1> QED  BY <1>2, <1>3, <1>4, <1>5 DEF ReadsOutwards

\* The levels find() shows, each once, from the inside outwards.
Walks(L, walk) ==
    /\ Len(walk) = Cardinality(Stored(L)) /\ Len(walk) \in Nat
    /\ \A t \in 1 .. Len(walk) : \E p \in Stored(L) : walk[t] = <<p, Find(L, p)>>
    /\ \A p \in Stored(L) : \E t \in 1 .. Len(walk) : walk[t] = <<p, Find(L, p)>>
    /\ \A t \in 1 .. Len(walk) - 1 : Before(L.side, walk[t][1], walk[t + 1][1])

\* That is what for_each_level() reports of a well-formed ladder.
LEMMA WalkFacts ==
  ASSUME NEW L \in Ladders, WellFormed(L), NEW walk, walk = ForEachLevel(L)
  PROVE  Walks(L, walk)
<1>1. PICK win : win = WindowPrices(L)
  OBVIOUS
<1>2. PICK ov : ov = OverflowWalk(L)
  OBVIOUS
<1>3. PICK w : w = FromWindow(L.side, win, ov)
  OBVIOUS
<1>4. PICK n : n = Len(win) + Len(ov)
  OBVIOUS
<1>5. /\ win \in Seq(Nat) /\ InOrder(L.side, win)
      /\ Len(win) = Cardinality(L.words) /\ IsFiniteSet(L.words)
      /\ \A i \in 1 .. Len(win) :
            /\ win[i] \in Prices /\ InWindow(L.base, win[i])
            /\ SlotOf(L.base, win[i]) \in L.words
      /\ \A p \in Stored(L) : InWindow(L.base, p) => \E i \in 1 .. Len(win) : win[i] = p
  BY <1>1, WindowPricesFacts
<1>6. /\ ov \in Seq(Nat) /\ InOrder(L.side, ov)
      /\ Len(ov) = Cardinality(OverflowPrices(L)) /\ IsFiniteSet(OverflowPrices(L))
      /\ \A j \in 1 .. Len(ov) : ov[j] \in OverflowPrices(L)
      /\ \A p \in OverflowPrices(L) : \E j \in 1 .. Len(ov) : ov[j] = p
  BY <1>2, OverflowWalkFacts
<1>7. \A p \in OverflowPrices(L) : p \in Prices /\ ~ InWindow(L.base, p) /\ p \in Stored(L)
                                   /\ Find(L, p) = L.overflow[p]
  BY FindCases DEF WellFormed, OverflowPrices, Stored
<1>8. \A i \in 1 .. Len(win) : win[i] \in Stored(L)
                               /\ Find(L, win[i]) = L.slots[SlotOf(L.base, win[i])]
  BY <1>5, FindCases DEF Stored, Find
<1>9. Mergeable(L.side, win, ov)
  <2>1. \A i \in 1 .. Len(win), j \in 1 .. Len(ov) : win[i] # ov[j]
    BY <1>5, <1>6, <1>7
  <2>2. L.side \in Sides
    BY DEF Ladders
  <2> QED  BY <1>5, <1>6, <2>1, <2>2 DEF Mergeable
<1>10. Counts(L.side, win, ov, w, Len(win) + Len(ov))
  <2>1. Len(win) \in Nat /\ Len(ov) \in Nat
    BY <1>5, <1>6, LenProperties
  <2> QED  BY <1>3, <2>1, FromWindowCounts
<1>11. Merged(L.side, win, ov, w, n)
  BY <1>4, <1>9, <1>10, MergeFacts
<1>12. n \in Nat /\ Len(win) \in Nat /\ Len(ov) \in Nat
  BY <1>4, <1>5, <1>6, LenProperties
<1>13. walk = [t \in 1 .. n |->
                 IF w[t] > w[t - 1]
                 THEN <<win[w[t]], L.slots[SlotOf(L.base, win[w[t]])]>>
                 ELSE <<ov[t - w[t]], L.overflow[ov[t - w[t]]]>>]
  BY <1>1, <1>2, <1>3, <1>4 DEF ForEachLevel
<1>14. ASSUME NEW t \in 1 .. n
       PROVE  /\ Reported(win, ov, w, t) \in Stored(L)
              /\ walk[t] = <<Reported(win, ov, w, t), Find(L, Reported(win, ov, w, t))>>
  <2>1. CASE w[t] > w[t - 1]
    <3>1. w[t] \in 1 .. Len(win)
      BY <1>11, <2>1 DEF Merged
    <3> QED  BY <1>8, <1>13, <2>1, <3>1 DEF Reported
  <2>2. CASE ~ (w[t] > w[t - 1])
    <3>1. t - w[t] \in 1 .. Len(ov)
      BY <1>11, <2>2 DEF Merged
    <3>2. ov[t - w[t]] \in OverflowPrices(L)
      BY <1>6, <3>1
    <3> QED  BY <1>7, <1>13, <2>2, <3>2 DEF Reported
  <2> QED  BY <2>1, <2>2
<1>15. Len(walk) = n
  <2>1. walk \in [1 .. n -> {walk[t] : t \in 1 .. n}]
    BY <1>13
  <2> QED  BY <1>12, <2>1, IsSequence
<1>16. ASSUME NEW p \in Stored(L) PROVE \E t \in 1 .. n : Reported(win, ov, w, t) = p
  <2>1. CASE InWindow(L.base, p)
    <3>1. PICK i \in 1 .. Len(win) : win[i] = p
      BY <1>5, <2>1
    <3>2. PICK t \in 1 .. n : w[t] > w[t - 1] /\ w[t] = i
      BY <1>11 DEF Merged
    <3> QED  BY <3>1, <3>2 DEF Reported
  <2>2. CASE ~ InWindow(L.base, p)
    <3>1. p \in OverflowPrices(L)
      BY <2>2, FindCases DEF Stored, OverflowPrices
    <3>2. PICK j \in 1 .. Len(ov) : ov[j] = p
      BY <1>6, <3>1
    <3>3. PICK t \in 1 .. n : ~ (w[t] > w[t - 1]) /\ t - w[t] = j
      BY <1>11 DEF Merged
    <3> QED  BY <3>2, <3>3 DEF Reported
  <2> QED  BY <2>1, <2>2
<1>17. n = Cardinality(Stored(L))
  <2> DEFINE W == {p \in Stored(L) : InWindow(L.base, p)}
             at == [i \in 1 .. Len(win) |-> win[i]]
  <2>1. Len(win) \in Nat /\ Len(ov) \in Nat
    BY <1>12
  <2>2. IsFiniteSet(1 .. Len(win)) /\ Cardinality(1 .. Len(win)) = Len(win)
    <3>1. PICK m \in Nat : m = Len(win)
      BY <2>1
    <3>2. IsFiniteSet(1 .. m) /\ Cardinality(1 .. m) = m
      BY FS_Interval
    <3> QED  BY <3>1, <3>2
  <2>3. at \in Bijection(1 .. Len(win), W)
    <3>1. \A i \in 1 .. Len(win) : at[i] \in W
      BY <1>5, <1>8
    <3>2. \A p \in W : \E i \in 1 .. Len(win) : at[i] = p
      BY <1>5
    <3>3. \A i, j \in 1 .. Len(win) : at[i] = at[j] => i = j
      <4> SUFFICES ASSUME NEW i \in 1 .. Len(win), NEW j \in 1 .. Len(win), i # j
                   PROVE  win[i] # win[j]
        OBVIOUS
      <4>1. Before(L.side, win[i], win[j]) \/ Before(L.side, win[j], win[i])
        BY <1>5, <2>1 DEF InOrder
      <4>2. win[i] \in Nat /\ win[j] \in Nat
        BY <1>5, ElementOfSeq
      <4> QED  BY <4>1, <4>2 DEF Before
    <3> HIDE DEF W
    <3>4. at \in [1 .. Len(win) -> W]
      BY <3>1
    <3> HIDE DEF at
    <3> QED  BY <3>2, <3>3, <3>4 DEF Bijection, Injection, Surjection, IsInjective
  <2>4. IsFiniteSet(W) /\ Cardinality(W) = Len(win)
    <3> HIDE DEF W, at
    <3>1. ExistsBijection(1 .. Len(win), W)
      BY <2>3 DEF ExistsBijection
    <3> QED  BY <2>2, <3>1, FS_Bijection
  <2>5. W \cup OverflowPrices(L) = Stored(L)
    <3>1. \A p \in Stored(L) : InWindow(L.base, p) \/ p \in OverflowPrices(L)
      BY FindCases DEF Stored, OverflowPrices
    <3> QED  BY <1>7, <3>1
  <2>6. W \cap OverflowPrices(L) = {}
    BY <1>7
  <2> HIDE DEF W
  <2>7. Cardinality(W \cap OverflowPrices(L)) = 0
    BY <2>6, FS_EmptySet
  <2>8. Cardinality(W \cup OverflowPrices(L)) = Cardinality(W) + Cardinality(OverflowPrices(L)) - 0
    BY <1>6, <2>4, <2>7, FS_Union
  <2>9. Cardinality(Stored(L)) = Len(win) + Len(ov)
    <3>1. Cardinality(Stored(L)) = Cardinality(W \cup OverflowPrices(L))
      BY <2>5
    <3>2. Cardinality(OverflowPrices(L)) = Len(ov)
      BY <1>6
    <3> QED  BY <2>1, <2>4, <2>8, <3>1, <3>2
  <2> QED  BY <1>4, <2>9
<1>18. ASSUME NEW t \in 1 .. n - 1 PROVE Before(L.side, walk[t][1], walk[t + 1][1])
  <2>1. t \in 1 .. n /\ t + 1 \in 1 .. n
    BY <1>12
  <2>2. walk[t][1] = Reported(win, ov, w, t) /\ walk[t + 1][1] = Reported(win, ov, w, t + 1)
    BY <1>14, <2>1
  <2> QED  BY <1>11, <2>2 DEF Merged
<1>19. \A t \in 1 .. n : \E p \in Stored(L) : walk[t] = <<p, Find(L, p)>>
  BY <1>14
<1>20. \A p \in Stored(L) : \E t \in 1 .. n : walk[t] = <<p, Find(L, p)>>
  BY <1>14, <1>16
<1> QED  BY <1>12, <1>15, <1>17, <1>18, <1>19, <1>20 DEF Walks

\* for_each_level() (price_ladder.hpp), after any levels created and erased:
\* as many as size() says, each live level once and with its handle, strictly
\* outwards from the inside, in the window, in overflow or across an edge.
THEOREM LadderWalksInsideOut ==
  ASSUME PricesFit
  PROVE  Spec => []WalkIsInsideOut
<1>1. ASSUME IInv PROVE WalkIsInsideOut
  <2>1. PICK walk : walk = ForEachLevel(ladder)
    OBVIOUS
  <2>2. ladder \in Ladders /\ WellFormed(ladder)
    BY <1>1 DEF IInv, TypeOK
  <2>3. /\ Len(walk) = Cardinality(Stored(ladder)) /\ Len(walk) \in Nat
        /\ \A t \in 1 .. Len(walk) : \E p \in Stored(ladder) : walk[t] = <<p, Find(ladder, p)>>
        /\ \A p \in Stored(ladder) : \E t \in 1 .. Len(walk) : walk[t] = <<p, Find(ladder, p)>>
        /\ \A t \in 1 .. Len(walk) - 1 : Before(ladder.side, walk[t][1], walk[t + 1][1])
    <3>1. Walks(ladder, walk)
      BY <2>1, <2>2, WalkFacts
    <3> QED  BY <3>1 DEF Walks
  <2>4. \A p \in Stored(ladder) : p \in Prices /\ Find(ladder, p) \in Live
                                  /\ price[Find(ladder, p)] = p
    BY <1>1 DEF IInv, Stored
  <2>5. \A h \in Live : price[h] \in Stored(ladder) /\ Find(ladder, price[h]) = h
    BY <1>1, LadderAssumption DEF IInv, TypeOK, Live, Stored
  <2>6. Cardinality(Stored(ladder)) = ladder.levels
    <3> DEFINE at == [h \in Live |-> price[h]]
    <3>1. at \in Bijection(Live, Stored(ladder))
      <4>1. at \in [Live -> Stored(ladder)]
        BY <2>5
      <4>2. \A p \in Stored(ladder) : \E h \in Live : at[h] = p
        BY <2>4
      <4>3. \A g, h \in Live : at[g] = at[h] => g = h
        BY <2>5
      <4> HIDE DEF at
      <4> QED  BY <4>1, <4>2, <4>3 DEF Bijection, Injection, Surjection, IsInjective
    <3>2. ExistsBijection(Live, Stored(ladder))
      <4> HIDE DEF at
      <4> QED  BY <3>1 DEF ExistsBijection
    <3>3. IsFiniteSet(Live) /\ ladder.levels = Cardinality(Live)
      BY <1>1 DEF IInv
    <3> QED  BY <3>2, <3>3, FS_Bijection
  <2>7. {walk[t] : t \in 1 .. Len(walk)} = {<<price[h], h>> : h \in Live}
    <3>1. ASSUME NEW t \in 1 .. Len(walk)
          PROVE  \E h \in Live : walk[t] = <<price[h], h>>
      <4>1. PICK p \in Stored(ladder) : walk[t] = <<p, Find(ladder, p)>>
        BY <2>3
      <4> QED  BY <2>4, <4>1
    <3>2. ASSUME NEW h \in Live
          PROVE  \E t \in 1 .. Len(walk) : walk[t] = <<price[h], h>>
      BY <2>3, <2>5
    <3> QED  BY <3>1, <3>2
  <2> QED  BY <2>1, <2>3, <2>6, <2>7 DEF WalkIsInsideOut
<1> QED  BY <1>1, IInvInvariant, PTL
==============================================================================
