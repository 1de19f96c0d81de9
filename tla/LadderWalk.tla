----------------------------- MODULE LadderWalk -----------------------------
(***************************************************************************)
(* PriceLadder::for_each_level: the two-way merge of the window's prices   *)
(* and the overflow map's, from the inside outwards, over a ladder that a  *)
(* LadderClient drives.                                                    *)
(***************************************************************************)
EXTENDS LadderClient

\* collect_window: the prices of the set bits, inside first.
WindowPrices(L) ==
    LET slots == Outwards(L.side, L.words)
    IN  [i \in 1 .. Len(slots) |-> PriceOfSlot(L.base, slots[i])]

\* The overflow map, from its last entry down for bids, from its first up for asks.
OverflowWalk(L) == Outwards(L.side, OverflowPrices(L))

\* A pass of the loop of for_each_level, the t-th, of which k before it reported a
\* level of the window: how many do so after it.  wi and oi are at k + 1 and t - k.
AfterPass(side, win, ov, t, k) ==
    IF t - k > Len(ov) \/ (k + 1 <= Len(win) /\ Before(side, win[k + 1], ov[t - k]))
    THEN k + 1 ELSE k

\* The loop: how many of the first t levels it reports come from the window.
FromWindow(side, win, ov) ==
    LET taken[t \in 0 .. Len(win) + Len(ov)] ==
            IF t = 0 THEN 0 ELSE AfterPass(side, win, ov, t, taken[t - 1])
    IN  taken

\* A mutant: the window first, then the overflow map, without a merge.
WindowThenOverflow(L) ==
    LET win == WindowPrices(L)
        ov  == OverflowWalk(L)
    IN  [i \in 1 .. Len(win) |-> <<win[i], L.slots[SlotOf(L.base, win[i])]>>]
        \o [i \in 1 .. Len(ov) |-> <<ov[i], L.overflow[ov[i]]>>]

\* What for_each_level reports, a sequence of <<price, handle>>.
ForEachLevel(L) ==
    LET win   == WindowPrices(L)
        ov    == OverflowWalk(L)
        taken == FromWindow(L.side, win, ov)
    IN  [t \in 1 .. Len(win) + Len(ov) |->
            IF taken[t] > taken[t - 1]
            THEN <<win[taken[t]], L.slots[SlotOf(L.base, win[taken[t]])]>>
            ELSE <<ov[t - taken[t]], L.overflow[ov[t - taken[t]]]>>]

\* The walk reports every live level exactly once, as many as size() says, with
\* its own handle and strictly outwards from the inside, across the window's
\* edges: no rebase loses, doubles or miscounts a level.
WalkIsInsideOut ==
    LET walk == ForEachLevel(ladder)
    IN  /\ Len(walk) = ladder.levels
        /\ {walk[t] : t \in 1 .. Len(walk)} = {<<price[h], h>> : h \in Live}
        /\ \A t \in 1 .. Len(walk) - 1 :
              Before(ladder.side, walk[t][1], walk[t + 1][1])
==============================================================================
