----------------------------- MODULE BookBuilder -----------------------------
(***************************************************************************)
(* itch::replay::BookBuilder with a ReplayObserver: one book driven by the *)
(* messages of a feed that carries many stocks.  A stock directory message *)
(* tells which locate code the wanted symbol has; from then on messages    *)
(* are filtered by that code.  The observer keeps, from the messages       *)
(* alone, the quantity that should rest on each side.                      *)
(*                                                                         *)
(* An assertion that fails, in the builder, the book or the observer, ends *)
(* the process: aborted.  Timestamps, the digest of the journal and the    *)
(* text of a symbol are left out.                                          *)
(***************************************************************************)
EXTENDS LimitOrderBook

CONSTANTS
    SymbolOf,       \* the symbol a directory message gives for a locate
    NoSymbol,       \* the empty symbol: take the first one announced
    Wanted,         \* the symbols the builder may be asked for
    Strict,         \* whether a crossed book is an assertion or a counter
    ValidateEvery   \* validate_every_: applied messages between full checks

VARIABLES
    builder,    \* symbol_, locate_ and resolved_
    stats,      \* BuilderStats
    observer,   \* ReplayCounters
    aborted     \* an assertion has failed

builderVars == <<builder, stats, observer, aborted, entry, fifo>>

Operations == {"adds", "executions", "cancels", "deletes", "replaces"}

BuilderStats ==
    [messages |-> 0, applied |-> 0, executed_shares |-> 0, trades_ignored |-> 0,
     crosses_ignored |-> 0, of |-> [op \in Operations |-> 0]]

ReplayCounters ==
    [applied |-> 0, full_validations |-> 0, crossed_states |-> 0, peak_orders |-> 0,
     peak_levels |-> 0, expected_qty |-> [side \in Sides |-> 0]]

BuilderInit ==
    /\ BookInit
    /\ builder \in [symbol : Wanted, locate : {0}, resolved : {FALSE}]
    /\ stats = BuilderStats
    /\ observer = ReplayCounters
    /\ aborted = FALSE

------------------------------------------------------------------------------
(* The observer. *)

Larger(a, b) == IF a > b THEN a ELSE b

TotalQty(side) ==
    SumFunctionOnSet([r \in Resting |-> entry[r].qty], {r \in Resting : entry[r].side = side})

LevelCount == Cardinality(LevelPrices("Buy")) + Cardinality(LevelPrices("Sell"))

\* before_add() and note_reduction(), on the counters.
BeforeAdd(counters, side, qty) == [counters EXCEPT !.expected_qty[side] = @ + qty]

NoteReduction(counters, side, qty) == [counters EXCEPT !.expected_qty[side] = @ - qty]

\* after_apply(): the checks made of the book once it has been updated.
AfterApply(counters) ==
    LET applied == counters.applied + 1
        due     == ValidateEvery # 0 /\ applied % ValidateEvery = 0
    IN  /\ observer' =
             [counters EXCEPT
                 !.applied = applied,
                 !.crossed_states = IF Crossed' THEN @ + 1 ELSE @,
                 !.peak_orders = Larger(@, Cardinality(Resting')),
                 !.peak_levels = Larger(@, LevelCount'),
                 !.full_validations = IF due THEN @ + 1 ELSE @]
        /\ aborted' =
             \/ Strict /\ Crossed'
             \/ \E side \in Sides : TotalQty(side)' # counters.expected_qty[side]
             \/ due /\ ~QueuedExactlyOnce'

------------------------------------------------------------------------------
(* The handlers. *)

\* seen(), for a message that is then left alone.
Seen == stats' = [stats EXCEPT !.messages = @ + 1]

BookUnchanged == UNCHANGED <<entry, fifo, observer, aborted>>

\* A mutant: every stock's messages are taken.
MineWhateverStock(locate) == builder.resolved

Mine(locate) == builder.resolved /\ locate = builder.locate

\* on_stock_directory(): the first one that fits settles it.
OnStockDirectory(m) ==
    /\ Seen
    /\ builder' = IF ~builder.resolved /\ builder.symbol \in {NoSymbol, SymbolOf[m.locate]}
                  THEN [symbol |-> SymbolOf[m.locate], locate |-> m.locate, resolved |-> TRUE]
                  ELSE builder
    /\ BookUnchanged

\* What an applied message counts as.
Counted(op) ==
    stats' = [stats EXCEPT !.messages = @ + 1, !.applied = @ + 1, !.of[op] = @ + 1]

\* An assertion fails before the book has changed.
Abort ==
    /\ aborted' = TRUE
    /\ UNCHANGED <<entry, fifo, observer, stats>>

\* on_add_order() and on_add_order_with_mpid(): do_add().
OnAdd(m) ==
    IF m.shares > 0 /\ entry[m.ref] = NoOrder
    THEN /\ Add(m.ref, m.side, m.price, m.shares, 0)
         /\ AfterApply(BeforeAdd(observer, m.side, m.shares))
         /\ Counted("adds")
    ELSE Abort

Reducible(m) ==
    /\ entry[m.ref] # NoOrder
    /\ observer.expected_qty[entry[m.ref].side] >= m.shares
    /\ entry[m.ref].qty >= m.shares

ReduceObserved(m) ==
    /\ Reduce(m.ref, m.shares)
    /\ AfterApply(NoteReduction(observer, entry[m.ref].side, m.shares))

\* on_order_executed() and on_order_executed_with_price(), whose price is that
\* of the print and not of the order.
OnExecuted(m) ==
    IF Reducible(m)
    THEN /\ ReduceObserved(m)
         /\ stats' = [stats EXCEPT !.messages = @ + 1, !.applied = @ + 1,
                                   !.of["executions"] = @ + 1,
                                   !.executed_shares = @ + m.shares]
    ELSE Abort

OnCancel(m) ==
    IF Reducible(m) THEN ReduceObserved(m) /\ Counted("cancels") ELSE Abort

OnDelete(m) ==
    IF entry[m.ref] # NoOrder
    THEN /\ Remove(m.ref)
         /\ AfterApply(NoteReduction(observer, entry[m.ref].side, entry[m.ref].qty))
         /\ Counted("deletes")
    ELSE Abort

\* A mutant: the observer does not hear of the half that leaves.
OnReplaceAddOnly(m) ==
    IF entry[m.ref] # NoOrder /\ m.shares > 0 /\ (m.new = m.ref \/ entry[m.new] = NoOrder)
    THEN /\ Replace(m.ref, m.new, m.price, m.shares)
         /\ AfterApply(BeforeAdd(observer, entry[m.ref].side, m.shares))
         /\ Counted("replaces")
    ELSE Abort

\* on_order_replace(): the observer sees a delete and an add, the book one call.
OnReplace(m) ==
    IF entry[m.ref] # NoOrder /\ m.shares > 0 /\ (m.new = m.ref \/ entry[m.new] = NoOrder)
    THEN LET side == entry[m.ref].side
         IN  /\ Replace(m.ref, m.new, m.price, m.shares)
             /\ AfterApply(BeforeAdd(NoteReduction(observer, side, entry[m.ref].qty),
                                     side, m.shares))
             /\ Counted("replaces")
    ELSE Abort

\* on_trade_non_cross(), on_broken_trade() and on_cross_trade(): reports that
\* must not touch the book.
OnReport(m) ==
    /\ stats' = [stats EXCEPT
                    !.messages = @ + 1,
                    !.trades_ignored = IF m.kind \in {"P", "B"} /\ Mine(m.locate) THEN @ + 1 ELSE @,
                    !.crosses_ignored = IF m.kind = "Q" /\ Mine(m.locate) THEN @ + 1 ELSE @]
    /\ BookUnchanged
    /\ UNCHANGED builder

\* A message that changes a book, of this builder's stock or of another.
OnBookMessage(m) ==
    /\ m.kind \in {"A", "F", "E", "C", "X", "D", "U"}
    /\ UNCHANGED builder
    /\ IF ~Mine(m.locate) THEN Seen /\ BookUnchanged
       ELSE \/ m.kind \in {"A", "F"} /\ OnAdd(m)
            \/ m.kind \in {"E", "C"} /\ OnExecuted(m)
            \/ m.kind = "X" /\ OnCancel(m)
            \/ m.kind = "D" /\ OnDelete(m)
            \/ m.kind = "U" /\ OnReplace(m)

Handle(m) ==
    /\ ~aborted
    /\ \/ m.kind = "R" /\ OnStockDirectory(m)
       \/ OnBookMessage(m)
       \/ m.kind \in {"P", "Q", "B"} /\ OnReport(m)
==============================================================================
