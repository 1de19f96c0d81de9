------------------------------- MODULE Workload -------------------------------
(***************************************************************************)
(* The benchmarks' workload: load_workload() records the operations of one *)
(* stock from the feed, and each pass of bench_book applies them to a      *)
(* fresh book and digests the result.  The digest is represented by the    *)
(* book it is taken of; what the passes cost is left out.  An operation    *)
(* that breaks a precondition of the book ends the process.                *)
(***************************************************************************)
EXTENDS LimitOrderBook

CONSTANTS
    Locates, Symbols, SymbolOf, FeedPrices, MaxMessages,    \* the feed's
    NoSymbol,       \* the empty symbol: take the first one announced
    Wanted,         \* the symbols that may be asked for
    Passes          \* bound: timed passes over the workload

VARIABLES
    market, announced, issued, sent,    \* the feed's
    workload,   \* symbol, locate and the operations recorded
    resolved,   \* resolved_ of the Recorder
    pass,       \* passes begun; 0 while the workload is loaded
    applied,    \* operations applied in this pass
    digests,    \* the final books of the passes so far
    aborted     \* an assertion has failed

Feed == INSTANCE MarketFeed WITH Prices <- FeedPrices

feedVars == <<market, announced, issued, sent>>

vars == <<feedVars, bookVars, workload, resolved, pass, applied, digests, aborted>>

Init ==
    /\ Feed!FeedInit
    /\ BookInit
    /\ workload \in [symbol : Wanted, locate : {0}, ops : {<<>>}]
    /\ resolved = FALSE
    /\ pass = 0
    /\ applied = 0
    /\ digests = {}
    /\ aborted = FALSE

------------------------------------------------------------------------------
(* Recorder *)

Mine(locate) == resolved /\ locate = workload.locate

ResolvesTo(m) ==
    /\ resolved' = TRUE
    /\ workload' = [workload EXCEPT !.symbol = SymbolOf[m.locate], !.locate = m.locate]

OnStockDirectory(m) ==
    IF ~resolved /\ workload.symbol \in {NoSymbol, SymbolOf[m.locate]}
    THEN ResolvesTo(m)
    ELSE UNCHANGED <<workload, resolved>>

\* What is pushed for a message: the operation, without the side of a
\* reduction, which the book knows.
Recorded(m) ==
    CASE m.kind \in {"A", "F"} -> [op |-> "Add", ref |-> m.ref, side |-> m.side, price |-> m.price, qty |-> m.shares]
      [] m.kind \in {"E", "C"} -> [op |-> "Execute", ref |-> m.ref, qty |-> m.shares]
      [] m.kind = "X" -> [op |-> "Cancel", ref |-> m.ref, qty |-> m.shares]
      [] m.kind = "D" -> [op |-> "Delete", ref |-> m.ref]
      [] m.kind = "U" -> [op |-> "Replace", ref |-> m.ref, new |-> m.new, price |-> m.price, qty |-> m.shares]

Record(m) ==
    /\ UNCHANGED resolved
    /\ workload' = IF Mine(m.locate) THEN [workload EXCEPT !.ops = Append(@, Recorded(m))]
                   ELSE workload

\* dispatch(): the Recorder has no handler for reports.
Load(m) ==
    /\ pass = 0
    /\ IF m.kind = "R" THEN OnStockDirectory(m)
       ELSE IF m.kind \in {"P", "Q", "B"} THEN UNCHANGED <<workload, resolved>>
       ELSE Record(m)
    /\ UNCHANGED <<bookVars, pass, applied, digests, aborted>>

------------------------------------------------------------------------------
(* The passes. *)

\* A mutant: the next pass goes on with the book of the last.
BeginOnOldBook ==
    /\ ~aborted
    /\ workload.ops # <<>>
    /\ pass < Passes
    /\ pass = 0 \/ applied = Len(workload.ops)
    /\ pass' = pass + 1
    /\ applied' = 0
    /\ digests' = IF pass = 0 THEN {} ELSE digests \cup {<<entry, fifo>>}
    /\ UNCHANGED <<feedVars, bookVars, workload, resolved, aborted>>

\* one_pass(): a new book.  A workload without operations is refused.
Begin ==
    /\ ~aborted
    /\ workload.ops # <<>>
    /\ pass < Passes
    /\ pass = 0 \/ applied = Len(workload.ops)
    /\ pass' = pass + 1
    /\ applied' = 0
    /\ digests' = IF pass = 0 THEN {} ELSE digests \cup {<<entry, fifo>>}
    /\ entry' = [ref \in Refs |-> NoOrder]
    /\ fifo' = [side \in Sides |-> [p \in Prices |-> <<>>]]
    /\ UNCHANGED <<feedVars, workload, resolved, aborted>>

\* The preconditions of the book an operation has to meet.
Accepted(o) ==
    CASE o.op = "Add" -> o.qty > 0 /\ entry[o.ref] = NoOrder
      [] o.op \in {"Execute", "Cancel"} -> entry[o.ref] # NoOrder /\ o.qty <= entry[o.ref].qty
      [] o.op = "Delete" -> entry[o.ref] # NoOrder
      [] o.op = "Replace" -> /\ entry[o.ref] # NoOrder
                             /\ o.qty > 0
                             /\ o.new = o.ref \/ entry[o.new] = NoOrder

\* apply()
Apply(o) ==
    \/ o.op = "Add" /\ Add(o.ref, o.side, o.price, o.qty, 0)
    \/ o.op \in {"Execute", "Cancel"} /\ Reduce(o.ref, o.qty)
    \/ o.op = "Delete" /\ Remove(o.ref)
    \/ o.op = "Replace" /\ Replace(o.ref, o.new, o.price, o.qty)

ApplyNext ==
    /\ ~aborted
    /\ pass > 0
    /\ applied < Len(workload.ops)
    /\ LET o == workload.ops[applied + 1]
       IN  /\ aborted' = ~Accepted(o)
           /\ IF Accepted(o) THEN Apply(o) ELSE UNCHANGED bookVars
    /\ applied' = applied + 1
    /\ UNCHANGED <<feedVars, workload, resolved, pass, digests>>

Next ==
    \/ \E m \in Feed!Directories \cup Feed!Adds \cup Feed!Reductions \cup Feed!Deletes
                \cup Feed!Replaces \cup Feed!Reports : Feed!SendNext(m) /\ Load(m)
    \/ Begin
    \/ ApplyNext

Spec == Init /\ [][Next]_vars

------------------------------------------------------------------------------
(* Properties. *)

\* The exchange's book of the stock that was recorded.
Market ==
    [ref \in Refs |->
       IF ref \in DOMAIN market /\ SymbolOf[market[ref].locate] = workload.symbol
       THEN [side |-> market[ref].side, price |-> market[ref].price,
             qty |-> market[ref].qty, owner |-> 0]
       ELSE NoOrder]

\* Applied to a fresh book, the operations recorded, which name no stock and no
\* side but that of an add, are all accepted, and rebuild the exchange's book.
Rebuilt ==
    /\ ~aborted
    /\ pass > 0 /\ applied = Len(workload.ops) => entry = Market

\* Every pass ends with the same book, queues included: a digest that differs
\* is never the workload's fault.
DigestsAgree ==
    /\ Cardinality(digests) <= 1
    /\ pass > 0 /\ applied = Len(workload.ops) => digests \subseteq {<<entry, fifo>>}

\* A workload can be replayed any number of times, on one fresh book after
\* another, and always gives the book of the session it was recorded from.
RebuildsTheMarket == Rebuilt /\ DigestsAgree
==============================================================================
