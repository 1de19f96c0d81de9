------------------------------ MODULE MarketFeed ------------------------------
(***************************************************************************)
(* The feed a replay reads: what an exchange that lists several stocks     *)
(* reports of their orders, message by message.  It is not part of the     *)
(* program; what is assumed of it is what the handlers of BookBuilder rely *)
(* on.  A stock has one locate code, under which it is announced before it *)
(* trades, a reference is issued once for the whole session, a message     *)
(* about an order names one that rests, and no stock is shown crossed.     *)
(***************************************************************************)
EXTENDS BookTypes, FiniteSets

CONSTANTS
    Locates,        \* stock locate codes
    Symbols,        \* their symbols
    SymbolOf,       \* SymbolOf[l]: the symbol announced for locate l
    Refs,           \* order reference numbers
    Prices,         \* the prices it names
    Quantities,     \* numbers of shares
    MaxMessages     \* bound: the length of the session

\* What is assumed of the constants, where the module is instantiated.
FeedAssumption ==
    /\ SymbolOf \in [Locates -> Symbols]
    /\ \A l, k \in Locates : SymbolOf[l] = SymbolOf[k] => l = k
    /\ Quantities \subseteq Nat \ {0}
    /\ Prices \subseteq Nat \ {0}
    /\ MaxMessages \in Nat

VARIABLES
    market,     \* the resting orders of all stocks, by reference
    announced,  \* the locates of which a directory message was sent
    issued,     \* the references used so far
    sent        \* the number of messages sent

feedVars == <<market, announced, issued, sent>>

FeedInit ==
    /\ market = <<>>
    /\ announced = {}
    /\ issued = {}
    /\ sent = 0

At(locate, side) == {r \in DOMAIN market : market[r].locate = locate /\ market[r].side = side}

\* Whether an order at price p would meet one of the others on the other side.
Meets(locate, side, p, others) ==
    \E r \in At(locate, Opposite(side)) \cap others :
        p = market[r].price \/ Before(side, p, market[r].price)

\* The market without the orders of a set, and with shares taken off one.
Without(refs) == [r \in DOMAIN market \ refs |-> market[r]]

Taken(ref, shares) ==
    IF shares = market[ref].qty THEN Without({ref})
    ELSE [market EXCEPT ![ref].qty = @ - shares]

With(M, ref, order) ==
    [r \in DOMAIN M \cup {ref} |-> IF r = ref THEN order ELSE M[r]]

Directories == [kind : {"R"}, locate : Locates]
Adds == [kind : {"A", "F"}, locate : Locates, ref : Refs, side : Sides, price : Prices, shares : Quantities]
Reductions == [kind : {"E", "C", "X"}, locate : Locates, ref : Refs, shares : Quantities]
Deletes == [kind : {"D"}, locate : Locates, ref : Refs]
Replaces == [kind : {"U"}, locate : Locates, ref : Refs, new : Refs, price : Prices, shares : Quantities]
Reports == [kind : {"P", "Q", "B"}, locate : Locates]

\* One more message; what each says follows.
Send ==
    /\ sent < MaxMessages
    /\ sent' = sent + 1

\* A directory message, which may be sent again in the course of the day.
SendDirectory(m) ==
    /\ announced' = announced \cup {m.locate}
    /\ UNCHANGED <<market, issued>>

SendAdd(m) ==
    /\ m.locate \in announced
    /\ m.ref \notin issued
    /\ ~Meets(m.locate, m.side, m.price, Refs)
    /\ market' = With(market, m.ref, [locate |-> m.locate, side |-> m.side,
                                      price |-> m.price, qty |-> m.shares])
    /\ issued' = issued \cup {m.ref}
    /\ UNCHANGED announced

Rests(m) == m.ref \in DOMAIN market /\ market[m.ref].locate = m.locate

SendReduction(m) ==
    /\ Rests(m)
    /\ m.shares <= market[m.ref].qty
    /\ market' = Taken(m.ref, m.shares)
    /\ UNCHANGED <<announced, issued>>

SendDelete(m) ==
    /\ Rests(m)
    /\ market' = Without({m.ref})
    /\ UNCHANGED <<announced, issued>>

SendReplace(m) ==
    /\ Rests(m)
    /\ m.new \notin issued
    /\ ~Meets(m.locate, market[m.ref].side, m.price, Refs \ {m.ref})
    /\ market' = With(Without({m.ref}), m.new,
                      [market[m.ref] EXCEPT !.price = m.price, !.qty = m.shares])
    /\ issued' = issued \cup {m.new}
    /\ UNCHANGED announced

\* Reports of trades, which change no displayed order.
SendReport(m) == UNCHANGED <<market, announced, issued>>

SendNext(m) ==
    /\ Send
    /\ \/ m \in Directories /\ SendDirectory(m)
       \/ m \in Adds /\ SendAdd(m)
       \/ m \in Reductions /\ SendReduction(m)
       \/ m \in Deletes /\ SendDelete(m)
       \/ m \in Replaces /\ SendReplace(m)
       \/ m \in Reports /\ SendReport(m)
==============================================================================
