------------------------- MODULE LimitOrderBookProof -------------------------
(***************************************************************************)
(* What the queues of a price-time priority book keep, whatever is added,  *)
(* cut down, removed or replaced: every resting order queued exactly once, *)
(* at its own side and price, and no order passing another.                *)
(***************************************************************************)
EXTENDS LimitOrderBook, BookTypesProof, FiniteSetTheorems, SequenceTheorems

------------------------------------------------------------------------------
(* The book as a value (e, f), for replacing is removing and adding. *)

BookOK(e, f) ==
    /\ e \in [Refs -> Entries \cup {NoOrder}]
    /\ f \in [Sides -> [Prices -> Seq(Refs)]]
    /\ \A ref \in Refs : e[ref] # NoOrder => e[ref].qty > 0
    /\ \A side \in Sides, p \in Prices :
          /\ Distinct(f[side][p])
          /\ \A ref \in Refs : ref \in Range(f[side][p]) <=>
                e[ref] # NoOrder /\ e[ref].side = side /\ e[ref].price = p

\* The invariant: the types, QueuedExactlyOnce, and no order of no shares.
BookInv == BookOK(entry, fifo)

\* The invariant is what QueuedExactlyOnce says of a book with its types.
LEMMA BookInvStated ==
  BookInv <=> /\ BookTypeOK
              /\ QueuedExactlyOnce
              /\ \A ref \in Resting : entry[ref].qty > 0
<1>1. BookTypeOK => (\A side \in Sides, p \in Prices : Range(fifo[side][p]) \subseteq Refs)
  <2> SUFFICES ASSUME BookTypeOK, NEW side \in Sides, NEW p \in Prices
               PROVE  Range(fifo[side][p]) \subseteq Refs
    OBVIOUS
  <2>1. fifo[side][p] \in Seq(Refs)
    BY DEF BookTypeOK
  <2> QED BY <2>1, LenProperties DEF Range
<1>2. ASSUME BookInv
      PROVE  BookTypeOK /\ QueuedExactlyOnce /\ \A ref \in Resting : entry[ref].qty > 0
  <2>1. BookTypeOK
    BY <1>2 DEF BookInv, BookOK, BookTypeOK
  <2>2. ASSUME NEW side \in Sides, NEW p \in Prices
        PROVE  /\ \A i, j \in DOMAIN fifo[side][p] :
                     fifo[side][p][i] = fifo[side][p][j] => i = j
               /\ Range(fifo[side][p]) =
                     {ref \in Resting : entry[ref].side = side /\ entry[ref].price = p}
    <3>1. Distinct(fifo[side][p])
      BY <1>2 DEF BookInv, BookOK
    <3>2. \A ref \in Refs : ref \in Range(fifo[side][p]) <=>
             entry[ref] # NoOrder /\ entry[ref].side = side /\ entry[ref].price = p
      BY <1>2 DEF BookInv, BookOK
    <3>3. Range(fifo[side][p]) \subseteq Refs
      BY <1>1, <2>1
    <3>4. Range(fifo[side][p]) =
             {ref \in Resting : entry[ref].side = side /\ entry[ref].price = p}
      BY <3>2, <3>3 DEF Resting
    <3> QED BY <3>1, <3>4 DEF Distinct
  <2>3. \A ref \in Resting : entry[ref].qty > 0
    BY <1>2 DEF BookInv, BookOK, Resting
  <2> QED BY <2>1, <2>2, <2>3 DEF QueuedExactlyOnce
<1>3. ASSUME BookTypeOK, QueuedExactlyOnce, \A ref \in Resting : entry[ref].qty > 0
      PROVE  BookInv
  <2>1. ASSUME NEW side \in Sides, NEW p \in Prices
        PROVE  /\ Distinct(fifo[side][p])
               /\ \A ref \in Refs : ref \in Range(fifo[side][p]) <=>
                     entry[ref] # NoOrder /\ entry[ref].side = side /\ entry[ref].price = p
    <3>1. Distinct(fifo[side][p])
      BY <1>3 DEF QueuedExactlyOnce, Distinct
    <3>2. Range(fifo[side][p]) =
             {ref \in Resting : entry[ref].side = side /\ entry[ref].price = p}
      BY <1>3 DEF QueuedExactlyOnce
    <3> QED BY <3>1, <3>2 DEF Resting
  <2>2. \A ref \in Refs : entry[ref] # NoOrder => entry[ref].qty > 0
    BY <1>3 DEF Resting
  <2> QED BY <1>3, <2>1, <2>2 DEF BookInv, BookOK, BookTypeOK
<1> QED BY <1>2, <1>3

\* Where an order rests, the queue of its side and price holds it.
LEMMA RestingIsQueued ==
  ASSUME BookInv, NEW ref \in Refs, entry[ref] # NoOrder
  PROVE  /\ entry[ref] \in Entries /\ entry[ref].qty \in Nat /\ entry[ref].qty > 0
         /\ entry[ref].side \in Sides /\ entry[ref].price \in Prices
         /\ fifo[entry[ref].side][entry[ref].price] \in Seq(Refs)
         /\ Distinct(fifo[entry[ref].side][entry[ref].price])
         /\ ref \in Range(fifo[entry[ref].side][entry[ref].price])
<1>1. entry[ref] \in Entries /\ entry[ref].qty > 0
  BY DEF BookInv, BookOK
<1>2. PICK side \in Sides : side = entry[ref].side
  BY <1>1 DEF Entries
<1>3. PICK p \in Prices : p = entry[ref].price
  BY <1>1 DEF Entries
<1>4. /\ fifo[side][p] \in Seq(Refs)
      /\ Distinct(fifo[side][p])
      /\ ref \in Range(fifo[side][p])
  BY <1>2, <1>3 DEF BookInv, BookOK
<1>5. entry[ref].qty \in Nat
  BY <1>1 DEF Entries
<1> QED BY <1>1, <1>2, <1>3, <1>4, <1>5

\* A queue as it becomes when an order leaves the book.
LEMMA WithdrawnQueue ==
  ASSUME BookInv, NEW ref \in Refs, entry[ref] # NoOrder,
         NEW side \in Sides, NEW p \in Prices
  PROVE  /\ Withdrawn(ref)[side][p] \in Seq(Refs)
         /\ Distinct(Withdrawn(ref)[side][p])
         /\ Range(Withdrawn(ref)[side][p]) = Range(fifo[side][p]) \ {ref}
         /\ KeepsOrder(fifo[side][p], Withdrawn(ref)[side][p])
<1>1. /\ fifo \in [Sides -> [Prices -> Seq(Refs)]]
      /\ Distinct(fifo[side][p])
      /\ ref \in Range(fifo[side][p]) <=>
            entry[ref].side = side /\ entry[ref].price = p
  BY DEF BookInv, BookOK
<1>2. PICK q \in Seq(Refs) : q = fifo[side][p]
  BY <1>1
<1>3. entry[ref].side \in Sides /\ entry[ref].price \in Prices
  BY RestingIsQueued
<1>4. CASE entry[ref].side = side /\ entry[ref].price = p
  <2>1. Withdrawn(ref)[side][p] = ClosedUp(q, PlaceOf(q, ref))
    BY <1>1, <1>2, <1>4 DEF Withdrawn
  <2>2. ref \in Range(q) /\ Distinct(q)
    BY <1>1, <1>2, <1>4
  <2> QED BY <1>2, <2>1, <2>2, Leaving
<1>5. CASE ~ (entry[ref].side = side /\ entry[ref].price = p)
  <2>1. Withdrawn(ref)[side][p] = q
    BY <1>1, <1>2, <1>3, <1>5 DEF Withdrawn
  <2>2. ref \notin Range(q) /\ Distinct(q)
    BY <1>1, <1>2, <1>5
  <2>3. KeepsOrder(q, q)
    BY DEF KeepsOrder
  <2> QED BY <1>2, <2>1, <2>2, <2>3
<1> QED BY <1>4, <1>5

\* The book without an order that rested in it.
LEMMA OrderLeaves ==
  ASSUME BookInv, NEW ref \in Refs, entry[ref] # NoOrder
  PROVE  BookOK([entry EXCEPT ![ref] = NoOrder], Withdrawn(ref))
<1>1. PICK e : e = [entry EXCEPT ![ref] = NoOrder]
  OBVIOUS
<1>2. PICK f : f = Withdrawn(ref)
  OBVIOUS
<1>3. /\ entry \in [Refs -> Entries \cup {NoOrder}]
      /\ fifo \in [Sides -> [Prices -> Seq(Refs)]]
  BY DEF BookInv, BookOK
<1>4. /\ e \in [Refs -> Entries \cup {NoOrder}]
      /\ e[ref] = NoOrder
      /\ \A r \in Refs \ {ref} : e[r] = entry[r]
  BY <1>1, <1>3
<1>5. f \in [Sides -> [Prices -> Seq(Refs)]]
  <2>1. \A side \in Sides, p \in Prices : f[side][p] \in Seq(Refs)
    BY <1>2, WithdrawnQueue
  <2>2. DOMAIN f = Sides /\ \A side \in Sides : DOMAIN f[side] = Prices
    BY <1>2, <1>3 DEF Withdrawn
  <2>3. \A side \in Sides : f[side] \in [Prices -> Seq(Refs)]
    <3> SUFFICES ASSUME NEW side \in Sides PROVE f[side] \in [Prices -> Seq(Refs)]
      OBVIOUS
    <3>1. f[side] = [p \in Prices |-> f[side][p]]
      <4>1. fifo[side] = [p \in Prices |-> fifo[side][p]]
        BY <1>3
      <4> QED BY <1>2, <1>3, <4>1, RestingIsQueued DEF Withdrawn
    <3> QED BY <2>1, <3>1
  <2>4. f = [side \in Sides |-> f[side]]
    BY <1>2, <1>3 DEF Withdrawn
  <2> QED BY <2>3, <2>4
<1>6. ASSUME NEW r \in Refs, e[r] # NoOrder PROVE e[r].qty > 0
  BY <1>4, <1>6 DEF BookInv, BookOK
<1>7. ASSUME NEW side \in Sides, NEW p \in Prices
      PROVE  /\ Distinct(f[side][p])
             /\ \A r \in Refs : r \in Range(f[side][p]) <=>
                   e[r] # NoOrder /\ e[r].side = side /\ e[r].price = p
  <2>1. Distinct(f[side][p]) /\ Range(f[side][p]) = Range(fifo[side][p]) \ {ref}
    BY <1>2, WithdrawnQueue
  <2>2. \A r \in Refs : r \in Range(fifo[side][p]) <=>
           entry[r] # NoOrder /\ entry[r].side = side /\ entry[r].price = p
    BY DEF BookInv, BookOK
  <2> QED BY <1>4, <2>1, <2>2
<1>8. BookOK(e, f)
  BY <1>4, <1>5, <1>6, <1>7 DEF BookOK
<1> QED BY <1>1, <1>2, <1>8

\* The book with an order more, at the back of its queue.
LEMMA OrderJoins ==
  ASSUME NEW e, NEW f, BookOK(e, f), NEW ref \in Refs, e[ref] = NoOrder,
         NEW o \in Entries, o.qty > 0
  PROVE  /\ BookOK([e EXCEPT ![ref] = o],
                   [f EXCEPT ![o.side][o.price] = Append(@, ref)])
         /\ ref \notin Range(f[o.side][o.price])
<1>1. PICK e2 : e2 = [e EXCEPT ![ref] = o]
  OBVIOUS
<1>2. PICK f2 : f2 = [f EXCEPT ![o.side][o.price] = Append(@, ref)]
  OBVIOUS
<1>3. /\ e \in [Refs -> Entries \cup {NoOrder}]
      /\ f \in [Sides -> [Prices -> Seq(Refs)]]
  BY DEF BookOK
<1>4. o.side \in Sides /\ o.price \in Prices /\ o # NoOrder
  BY LimitOrderBookAssumption DEF Entries
<1>5. /\ e2 \in [Refs -> Entries \cup {NoOrder}]
      /\ e2[ref] = o
      /\ \A r \in Refs \ {ref} : e2[r] = e[r]
  BY <1>1, <1>3
<1>6. PICK q \in Seq(Refs) : q = f[o.side][o.price]
  BY <1>3, <1>4
<1>7. /\ Distinct(q)
      /\ \A r \in Refs : r \in Range(q) <=>
            e[r] # NoOrder /\ e[r].side = o.side /\ e[r].price = o.price
  BY <1>4, <1>6 DEF BookOK
<1>8. ref \notin Range(q)
  BY <1>7
<1>9. /\ Append(q, ref) \in Seq(Refs)
      /\ Distinct(Append(q, ref))
      /\ Range(Append(q, ref)) = Range(q) \cup {ref}
  BY <1>7, <1>8, Joining
<1>10. /\ f2[o.side][o.price] = Append(q, ref)
       /\ \A side \in Sides, p \in Prices :
             ~ (side = o.side /\ p = o.price) => f2[side][p] = f[side][p]
  BY <1>2, <1>3, <1>4, <1>6
<1>11. f2 \in [Sides -> [Prices -> Seq(Refs)]]
  BY <1>2, <1>3, <1>4, <1>6, <1>9
<1>12. ASSUME NEW r \in Refs, e2[r] # NoOrder PROVE e2[r].qty > 0
  BY <1>5, <1>12 DEF BookOK
<1>13. ASSUME NEW side \in Sides, NEW p \in Prices
       PROVE  /\ Distinct(f2[side][p])
              /\ \A r \in Refs : r \in Range(f2[side][p]) <=>
                    e2[r] # NoOrder /\ e2[r].side = side /\ e2[r].price = p
  <2>1. CASE side = o.side /\ p = o.price
    <3>1. f2[side][p] = Append(q, ref)
      BY <1>10, <2>1
    <3>2. ASSUME NEW r \in Refs
          PROVE  r \in Range(q) \cup {ref} <=>
                    e2[r] # NoOrder /\ e2[r].side = side /\ e2[r].price = p
      BY <1>4, <1>5, <1>7, <2>1
    <3> QED BY <1>9, <3>1, <3>2, Zenon
  <2>2. CASE ~ (side = o.side /\ p = o.price)
    <3>1. f2[side][p] = f[side][p]
      BY <1>10, <2>2
    <3>2. /\ Distinct(f[side][p])
          /\ \A r \in Refs : r \in Range(f[side][p]) <=>
                e[r] # NoOrder /\ e[r].side = side /\ e[r].price = p
      BY DEF BookOK
    <3> QED BY <1>5, <2>2, <3>1, <3>2
  <2> QED BY <2>1, <2>2
<1>14. BookOK(e2, f2)
  BY <1>5, <1>11, <1>12, <1>13 DEF BookOK
<1> QED BY <1>1, <1>2, <1>6, <1>8, <1>14

------------------------------------------------------------------------------
(* The operations. *)

\* What a step does to the places in one queue; KeepsQueues says it of each.
KeepsPlaces(old, new) ==
    \A i, j \in DOMAIN new : i < j =>
        \E k \in DOMAIN old :
            /\ old[k] = new[i]
            /\ \/ j = Len(new)
               \/ \E l \in DOMAIN old : k < l /\ old[l] = new[j]

LEMMA KeepsQueuesStated ==
  KeepsQueues <=> \A side \in Sides, p \in Prices :
                      KeepsPlaces(fifo[side][p], fifo'[side][p])
  BY Zenon DEF KeepsQueues, KeepsPlaces

\* No place changes in a queue that only loses orders.
LEMMA LosingKeepsPlaces ==
  ASSUME NEW q, NEW t, KeepsOrder(q, t)
  PROVE  KeepsPlaces(q, t)
<1>1. ASSUME NEW i \in DOMAIN t, NEW j \in DOMAIN t, i < j
      PROVE  \E k \in DOMAIN q :
                /\ q[k] = t[i]
                /\ j = Len(t) \/ \E l \in DOMAIN q : k < l /\ q[l] = t[j]
  <2>1. PICK k \in DOMAIN q, l \in DOMAIN q : k < l /\ q[k] = t[i] /\ q[l] = t[j]
    BY <1>1, Zenon DEF KeepsOrder
  <2> QED BY <2>1, Zenon
<1> QED BY <1>1, Zenon DEF KeepsPlaces

\* Nor when an order joins at the back of what is left.
LEMMA JoiningKeepsPlaces ==
  ASSUME NEW q \in Seq(Refs), NEW t \in Seq(Refs), KeepsOrder(q, t),
         Range(t) \subseteq Range(q), Distinct(t), NEW r \in Refs, r \notin Range(t)
  PROVE  KeepsPlaces(q, Append(t, r))
<1>1. PICK a : a = Append(t, r)
  OBVIOUS
<1>2. \A i, j \in DOMAIN a : i < j =>
         /\ i \in DOMAIN t /\ a[i] = t[i]
         /\ \/ j = Len(a) /\ a[j] = r
            \/ j \in DOMAIN t /\ a[j] = t[j]
  BY <1>1, Joining
<1>3. ASSUME NEW i \in DOMAIN a, NEW j \in DOMAIN a, i < j
      PROVE  \E k \in DOMAIN q :
                /\ q[k] = a[i]
                /\ j = Len(a) \/ \E l \in DOMAIN q : k < l /\ q[l] = a[j]
  <2>1. i \in DOMAIN t /\ a[i] = t[i]
    BY <1>2, <1>3
  <2>2. CASE j = Len(a)
    <3>1. t[i] \in Range(q)
      BY <2>1 DEF Range
    <3>2. PICK k \in DOMAIN q : q[k] = t[i]
      BY <3>1, Zenon DEF Range
    <3> QED BY <2>1, <2>2, <3>2, Zenon
  <2>3. CASE j \in DOMAIN t /\ a[j] = t[j]
    <3>1. PICK k \in DOMAIN q, l \in DOMAIN q : k < l /\ q[k] = t[i] /\ q[l] = t[j]
      BY <1>3, <2>1, <2>3, Zenon DEF KeepsOrder
    <3> QED BY <2>1, <2>3, <3>1, Zenon
  <2> QED BY <1>2, <1>3, <2>2, <2>3
<1>4. KeepsPlaces(q, a)
  BY <1>3, Zenon DEF KeepsPlaces
<1> QED BY <1>1, <1>4

\* Taking an order out of the book keeps the invariant and the queues.
LEMMA Leaves ==
  ASSUME BookInv, NEW ref \in Refs, entry[ref] # NoOrder,
         entry' = [entry EXCEPT ![ref] = NoOrder], fifo' = Withdrawn(ref)
  PROVE  BookInv' /\ KeepsQueues
<1>1. BookOK(entry', fifo')
  BY OrderLeaves
<1>2. \A side \in Sides, p \in Prices : KeepsPlaces(fifo[side][p], fifo'[side][p])
  BY WithdrawnQueue, LosingKeepsPlaces
<1> QED BY <1>1, <1>2, KeepsQueuesStated DEF BookInv

LEMMA AddKeeps ==
  ASSUME BookInv, NEW ref \in Refs, NEW side \in Sides, NEW p \in Prices, NEW qty \in Nat,
         NEW owner \in Owners, Add(ref, side, p, qty, owner)
  PROVE  BookInv' /\ KeepsQueues
<1>1. PICK o : o = [side |-> side, price |-> p, qty |-> qty, owner |-> owner]
  OBVIOUS
<1>2. o \in Entries /\ o.side = side /\ o.price = p /\ o.qty > 0
  BY <1>1 DEF Entries, Add
<1>3. /\ entry' = [entry EXCEPT ![ref] = o]
      /\ fifo' = [fifo EXCEPT ![o.side][o.price] = Append(@, ref)]
      /\ entry[ref] = NoOrder
  BY <1>1, <1>2 DEF Add
<1>4. BookOK(entry', fifo') /\ ref \notin Range(fifo[side][p])
  BY <1>2, <1>3, OrderJoins DEF BookInv
<1>5. ASSUME NEW s \in Sides, NEW x \in Prices
      PROVE  KeepsPlaces(fifo[s][x], fifo'[s][x])
  <2>1. fifo[s][x] \in Seq(Refs) /\ Distinct(fifo[s][x]) /\ KeepsOrder(fifo[s][x], fifo[s][x])
    BY DEF BookInv, BookOK, KeepsOrder
  <2>2. CASE s = side /\ x = p
    <3>1. fifo'[s][x] = Append(fifo[s][x], ref)
      BY <1>2, <1>3, <2>2 DEF BookInv, BookOK
    <3> QED BY <1>4, <2>1, <2>2, <3>1, JoiningKeepsPlaces
  <2>3. CASE ~ (s = side /\ x = p)
    <3>1. fifo'[s][x] = fifo[s][x]
      BY <1>2, <1>3, <2>3 DEF BookInv, BookOK
    <3> QED BY <2>1, <3>1, LosingKeepsPlaces
  <2> QED BY <2>2, <2>3
<1> QED BY <1>4, <1>5, KeepsQueuesStated DEF BookInv

\* Cutting an order down, or out when nothing is left of it.
LEMMA ReduceKeeps ==
  ASSUME BookInv, NEW ref \in Refs, NEW shares \in Nat, Reduce(ref, shares)
  PROVE  BookInv' /\ KeepsQueues
<1>0. entry[ref] # NoOrder /\ shares <= entry[ref].qty
  BY DEF Reduce
<1>1. CASE shares < entry[ref].qty
  <2>1. PICK o : o = [entry[ref] EXCEPT !.qty = @ - shares]
    OBVIOUS
  <2>2. /\ entry[ref] \in Entries
        /\ entry \in [Refs -> Entries \cup {NoOrder}]
    BY <1>0, RestingIsQueued DEF BookInv, BookOK
  <2>3. /\ o \in Entries /\ o.qty > 0
        /\ o.side = entry[ref].side /\ o.price = entry[ref].price
    BY <1>1, <2>1, <2>2 DEF Entries
  <2>4. entry' = [entry EXCEPT ![ref] = o] /\ fifo' = fifo
    BY <1>1, <2>1, <2>2 DEF Reduce
  <2>5. o # NoOrder
    BY <2>3, LimitOrderBookAssumption DEF Entries
  <2>6. entry' \in [Refs -> Entries \cup {NoOrder}]
    BY <2>2, <2>3, <2>4
  <2>7. \A r \in Refs : entry'[r] # NoOrder => entry'[r].qty > 0
    BY <2>2, <2>3, <2>4 DEF BookInv, BookOK
  <2>8. ASSUME NEW side \in Sides, NEW p \in Prices
        PROVE  /\ Distinct(fifo'[side][p])
               /\ \A r \in Refs : r \in Range(fifo'[side][p]) <=>
                     entry'[r] # NoOrder /\ entry'[r].side = side /\ entry'[r].price = p
    <3>1. /\ Distinct(fifo[side][p])
          /\ \A r \in Refs : r \in Range(fifo[side][p]) <=>
                entry[r] # NoOrder /\ entry[r].side = side /\ entry[r].price = p
      BY DEF BookInv, BookOK
    <3>2. ASSUME NEW r \in Refs
          PROVE  entry[r] # NoOrder /\ entry[r].side = side /\ entry[r].price = p <=>
                 entry'[r] # NoOrder /\ entry'[r].side = side /\ entry'[r].price = p
      <4>1. CASE r = ref
        BY <1>0, <2>2, <2>3, <2>4, <2>5, <4>1
      <4>2. CASE r # ref
        BY <2>2, <2>4, <4>2
      <4> QED BY <4>1, <4>2
    <3> QED BY <2>4, <3>1, <3>2
  <2>9. BookInv'
    BY <2>4, <2>6, <2>7, <2>8 DEF BookInv, BookOK
  <2>10. \A side \in Sides, p \in Prices : KeepsOrder(fifo[side][p], fifo'[side][p])
    BY <2>4 DEF KeepsOrder
  <2> QED BY <2>9, <2>10, LosingKeepsPlaces, KeepsQueuesStated
<1>2. CASE ~ (shares < entry[ref].qty)
  <2>1. entry' = [entry EXCEPT ![ref] = NoOrder] /\ fifo' = Withdrawn(ref)
    BY <1>2 DEF Reduce
  <2> QED BY <1>0, <2>1, Leaves
<1> QED BY <1>1, <1>2

LEMMA RemoveKeeps ==
  ASSUME BookInv, NEW ref \in Refs, Remove(ref)
  PROVE  BookInv' /\ KeepsQueues
  BY Leaves DEF Remove

\* Replacing is removing and adding, also under the same reference.
LEMMA ReplaceKeeps ==
  ASSUME BookInv, NEW old \in Refs, NEW new \in Refs, NEW p \in Prices, NEW qty \in Nat,
         Replace(old, new, p, qty)
  PROVE  BookInv' /\ KeepsQueues
<1>1. PICK o : o = [entry[old] EXCEPT !.price = p, !.qty = qty]
  OBVIOUS
<1>2. entry[old] # NoOrder /\ entry[old] \in Entries
  BY RestingIsQueued DEF Replace
<1>3. /\ o \in Entries /\ o.qty > 0
      /\ o.side = entry[old].side /\ o.side \in Sides /\ o.price = p
  BY <1>1, <1>2 DEF Entries, Replace
<1>4. PICK e : e = [entry EXCEPT ![old] = NoOrder]
  OBVIOUS
<1>5. PICK f : f = Withdrawn(old)
  OBVIOUS
<1>6. BookOK(e, f)
  BY <1>2, <1>4, <1>5, OrderLeaves
<1>7. entry \in [Refs -> Entries \cup {NoOrder}]
  BY DEF BookInv, BookOK
<1>8. e[new] = NoOrder
  BY <1>4, <1>7 DEF Replace
<1>9. entry' = [e EXCEPT ![new] = o]
  BY <1>1, <1>4, <1>7 DEF Replace
<1>10. fifo' = [f EXCEPT ![o.side][o.price] = Append(@, new)]
  BY <1>3, <1>5 DEF Replace
<1>11. /\ BookOK(entry', fifo')
       /\ new \notin Range(f[o.side][o.price])
  BY <1>3, <1>6, <1>8, <1>9, <1>10, OrderJoins
<1>12. ASSUME NEW s \in Sides, NEW x \in Prices
       PROVE  KeepsPlaces(fifo[s][x], fifo'[s][x])
  <2>1. /\ fifo[s][x] \in Seq(Refs) /\ f[s][x] \in Seq(Refs)
        /\ Distinct(f[s][x]) /\ Range(f[s][x]) \subseteq Range(fifo[s][x])
        /\ KeepsOrder(fifo[s][x], f[s][x])
    <3>1. fifo[s][x] \in Seq(Refs)
      BY DEF BookInv, BookOK
    <3>2. /\ f[s][x] \in Seq(Refs)
          /\ Distinct(f[s][x])
          /\ Range(f[s][x]) = Range(fifo[s][x]) \ {old}
          /\ KeepsOrder(fifo[s][x], f[s][x])
      BY <1>2, <1>5, WithdrawnQueue
    <3> QED BY <3>1, <3>2
  <2>2. CASE s = o.side /\ x = o.price
    <3>1. fifo'[s][x] = Append(f[s][x], new)
      BY <1>3, <1>6, <1>10, <2>2 DEF BookOK
    <3>2. new \notin Range(f[s][x])
      BY <1>11, <2>2
    <3> QED BY <2>1, <3>1, <3>2, JoiningKeepsPlaces
  <2>3. CASE ~ (s = o.side /\ x = o.price)
    <3>1. fifo'[s][x] = f[s][x]
      BY <1>3, <1>6, <1>10, <2>3 DEF BookOK
    <3> QED BY <2>1, <3>1, LosingKeepsPlaces
  <2> QED BY <2>2, <2>3
<1> QED BY <1>11, <1>12, KeepsQueuesStated DEF BookInv

LEMMA BookStarts == BookInit => BookInv
<1> SUFFICES ASSUME BookInit PROVE BookInv
  OBVIOUS
<1>1. entry \in [Refs -> Entries \cup {NoOrder}] /\ fifo \in [Sides -> [Prices -> Seq(Refs)]]
  BY DEF BookInit
<1>2. \A ref \in Refs : entry[ref] = NoOrder
  BY DEF BookInit
<1>3. ASSUME NEW side \in Sides, NEW p \in Prices
      PROVE  Distinct(fifo[side][p]) /\ Range(fifo[side][p]) = {}
  BY DEF BookInit, Distinct, Range
<1> QED BY <1>1, <1>2, <1>3 DEF BookInv, BookOK

LEMMA BookSteps == BookInv /\ [BookNext]_bookVars => BookInv' /\ (KeepsQueues \/ UNCHANGED bookVars)
<1> SUFFICES ASSUME BookInv, [BookNext]_bookVars
             PROVE  BookInv' /\ (KeepsQueues \/ UNCHANGED bookVars)
  OBVIOUS
<1> USE LimitOrderBookAssumption
<1>1. ASSUME NEW ref \in Refs, NEW side \in Sides, NEW p \in Prices, NEW qty \in Quantities,
             NEW owner \in Owners, Add(ref, side, p, qty, owner)
      PROVE  BookInv' /\ KeepsQueues
  <2>1. qty \in Nat OBVIOUS
  <2> QED BY <1>1, <2>1, AddKeeps
<1>2. ASSUME NEW ref \in Refs, NEW shares \in Quantities, Reduce(ref, shares)
      PROVE  BookInv' /\ KeepsQueues
  <2>1. shares \in Nat OBVIOUS
  <2> QED BY <1>2, <2>1, ReduceKeeps
<1>3. ASSUME NEW ref \in Refs, Remove(ref) PROVE BookInv' /\ KeepsQueues
  BY <1>3, RemoveKeeps
<1>4. ASSUME NEW old \in Refs, NEW new \in Refs, NEW p \in Prices, NEW qty \in Quantities,
             Replace(old, new, p, qty)
      PROVE  BookInv' /\ KeepsQueues
  <2>1. qty \in Nat OBVIOUS
  <2> QED BY <1>4, <2>1, ReplaceKeeps
<1>5. CASE UNCHANGED bookVars
  BY <1>5 DEF bookVars, BookInv, BookOK
<1> QED BY <1>1, <1>2, <1>3, <1>4, <1>5 DEF BookNext

\* The abstract book never loses, orphans or doubles an order, and lets none
\* pass another: what add(), reduce(), remove() and replace() promise together.
THEOREM BookKeepsPriority ==
  BookSpec => [](BookTypeOK /\ QueuedExactlyOnce) /\ NoQueueJumping
<1>1. BookSpec => []BookInv
  BY BookStarts, BookSteps, PTL DEF BookSpec
<1>2. BookInv => BookTypeOK /\ QueuedExactlyOnce
  BY BookInvStated
<1>3. BookInv /\ [BookNext]_bookVars => [KeepsQueues]_bookVars
  BY BookSteps
<1> QED BY <1>1, <1>2, <1>3, PTL DEF BookSpec, NoQueueJumping
==============================================================================
