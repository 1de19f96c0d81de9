---------------------------- MODULE FlatBookProof ----------------------------
(***************************************************************************)
(* The flat book for every number of records, references and prices: its   *)
(* handles, links, counts and best prices are exact after every operation, *)
(* and read through them it is the price-time priority book.               *)
(***************************************************************************)
EXTENDS FlatBook, BookTypesProof

------------------------------------------------------------------------------
(* The invariant, of a book as a value B and of the queues ch its links make. *)

Books ==
    [orders : [OrderHandles -> Orders \cup {Free}],
     levels : [LevelHandles -> Levels \cup {Free}],
     index : [Refs -> OrderHandles \cup {Null}],
     ladders : [Sides -> [Prices -> LevelHandles \cup {Null}]],
     stats : Stats,
     best : [Sides -> Prices \cup {kNoPrice}]]

Chains == [LevelHandles -> Seq(OrderHandles)]

Live(B) == {h \in OrderHandles : B.orders[h] # Free}

On(B, lh) == {h \in OrderHandles : B.orders[h] # Free /\ B.orders[h].level = lh}

\* The index leads to exactly the record that holds the reference.
IndexOK(B) ==
    \A ref \in Refs, h \in OrderHandles :
        B.index[ref] = h <=> B.orders[h] # Free /\ B.orders[h].ref = ref

\* A level is stored at one price of one side, its own, and an order is on the
\* level of its side and price.
LaddersOK(B) ==
    /\ \A side \in Sides, p \in Prices : B.ladders[side][p] # Null =>
          /\ B.levels[B.ladders[side][p]] # Free
          /\ B.levels[B.ladders[side][p]].price = p
          /\ \A other \in Sides, x \in Prices :
                B.ladders[other][x] = B.ladders[side][p] => other = side /\ x = p
    /\ \A lh \in LevelHandles : B.levels[lh] # Free =>
          \E side \in Sides, p \in Prices : B.ladders[side][p] = lh
    /\ \A h \in OrderHandles : B.orders[h] # Free =>
          B.ladders[B.orders[h].side][B.orders[h].price] = B.orders[h].level

\* The links of a level make the queue q of the orders on it.
QueueOK(B, q, lh) ==
    /\ Distinct(q)
    /\ Range(q) = On(B, lh)
    /\ B.levels[lh].head = IF Len(q) = 0 THEN Null ELSE q[1]
    /\ B.levels[lh].tail = IF Len(q) = 0 THEN Null ELSE q[Len(q)]
    /\ B.levels[lh].order_count = Len(q)
    /\ \A i \in 1 .. Len(q) :
          /\ B.orders[q[i]].prev = IF i = 1 THEN Null ELSE q[i - 1]
          /\ B.orders[q[i]].next = IF i = Len(q) THEN Null ELSE q[i + 1]

RecordsOK(B, ch) ==
    /\ B \in Books
    /\ ch \in Chains
    /\ IndexOK(B)
    /\ LaddersOK(B)
    /\ \A lh \in LevelHandles : B.levels[lh] # Free => QueueOK(B, ch[lh], lh)

LEMMA Fields ==
  ASSUME NEW B \in Books
  PROVE  /\ B.orders \in [OrderHandles -> Orders \cup {Free}]
         /\ B.levels \in [LevelHandles -> Levels \cup {Free}]
         /\ B.index \in [Refs -> OrderHandles \cup {Null}]
         /\ B.ladders \in [Sides -> [Prices -> LevelHandles \cup {Null}]]
         /\ B.stats \in Stats
         /\ B.best \in [Sides -> Prices \cup {kNoPrice}]
  BY DEF Books

\* level_for() at a price that had no level makes W of B.
Levelled(W, B, lh, side, p) ==
    /\ W \in Books
    /\ W.orders = B.orders /\ W.index = B.index /\ W.best = B.best
    /\ W.levels = [B.levels EXCEPT ![lh] = [total_qty |-> 0, order_count |-> 0,
                                           price |-> p, head |-> Null, tail |-> Null]]
    /\ W.ladders = [B.ladders EXCEPT ![side][p] = lh]
    /\ W.stats.total_qty = B.stats.total_qty
    /\ W.stats.order_count = B.stats.order_count
    /\ W.stats.level_count = [B.stats.level_count EXCEPT ![side] = @ + 1]

LEMMA WithLevelFields ==
  ASSUME NEW B \in Books, NEW lh \in LevelHandles, NEW side \in Sides, NEW p \in Prices,
         B.ladders[side][p] = Null
  PROVE  Levelled(WithLevel(B, lh, side, p), B, lh, side, p)
<1>0. PICK W : W = WithLevel(B, lh, side, p)
  OBVIOUS
<1>1. /\ B.orders \in [OrderHandles -> Orders \cup {Free}]
      /\ B.levels \in [LevelHandles -> Levels \cup {Free}]
      /\ B.index \in [Refs -> OrderHandles \cup {Null}]
      /\ B.ladders \in [Sides -> [Prices -> LevelHandles \cup {Null}]]
      /\ B.stats \in Stats
      /\ B.best \in [Sides -> Prices \cup {kNoPrice}]
  BY Fields
<1>2. PICK l : l = [total_qty |-> 0, order_count |-> 0, price |-> p,
                   head |-> Null, tail |-> Null]
  OBVIOUS
<1>3. l \in Levels
  BY <1>2 DEF Levels
<1>4. W = [B EXCEPT !.levels[lh] = l, !.ladders[side][p] = lh,
                    !.stats.level_count[side] = @ + 1]
  BY <1>0, <1>2 DEF WithLevel
<1>5. /\ W.orders = B.orders /\ W.index = B.index /\ W.best = B.best
      /\ W.levels = [B.levels EXCEPT ![lh] = l]
      /\ W.ladders = [B.ladders EXCEPT ![side][p] = lh]
      /\ W.stats = [B.stats EXCEPT !.level_count[side] = @ + 1]
  <2>1. DOMAIN B = {"orders", "levels", "index", "ladders", "stats", "best"}
    BY DEF Books
  <2>2. W.orders = B.orders
    BY <1>4, <2>1
  <2>3. W.levels = [B.levels EXCEPT ![lh] = l]
    BY <1>4, <2>1
  <2>4. W.ladders = [B.ladders EXCEPT ![side][p] = lh]
    BY <1>4, <2>1
  <2>5. W.stats = [B.stats EXCEPT !.level_count[side] = @ + 1]
    BY <1>4, <2>1
  <2>6. W.index = B.index /\ W.best = B.best
    BY <1>4, <2>1
  <2> QED BY <2>2, <2>3, <2>4, <2>5, <2>6
<1>6. /\ W.stats.total_qty = B.stats.total_qty
      /\ W.stats.order_count = B.stats.order_count
      /\ W.stats.level_count = [B.stats.level_count EXCEPT ![side] = @ + 1]
      /\ W.stats \in Stats
  <2>1. PICK st \in Stats : st = B.stats
    BY <1>1
  <2>2. PICK n : n = W.stats
    OBVIOUS
  <2>3. n = [st EXCEPT !.level_count[side] = @ + 1]
    BY <1>5, <2>1, <2>2
  <2>5. n.total_qty = st.total_qty /\ n.order_count = st.order_count
    BY <2>3 DEF Stats
  <2>6. n.level_count = [st.level_count EXCEPT ![side] = @ + 1]
    BY <2>3 DEF Stats
  <2>7. n \in Stats
    BY <2>3 DEF Stats
  <2> QED BY <2>1, <2>2, <2>5, <2>6, <2>7
<1>7. W.levels \in [LevelHandles -> Levels \cup {Free}]
  BY <1>1, <1>3, <1>5
<1>8. W.ladders \in [Sides -> [Prices -> LevelHandles \cup {Null}]]
  BY <1>1, <1>5
<1>9. W = [orders |-> W.orders, levels |-> W.levels, index |-> W.index,
          ladders |-> W.ladders, stats |-> W.stats, best |-> W.best]
  BY <1>4 DEF Books
<1>10. W \in Books
  BY <1>1, <1>5, <1>6, <1>7, <1>8, <1>9 DEF Books
<1> QED BY <1>0, <1>2, <1>5, <1>6, <1>10 DEF Levelled

\* Every order is on a level in use, the one its side stores at its price.
LEMMA OrderPlaced ==
  ASSUME NEW B \in Books, LaddersOK(B), NEW h \in OrderHandles, B.orders[h] # Free
  PROVE  /\ B.orders[h] \in Orders
         /\ B.orders[h].side \in Sides /\ B.orders[h].price \in Prices
         /\ B.orders[h].level \in LevelHandles /\ B.orders[h].level # Null
         /\ B.levels[B.orders[h].level] \in Levels
         /\ B.levels[B.orders[h].level] # Free
         /\ B.ladders[B.orders[h].side][B.orders[h].price] = B.orders[h].level
<1>1. PICK o \in Orders : o = B.orders[h]
  BY Fields
<1>2. /\ o.side \in Sides /\ o.price \in Prices /\ o.level \in LevelHandles /\ o.level # Null
  BY FlatBookAssumption DEF Orders
<1>3. B.ladders[o.side][o.price] = o.level
  BY <1>1 DEF LaddersOK
<1>4. B.levels[o.level] # Free
  BY <1>2, <1>3 DEF LaddersOK
<1>5. B.levels[o.level] \in Levels
  BY <1>2, <1>4, Fields
<1> QED BY <1>1, <1>2, <1>3, <1>4, <1>5

LEMMA WithLevelKeeps ==
  ASSUME NEW B, NEW ch, RecordsOK(B, ch), NEW side \in Sides, NEW p \in Prices,
         NEW lh \in LevelHandles, B.ladders[side][p] = Null, B.levels[lh] = Free,
         NEW W, W = WithLevel(B, lh, side, p)
  PROVE  /\ RecordsOK(W, [ch EXCEPT ![lh] = << >>])
         /\ W.ladders[side][p] = lh /\ W.levels[lh] # Free
<1>1. B \in Books /\ ch \in Chains /\ IndexOK(B) /\ LaddersOK(B)
  BY DEF RecordsOK
<1>2. PICK l : l = [total_qty |-> 0, order_count |-> 0, price |-> p,
                   head |-> Null, tail |-> Null]
  OBVIOUS
<1>3. /\ W \in Books
      /\ W.orders = B.orders /\ W.index = B.index
      /\ W.levels = [B.levels EXCEPT ![lh] = l]
      /\ W.ladders = [B.ladders EXCEPT ![side][p] = lh]
  <2>1. Levelled(W, B, lh, side, p)
    BY <1>1, WithLevelFields
  <2> QED BY <1>2, <2>1 DEF Levelled
<1>4. /\ l.price = p /\ l.head = Null /\ l.tail = Null /\ l.order_count = 0
      /\ l # Free
  BY <1>2, FreeAssumption DEF Levels
<1>5. /\ W.levels[lh] = l
      /\ \A x \in LevelHandles \ {lh} : W.levels[x] = B.levels[x]
  BY <1>1, <1>3, Fields
<1>6. /\ W.ladders[side][p] = lh
      /\ \A s \in Sides, x \in Prices : ~ (s = side /\ x = p) =>
            W.ladders[s][x] = B.ladders[s][x]
  BY <1>1, <1>3, Fields
<1>7. lh # Null
  BY FlatBookAssumption
<1>8. \A s \in Sides, x \in Prices : B.ladders[s][x] # lh
  BY <1>1, <1>7 DEF LaddersOK
<1>9. PICK c : c = [ch EXCEPT ![lh] = << >>]
  OBVIOUS
<1>10. /\ c \in Chains /\ c[lh] = << >>
       /\ \A x \in LevelHandles \ {lh} : c[x] = ch[x]
  BY <1>1, <1>9 DEF Chains
<1>11. IndexOK(W)
  BY <1>1, <1>3 DEF IndexOK
<1>12. LaddersOK(W)
  <2>1. ASSUME NEW s \in Sides, NEW x \in Prices, W.ladders[s][x] # Null
        PROVE  /\ W.levels[W.ladders[s][x]] # Free
               /\ W.levels[W.ladders[s][x]].price = x
               /\ \A other \in Sides, y \in Prices :
                     W.ladders[other][y] = W.ladders[s][x] => other = s /\ y = x
    <3>1. CASE s = side /\ x = p
      BY <1>4, <1>5, <1>6, <1>8, <3>1
    <3>2. CASE ~ (s = side /\ x = p)
      <4>1. W.ladders[s][x] = B.ladders[s][x] /\ B.ladders[s][x] \in LevelHandles \ {lh}
        BY <1>1, <1>6, <1>8, <2>1, <3>2, Fields
      <4>2. /\ B.levels[B.ladders[s][x]] # Free
            /\ B.levels[B.ladders[s][x]].price = x
            /\ \A other \in Sides, y \in Prices :
                  B.ladders[other][y] = B.ladders[s][x] => other = s /\ y = x
        BY <1>1, <2>1, <4>1 DEF LaddersOK
      <4> QED BY <1>5, <1>6, <4>1, <4>2
    <3> QED BY <3>1, <3>2
  <2>2. ASSUME NEW x \in LevelHandles, W.levels[x] # Free
        PROVE  \E s \in Sides, y \in Prices : W.ladders[s][y] = x
    <3>1. CASE x = lh
      BY <1>6, <3>1
    <3>2. CASE x # lh
      <4>1. PICK s \in Sides, y \in Prices : B.ladders[s][y] = x
        BY <1>1, <1>5, <2>2, <3>2 DEF LaddersOK
      <4>2. x # Null
        BY FlatBookAssumption
      <4>3. W.ladders[s][y] = x
        BY <1>1, <1>6, <4>1, <4>2
      <4> QED BY <4>3
    <3> QED BY <3>1, <3>2
  <2>3. ASSUME NEW h \in OrderHandles, W.orders[h] # Free
        PROVE  W.ladders[W.orders[h].side][W.orders[h].price] = W.orders[h].level
    <3>1. /\ B.orders[h].side \in Sides /\ B.orders[h].price \in Prices
          /\ B.orders[h].level # Null
          /\ B.ladders[B.orders[h].side][B.orders[h].price] = B.orders[h].level
      BY <1>1, <1>3, <2>3, OrderPlaced
    <3> QED BY <1>3, <1>6, <3>1
  <2> QED BY <2>1, <2>2, <2>3 DEF LaddersOK
<1>13. ASSUME NEW x \in LevelHandles, W.levels[x] # Free PROVE QueueOK(W, c[x], x)
  <2>1. CASE x = lh
    <3>1. On(W, x) = {}
      <4>1. \A h \in OrderHandles : B.orders[h] # Free => B.orders[h].level # lh
        BY <1>1, OrderPlaced
      <4> QED BY <1>3, <2>1, <4>1 DEF On
    <3>2. Range(c[x]) = {} /\ Distinct(c[x]) /\ Len(c[x]) = 0
      BY <1>10, <2>1 DEF Range, Distinct
    <3> QED BY <1>4, <1>5, <2>1, <3>1, <3>2 DEF QueueOK
  <2>2. CASE x # lh
    <3>1. QueueOK(B, ch[x], x) /\ c[x] = ch[x] /\ W.levels[x] = B.levels[x]
      BY <1>5, <1>10, <1>13, <2>2 DEF RecordsOK
    <3>2. On(W, x) = On(B, x)
      BY <1>3 DEF On
    <3> QED BY <1>3, <3>1, <3>2 DEF QueueOK
  <2> QED BY <2>1, <2>2
<1>14. RecordsOK(W, c)
  BY <1>3, <1>10, <1>11, <1>12, <1>13 DEF RecordsOK
<1> QED BY <1>4, <1>5, <1>6, <1>9, <1>14

\* Two contents of a record that differ in their links and quantity at most.
SameOrder(a, b) ==
    /\ a # Free /\ b # Free
    /\ a.ref = b.ref /\ a.price = b.price /\ a.side = b.side /\ a.owner = b.owner
    /\ a.level = b.level

\* An order at the back of level lh makes E of W.
Joined(E, W, oh, lh, ref, side, p, qty, owner) ==
    /\ E \in Books
    /\ E.ladders = W.ladders /\ E.best = W.best
    /\ E.orders[oh] = [ref |-> ref, qty |-> qty, price |-> p, side |-> side,
                      owner |-> owner, prev |-> W.levels[lh].tail, next |-> Null,
                      level |-> lh]
    /\ \A h \in OrderHandles \ {oh} :
          \/ W.orders[h] = Free /\ E.orders[h] = Free
          \/ /\ SameOrder(E.orders[h], W.orders[h])
             /\ E.orders[h].qty = W.orders[h].qty
             /\ E.orders[h].prev = W.orders[h].prev
             /\ E.orders[h].next = IF h = W.levels[lh].tail THEN oh ELSE W.orders[h].next
    /\ E.levels[lh] \in Levels
    /\ E.levels[lh].price = W.levels[lh].price
    /\ E.levels[lh].head = IF W.levels[lh].tail = Null THEN oh ELSE W.levels[lh].head
    /\ E.levels[lh].tail = oh
    /\ E.levels[lh].total_qty = W.levels[lh].total_qty + qty
    /\ E.levels[lh].order_count = W.levels[lh].order_count + 1
    /\ \A x \in LevelHandles \ {lh} : E.levels[x] = W.levels[x]
    /\ E.index = [W.index EXCEPT ![ref] = oh]
    /\ E.stats.total_qty = [W.stats.total_qty EXCEPT ![side] = @ + qty]
    /\ E.stats.order_count = W.stats.order_count + 1
    /\ E.stats.level_count = W.stats.level_count

LEMMA EnqueuedFields ==
  ASSUME NEW W \in Books, NEW oh \in OrderHandles, NEW lh \in LevelHandles,
         NEW ref \in Refs, NEW side \in Sides, NEW p \in Prices, NEW qty \in Nat,
         NEW owner \in Owners,
         W.levels[lh] # Free,
         W.levels[lh].tail # Null => W.orders[W.levels[lh].tail] # Free
  PROVE  Joined(Enqueued(W, oh, lh, ref, side, p, qty, owner), W, oh, lh,
                ref, side, p, qty, owner)
<1>0. PICK E : E = Enqueued(W, oh, lh, ref, side, p, qty, owner)
  OBVIOUS
<1>1. /\ W.orders \in [OrderHandles -> Orders \cup {Free}]
      /\ W.levels \in [LevelHandles -> Levels \cup {Free}]
      /\ W.index \in [Refs -> OrderHandles \cup {Null}]
      /\ W.stats \in Stats
  BY Fields
<1>2. PICK l \in Levels : l = W.levels[lh]
  BY <1>1
<1>3. PICK tail \in OrderHandles \cup {Null} : tail = l.tail
  BY DEF Levels
<1>4. PICK o : o = [ref |-> ref, qty |-> qty, price |-> p, side |-> side, owner |-> owner,
                   prev |-> tail, next |-> Null, level |-> lh]
  OBVIOUS
<1>5. o \in Orders /\ o # Free
  <2>1. o \in Orders
    BY <1>4 DEF Orders
  <2> QED BY <2>1, FreeAssumption
<1>6. PICK m : m = [l EXCEPT !.head = IF tail = Null THEN oh ELSE @, !.tail = oh,
                            !.total_qty = @ + qty, !.order_count = @ + 1]
  OBVIOUS
<1>7. /\ m \in Levels /\ m.price = l.price
      /\ m.head = (IF tail = Null THEN oh ELSE l.head) /\ m.tail = oh
      /\ m.total_qty = l.total_qty + qty /\ m.order_count = l.order_count + 1
  <2>1. /\ l.total_qty + qty \in Int /\ l.order_count + 1 \in Int
        /\ l.price \in Prices /\ l.head \in OrderHandles \cup {Null}
    BY DEF Levels
  <2>2. PICK n : n = l.total_qty + qty
    OBVIOUS
  <2>3. PICK k : k = l.order_count + 1
    OBVIOUS
  <2>4. m = [total_qty |-> n, order_count |-> k, price |-> l.price,
             head |-> IF tail = Null THEN oh ELSE l.head, tail |-> oh]
    BY <1>6, <2>2, <2>3 DEF Levels
  <2> QED BY <2>1, <2>2, <2>3, <2>4 DEF Levels
<1>8. PICK os : os = [h \in OrderHandles |->
                       IF h = oh THEN o
                       ELSE IF h = tail THEN [W.orders[h] EXCEPT !.next = oh]
                       ELSE W.orders[h]]
  OBVIOUS
<1>9. E = [W EXCEPT !.orders = os, !.levels[lh] = m, !.index[ref] = oh,
                    !.stats.total_qty[side] = @ + qty, !.stats.order_count = @ + 1]
  BY <1>0, <1>2, <1>3, <1>4, <1>6, <1>8 DEF Enqueued
<1>10. DOMAIN W = {"orders", "levels", "index", "ladders", "stats", "best"}
  BY DEF Books
<1>11. E.orders = os
  BY <1>9, <1>10
<1>12. E.levels = [W.levels EXCEPT ![lh] = m]
  BY <1>9, <1>10
<1>13. E.index = [W.index EXCEPT ![ref] = oh]
  BY <1>9, <1>10
<1>14. E.stats = [W.stats EXCEPT !.total_qty[side] = @ + qty, !.order_count = @ + 1]
  BY <1>9, <1>10
<1>15. E.ladders = W.ladders /\ E.best = W.best
  BY <1>9, <1>10
<1>16. /\ E.stats.total_qty = [W.stats.total_qty EXCEPT ![side] = @ + qty]
       /\ E.stats.order_count = W.stats.order_count + 1
       /\ E.stats.level_count = W.stats.level_count
       /\ E.stats \in Stats
  <2>1. PICK st \in Stats : st = W.stats
    BY <1>1
  <2>2. PICK n : n = [st EXCEPT !.total_qty[side] = @ + qty, !.order_count = @ + 1]
    OBVIOUS
  <2>3. n.total_qty = [st.total_qty EXCEPT ![side] = @ + qty]
    BY <2>2 DEF Stats
  <2>4. n.order_count = st.order_count + 1 /\ n.level_count = st.level_count
    BY <2>2 DEF Stats
  <2>5. n \in Stats
    <3>1. n = [total_qty |-> n.total_qty, level_count |-> n.level_count,
               order_count |-> n.order_count]
      BY <2>2 DEF Stats
    <3>2. st.total_qty \in [Sides -> Int] /\ st.order_count \in Int
          /\ st.level_count \in [Sides -> Int]
      BY DEF Stats
    <3>3. n.total_qty \in [Sides -> Int]
      BY <2>3, <3>2
    <3> QED BY <2>4, <3>1, <3>2, <3>3 DEF Stats
  <2> QED BY <1>14, <2>1, <2>2, <2>3, <2>4, <2>5
<1>17. os[oh] = o
  BY <1>8
<1>18. ASSUME NEW h \in OrderHandles \ {oh}
       PROVE  /\ os[h] \in Orders \cup {Free}
              /\ \/ W.orders[h] = Free /\ os[h] = Free
                 \/ /\ SameOrder(os[h], W.orders[h])
                    /\ os[h].qty = W.orders[h].qty
                    /\ os[h].prev = W.orders[h].prev
                    /\ os[h].next = IF h = tail THEN oh ELSE W.orders[h].next
  <2>1. CASE h = tail
    <3>1. W.orders[h] # Free
      BY <1>2, <1>3, <2>1, FlatBookAssumption
    <3>2. PICK a \in Orders : a = W.orders[h]
      BY <1>1, <3>1
    <3>3. PICK b : b = [a EXCEPT !.next = oh]
      OBVIOUS
    <3>4. /\ b \in Orders /\ b.ref = a.ref /\ b.price = a.price /\ b.side = a.side
          /\ b.owner = a.owner /\ b.level = a.level /\ b.qty = a.qty
          /\ b.prev = a.prev /\ b.next = oh
      BY <3>3 DEF Orders
    <3>5. b # Free /\ a # Free
      BY <3>4, FreeAssumption
    <3>6. os[h] = b
      BY <1>8, <2>1, <3>2, <3>3
    <3> QED BY <2>1, <3>2, <3>4, <3>5, <3>6 DEF SameOrder
  <2>2. CASE h # tail
    <3>1. os[h] = W.orders[h]
      BY <1>8, <2>2
    <3> QED BY <1>1, <2>2, <3>1 DEF SameOrder
  <2> QED BY <2>1, <2>2
<1>19. os \in [OrderHandles -> Orders \cup {Free}]
  <2>1. \A h \in OrderHandles : os[h] \in Orders \cup {Free}
    BY <1>5, <1>17, <1>18
  <2> QED BY <1>8, <2>1
<1>20. /\ E.levels \in [LevelHandles -> Levels \cup {Free}]
       /\ E.levels[lh] = m
       /\ \A x \in LevelHandles \ {lh} : E.levels[x] = W.levels[x]
  BY <1>1, <1>7, <1>12
<1>21. E.index \in [Refs -> OrderHandles \cup {Null}]
  BY <1>1, <1>13
<1>22. E = [orders |-> E.orders, levels |-> E.levels, index |-> E.index,
           ladders |-> E.ladders, stats |-> E.stats, best |-> E.best]
  BY <1>9 DEF Books
<1>23. E \in Books
  <2>1. E.ladders \in [Sides -> [Prices -> LevelHandles \cup {Null}]]
    BY <1>15, Fields
  <2>2. E.best \in [Sides -> Prices \cup {kNoPrice}]
    BY <1>15, Fields
  <2>3. E.orders \in [OrderHandles -> Orders \cup {Free}]
    BY <1>11, <1>19
  <2> QED BY <1>16, <1>20, <1>21, <1>22, <2>1, <2>2, <2>3 DEF Books
<1>24. Joined(E, W, oh, lh, ref, side, p, qty, owner)
  <2>1. E.orders[oh] = [ref |-> ref, qty |-> qty, price |-> p, side |-> side,
                      owner |-> owner, prev |-> W.levels[lh].tail, next |-> Null,
                      level |-> lh]
    BY <1>2, <1>3, <1>4, <1>11, <1>17
  <2>2. \A h \in OrderHandles \ {oh} :
          \/ W.orders[h] = Free /\ E.orders[h] = Free
          \/ /\ SameOrder(E.orders[h], W.orders[h])
             /\ E.orders[h].qty = W.orders[h].qty
             /\ E.orders[h].prev = W.orders[h].prev
             /\ E.orders[h].next = IF h = W.levels[lh].tail THEN oh ELSE W.orders[h].next
    BY <1>2, <1>3, <1>11, <1>18
  <2>3. /\ E.levels[lh] \in Levels
        /\ E.levels[lh].price = W.levels[lh].price
        /\ E.levels[lh].head = IF W.levels[lh].tail = Null THEN oh ELSE W.levels[lh].head
        /\ E.levels[lh].tail = oh
        /\ E.levels[lh].total_qty = W.levels[lh].total_qty + qty
        /\ E.levels[lh].order_count = W.levels[lh].order_count + 1
    BY <1>2, <1>3, <1>7, <1>20
  <2> QED BY <1>13, <1>15, <1>16, <1>20, <1>23, <2>1, <2>2, <2>3 DEF Joined
<1> QED BY <1>0, <1>24

\* The queue a level in use has.
LEMMA Queued ==
  ASSUME NEW B, NEW ch, RecordsOK(B, ch), NEW lh \in LevelHandles, B.levels[lh] # Free
  PROVE  /\ ch[lh] \in Seq(OrderHandles) /\ Len(ch[lh]) \in Nat
         /\ DOMAIN ch[lh] = 1 .. Len(ch[lh])
         /\ QueueOK(B, ch[lh], lh)
         /\ \A i \in 1 .. Len(ch[lh]) :
               /\ ch[lh][i] \in OrderHandles
               /\ B.orders[ch[lh][i]] # Free /\ B.orders[ch[lh][i]].level = lh
         /\ \A i, j \in 1 .. Len(ch[lh]) : ch[lh][i] = ch[lh][j] => i = j
         /\ \A h \in OrderHandles : B.orders[h] # Free /\ B.orders[h].level = lh =>
               \E i \in 1 .. Len(ch[lh]) : ch[lh][i] = h
<1>1. ch[lh] \in Seq(OrderHandles) /\ QueueOK(B, ch[lh], lh)
  BY DEF RecordsOK, Chains
<1>2. PICK q \in Seq(OrderHandles) : q = ch[lh]
  BY <1>1
<1>3. Len(q) \in Nat /\ DOMAIN q = 1 .. Len(q)
  BY LenProperties
<1>4. Distinct(q) /\ Range(q) = On(B, lh)
  BY <1>1, <1>2 DEF QueueOK
<1>5. \A i \in 1 .. Len(q) : q[i] \in On(B, lh)
  BY <1>3, <1>4 DEF Range
<1>6. \A i, j \in 1 .. Len(q) : q[i] = q[j] => i = j
  BY <1>3, <1>4 DEF Distinct
<1>7. \A h \in On(B, lh) : \E i \in 1 .. Len(q) : q[i] = h
  BY <1>3, <1>4 DEF Range
<1> QED BY <1>1, <1>2, <1>3, <1>5, <1>6, <1>7 DEF On

LEMMA JoinedKeeps ==
  ASSUME NEW W, NEW ch, RecordsOK(W, ch),
         NEW oh \in OrderHandles, W.orders[oh] = Free, NEW lh \in LevelHandles,
         NEW ref \in Refs, W.index[ref] = Null,
         NEW side \in Sides, NEW p \in Prices, W.ladders[side][p] = lh,
         NEW qty \in Nat, NEW owner \in Owners,
         NEW E, Joined(E, W, oh, lh, ref, side, p, qty, owner)
  PROVE  RecordsOK(E, [ch EXCEPT ![lh] = Append(ch[lh], oh)])
<1>1. W \in Books /\ ch \in Chains /\ IndexOK(W) /\ LaddersOK(W)
  BY DEF RecordsOK
<1>2. lh # Null /\ oh # Null
  BY FlatBookAssumption
<1>3. W.levels[lh] # Free
  BY <1>1, <1>2 DEF LaddersOK
<1>4. PICK q \in Seq(OrderHandles) : q = ch[lh]
  BY <1>3, Queued
<1>5. /\ Len(q) \in Nat /\ DOMAIN q = 1 .. Len(q)
      /\ QueueOK(W, q, lh)
      /\ \A i \in 1 .. Len(q) :
            q[i] \in OrderHandles /\ W.orders[q[i]] # Free /\ W.orders[q[i]].level = lh
      /\ \A i, j \in 1 .. Len(q) : q[i] = q[j] => i = j
      /\ \A h \in OrderHandles : W.orders[h] # Free /\ W.orders[h].level = lh =>
            \E i \in 1 .. Len(q) : q[i] = h
  BY <1>3, <1>4, Queued
<1>6. oh \notin Range(q)
  BY <1>5 DEF Range
<1>7. PICK t : t = Append(q, oh)
  OBVIOUS
<1>8. /\ t \in Seq(OrderHandles) /\ Distinct(t) /\ Range(t) = Range(q) \cup {oh}
      /\ Len(t) = Len(q) + 1 /\ t[Len(q) + 1] = oh
      /\ \A i \in 1 .. Len(q) : t[i] = q[i]
  <2>1. Distinct(q)
    BY <1>5 DEF QueueOK
  <2>2. t \in Seq(OrderHandles) /\ Distinct(t) /\ Range(t) = Range(q) \cup {oh}
    BY <1>6, <1>7, <2>1, Joining
  <2>3. Len(t) = Len(q) + 1 /\ t[Len(q) + 1] = oh
    BY <1>7
  <2>4. \A i \in 1 .. Len(q) : t[i] = q[i]
    BY <1>7
  <2> QED BY <2>2, <2>3, <2>4
<1>9. PICK tail : tail = W.levels[lh].tail
  OBVIOUS
<1>10. /\ tail = IF Len(q) = 0 THEN Null ELSE q[Len(q)]
       /\ W.levels[lh].head = IF Len(q) = 0 THEN Null ELSE q[1]
       /\ W.levels[lh].order_count = Len(q)
  BY <1>5, <1>9 DEF QueueOK
<1>11. tail = Null <=> Len(q) = 0
  BY <1>5, <1>10, FlatBookAssumption
<1>12. /\ E \in Books /\ E.ladders = W.ladders
       /\ E.orders[oh] = [ref |-> ref, qty |-> qty, price |-> p, side |-> side,
                          owner |-> owner, prev |-> tail, next |-> Null, level |-> lh]
       /\ E.index = [W.index EXCEPT ![ref] = oh]
       /\ \A x \in LevelHandles \ {lh} : E.levels[x] = W.levels[x]
       /\ E.levels[lh] \in Levels /\ E.levels[lh].price = W.levels[lh].price
       /\ E.levels[lh].head = IF tail = Null THEN oh ELSE W.levels[lh].head
       /\ E.levels[lh].tail = oh
       /\ E.levels[lh].order_count = W.levels[lh].order_count + 1
  BY <1>9 DEF Joined
<1>13. /\ E.orders[oh].ref = ref /\ E.orders[oh].price = p /\ E.orders[oh].side = side
       /\ E.orders[oh].prev = tail /\ E.orders[oh].next = Null /\ E.orders[oh].level = lh
       /\ E.orders[oh] # Free /\ E.levels[lh] # Free
  <2>1. E.orders[oh] \in Orders
    <3>1. tail \in OrderHandles \cup {Null}
      BY <1>5, <1>10
    <3> QED BY <1>12, <3>1 DEF Orders
  <2> QED BY <1>12, <2>1, FreeAssumption
<1>14. \A h \in OrderHandles \ {oh} :
          \/ W.orders[h] = Free /\ E.orders[h] = Free
          \/ /\ SameOrder(E.orders[h], W.orders[h])
             /\ E.orders[h].prev = W.orders[h].prev
             /\ E.orders[h].next = IF h = tail THEN oh ELSE W.orders[h].next
  BY <1>9, Zenon DEF Joined
<1>15. \A h \in OrderHandles \ {oh} :
          \/ W.orders[h] = Free /\ E.orders[h] = Free
          \/ /\ W.orders[h] # Free /\ E.orders[h] # Free
             /\ E.orders[h].ref = W.orders[h].ref /\ E.orders[h].side = W.orders[h].side
             /\ E.orders[h].price = W.orders[h].price /\ E.orders[h].level = W.orders[h].level
  BY <1>14 DEF SameOrder
<1>16. PICK c : c = [ch EXCEPT ![lh] = t]
  OBVIOUS
<1>17. c \in Chains /\ c[lh] = t /\ \A x \in LevelHandles \ {lh} : c[x] = ch[x]
  BY <1>1, <1>8, <1>16 DEF Chains
<1>18. IndexOK(E)
  <2>1. SUFFICES ASSUME NEW r \in Refs, NEW h \in OrderHandles
                 PROVE  E.index[r] = h <=> E.orders[h] # Free /\ E.orders[h].ref = r
    BY DEF IndexOK
  <2>2. W.index[r] = h <=> W.orders[h] # Free /\ W.orders[h].ref = r
    BY <1>1 DEF IndexOK
  <2>3. W.index \in [Refs -> OrderHandles \cup {Null}]
    BY <1>1, Fields
  <2>4. E.index[r] = IF r = ref THEN oh ELSE W.index[r]
    BY <1>12, <2>3
  <2>5. h # Null
    BY FlatBookAssumption
  <2>6. CASE h = oh
    BY <1>13, <2>2, <2>4, <2>6
  <2>7. CASE h # oh
    BY <1>15, <2>2, <2>4, <2>5, <2>7
  <2> QED BY <2>6, <2>7
<1>19. LaddersOK(E)
  <2>1. \A x \in LevelHandles : /\ E.levels[x] = Free <=> W.levels[x] = Free
                                /\ E.levels[x].price = W.levels[x].price
    BY <1>3, <1>12, <1>13
  <2>2. ASSUME NEW s \in Sides, NEW x \in Prices, E.ladders[s][x] # Null
        PROVE  /\ E.levels[E.ladders[s][x]] # Free
               /\ E.levels[E.ladders[s][x]].price = x
               /\ \A other \in Sides, y \in Prices :
                     E.ladders[other][y] = E.ladders[s][x] => other = s /\ y = x
    <3>1. W.ladders[s][x] \in LevelHandles
      BY <1>1, <1>12, <2>2, Fields
    <3> QED BY <1>1, <1>12, <2>1, <2>2, <3>1 DEF LaddersOK
  <2>3. ASSUME NEW x \in LevelHandles, E.levels[x] # Free
        PROVE  \E s \in Sides, y \in Prices : E.ladders[s][y] = x
    BY <1>1, <1>12, <2>1, <2>3 DEF LaddersOK
  <2>4. ASSUME NEW h \in OrderHandles, E.orders[h] # Free
        PROVE  E.ladders[E.orders[h].side][E.orders[h].price] = E.orders[h].level
    <3>1. CASE h = oh
      BY <1>12, <1>13, <3>1
    <3>2. CASE h # oh
      <4>1. W.orders[h] # Free
        BY <1>15, <2>4, <3>2
      <4>2. W.ladders[W.orders[h].side][W.orders[h].price] = W.orders[h].level
        BY <1>1, <4>1 DEF LaddersOK
      <4> QED BY <1>12, <1>15, <3>2, <4>1, <4>2
    <3> QED BY <3>1, <3>2
  <2> QED BY <2>2, <2>3, <2>4 DEF LaddersOK
<1>20. QueueOK(E, t, lh)
  <2>1. Range(t) = On(E, lh)
    <3>1. Range(q) = On(W, lh)
      BY <1>5 DEF QueueOK
    <3>2. On(E, lh) = On(W, lh) \cup {oh}
      BY <1>13, <1>15 DEF On
    <3> QED BY <1>8, <3>1, <3>2
  <2>2. /\ E.levels[lh].head = IF Len(t) = 0 THEN Null ELSE t[1]
        /\ E.levels[lh].tail = IF Len(t) = 0 THEN Null ELSE t[Len(t)]
        /\ E.levels[lh].order_count = Len(t)
    BY <1>5, <1>8, <1>10, <1>11, <1>12
  <2>3. ASSUME NEW i \in 1 .. Len(t)
        PROVE  /\ E.orders[t[i]].prev = IF i = 1 THEN Null ELSE t[i - 1]
               /\ E.orders[t[i]].next = IF i = Len(t) THEN Null ELSE t[i + 1]
    <3>1. CASE i = Len(q) + 1
      <4>1. t[i] = oh
        BY <1>8, <3>1
      <4>2. tail = IF i = 1 THEN Null ELSE t[i - 1]
        BY <1>5, <1>8, <1>10, <3>1
      <4> QED BY <1>8, <1>13, <3>1, <4>1, <4>2
    <3>2. CASE i # Len(q) + 1
      <4>1. i \in 1 .. Len(q) /\ t[i] = q[i]
        BY <1>5, <1>8, <3>2
      <4>2. /\ W.orders[q[i]].prev = IF i = 1 THEN Null ELSE q[i - 1]
            /\ W.orders[q[i]].next = IF i = Len(q) THEN Null ELSE q[i + 1]
        BY <1>5, <4>1 DEF QueueOK
      <4>3. q[i] # oh /\ q[i] \in OrderHandles /\ W.orders[q[i]] # Free
        BY <1>5, <4>1
      <4>4. /\ E.orders[q[i]].prev = W.orders[q[i]].prev
            /\ E.orders[q[i]].next = IF q[i] = tail THEN oh ELSE W.orders[q[i]].next
        BY <1>14, <4>3
      <4>5. q[i] = tail <=> i = Len(q)
        <5>1. Len(q) \in 1 .. Len(q) /\ Len(q) # 0
          BY <4>1, LenProperties
        <5>2. q[i] = q[Len(q)] => i = Len(q)
          BY <1>5, <4>1, <5>1
        <5>3. tail = q[Len(q)]
          BY <1>10, <5>1
        <5> QED BY <5>2, <5>3
      <4>6. E.orders[t[i]].prev = IF i = 1 THEN Null ELSE t[i - 1]
        <5>1. i # 1 => i - 1 \in 1 .. Len(q)
          BY <4>1, LenProperties
        <5>2. i # 1 => t[i - 1] = q[i - 1]
          BY <1>8, <5>1
        <5> QED BY <4>1, <4>2, <4>4, <5>2
      <4>7. E.orders[t[i]].next = IF i = Len(t) THEN Null ELSE t[i + 1]
        <5>1. i # Len(q) => i + 1 \in 1 .. Len(q)
          BY <4>1, LenProperties
        <5>2. i # Len(q) => t[i + 1] = q[i + 1]
          BY <1>8, <5>1
        <5>3. i = Len(q) => t[i + 1] = oh
          BY <1>8
        <5>4. i # Len(t)
          BY <1>8, <4>1, LenProperties
        <5> QED BY <4>1, <4>2, <4>4, <4>5, <5>2, <5>3, <5>4
      <4> QED BY <4>6, <4>7
    <3> QED BY <3>1, <3>2
  <2> QED BY <1>8, <2>1, <2>2, <2>3 DEF QueueOK
<1>21. ASSUME NEW x \in LevelHandles, E.levels[x] # Free PROVE QueueOK(E, c[x], x)
  <2>1. CASE x = lh
    BY <1>17, <1>20, <2>1
  <2>2. CASE x # lh
    <3>1. E.levels[x] = W.levels[x] /\ c[x] = ch[x]
      BY <1>12, <1>17, <2>2
    <3>2. PICK u \in Seq(OrderHandles) : u = ch[x]
      BY <1>21, <3>1, Queued
    <3>3. /\ QueueOK(W, u, x) /\ Len(u) \in Nat
          /\ \A i \in 1 .. Len(u) :
                u[i] \in OrderHandles /\ W.orders[u[i]] # Free /\ W.orders[u[i]].level = x
      BY <1>21, <3>1, <3>2, Queued
    <3>4. On(E, x) = On(W, x)
      BY <1>13, <1>15, <2>2 DEF On
    <3>5. \A i \in 1 .. Len(u) : u[i] # oh /\ u[i] # tail
      <4>1. tail # Null => W.orders[tail].level = lh
        BY <1>5, <1>10, <1>11
      <4>2. \A i \in 1 .. Len(u) : u[i] # Null
        BY <3>3, FlatBookAssumption
      <4> QED BY <2>2, <3>3, <4>1, <4>2
    <3>6. \A i \in 1 .. Len(u) : /\ E.orders[u[i]].prev = W.orders[u[i]].prev
                                 /\ E.orders[u[i]].next = W.orders[u[i]].next
      <4>1. \A i \in 1 .. Len(u) : u[i] \in OrderHandles \ {oh} /\ W.orders[u[i]] # Free
        BY <3>3, <3>5
      <4> QED BY <1>14, <3>5, <4>1
    <3>7. QueueOK(E, u, x)
      BY <3>1, <3>3, <3>4, <3>6 DEF QueueOK
    <3> QED BY <3>1, <3>2, <3>7
  <2> QED BY <2>1, <2>2
<1>22. RecordsOK(E, c)
  BY <1>12, <1>17, <1>18, <1>19, <1>21 DEF RecordsOK
<1> QED BY <1>4, <1>7, <1>16, <1>22

\* Shares off order oh make L of B.
Less(L, B, oh, shares) ==
    /\ L \in Books
    /\ L.ladders = B.ladders /\ L.index = B.index /\ L.best = B.best
    /\ SameOrder(L.orders[oh], B.orders[oh])
    /\ L.orders[oh].prev = B.orders[oh].prev /\ L.orders[oh].next = B.orders[oh].next
    /\ L.orders[oh].qty = B.orders[oh].qty - shares
    /\ \A h \in OrderHandles \ {oh} : L.orders[h] = B.orders[h]
    /\ L.levels[B.orders[oh].level] \in Levels
    /\ L.levels[B.orders[oh].level].price = B.levels[B.orders[oh].level].price
    /\ L.levels[B.orders[oh].level].head = B.levels[B.orders[oh].level].head
    /\ L.levels[B.orders[oh].level].tail = B.levels[B.orders[oh].level].tail
    /\ L.levels[B.orders[oh].level].order_count = B.levels[B.orders[oh].level].order_count
    /\ L.levels[B.orders[oh].level].total_qty =
          B.levels[B.orders[oh].level].total_qty - shares
    /\ \A x \in LevelHandles \ {B.orders[oh].level} : L.levels[x] = B.levels[x]
    /\ L.stats.total_qty = [B.stats.total_qty EXCEPT ![B.orders[oh].side] = @ - shares]
    /\ L.stats.order_count = B.stats.order_count
    /\ L.stats.level_count = B.stats.level_count

LEMMA LessenedFields ==
  ASSUME NEW B \in Books, NEW oh \in OrderHandles, B.orders[oh] # Free,
         B.levels[B.orders[oh].level] # Free,
         NEW shares \in Nat, shares <= B.orders[oh].qty
  PROVE  Less(Lessened(B, oh, shares), B, oh, shares)
<1>0. PICK L : L = Lessened(B, oh, shares)
  OBVIOUS
<1>1. /\ B.orders \in [OrderHandles -> Orders \cup {Free}]
      /\ B.levels \in [LevelHandles -> Levels \cup {Free}]
      /\ B.stats \in Stats
      /\ DOMAIN B = {"orders", "levels", "index", "ladders", "stats", "best"}
  <2>1. DOMAIN B = {"orders", "levels", "index", "ladders", "stats", "best"}
    BY DEF Books
  <2> QED BY <2>1, Fields
<1>2. PICK o \in Orders : o = B.orders[oh]
  BY <1>1
<1>3. o.level \in LevelHandles /\ o.side \in Sides /\ o.qty \in Nat /\ shares <= o.qty
  BY <1>2 DEF Orders
<1>4. PICK l \in Levels : l = B.levels[o.level]
  BY <1>1, <1>2, <1>3
<1>5. L = [B EXCEPT !.orders[oh].qty = @ - shares,
                    !.stats.total_qty[o.side] = @ - shares,
                    !.levels[o.level].total_qty = @ - shares]
  BY <1>0, <1>2 DEF Lessened
<1>6. L.orders = [B.orders EXCEPT ![oh].qty = @ - shares]
  BY <1>1, <1>5
<1>7. L.levels = [B.levels EXCEPT ![o.level].total_qty = @ - shares]
  BY <1>1, <1>5
<1>8. L.stats = [B.stats EXCEPT !.total_qty[o.side] = @ - shares]
  BY <1>1, <1>5
<1>9. L.ladders = B.ladders /\ L.index = B.index /\ L.best = B.best
  BY <1>1, <1>5
<1>10. PICK n : n = o.qty - shares
  OBVIOUS
<1>11. PICK k : k = l.total_qty - shares
  OBVIOUS
<1>12. PICK a : a = [o EXCEPT !.qty = n]
  OBVIOUS
<1>13. PICK m : m = [l EXCEPT !.total_qty = k]
  OBVIOUS
<1>14. /\ a \in Orders /\ SameOrder(a, o) /\ a.prev = o.prev /\ a.next = o.next
       /\ a.qty = n
  <2>1. n \in Nat
    BY <1>3, <1>10
  <2>2. a \in Orders
    BY <1>12, <2>1 DEF Orders
  <2>3. /\ a.ref = o.ref /\ a.price = o.price /\ a.side = o.side /\ a.owner = o.owner
        /\ a.level = o.level /\ a.prev = o.prev /\ a.next = o.next /\ a.qty = n
    BY <1>12 DEF Orders
  <2> QED BY <2>2, <2>3, FreeAssumption DEF SameOrder
<1>15. /\ m \in Levels /\ m.price = l.price /\ m.head = l.head /\ m.tail = l.tail
       /\ m.order_count = l.order_count /\ m.total_qty = k
  <2>1. k \in Int
    BY <1>11 DEF Levels
  <2> QED BY <1>13, <2>1 DEF Levels
<1>16. L.orders = [B.orders EXCEPT ![oh] = a]
  BY <1>1, <1>2, <1>6, <1>10, <1>12
<1>17. L.levels = [B.levels EXCEPT ![o.level] = m]
  BY <1>1, <1>3, <1>4, <1>7, <1>11, <1>13
<1>18. /\ L.stats.total_qty = [B.stats.total_qty EXCEPT ![o.side] = @ - shares]
       /\ L.stats.order_count = B.stats.order_count
       /\ L.stats.level_count = B.stats.level_count
       /\ L.stats \in Stats
  <2>1. PICK st \in Stats : st = B.stats
    BY <1>1
  <2>2. PICK s : s = [st EXCEPT !.total_qty[o.side] = @ - shares]
    OBVIOUS
  <2>3. s.total_qty = [st.total_qty EXCEPT ![o.side] = @ - shares]
    BY <2>2 DEF Stats
  <2>4. s.order_count = st.order_count /\ s.level_count = st.level_count
    BY <2>2 DEF Stats
  <2>5. s \in Stats
    <3>1. s = [total_qty |-> s.total_qty, level_count |-> s.level_count,
               order_count |-> s.order_count]
      BY <2>2 DEF Stats
    <3>2. st.total_qty \in [Sides -> Int] /\ st.order_count \in Int
          /\ st.level_count \in [Sides -> Int]
      BY DEF Stats
    <3>3. s.total_qty \in [Sides -> Int]
      BY <1>3, <2>3, <3>2
    <3> QED BY <2>4, <3>1, <3>2, <3>3 DEF Stats
  <2> QED BY <1>8, <2>1, <2>2, <2>3, <2>4, <2>5
<1>19. /\ L.orders \in [OrderHandles -> Orders \cup {Free}] /\ L.orders[oh] = a
       /\ \A h \in OrderHandles \ {oh} : L.orders[h] = B.orders[h]
  BY <1>1, <1>14, <1>16
<1>20. /\ L.levels \in [LevelHandles -> Levels \cup {Free}] /\ L.levels[o.level] = m
       /\ \A x \in LevelHandles \ {o.level} : L.levels[x] = B.levels[x]
  BY <1>1, <1>3, <1>15, <1>17
<1>21. L \in Books
  <2>1. L = [orders |-> L.orders, levels |-> L.levels, index |-> L.index,
             ladders |-> L.ladders, stats |-> L.stats, best |-> L.best]
    BY <1>5 DEF Books
  <2>2. /\ L.ladders \in [Sides -> [Prices -> LevelHandles \cup {Null}]]
        /\ L.best \in [Sides -> Prices \cup {kNoPrice}]
        /\ L.index \in [Refs -> OrderHandles \cup {Null}]
    BY <1>9, Fields
  <2> QED BY <1>18, <1>19, <1>20, <2>1, <2>2 DEF Books
<1>22. Less(L, B, oh, shares)
  <2>1. /\ SameOrder(L.orders[oh], B.orders[oh])
        /\ L.orders[oh].prev = B.orders[oh].prev /\ L.orders[oh].next = B.orders[oh].next
        /\ L.orders[oh].qty = B.orders[oh].qty - shares
    BY <1>2, <1>10, <1>14, <1>19
  <2>2. /\ L.levels[B.orders[oh].level] \in Levels
        /\ L.levels[B.orders[oh].level].price = B.levels[B.orders[oh].level].price
        /\ L.levels[B.orders[oh].level].head = B.levels[B.orders[oh].level].head
        /\ L.levels[B.orders[oh].level].tail = B.levels[B.orders[oh].level].tail
        /\ L.levels[B.orders[oh].level].order_count =
              B.levels[B.orders[oh].level].order_count
        /\ L.levels[B.orders[oh].level].total_qty =
              B.levels[B.orders[oh].level].total_qty - shares
        /\ \A x \in LevelHandles \ {B.orders[oh].level} : L.levels[x] = B.levels[x]
    BY <1>2, <1>4, <1>11, <1>15, <1>20
  <2>3. L.stats.total_qty = [B.stats.total_qty EXCEPT ![B.orders[oh].side] = @ - shares]
    BY <1>2, <1>18
  <2> QED BY <1>9, <1>18, <1>19, <1>21, <2>1, <2>2, <2>3 DEF Less
<1> QED BY <1>0, <1>22

\* Order oh leaving its queue and the index, and its record freed, make F of B.
Left(F, B, oh) ==
    /\ F \in Books
    /\ F.ladders = B.ladders /\ F.best = B.best
    /\ F.orders[oh] = Free
    /\ \A h \in OrderHandles \ {oh} :
          \/ B.orders[h] = Free /\ F.orders[h] = Free
          \/ /\ SameOrder(F.orders[h], B.orders[h])
             /\ F.orders[h].qty = B.orders[h].qty
             /\ F.orders[h].next = IF h = B.orders[oh].prev THEN B.orders[oh].next
                                   ELSE B.orders[h].next
             /\ F.orders[h].prev = IF h = B.orders[oh].next THEN B.orders[oh].prev
                                   ELSE B.orders[h].prev
    /\ F.levels[B.orders[oh].level] \in Levels
    /\ F.levels[B.orders[oh].level].price = B.levels[B.orders[oh].level].price
    /\ F.levels[B.orders[oh].level].total_qty = B.levels[B.orders[oh].level].total_qty
    /\ F.levels[B.orders[oh].level].head =
          IF B.orders[oh].prev = Null THEN B.orders[oh].next
          ELSE B.levels[B.orders[oh].level].head
    /\ F.levels[B.orders[oh].level].tail =
          IF B.orders[oh].next = Null THEN B.orders[oh].prev
          ELSE B.levels[B.orders[oh].level].tail
    /\ F.levels[B.orders[oh].level].order_count =
          B.levels[B.orders[oh].level].order_count - 1
    /\ \A x \in LevelHandles \ {B.orders[oh].level} : F.levels[x] = B.levels[x]
    /\ F.index = [B.index EXCEPT ![B.orders[oh].ref] = Null]
    /\ F.stats.total_qty = B.stats.total_qty
    /\ F.stats.order_count = B.stats.order_count - 1
    /\ F.stats.level_count = B.stats.level_count

LEMMA UnlinkedFields ==
  ASSUME NEW B \in Books, NEW oh \in OrderHandles, B.orders[oh] # Free,
         B.levels[B.orders[oh].level] # Free,
         B.orders[oh].prev # Null => B.orders[B.orders[oh].prev] # Free,
         B.orders[oh].next # Null => B.orders[B.orders[oh].next] # Free
  PROVE  /\ Left([Unlinked(B, oh) EXCEPT !.orders[oh] = Free], B, oh)
         /\ Unlinked(B, oh).orders[oh].side = B.orders[oh].side
         /\ Unlinked(B, oh).orders[oh].price = B.orders[oh].price
         /\ Unlinked(B, oh).orders[oh].level = B.orders[oh].level
         /\ [Unlinked(B, oh) EXCEPT !.orders[oh] = Free].levels = Unlinked(B, oh).levels
         /\ Unlinked(B, oh) \in Books
<1>0. PICK U : U = Unlinked(B, oh)
  OBVIOUS
<1>1. /\ B.orders \in [OrderHandles -> Orders \cup {Free}]
      /\ B.levels \in [LevelHandles -> Levels \cup {Free}]
      /\ B.index \in [Refs -> OrderHandles \cup {Null}]
      /\ B.stats \in Stats
      /\ DOMAIN B = {"orders", "levels", "index", "ladders", "stats", "best"}
  <2>1. DOMAIN B = {"orders", "levels", "index", "ladders", "stats", "best"}
    BY DEF Books
  <2> QED BY <2>1, Fields
<1>2. PICK o \in Orders : o = B.orders[oh]
  BY <1>1
<1>3. /\ o.level \in LevelHandles /\ o.side \in Sides /\ o.ref \in Refs
      /\ o.prev \in OrderHandles \cup {Null} /\ o.next \in OrderHandles \cup {Null}
  BY <1>2 DEF Orders
<1>4. PICK l \in Levels : l = B.levels[o.level]
  BY <1>1, <1>2, <1>3
<1>5. PICK m : m = [l EXCEPT !.head = IF o.prev = Null THEN o.next ELSE @,
                             !.tail = IF o.next = Null THEN o.prev ELSE @,
                             !.order_count = @ - 1]
  OBVIOUS
<1>6. PICK os : os = [h \in OrderHandles |->
                       IF h \notin {o.prev, o.next} THEN B.orders[h]
                       ELSE [B.orders[h] EXCEPT
                               !.next = IF h = o.prev THEN o.next ELSE @,
                               !.prev = IF h = o.next THEN o.prev ELSE @]]
  OBVIOUS
<1>7. U = [B EXCEPT !.orders = os, !.levels[o.level] = m, !.index[o.ref] = Null,
                    !.stats.order_count = @ - 1]
  BY <1>0, <1>2, <1>4, <1>5, <1>6 DEF Unlinked
<1>8. U.orders = os
  BY <1>1, <1>7
<1>9. U.levels = [B.levels EXCEPT ![o.level] = m]
  BY <1>1, <1>7
<1>10. U.index = [B.index EXCEPT ![o.ref] = Null]
  BY <1>1, <1>7
<1>11. U.stats = [B.stats EXCEPT !.order_count = @ - 1]
  BY <1>1, <1>7
<1>12. U.ladders = B.ladders /\ U.best = B.best
  BY <1>1, <1>7
<1>13. /\ m \in Levels /\ m.price = l.price /\ m.total_qty = l.total_qty
       /\ m.head = (IF o.prev = Null THEN o.next ELSE l.head)
       /\ m.tail = (IF o.next = Null THEN o.prev ELSE l.tail)
       /\ m.order_count = l.order_count - 1
  <2>1. /\ l.order_count - 1 \in Int /\ l.total_qty \in Int
        /\ l.price \in Prices /\ l.head \in OrderHandles \cup {Null}
        /\ l.tail \in OrderHandles \cup {Null}
    BY DEF Levels
  <2>2. PICK k : k = l.order_count - 1
    OBVIOUS
  <2>3. m = [total_qty |-> l.total_qty, order_count |-> k, price |-> l.price,
             head |-> IF o.prev = Null THEN o.next ELSE l.head,
             tail |-> IF o.next = Null THEN o.prev ELSE l.tail]
    BY <1>5, <2>2 DEF Levels
  <2> QED BY <1>3, <2>1, <2>2, <2>3 DEF Levels
<1>14. ASSUME NEW h \in OrderHandles
       PROVE  /\ os[h] \in Orders \cup {Free}
              /\ \/ B.orders[h] = Free /\ os[h] = Free
                 \/ /\ SameOrder(os[h], B.orders[h])
                    /\ os[h].qty = B.orders[h].qty
                    /\ os[h].next = IF h = o.prev THEN o.next ELSE B.orders[h].next
                    /\ os[h].prev = IF h = o.next THEN o.prev ELSE B.orders[h].prev
  <2>1. CASE h \in {o.prev, o.next}
    <3>1. B.orders[h] # Free
      BY <1>2, <2>1, FlatBookAssumption
    <3>2. PICK a \in Orders : a = B.orders[h]
      BY <1>1, <3>1
    <3>3. PICK b : b = [a EXCEPT !.next = IF h = o.prev THEN o.next ELSE @,
                                 !.prev = IF h = o.next THEN o.prev ELSE @]
      OBVIOUS
    <3>4. /\ b \in Orders /\ b.ref = a.ref /\ b.price = a.price /\ b.side = a.side
          /\ b.owner = a.owner /\ b.level = a.level /\ b.qty = a.qty
          /\ b.next = (IF h = o.prev THEN o.next ELSE a.next)
          /\ b.prev = (IF h = o.next THEN o.prev ELSE a.prev)
      BY <1>3, <3>3 DEF Orders
    <3>5. b # Free /\ a # Free
      BY <3>4, FreeAssumption
    <3>6. os[h] = b
      BY <1>6, <2>1, <3>2, <3>3
    <3> QED BY <3>2, <3>4, <3>5, <3>6 DEF SameOrder
  <2>2. CASE h \notin {o.prev, o.next}
    <3>1. os[h] = B.orders[h]
      BY <1>6, <2>2
    <3> QED BY <1>1, <2>2, <3>1 DEF SameOrder
  <2> QED BY <2>1, <2>2
<1>15. os \in [OrderHandles -> Orders \cup {Free}]
  BY <1>6, <1>14
<1>16. /\ U.stats.total_qty = B.stats.total_qty
       /\ U.stats.order_count = B.stats.order_count - 1
       /\ U.stats.level_count = B.stats.level_count
       /\ U.stats \in Stats
  <2>1. PICK st \in Stats : st = B.stats
    BY <1>1
  <2>2. PICK k : k = st.order_count - 1
    OBVIOUS
  <2>3. PICK s : s = [st EXCEPT !.order_count = k]
    OBVIOUS
  <2>4. /\ s.total_qty = st.total_qty /\ s.level_count = st.level_count
        /\ s.order_count = k
    BY <2>3 DEF Stats
  <2>5. k \in Int
    BY <2>2 DEF Stats
  <2>6. s \in Stats
    BY <2>3, <2>5 DEF Stats
  <2>7. U.stats = s
    BY <1>11, <2>1, <2>2, <2>3
  <2> QED BY <2>1, <2>2, <2>4, <2>6, <2>7
<1>17. /\ U.levels \in [LevelHandles -> Levels \cup {Free}] /\ U.levels[o.level] = m
       /\ \A x \in LevelHandles \ {o.level} : U.levels[x] = B.levels[x]
  BY <1>1, <1>3, <1>9, <1>13
<1>18. U.index \in [Refs -> OrderHandles \cup {Null}]
  BY <1>1, <1>3, <1>10
<1>19. U \in Books
  <2>1. U = [orders |-> U.orders, levels |-> U.levels, index |-> U.index,
             ladders |-> U.ladders, stats |-> U.stats, best |-> U.best]
    BY <1>7 DEF Books
  <2>2. /\ U.ladders \in [Sides -> [Prices -> LevelHandles \cup {Null}]]
        /\ U.best \in [Sides -> Prices \cup {kNoPrice}]
    BY <1>12, Fields
  <2> QED BY <1>8, <1>15, <1>16, <1>17, <1>18, <2>1, <2>2 DEF Books
<1>20. PICK F : F = [U EXCEPT !.orders[oh] = Free]
  OBVIOUS
<1>21. /\ F.levels = U.levels /\ F.index = U.index /\ F.ladders = U.ladders
       /\ F.stats = U.stats /\ F.best = U.best
  BY <1>19, <1>20 DEF Books
<1>22. F.orders = [os EXCEPT ![oh] = Free]
  BY <1>8, <1>19, <1>20 DEF Books
<1>23. /\ F.orders \in [OrderHandles -> Orders \cup {Free}] /\ F.orders[oh] = Free
       /\ \A h \in OrderHandles \ {oh} : F.orders[h] = os[h]
  BY <1>15, <1>22
<1>24. F \in Books
  <2>1. F = [orders |-> F.orders, levels |-> U.levels, index |-> U.index,
             ladders |-> U.ladders, stats |-> U.stats, best |-> U.best]
    BY <1>19, <1>20 DEF Books
  <2>2. /\ U.ladders \in [Sides -> [Prices -> LevelHandles \cup {Null}]]
        /\ U.best \in [Sides -> Prices \cup {kNoPrice}]
    BY <1>19, Fields
  <2> QED BY <1>16, <1>17, <1>18, <1>23, <2>1, <2>2 DEF Books
<1>25. Left(F, B, oh)
  <2>1. \A h \in OrderHandles \ {oh} :
          \/ B.orders[h] = Free /\ F.orders[h] = Free
          \/ /\ SameOrder(F.orders[h], B.orders[h])
             /\ F.orders[h].qty = B.orders[h].qty
             /\ F.orders[h].next = IF h = B.orders[oh].prev THEN B.orders[oh].next
                                   ELSE B.orders[h].next
             /\ F.orders[h].prev = IF h = B.orders[oh].next THEN B.orders[oh].prev
                                   ELSE B.orders[h].prev
    BY <1>2, <1>14, <1>23
  <2>2. F.levels[o.level] = m
    BY <1>17, <1>21
  <2>3. \A x \in LevelHandles \ {B.orders[oh].level} : F.levels[x] = B.levels[x]
    BY <1>2, <1>17, <1>21
  <2>4. /\ F.index = [B.index EXCEPT ![B.orders[oh].ref] = Null]
        /\ F.ladders = B.ladders /\ F.best = B.best
        /\ F.stats.total_qty = B.stats.total_qty
        /\ F.stats.order_count = B.stats.order_count - 1
        /\ F.stats.level_count = B.stats.level_count
    BY <1>2, <1>10, <1>12, <1>16, <1>21
  <2>5. /\ F.levels[B.orders[oh].level] \in Levels
        /\ F.levels[B.orders[oh].level].price = B.levels[B.orders[oh].level].price
        /\ F.levels[B.orders[oh].level].total_qty = B.levels[B.orders[oh].level].total_qty
        /\ F.levels[B.orders[oh].level].head =
              IF B.orders[oh].prev = Null THEN B.orders[oh].next
              ELSE B.levels[B.orders[oh].level].head
        /\ F.levels[B.orders[oh].level].tail =
              IF B.orders[oh].next = Null THEN B.orders[oh].prev
              ELSE B.levels[B.orders[oh].level].tail
        /\ F.levels[B.orders[oh].level].order_count =
              B.levels[B.orders[oh].level].order_count - 1
    BY <1>2, <1>4, <1>13, <2>2
  <2> QED BY <1>23, <1>24, <2>1, <2>3, <2>4, <2>5 DEF Left
<1>26. /\ os[oh].side = o.side /\ os[oh].price = o.price /\ os[oh].level = o.level
  <2>1. SameOrder(os[oh], B.orders[oh])
    BY <1>2, <1>14
  <2> QED BY <1>2, <2>1 DEF SameOrder
<1> QED BY <1>0, <1>2, <1>8, <1>19, <1>20, <1>21, <1>25, <1>26

\* A queue and what the records say are about the records alone.
LEMMA SameRecords ==
  ASSUME NEW B, NEW ch, RecordsOK(B, ch), NEW C \in Books,
         C.orders = B.orders, C.levels = B.levels, C.index = B.index,
         C.ladders = B.ladders
  PROVE  RecordsOK(C, ch)
<1>1. \A lh \in LevelHandles : QueueOK(B, ch[lh], lh) => QueueOK(C, ch[lh], lh)
  <2>1. \A lh \in LevelHandles : On(C, lh) = On(B, lh)
    BY DEF On
  <2> QED BY <2>1 DEF QueueOK
<1>2. IndexOK(C)
  BY DEF RecordsOK, IndexOK
<1>3. LaddersOK(C)
  BY DEF RecordsOK, LaddersOK
<1> QED BY <1>1, <1>2, <1>3 DEF RecordsOK

\* The index and the ladders, when the live records keep all but their links and
\* quantities.
LEMMA SameHandles ==
  ASSUME NEW B \in Books, IndexOK(B), LaddersOK(B), NEW C \in Books,
         C.index = B.index, C.ladders = B.ladders,
         \A h \in OrderHandles :
            \/ B.orders[h] = Free /\ C.orders[h] = Free
            \/ SameOrder(C.orders[h], B.orders[h]),
         \A x \in LevelHandles : /\ C.levels[x] = Free <=> B.levels[x] = Free
                                 /\ C.levels[x].price = B.levels[x].price
  PROVE  IndexOK(C) /\ LaddersOK(C) /\ \A lh \in LevelHandles : On(C, lh) = On(B, lh)
<1>1. \A h \in OrderHandles :
         /\ C.orders[h] = Free <=> B.orders[h] = Free
         /\ C.orders[h] # Free =>
               /\ C.orders[h].ref = B.orders[h].ref /\ C.orders[h].side = B.orders[h].side
               /\ C.orders[h].price = B.orders[h].price
               /\ C.orders[h].level = B.orders[h].level
  BY DEF SameOrder
<1>2. IndexOK(C)
  BY <1>1 DEF IndexOK
<1>3. \A lh \in LevelHandles : On(C, lh) = On(B, lh)
  BY <1>1 DEF On
<1>4. LaddersOK(C)
  <2>1. ASSUME NEW s \in Sides, NEW x \in Prices, C.ladders[s][x] # Null
        PROVE  /\ C.levels[C.ladders[s][x]] # Free
               /\ C.levels[C.ladders[s][x]].price = x
               /\ \A other \in Sides, y \in Prices :
                     C.ladders[other][y] = C.ladders[s][x] => other = s /\ y = x
    <3>1. B.ladders[s][x] \in LevelHandles
      BY <2>1, Fields
    <3> QED BY <2>1, <3>1 DEF LaddersOK
  <2>2. ASSUME NEW x \in LevelHandles, C.levels[x] # Free
        PROVE  \E s \in Sides, y \in Prices : C.ladders[s][y] = x
    BY <2>2 DEF LaddersOK
  <2>3. ASSUME NEW h \in OrderHandles, C.orders[h] # Free
        PROVE  C.ladders[C.orders[h].side][C.orders[h].price] = C.orders[h].level
    BY <1>1, <2>3 DEF LaddersOK
  <2> QED BY <2>1, <2>2, <2>3 DEF LaddersOK
<1> QED BY <1>2, <1>3, <1>4

LEMMA LessKeeps ==
  ASSUME NEW B, NEW ch, RecordsOK(B, ch), NEW oh \in OrderHandles, B.orders[oh] # Free,
         NEW L, NEW shares, Less(L, B, oh, shares)
  PROVE  RecordsOK(L, ch)
<1>1. B \in Books /\ ch \in Chains /\ IndexOK(B) /\ LaddersOK(B) /\ L \in Books
  BY DEF RecordsOK, Less
<1>2. PICK lh \in LevelHandles : lh = B.orders[oh].level /\ B.levels[lh] # Free
  BY <1>1, OrderPlaced
<1>3. \A h \in OrderHandles :
         /\ \/ B.orders[h] = Free /\ L.orders[h] = Free
            \/ SameOrder(L.orders[h], B.orders[h])
         /\ L.orders[h].prev = B.orders[h].prev /\ L.orders[h].next = B.orders[h].next
  BY DEF Less, SameOrder
<1>4. \A x \in LevelHandles :
         /\ L.levels[x] = Free <=> B.levels[x] = Free
         /\ L.levels[x].price = B.levels[x].price
         /\ L.levels[x].head = B.levels[x].head
         /\ L.levels[x].tail = B.levels[x].tail
         /\ L.levels[x].order_count = B.levels[x].order_count
  <2>1. /\ L.levels[lh] \in Levels /\ L.levels[lh].price = B.levels[lh].price
        /\ L.levels[lh].head = B.levels[lh].head /\ L.levels[lh].tail = B.levels[lh].tail
        /\ L.levels[lh].order_count = B.levels[lh].order_count
        /\ \A x \in LevelHandles \ {lh} : L.levels[x] = B.levels[x]
    BY <1>2 DEF Less
  <2>2. L.levels[lh] # Free
    BY <2>1, FreeAssumption
  <2> QED BY <1>2, <2>1, <2>2
<1>5. L.index = B.index /\ L.ladders = B.ladders
  BY DEF Less
<1>6. IndexOK(L) /\ LaddersOK(L) /\ \A x \in LevelHandles : On(L, x) = On(B, x)
  BY <1>1, <1>3, <1>4, <1>5, SameHandles
<1>7. ASSUME NEW x \in LevelHandles, L.levels[x] # Free PROVE QueueOK(L, ch[x], x)
  <2>1. B.levels[x] # Free
    BY <1>4, <1>7
  <2>2. PICK u \in Seq(OrderHandles) : u = ch[x]
    BY <2>1, Queued
  <2>3. QueueOK(B, u, x) /\ \A i \in 1 .. Len(u) : u[i] \in OrderHandles
    BY <2>1, <2>2, Queued
  <2> QED BY <1>3, <1>4, <1>6, <2>2, <2>3, SMTT(30) DEF QueueOK
<1> QED BY <1>1, <1>6, <1>7 DEF RecordsOK

\* The neighbours of an order are those next to it in its level's queue.
LEMMA Neighbours ==
  ASSUME NEW B, NEW ch, RecordsOK(B, ch), NEW oh \in OrderHandles, B.orders[oh] # Free,
         NEW lh, lh = B.orders[oh].level, NEW k, k = PlaceOf(ch[lh], oh)
  PROVE  /\ lh \in LevelHandles /\ lh # Null /\ B.levels[lh] # Free
         /\ Len(ch[lh]) \in Nat /\ k \in 1 .. Len(ch[lh]) /\ ch[lh][k] = oh
         /\ oh \in Range(ch[lh])
         /\ B.orders[oh].prev = IF k = 1 THEN Null ELSE ch[lh][k - 1]
         /\ B.orders[oh].next = IF k = Len(ch[lh]) THEN Null ELSE ch[lh][k + 1]
         /\ \A h \in {B.orders[oh].prev, B.orders[oh].next} : h # Null =>
               h \in OrderHandles /\ B.orders[h] # Free /\ B.orders[h].level = lh
<1>1. lh \in LevelHandles /\ lh # Null /\ B.levels[lh] # Free
  BY OrderPlaced DEF RecordsOK
<1>2. PICK q \in Seq(OrderHandles) : q = ch[lh]
  BY <1>1, Queued
<1>3. /\ Len(q) \in Nat /\ DOMAIN q = 1 .. Len(q) /\ QueueOK(B, q, lh)
      /\ \A i \in 1 .. Len(q) :
            q[i] \in OrderHandles /\ B.orders[q[i]] # Free /\ B.orders[q[i]].level = lh
      /\ \E i \in 1 .. Len(q) : q[i] = oh
  BY <1>1, <1>2, Queued, SMTT(30)
<1>4. k \in 1 .. Len(q) /\ q[k] = oh
  <2>1. k = CHOOSE i \in 1 .. Len(q) : q[i] = oh
    BY <1>2, <1>3 DEF PlaceOf
  <2>2. \E i \in 1 .. Len(q) : q[i] = oh
    BY <1>3
  <2> QED BY <2>1, <2>2
<1>5. /\ B.orders[oh].prev = IF k = 1 THEN Null ELSE q[k - 1]
      /\ B.orders[oh].next = IF k = Len(q) THEN Null ELSE q[k + 1]
  <2>1. \A i \in 1 .. Len(q) :
           /\ B.orders[q[i]].prev = IF i = 1 THEN Null ELSE q[i - 1]
           /\ B.orders[q[i]].next = IF i = Len(q) THEN Null ELSE q[i + 1]
    BY <1>3 DEF QueueOK
  <2> QED BY <1>4, <2>1
<1>6. oh \in Range(q)
  BY <1>3, <1>4 DEF Range
<1>7. (k # 1 => k - 1 \in 1 .. Len(q)) /\ (k # Len(q) => k + 1 \in 1 .. Len(q))
  BY <1>3, <1>4
<1>8. \A h \in {B.orders[oh].prev, B.orders[oh].next} : h # Null =>
         h \in OrderHandles /\ B.orders[h] # Free /\ B.orders[h].level = lh
  BY <1>3, <1>5, <1>7
<1> QED BY <1>1, <1>2, <1>3, <1>4, <1>5, <1>6, <1>8

LEMMA LeftKeeps ==
  ASSUME NEW B, NEW ch, RecordsOK(B, ch), NEW oh \in OrderHandles, B.orders[oh] # Free,
         NEW lh, lh = B.orders[oh].level, NEW F, Left(F, B, oh)
  PROVE  RecordsOK(F, [ch EXCEPT ![lh] = ClosedUp(ch[lh], PlaceOf(ch[lh], oh))])
<1>1. B \in Books /\ ch \in Chains /\ IndexOK(B) /\ LaddersOK(B) /\ F \in Books
  BY DEF RecordsOK, Left
<1>2. PICK k : k = PlaceOf(ch[lh], oh)
  OBVIOUS
<1>3. lh \in LevelHandles /\ lh # Null /\ B.levels[lh] # Free
  BY <1>2, Neighbours
<1>4. PICK q \in Seq(OrderHandles) : q = ch[lh]
  BY <1>3, Queued
<1>5. PICK prev : prev = B.orders[oh].prev
  OBVIOUS
<1>6. PICK next : next = B.orders[oh].next
  OBVIOUS
<1>7. /\ Len(q) \in Nat /\ k \in 1 .. Len(q) /\ q[k] = oh /\ oh \in Range(q)
      /\ prev = IF k = 1 THEN Null ELSE q[k - 1]
      /\ next = IF k = Len(q) THEN Null ELSE q[k + 1]
  BY <1>2, <1>4, <1>5, <1>6, Neighbours
<1>8. /\ prev # Null => prev \in OrderHandles /\ B.orders[prev].level = lh
      /\ next # Null => next \in OrderHandles /\ B.orders[next].level = lh
  BY <1>2, <1>5, <1>6, Neighbours
<1>9. /\ QueueOK(B, q, lh) /\ Distinct(q) /\ Range(q) = On(B, lh)
      /\ \A i \in 1 .. Len(q) :
            q[i] \in OrderHandles /\ B.orders[q[i]] # Free /\ B.orders[q[i]].level = lh
      /\ \A i, j \in 1 .. Len(q) : q[i] = q[j] => i = j
  <2>1. QueueOK(B, q, lh)
    BY <1>3, <1>4, Queued
  <2>2. Distinct(q) /\ Range(q) = On(B, lh)
    BY <2>1 DEF QueueOK
  <2>3. /\ \A i \in 1 .. Len(ch[lh]) : /\ ch[lh][i] \in OrderHandles
                                       /\ B.orders[ch[lh][i]] # Free
                                       /\ B.orders[ch[lh][i]].level = lh
        /\ \A i, j \in 1 .. Len(ch[lh]) : ch[lh][i] = ch[lh][j] => i = j
    BY <1>3, Queued, SMTT(30)
  <2> QED BY <1>4, <2>1, <2>2, <2>3
<1>10. PICK t : t = ClosedUp(q, k)
  OBVIOUS
<1>11. /\ t \in Seq(OrderHandles) /\ Distinct(t) /\ Range(t) = Range(q) \ {oh}
       /\ Len(t) = Len(q) - 1
       /\ \A i \in 1 .. Len(q) - 1 : t[i] = q[IF i < k THEN i ELSE i + 1]
  <2>1. t \in Seq(OrderHandles) /\ Distinct(t) /\ Range(t) = Range(q) \ {oh}
    <3>1. k = PlaceOf(q, oh)
      BY <1>2, <1>4
    <3> QED BY <1>7, <1>9, <1>10, <3>1, Leaving
  <2> QED BY <1>7, <1>10, <2>1, ClosedUpPlaces
<1>12. /\ F.orders[oh] = Free
       /\ \A h \in OrderHandles \ {oh} :
             \/ B.orders[h] = Free /\ F.orders[h] = Free
             \/ /\ SameOrder(F.orders[h], B.orders[h])
                /\ F.orders[h].next = IF h = prev THEN next ELSE B.orders[h].next
                /\ F.orders[h].prev = IF h = next THEN prev ELSE B.orders[h].prev
  BY <1>5, <1>6, Zenon DEF Left
<1>13. \A h \in OrderHandles \ {oh} :
         /\ F.orders[h] = Free <=> B.orders[h] = Free
         /\ F.orders[h] # Free =>
               /\ F.orders[h].ref = B.orders[h].ref /\ F.orders[h].side = B.orders[h].side
               /\ F.orders[h].price = B.orders[h].price
               /\ F.orders[h].level = B.orders[h].level
  BY <1>12 DEF SameOrder
<1>14. /\ F.levels[lh] \in Levels /\ F.levels[lh] # Free
       /\ F.levels[lh].price = B.levels[lh].price
       /\ F.levels[lh].head = IF prev = Null THEN next ELSE B.levels[lh].head
       /\ F.levels[lh].tail = IF next = Null THEN prev ELSE B.levels[lh].tail
       /\ F.levels[lh].order_count = B.levels[lh].order_count - 1
       /\ \A x \in LevelHandles \ {lh} : F.levels[x] = B.levels[x]
  <2>1. F.levels[lh] \in Levels
    BY DEF Left
  <2> QED BY <1>5, <1>6, <2>1, FreeAssumption DEF Left
<1>15. F.ladders = B.ladders /\ F.index = [B.index EXCEPT ![B.orders[oh].ref] = Null]
  BY DEF Left
<1>16. PICK c : c = [ch EXCEPT ![lh] = t]
  OBVIOUS
<1>17. c \in Chains /\ c[lh] = t /\ \A x \in LevelHandles \ {lh} : c[x] = ch[x]
  BY <1>1, <1>3, <1>11, <1>16 DEF Chains
<1>18. IndexOK(F)
  <2>1. SUFFICES ASSUME NEW r \in Refs, NEW h \in OrderHandles
                 PROVE  F.index[r] = h <=> F.orders[h] # Free /\ F.orders[h].ref = r
    BY DEF IndexOK
  <2>2. /\ B.index[r] = h <=> B.orders[h] # Free /\ B.orders[h].ref = r
        /\ B.index[r] = oh <=> B.orders[oh].ref = r
    BY <1>1 DEF IndexOK
  <2>3. B.index \in [Refs -> OrderHandles \cup {Null}]
    BY <1>1, Fields
  <2>4. F.index[r] = IF r = B.orders[oh].ref THEN Null ELSE B.index[r]
    BY <1>15, <2>3
  <2>5. h # Null
    BY FlatBookAssumption
  <2>6. CASE h = oh
    BY <1>12, <2>2, <2>4, <2>5, <2>6
  <2>7. CASE h # oh
    BY <1>13, <2>2, <2>4, <2>5, <2>7
  <2> QED BY <2>6, <2>7
<1>19. LaddersOK(F)
  <2>1. \A x \in LevelHandles : /\ F.levels[x] = Free <=> B.levels[x] = Free
                                /\ F.levels[x].price = B.levels[x].price
    BY <1>3, <1>14
  <2>2. ASSUME NEW s \in Sides, NEW x \in Prices, F.ladders[s][x] # Null
        PROVE  /\ F.levels[F.ladders[s][x]] # Free
               /\ F.levels[F.ladders[s][x]].price = x
               /\ \A other \in Sides, y \in Prices :
                     F.ladders[other][y] = F.ladders[s][x] => other = s /\ y = x
    <3>1. B.ladders[s][x] \in LevelHandles
      BY <1>1, <1>15, <2>2, Fields
    <3> QED BY <1>1, <1>15, <2>1, <2>2, <3>1 DEF LaddersOK
  <2>3. ASSUME NEW x \in LevelHandles, F.levels[x] # Free
        PROVE  \E s \in Sides, y \in Prices : F.ladders[s][y] = x
    BY <1>1, <1>15, <2>1, <2>3 DEF LaddersOK
  <2>4. ASSUME NEW h \in OrderHandles, F.orders[h] # Free
        PROVE  F.ladders[F.orders[h].side][F.orders[h].price] = F.orders[h].level
    BY <1>1, <1>12, <1>13, <1>15, <2>4 DEF LaddersOK
  <2> QED BY <2>2, <2>3, <2>4 DEF LaddersOK
<1>20. QueueOK(F, t, lh)
  <2>1. Range(t) = On(F, lh)
    <3>1. On(F, lh) = On(B, lh) \ {oh}
      BY <1>12, <1>13 DEF On
    <3> QED BY <1>9, <1>11, <3>1
  <2>2. /\ B.levels[lh].head = q[1] /\ B.levels[lh].tail = q[Len(q)]
        /\ B.levels[lh].order_count = Len(q)
    BY <1>7, <1>9 DEF QueueOK
  <2>3. \A i \in 1 .. Len(q) : q[i] # Null
    BY <1>9, FlatBookAssumption
  <2>4. /\ prev = Null <=> k = 1
        /\ next = Null <=> k = Len(q)
    <3>1. (k # 1 => k - 1 \in 1 .. Len(q)) /\ (k # Len(q) => k + 1 \in 1 .. Len(q))
      BY <1>7
    <3> QED BY <1>7, <2>3, <3>1
  <2>5. F.levels[lh].head = IF Len(t) = 0 THEN Null ELSE t[1]
    <3>1. F.levels[lh].head = IF k = 1 THEN next ELSE q[1]
      BY <1>14, <2>2, <2>4
    <3>2. CASE Len(t) = 0
      <4>1. Len(q) \in Nat /\ k \in 1 .. Len(q)
        BY <1>7
      <4>2. k = 1 /\ k = Len(q)
        <5>1. Len(q) = 1
          BY <1>11, <3>2, <4>1
        <5> QED BY <4>1, <5>1
      <4>3. next = Null /\ prev = Null
        BY <1>7, <4>2
      <4> QED BY <3>1, <3>2, <4>2, <4>3
    <3>3. CASE Len(t) # 0
      <4>1. 1 \in 1 .. Len(q) - 1
        BY <1>7, <1>11, <3>3
      <4>2. t[1] = q[IF 1 < k THEN 1 ELSE 2]
        BY <1>11, <4>1
      <4> QED BY <1>7, <1>11, <3>1, <3>3, <4>1, <4>2
    <3> QED BY <3>2, <3>3
  <2>6. F.levels[lh].tail = IF Len(t) = 0 THEN Null ELSE t[Len(t)]
    <3>1. F.levels[lh].tail = IF k = Len(q) THEN prev ELSE q[Len(q)]
      BY <1>14, <2>2, <2>4
    <3>2. CASE Len(t) = 0
      <4>1. Len(q) \in Nat /\ k \in 1 .. Len(q)
        BY <1>7
      <4>2. k = 1 /\ k = Len(q)
        <5>1. Len(q) = 1
          BY <1>11, <3>2, <4>1
        <5> QED BY <4>1, <5>1
      <4>3. next = Null /\ prev = Null
        BY <1>7, <4>2
      <4> QED BY <3>1, <3>2, <4>2, <4>3
    <3>3. CASE Len(t) # 0
      <4>1. Len(t) \in 1 .. Len(q) - 1
        BY <1>7, <1>11, <3>3
      <4>2. t[Len(t)] = q[IF Len(t) < k THEN Len(t) ELSE Len(t) + 1]
        BY <1>11, <4>1
      <4> QED BY <1>7, <1>11, <3>1, <3>3, <4>1, <4>2
    <3> QED BY <3>2, <3>3
  <2>7. F.levels[lh].order_count = Len(t)
    BY <1>11, <1>14, <2>2
  <2>8. ASSUME NEW i \in 1 .. Len(t)
        PROVE  /\ F.orders[t[i]].prev = IF i = 1 THEN Null ELSE t[i - 1]
               /\ F.orders[t[i]].next = IF i = Len(t) THEN Null ELSE t[i + 1]
    <3>1. PICK j : j = IF i < k THEN i ELSE i + 1
      OBVIOUS
    <3>2. j \in 1 .. Len(q) /\ j # k /\ i \in 1 .. Len(q) - 1 /\ t[i] = q[j]
      BY <1>7, <1>11, <3>1
    <3>3. q[j] \in OrderHandles \ {oh} /\ B.orders[q[j]] # Free
      BY <1>7, <1>9, <3>2
    <3>4. /\ B.orders[q[j]].prev = IF j = 1 THEN Null ELSE q[j - 1]
          /\ B.orders[q[j]].next = IF j = Len(q) THEN Null ELSE q[j + 1]
      BY <1>9, <3>2 DEF QueueOK
    <3>5. /\ F.orders[q[j]].next = IF q[j] = prev THEN next ELSE B.orders[q[j]].next
          /\ F.orders[q[j]].prev = IF q[j] = next THEN prev ELSE B.orders[q[j]].prev
      BY <1>12, <3>3
    <3>6. q[j] = next <=> j = k + 1
      <4>1. k # Len(q) => k + 1 \in 1 .. Len(q)
        BY <1>7
      <4>2. k # Len(q) => (q[j] = q[k + 1] <=> j = k + 1)
        BY <1>9, <3>2, <4>1
      <4>3. k = Len(q) => j # k + 1
        BY <1>7, <3>2
      <4> QED BY <1>7, <2>3, <3>2, <4>2, <4>3
    <3>7. q[j] = prev <=> j = k - 1
      <4>1. k # 1 => k - 1 \in 1 .. Len(q)
        BY <1>7
      <4>2. k # 1 => (q[j] = q[k - 1] <=> j = k - 1)
        BY <1>9, <3>2, <4>1
      <4>3. k = 1 => j # k - 1
        BY <1>7, <3>2
      <4> QED BY <1>7, <2>3, <3>2, <4>2, <4>3
    <3>8. F.orders[t[i]].prev = IF i = 1 THEN Null ELSE t[i - 1]
      <4>1. i # 1 => i - 1 \in 1 .. Len(q) - 1
        BY <3>2
      <4>2. i # 1 => t[i - 1] = q[IF i - 1 < k THEN i - 1 ELSE i]
        BY <1>11, <4>1
      <4>3. CASE j = k + 1
        <5>1. i = k
          BY <1>7, <3>1, <3>2, <4>3
        <5>2. F.orders[t[i]].prev = prev
          BY <3>2, <3>5, <3>6, <4>3
        <5> QED BY <1>7, <4>2, <5>1, <5>2
      <4>4. CASE j # k + 1
        <5>1. F.orders[t[i]].prev = IF j = 1 THEN Null ELSE q[j - 1]
          BY <3>2, <3>4, <3>5, <3>6, <4>4
        <5>2. CASE i < k
          BY <1>7, <3>1, <3>2, <4>2, <5>1, <5>2
        <5>3. CASE ~ (i < k)
          <6>1. j = i + 1 /\ i > k /\ i # 1 /\ j # 1 /\ ~ (i - 1 < k) /\ j - 1 = i
            BY <1>7, <3>1, <3>2, <4>4, <5>3
          <6> QED BY <4>2, <5>1, <6>1
        <5> QED BY <5>2, <5>3
      <4> QED BY <4>3, <4>4
    <3>9. F.orders[t[i]].next = IF i = Len(t) THEN Null ELSE t[i + 1]
      <4>1. i # Len(t) => i + 1 \in 1 .. Len(q) - 1
        BY <1>7, <1>11, <3>2
      <4>2. i # Len(t) => t[i + 1] = q[IF i + 1 < k THEN i + 1 ELSE i + 2]
        BY <1>11, <4>1
      <4>3. CASE j = k - 1
        <5>1. i = k - 1 /\ (i = Len(t) <=> k = Len(q)) /\ ~ (i + 1 < k) /\ i + 2 = k + 1
          BY <1>7, <1>11, <3>1, <3>2, <4>3
        <5>2. F.orders[t[i]].next = next
          BY <3>2, <3>5, <3>7, <4>3
        <5> QED BY <1>7, <4>2, <5>1, <5>2
      <4>4. CASE j # k - 1
        <5>1. F.orders[t[i]].next = IF j = Len(q) THEN Null ELSE q[j + 1]
          BY <3>2, <3>4, <3>5, <3>7, <4>4
        <5>2. CASE i < k
          <6>1. j = i /\ i + 1 < k /\ i # Len(t) /\ j # Len(q)
            BY <1>7, <1>11, <3>1, <3>2, <4>4, <5>2
          <6> QED BY <4>2, <5>1, <6>1
        <5>3. CASE ~ (i < k)
          <6>1. j = i + 1 /\ ~ (i + 1 < k) /\ (i = Len(t) <=> j = Len(q)) /\ j + 1 = i + 2
            BY <1>7, <1>11, <3>1, <3>2, <5>3
          <6> QED BY <4>2, <5>1, <6>1
        <5> QED BY <5>2, <5>3
      <4> QED BY <4>3, <4>4
    <3> QED BY <3>8, <3>9
  <2> QED BY <1>11, <2>1, <2>5, <2>6, <2>7, <2>8 DEF QueueOK
<1>21. ASSUME NEW x \in LevelHandles, F.levels[x] # Free PROVE QueueOK(F, c[x], x)
  <2>1. CASE x = lh
    BY <1>17, <1>20, <2>1
  <2>2. CASE x # lh
    <3>1. F.levels[x] = B.levels[x] /\ c[x] = ch[x]
      BY <1>14, <1>17, <2>2
    <3>2. PICK u \in Seq(OrderHandles) : u = ch[x]
      BY <1>21, <3>1, Queued
    <3>3. /\ QueueOK(B, u, x) /\ Len(u) \in Nat
          /\ \A i \in 1 .. Len(u) :
                u[i] \in OrderHandles /\ B.orders[u[i]] # Free /\ B.orders[u[i]].level = x
      BY <1>21, <3>1, <3>2, Queued
    <3>4. On(F, x) = On(B, x)
      BY <1>12, <1>13, <2>2 DEF On
    <3>5. \A i \in 1 .. Len(u) : u[i] # oh /\ u[i] # prev /\ u[i] # next
      <4>1. \A i \in 1 .. Len(u) : u[i] # Null
        BY <3>3, FlatBookAssumption
      <4> QED BY <1>8, <2>2, <3>3, <4>1
    <3>6. \A i \in 1 .. Len(u) : /\ F.orders[u[i]].prev = B.orders[u[i]].prev
                                 /\ F.orders[u[i]].next = B.orders[u[i]].next
      BY <1>12, <3>3, <3>5
    <3> QED BY <3>1, <3>2, <3>3, <3>4, <3>6 DEF QueueOK
  <2> QED BY <2>1, <2>2
<1>22. RecordsOK(F, c)
  BY <1>1, <1>17, <1>18, <1>19, <1>21 DEF RecordsOK
<1> QED BY <1>2, <1>4, <1>10, <1>16, <1>22

\* A level that has no order erased from its side and freed makes G of F.
Emptied(G, F, lh, side, p) ==
    /\ G \in Books
    /\ G.orders = F.orders /\ G.index = F.index /\ G.best = F.best
    /\ G.levels = [F.levels EXCEPT ![lh] = Free]
    /\ G.ladders = [F.ladders EXCEPT ![side][p] = Null]
    /\ G.stats.total_qty = F.stats.total_qty
    /\ G.stats.order_count = F.stats.order_count
    /\ G.stats.level_count = [F.stats.level_count EXCEPT ![side] = @ - 1]

LEMMA ClearedFields ==
  ASSUME NEW U \in Books, NEW oh \in OrderHandles,
         NEW side \in Sides, side = U.orders[oh].side,
         NEW p \in Prices, p = U.orders[oh].price,
         NEW lh \in LevelHandles, lh = U.orders[oh].level
  PROVE  Emptied([LevelCleared(U, oh) EXCEPT !.orders[oh] = Free],
                 [U EXCEPT !.orders[oh] = Free], lh, side, p)
<1>1. /\ U.orders \in [OrderHandles -> Orders \cup {Free}]
      /\ U.levels \in [LevelHandles -> Levels \cup {Free}]
      /\ U.ladders \in [Sides -> [Prices -> LevelHandles \cup {Null}]]
      /\ U.index \in [Refs -> OrderHandles \cup {Null}]
      /\ U.best \in [Sides -> Prices \cup {kNoPrice}]
      /\ U.stats \in Stats
      /\ DOMAIN U = {"orders", "levels", "index", "ladders", "stats", "best"}
  <2>1. DOMAIN U = {"orders", "levels", "index", "ladders", "stats", "best"}
    BY DEF Books
  <2> QED BY <2>1, Fields
<1>2. PICK C : C = LevelCleared(U, oh)
  OBVIOUS
<1>3. PICK G : G = [C EXCEPT !.orders[oh] = Free]
  OBVIOUS
<1>4. PICK F : F = [U EXCEPT !.orders[oh] = Free]
  OBVIOUS
<1>5. C = [U EXCEPT !.ladders[side][p] = Null, !.levels[lh] = Free,
                    !.stats.level_count[side] = @ - 1]
  BY <1>2 DEF LevelCleared
<1>6. C.ladders = [U.ladders EXCEPT ![side][p] = Null]
  BY <1>1, <1>5
<1>7. C.levels = [U.levels EXCEPT ![lh] = Free]
  BY <1>1, <1>5
<1>8. C.stats = [U.stats EXCEPT !.level_count[side] = @ - 1]
  BY <1>1, <1>5
<1>9. /\ C.orders = U.orders /\ C.index = U.index /\ C.best = U.best
      /\ DOMAIN C = {"orders", "levels", "index", "ladders", "stats", "best"}
  BY <1>1, <1>5
<1>10. /\ G.ladders = C.ladders /\ G.levels = C.levels /\ G.stats = C.stats
       /\ G.index = C.index /\ G.best = C.best
       /\ G.orders = [C.orders EXCEPT ![oh] = Free]
  BY <1>3, <1>9
<1>11. /\ F.ladders = U.ladders /\ F.levels = U.levels /\ F.stats = U.stats
       /\ F.index = U.index /\ F.best = U.best
       /\ F.orders = [U.orders EXCEPT ![oh] = Free]
  BY <1>1, <1>4
<1>12. G = [orders |-> G.orders, levels |-> G.levels, index |-> G.index,
            ladders |-> G.ladders, stats |-> G.stats, best |-> G.best]
  <2>1. C = [orders |-> C.orders, levels |-> C.levels, index |-> C.index,
             ladders |-> C.ladders, stats |-> C.stats, best |-> C.best]
    BY <1>5 DEF Books
  <2> QED BY <1>3, <2>1
<1>13. /\ C.stats.total_qty = U.stats.total_qty
       /\ C.stats.order_count = U.stats.order_count
       /\ C.stats.level_count = [U.stats.level_count EXCEPT ![side] = @ - 1]
       /\ C.stats \in Stats
  <2>1. PICK st \in Stats : st = U.stats
    BY <1>1
  <2>2. PICK s : s = [st EXCEPT !.level_count[side] = @ - 1]
    OBVIOUS
  <2>3. s.level_count = [st.level_count EXCEPT ![side] = @ - 1]
    BY <2>2 DEF Stats
  <2>4. s.order_count = st.order_count /\ s.total_qty = st.total_qty
    BY <2>2 DEF Stats
  <2>5. s \in Stats
    <3>1. s = [total_qty |-> s.total_qty, level_count |-> s.level_count,
               order_count |-> s.order_count]
      BY <2>2 DEF Stats
    <3>2. st.total_qty \in [Sides -> Int] /\ st.order_count \in Int
          /\ st.level_count \in [Sides -> Int]
      BY DEF Stats
    <3>3. s.level_count \in [Sides -> Int]
      BY <2>3, <3>2
    <3> QED BY <2>4, <3>1, <3>2, <3>3 DEF Stats
  <2> QED BY <1>8, <2>1, <2>2, <2>3, <2>4, <2>5
<1>14. G \in Books
  <2>1. G.orders \in [OrderHandles -> Orders \cup {Free}]
    BY <1>1, <1>9, <1>10
  <2>2. G.levels \in [LevelHandles -> Levels \cup {Free}]
    BY <1>1, <1>7, <1>10
  <2>3. G.ladders \in [Sides -> [Prices -> LevelHandles \cup {Null}]]
    BY <1>1, <1>6, <1>10
  <2>4. /\ G.index \in [Refs -> OrderHandles \cup {Null}] /\ G.stats \in Stats
        /\ G.best \in [Sides -> Prices \cup {kNoPrice}]
    BY <1>1, <1>9, <1>10, <1>13
  <2> QED BY <1>12, <2>1, <2>2, <2>3, <2>4 DEF Books
<1>15. Emptied(G, F, lh, side, p)
  <2>1. G.orders = F.orders /\ G.index = F.index /\ G.best = F.best
    BY <1>9, <1>10, <1>11
  <2>2. /\ G.levels = [F.levels EXCEPT ![lh] = Free]
        /\ G.ladders = [F.ladders EXCEPT ![side][p] = Null]
    BY <1>6, <1>7, <1>10, <1>11
  <2>3. /\ G.stats.total_qty = F.stats.total_qty
        /\ G.stats.order_count = F.stats.order_count
        /\ G.stats.level_count = [F.stats.level_count EXCEPT ![side] = @ - 1]
    BY <1>10, <1>11, <1>13
  <2> QED BY <1>14, <2>1, <2>2, <2>3 DEF Emptied
<1> QED BY <1>2, <1>3, <1>4, <1>15

LEMMA EmptiedKeeps ==
  ASSUME NEW F, NEW c, RecordsOK(F, c), NEW lh \in LevelHandles,
         NEW side \in Sides, NEW p \in Prices, F.ladders[side][p] = lh,
         Len(c[lh]) = 0, NEW G, Emptied(G, F, lh, side, p)
  PROVE  RecordsOK(G, c)
<1>1. F \in Books /\ c \in Chains /\ IndexOK(F) /\ LaddersOK(F) /\ G \in Books
  BY DEF RecordsOK, Emptied
<1>2. lh # Null /\ F.levels[lh] # Free
  <2>1. lh # Null
    BY FlatBookAssumption
  <2> QED BY <1>1, <2>1 DEF LaddersOK
<1>3. /\ G.orders = F.orders /\ G.index = F.index
      /\ G.levels[lh] = Free
      /\ \A x \in LevelHandles \ {lh} : G.levels[x] = F.levels[x]
  <2>1. G.levels = [F.levels EXCEPT ![lh] = Free]
    BY DEF Emptied
  <2>2. F.levels \in [LevelHandles -> Levels \cup {Free}]
    BY <1>1, Fields
  <2>3. G.orders = F.orders /\ G.index = F.index
    BY DEF Emptied
  <2> QED BY <2>1, <2>2, <2>3
<1>4. /\ G.ladders[side][p] = Null
      /\ \A s \in Sides, x \in Prices : ~ (s = side /\ x = p) =>
            G.ladders[s][x] = F.ladders[s][x]
  <2>1. G.ladders = [F.ladders EXCEPT ![side][p] = Null]
    BY DEF Emptied
  <2>2. F.ladders \in [Sides -> [Prices -> LevelHandles \cup {Null}]]
    BY <1>1, Fields
  <2> QED BY <2>1, <2>2
<1>5. \A h \in OrderHandles : F.orders[h] # Free => F.orders[h].level # lh
  BY <1>2, Queued
<1>6. \A s \in Sides, x \in Prices : F.ladders[s][x] = lh => s = side /\ x = p
  BY <1>1, <1>2 DEF LaddersOK
<1>7. IndexOK(G)
  BY <1>1, <1>3 DEF IndexOK
<1>8. LaddersOK(G)
  <2>1. ASSUME NEW s \in Sides, NEW x \in Prices, G.ladders[s][x] # Null
        PROVE  /\ G.levels[G.ladders[s][x]] # Free
               /\ G.levels[G.ladders[s][x]].price = x
               /\ \A other \in Sides, y \in Prices :
                     G.ladders[other][y] = G.ladders[s][x] => other = s /\ y = x
    <3>1. G.ladders[s][x] = F.ladders[s][x] /\ ~ (s = side /\ x = p)
      BY <1>4, <2>1
    <3>2. F.ladders[s][x] \in LevelHandles \ {lh}
      BY <1>1, <1>6, <2>1, <3>1, Fields
    <3>3. /\ F.levels[F.ladders[s][x]] # Free
          /\ F.levels[F.ladders[s][x]].price = x
          /\ \A other \in Sides, y \in Prices :
                F.ladders[other][y] = F.ladders[s][x] => other = s /\ y = x
      BY <1>1, <2>1, <3>1 DEF LaddersOK
    <3> QED BY <1>3, <1>4, <2>1, <3>1, <3>2, <3>3
  <2>2. ASSUME NEW x \in LevelHandles, G.levels[x] # Free
        PROVE  \E s \in Sides, y \in Prices : G.ladders[s][y] = x
    <3>1. x # lh /\ F.levels[x] # Free
      BY <1>3, <2>2
    <3>2. PICK s \in Sides, y \in Prices : F.ladders[s][y] = x
      BY <1>1, <3>1 DEF LaddersOK
    <3>3. G.ladders[s][y] = x
      BY <1>4, <3>1, <3>2
    <3> QED BY <3>3
  <2>3. ASSUME NEW h \in OrderHandles, G.orders[h] # Free
        PROVE  G.ladders[G.orders[h].side][G.orders[h].price] = G.orders[h].level
    <3>1. /\ F.orders[h].side \in Sides /\ F.orders[h].price \in Prices
          /\ F.ladders[F.orders[h].side][F.orders[h].price] = F.orders[h].level
          /\ F.orders[h].level # lh
      BY <1>1, <1>3, <1>5, <2>3, OrderPlaced
    <3> QED BY <1>3, <1>4, <3>1
  <2> QED BY <2>1, <2>2, <2>3 DEF LaddersOK
<1>9. ASSUME NEW x \in LevelHandles, G.levels[x] # Free PROVE QueueOK(G, c[x], x)
  <2>1. x # lh /\ G.levels[x] = F.levels[x]
    BY <1>3, <1>9
  <2>2. QueueOK(F, c[x], x)
    BY <1>9, <2>1, Queued
  <2>3. On(G, x) = On(F, x)
    BY <1>3 DEF On
  <2> QED BY <1>3, <2>1, <2>2, <2>3 DEF QueueOK
<1> QED BY <1>1, <1>7, <1>8, <1>9 DEF RecordsOK

------------------------------------------------------------------------------
(* What the index and the queues hold: a price-time priority book. *)

EntryOf(B) ==
    [ref \in Refs |->
        IF B.index[ref] = Null THEN NoOrder
        ELSE [side |-> B.orders[B.index[ref]].side, price |-> B.orders[B.index[ref]].price,
              qty |-> B.orders[B.index[ref]].qty, owner |-> B.orders[B.index[ref]].owner]]

RefsOf(B, q) == [i \in 1 .. Len(q) |-> B.orders[q[i]].ref]

FifoOf(B, ch) ==
    [side \in Sides |-> [p \in Prices |->
        IF B.ladders[side][p] = Null THEN << >> ELSE RefsOf(B, ch[B.ladders[side][p]])]]

\* Queues of each side and price.
IsFamily(f) ==
    /\ DOMAIN f = Sides /\ f = [s \in Sides |-> f[s]]
    /\ \A s \in Sides : f[s] = [x \in Prices |-> f[s][x]]

\* Two families of queues are one if they agree everywhere.
LEMMA SameFamily ==
  ASSUME NEW f, NEW g, IsFamily(f), IsFamily(g),
         \A s \in Sides, x \in Prices : f[s][x] = g[s][x]
  PROVE  f = g
<1>1. \A s \in Sides : f[s] = g[s]
  <2>1. SUFFICES ASSUME NEW s \in Sides PROVE f[s] = g[s]
    OBVIOUS
  <2>2. [x \in Prices |-> f[s][x]] = [x \in Prices |-> g[s][x]]
    OBVIOUS
  <2> QED BY <2>2 DEF IsFamily
<1>2. [s \in Sides |-> f[s]] = [s \in Sides |-> g[s]]
  BY <1>1
<1> QED BY <1>2 DEF IsFamily

LEMMA FifoFamily == \A B, ch : IsFamily(FifoOf(B, ch))
  BY DEF FifoOf, IsFamily

LEMMA FifoAt ==
  ASSUME NEW B, NEW ch, NEW s \in Sides, NEW x \in Prices
  PROVE  FifoOf(B, ch)[s][x] = IF B.ladders[s][x] = Null THEN << >>
                               ELSE RefsOf(B, ch[B.ladders[s][x]])
  BY DEF FifoOf

\* A family with one queue changed.
Put(f, side, p, q) == [f EXCEPT ![side][p] = q]

LEMMA OneQueue ==
  ASSUME NEW f, IsFamily(f), NEW side \in Sides, NEW p \in Prices, NEW q
  PROVE  /\ IsFamily(Put(f, side, p, q))
         /\ \A s \in Sides, x \in Prices :
               Put(f, side, p, q)[s][x] = IF s = side /\ x = p THEN q ELSE f[s][x]
<1>1. PICK g : g = [f EXCEPT ![side][p] = q]
  OBVIOUS
<1>2. DOMAIN g = Sides /\ g = [s \in Sides |-> g[s]]
  BY <1>1 DEF IsFamily
<1>3. ASSUME NEW s \in Sides
      PROVE  /\ g[s] = [x \in Prices |-> g[s][x]]
             /\ \A x \in Prices : g[s][x] = IF s = side /\ x = p THEN q ELSE f[s][x]
  <2>1. f[s] = [x \in Prices |-> f[s][x]]
    BY DEF IsFamily
  <2>2. g[s] = IF s = side THEN [f[s] EXCEPT ![p] = q] ELSE f[s]
    BY <1>1 DEF IsFamily
  <2>3. CASE s = side
    BY <2>1, <2>2, <2>3
  <2>4. CASE s # side
    BY <2>1, <2>2, <2>4
  <2> QED BY <2>3, <2>4
<1>4. IsFamily(g)
  BY <1>2, <1>3 DEF IsFamily
<1> QED BY <1>1, <1>3, <1>4 DEF Put

LEMMA RefsSame ==
  ASSUME NEW B, NEW C, NEW q, \A i \in 1 .. Len(q) : B.orders[q[i]].ref = C.orders[q[i]].ref
  PROVE  RefsOf(B, q) = RefsOf(C, q)
  BY DEF RefsOf

\* The orders of the queue q keep their references from the book W to the book E.
KeepsRefs(W, E, q) ==
  \A i \in 1 .. Len(q) : W.orders[q[i]].ref \in Refs /\ E.orders[q[i]].ref = W.orders[q[i]].ref

LEMMA RefsJoin ==
  ASSUME NEW W, NEW E, NEW q \in Seq(OrderHandles), NEW oh \in OrderHandles,
         E.orders[oh].ref \in Refs, KeepsRefs(W, E, q)
  PROVE  RefsOf(E, Append(q, oh)) = Append(RefsOf(W, q), E.orders[oh].ref)
<1>a. PICK ref \in Refs : E.orders[oh].ref = ref
  OBVIOUS
<1>b. /\ \A i \in 1 .. Len(q) : W.orders[q[i]].ref \in Refs
      /\ \A i \in 1 .. Len(q) : E.orders[q[i]].ref = W.orders[q[i]].ref
  BY DEF KeepsRefs
<1> USE <1>a, <1>b
<1>1. Len(q) \in Nat
  BY LenProperties
<1>2. RefsOf(W, q) \in Seq(Refs) /\ Len(RefsOf(W, q)) = Len(q)
  <2>1. RefsOf(W, q) \in [1 .. Len(q) -> Refs]
    BY DEF RefsOf
  <2> QED BY <1>1, <2>1, IsSequence
<1>3. PICK t : t = Append(q, oh)
  OBVIOUS
<1>4. Len(t) = Len(q) + 1 /\ t[Len(q) + 1] = oh /\ \A i \in 1 .. Len(q) : t[i] = q[i]
  BY <1>1, <1>3
<1>5. PICK u : u = Append(RefsOf(W, q), ref)
  OBVIOUS
<1>6. /\ u = [i \in 1 .. Len(q) + 1 |-> u[i]]
      /\ u[Len(q) + 1] = ref
      /\ \A i \in 1 .. Len(q) : u[i] = W.orders[q[i]].ref
  <2>1. u \in Seq(Refs) /\ Len(u) = Len(q) + 1
    BY <1>1, <1>2, <1>5
  <2>2. u[Len(q) + 1] = ref
    BY <1>1, <1>2, <1>5
  <2>3. \A i \in 1 .. Len(q) : u[i] = RefsOf(W, q)[i]
    BY <1>1, <1>2, <1>5
  <2>4. \A i \in 1 .. Len(q) : RefsOf(W, q)[i] = W.orders[q[i]].ref
    BY DEF RefsOf
  <2> QED BY <2>1, <2>2, <2>3, <2>4, LenProperties
<1>7. \A i \in 1 .. Len(q) + 1 : E.orders[t[i]].ref = u[i]
  <2>1. ASSUME NEW i \in 1 .. Len(q) + 1 PROVE E.orders[t[i]].ref = u[i]
    <3>1. CASE i = Len(q) + 1
      BY <1>4, <1>6, <3>1
    <3>2. CASE i # Len(q) + 1
      <4>1. i \in 1 .. Len(q)
        BY <1>1, <3>2
      <4> QED BY <1>4, <1>6, <4>1
    <3> QED BY <3>1, <3>2
  <2> QED BY <2>1
<1>8. RefsOf(E, t) = u
  BY <1>4, <1>6, <1>7 DEF RefsOf
<1> QED BY <1>3, <1>5, <1>8

LEMMA RefsLeave ==
  ASSUME NEW B, NEW F, NEW q \in Seq(OrderHandles), NEW k \in 1 .. Len(q),
         \A i \in 1 .. Len(q) : i # k => F.orders[q[i]].ref = B.orders[q[i]].ref,
         \A i \in 1 .. Len(q) : B.orders[q[i]].ref = B.orders[q[k]].ref => i = k
  PROVE  RefsOf(F, ClosedUp(q, k)) =
            ClosedUp(RefsOf(B, q), PlaceOf(RefsOf(B, q), B.orders[q[k]].ref))
<1>1. Len(q) \in Nat
  BY LenProperties
<1>2. PICK u : u = RefsOf(B, q)
  OBVIOUS
<1>3. DOMAIN u = 1 .. Len(q) /\ \A i \in 1 .. Len(q) : u[i] = B.orders[q[i]].ref
  BY <1>2 DEF RefsOf
<1>4. Len(u) = Len(q)
  <2>1. u \in [1 .. Len(q) -> {B.orders[q[i]].ref : i \in 1 .. Len(q)}]
    BY <1>2 DEF RefsOf
  <2> QED BY <1>1, <2>1, IsSequence
<1>5. PlaceOf(u, B.orders[q[k]].ref) = k
  <2>1. \A i \in DOMAIN u : u[i] = B.orders[q[k]].ref <=> i = k
    BY <1>3
  <2> QED BY <1>3, <2>1 DEF PlaceOf
<1>6. PICK t : t = ClosedUp(q, k)
  OBVIOUS
<1>7. /\ Len(t) = Len(q) - 1
      /\ \A i \in 1 .. Len(q) - 1 : t[i] = q[IF i < k THEN i ELSE i + 1]
  BY <1>6, ClosedUpPlaces
<1>8. \A i \in 1 .. Len(q) - 1 : F.orders[t[i]].ref = u[IF i < k THEN i ELSE i + 1]
  <2>1. ASSUME NEW i \in 1 .. Len(q) - 1
        PROVE  F.orders[t[i]].ref = u[IF i < k THEN i ELSE i + 1]
    <3>1. PICK j : j = IF i < k THEN i ELSE i + 1
      OBVIOUS
    <3>2. j \in 1 .. Len(q) /\ j # k
      BY <1>1, <3>1
    <3>3. F.orders[q[j]].ref = u[j]
      BY <1>3, <3>2
    <3> QED BY <1>7, <3>1, <3>3
  <2> QED BY <2>1
<1>9. ClosedUp(u, k) = [i \in 1 .. Len(q) - 1 |-> u[IF i < k THEN i ELSE i + 1]]
  BY <1>4 DEF ClosedUp
<1>10. RefsOf(F, t) = [i \in 1 .. Len(q) - 1 |-> F.orders[t[i]].ref]
  BY <1>7 DEF RefsOf
<1>11. RefsOf(F, t) = ClosedUp(u, k)
  BY <1>8, <1>9, <1>10
<1> QED BY <1>2, <1>5, <1>6, <1>11

LEMMA NoRefs == \A B : RefsOf(B, << >>) = << >>
<1>1. Len(<< >>) = 0
  OBVIOUS
<1>2. \A B : RefsOf(B, << >>) = [i \in 1 .. 0 |-> B.orders[<< >>[i]].ref]
  BY <1>1 DEF RefsOf
<1> QED BY <1>2

\* The level a side stores at a price, and its queue.
LEMMA Stored ==
  ASSUME NEW B, NEW ch, RecordsOK(B, ch), NEW s \in Sides, NEW x \in Prices,
         NEW lh, lh = B.ladders[s][x], lh # Null
  PROVE  /\ lh \in LevelHandles /\ B.levels[lh] # Free
         /\ ch[lh] \in Seq(OrderHandles)
         /\ \A i \in 1 .. Len(ch[lh]) :
               /\ ch[lh][i] \in OrderHandles
               /\ B.orders[ch[lh][i]] # Free /\ B.orders[ch[lh][i]].level = lh
               /\ B.orders[ch[lh][i]].ref \in Refs
<1>1. B \in Books /\ LaddersOK(B)
  BY DEF RecordsOK
<1>2. lh \in LevelHandles /\ B.levels[lh] # Free
  <2>1. lh \in LevelHandles
    BY <1>1, Fields
  <2> QED BY <1>1, <2>1 DEF LaddersOK
<1>3. /\ ch[lh] \in Seq(OrderHandles)
      /\ \A i \in 1 .. Len(ch[lh]) :
               /\ ch[lh][i] \in OrderHandles
               /\ B.orders[ch[lh][i]] # Free /\ B.orders[ch[lh][i]].level = lh
  BY <1>2, Queued
<1>4. \A h \in OrderHandles : B.orders[h] # Free => B.orders[h].ref \in Refs
  <2>1. \A h \in OrderHandles : B.orders[h] # Free => B.orders[h] \in Orders
    BY <1>1, Fields
  <2> QED BY <2>1 DEF Orders
<1> QED BY <1>2, <1>3, <1>4

LEMMA LevelledMaps ==
  ASSUME NEW B, NEW ch, RecordsOK(B, ch), NEW side \in Sides, NEW p \in Prices,
         NEW lh \in LevelHandles, B.ladders[side][p] = Null, B.levels[lh] = Free,
         NEW W, Levelled(W, B, lh, side, p),
         NEW c, c[lh] = << >>, \A x \in LevelHandles \ {lh} : c[x] = ch[x]
  PROVE  EntryOf(W) = EntryOf(B) /\ FifoOf(W, c) = FifoOf(B, ch)
<1>1. B \in Books /\ ch \in Chains
  BY DEF RecordsOK
<1>2. W.orders = B.orders /\ W.index = B.index
  BY DEF Levelled
<1>3. EntryOf(W) = EntryOf(B)
  BY <1>2 DEF EntryOf
<1>4. W.ladders[side][p] = lh
      /\ \A s \in Sides, x \in Prices : ~ (s = side /\ x = p) =>
            W.ladders[s][x] = B.ladders[s][x]
  <2>1. W.ladders = [B.ladders EXCEPT ![side][p] = lh]
    BY DEF Levelled
  <2>2. B.ladders \in [Sides -> [Prices -> LevelHandles \cup {Null}]]
    BY <1>1, Fields
  <2> QED BY <2>1, <2>2
<1>5. c[lh] = << >> /\ \A x \in LevelHandles \ {lh} : c[x] = ch[x]
  OBVIOUS
<1>6. ASSUME NEW s \in Sides, NEW x \in Prices
      PROVE  FifoOf(W, c)[s][x] = FifoOf(B, ch)[s][x]
  <2>1. CASE s = side /\ x = p
    <3>1. FifoOf(B, ch)[s][x] = << >>
      BY <2>1, FifoAt
    <3>2. lh # Null
      BY FlatBookAssumption
    <3>3. FifoOf(W, c)[s][x] = RefsOf(W, << >>)
      <4>1. W.ladders[s][x] = lh /\ c[lh] = << >>
        BY <1>4, <1>5, <2>1
      <4> QED BY <3>2, <4>1, FifoAt
    <3> QED BY <3>1, <3>3, NoRefs
  <2>2. CASE ~ (s = side /\ x = p)
    <3>1. W.ladders[s][x] = B.ladders[s][x]
      BY <1>4, <2>2
    <3>2. CASE B.ladders[s][x] = Null
      BY <3>1, <3>2, FifoAt
    <3>3. CASE B.ladders[s][x] # Null
      <4>1. B.ladders[s][x] \in LevelHandles \ {lh}
        BY <3>3, Stored
      <4>2. c[B.ladders[s][x]] = ch[B.ladders[s][x]]
        BY <1>5, <4>1
      <4>3. RefsOf(W, ch[B.ladders[s][x]]) = RefsOf(B, ch[B.ladders[s][x]])
        BY <1>2 DEF RefsOf
      <4>4. FifoOf(W, c)[s][x] = RefsOf(W, ch[B.ladders[s][x]])
        BY <3>1, <3>3, <4>2, FifoAt
      <4>5. FifoOf(B, ch)[s][x] = RefsOf(B, ch[B.ladders[s][x]])
        BY <3>3, FifoAt
      <4> QED BY <4>3, <4>4, <4>5
    <3> QED BY <3>2, <3>3
  <2> QED BY <2>1, <2>2
<1>7. FifoOf(W, c) = FifoOf(B, ch)
  <2>1. IsFamily(FifoOf(W, c)) /\ IsFamily(FifoOf(B, ch))
    BY FifoFamily
  <2> QED BY <1>6, <2>1, SameFamily
<1> QED BY <1>3, <1>7

LEMMA EmptiedMaps ==
  ASSUME NEW F, NEW c, RecordsOK(F, c), NEW lh \in LevelHandles,
         NEW side \in Sides, NEW p \in Prices, F.ladders[side][p] = lh,
         Len(c[lh]) = 0, NEW G, Emptied(G, F, lh, side, p)
  PROVE  EntryOf(G) = EntryOf(F) /\ FifoOf(G, c) = FifoOf(F, c)
<1>1. F \in Books
  BY DEF RecordsOK
<1>2. G.orders = F.orders /\ G.index = F.index
  BY DEF Emptied
<1>3. EntryOf(G) = EntryOf(F)
  BY <1>2 DEF EntryOf
<1>4. G.ladders[side][p] = Null
      /\ \A s \in Sides, x \in Prices : ~ (s = side /\ x = p) =>
            G.ladders[s][x] = F.ladders[s][x]
  <2>1. G.ladders = [F.ladders EXCEPT ![side][p] = Null]
    BY DEF Emptied
  <2>2. F.ladders \in [Sides -> [Prices -> LevelHandles \cup {Null}]]
    BY <1>1, Fields
  <2> QED BY <2>1, <2>2
<1>5. lh # Null
  BY FlatBookAssumption
<1>6. c[lh] = << >>
  <2>1. c[lh] \in Seq(OrderHandles)
    BY <1>5, Stored
  <2> QED BY <2>1, EmptySeq
<1>7. ASSUME NEW s \in Sides, NEW x \in Prices
      PROVE  FifoOf(G, c)[s][x] = FifoOf(F, c)[s][x]
  <2>1. CASE s = side /\ x = p
    <3>1. FifoOf(G, c)[s][x] = << >>
      BY <1>4, <2>1, FifoAt
    <3>2. FifoOf(F, c)[s][x] = RefsOf(F, << >>)
      BY <1>5, <1>6, <2>1, FifoAt
    <3> QED BY <3>1, <3>2, NoRefs
  <2>2. CASE ~ (s = side /\ x = p)
    <3>1. G.ladders[s][x] = F.ladders[s][x]
      BY <1>4, <2>2
    <3>2. RefsOf(G, c[F.ladders[s][x]]) = RefsOf(F, c[F.ladders[s][x]])
      BY <1>2 DEF RefsOf
    <3> QED BY <3>1, <3>2, FifoAt
  <2> QED BY <2>1, <2>2
<1>8. FifoOf(G, c) = FifoOf(F, c)
  BY <1>7, FifoFamily, SameFamily
<1> QED BY <1>3, <1>8

LEMMA SameMaps ==
  ASSUME NEW B, NEW ch, NEW C, C.orders = B.orders, C.index = B.index,
         C.ladders = B.ladders
  PROVE  EntryOf(C) = EntryOf(B) /\ FifoOf(C, ch) = FifoOf(B, ch)
<1>1. EntryOf(C) = EntryOf(B)
  BY DEF EntryOf
<1>2. \A q : RefsOf(C, q) = RefsOf(B, q)
  BY DEF RefsOf
<1>3. \A s \in Sides, x \in Prices : FifoOf(C, ch)[s][x] = FifoOf(B, ch)[s][x]
  BY <1>2, FifoAt
<1>4. FifoOf(C, ch) = FifoOf(B, ch)
  BY <1>3, FifoFamily, SameFamily
<1> QED BY <1>1, <1>4

\* The entry of a reference that rests, and that one does not.
LEMMA EntryAt ==
  ASSUME NEW B \in Books, IndexOK(B)
  PROVE  /\ EntryOf(B) = [r \in Refs |-> EntryOf(B)[r]]
         /\ \A r \in Refs : B.index[r] = Null => EntryOf(B)[r] = NoOrder
         /\ \A h \in OrderHandles : B.orders[h] # Free =>
               /\ B.orders[h].ref \in Refs /\ B.index[B.orders[h].ref] = h
               /\ EntryOf(B)[B.orders[h].ref] =
                     [side |-> B.orders[h].side, price |-> B.orders[h].price,
                      qty |-> B.orders[h].qty, owner |-> B.orders[h].owner]
<1>1. EntryOf(B) = [r \in Refs |-> EntryOf(B)[r]]
  BY DEF EntryOf
<1>2. \A r \in Refs : B.index[r] = Null => EntryOf(B)[r] = NoOrder
  BY DEF EntryOf
<1>3. ASSUME NEW h \in OrderHandles, B.orders[h] # Free
      PROVE  /\ B.orders[h].ref \in Refs /\ B.index[B.orders[h].ref] = h
             /\ EntryOf(B)[B.orders[h].ref] =
                   [side |-> B.orders[h].side, price |-> B.orders[h].price,
                    qty |-> B.orders[h].qty, owner |-> B.orders[h].owner]
  <2>1. B.orders[h] \in Orders
    BY <1>3, Fields
  <2>2. PICK r \in Refs : r = B.orders[h].ref
    BY <2>1 DEF Orders
  <2>3. B.index[r] = h
    BY <1>3, <2>2 DEF IndexOK
  <2>4. h # Null
    BY FlatBookAssumption
  <2>5. EntryOf(B)[r] = [side |-> B.orders[h].side, price |-> B.orders[h].price,
                         qty |-> B.orders[h].qty, owner |-> B.orders[h].owner]
    BY <2>3, <2>4 DEF EntryOf
  <2> QED BY <2>2, <2>3, <2>5
<1> QED BY <1>1, <1>2, <1>3

\* References that rest with other entries than before are accounted for by one.
LEMMA OneEntry ==
  ASSUME NEW B \in Books, IndexOK(B), NEW C \in Books, IndexOK(C),
         NEW ref \in Refs, NEW e, EntryOf(C)[ref] = e,
         \A r \in Refs \ {ref} : C.index[r] = B.index[r],
         \A h \in OrderHandles : B.orders[h] # Free /\ B.orders[h].ref # ref =>
            SameOrder(C.orders[h], B.orders[h]) /\ C.orders[h].qty = B.orders[h].qty
  PROVE  EntryOf(C) = [EntryOf(B) EXCEPT ![ref] = e]
<1>1. ASSUME NEW r \in Refs \ {ref} PROVE EntryOf(C)[r] = EntryOf(B)[r]
  <2>1. CASE B.index[r] = Null
    BY <2>1, EntryAt
  <2>2. CASE B.index[r] # Null
    <3>1. PICK h \in OrderHandles : h = B.index[r]
      BY <2>2, Fields
    <3>2. B.orders[h] # Free /\ B.orders[h].ref = r
      BY <3>1 DEF IndexOK
    <3>3. SameOrder(C.orders[h], B.orders[h]) /\ C.orders[h].qty = B.orders[h].qty
      BY <3>2
    <3>4. /\ C.orders[h] # Free /\ C.orders[h].ref = r /\ C.orders[h].qty = B.orders[h].qty
          /\ C.orders[h].side = B.orders[h].side /\ C.orders[h].price = B.orders[h].price
          /\ C.orders[h].owner = B.orders[h].owner
      BY <3>2, <3>3 DEF SameOrder
    <3>5. EntryOf(C)[r] = [side |-> C.orders[h].side, price |-> C.orders[h].price,
                           qty |-> C.orders[h].qty, owner |-> C.orders[h].owner]
      BY <3>4, EntryAt
    <3>6. EntryOf(B)[r] = [side |-> B.orders[h].side, price |-> B.orders[h].price,
                           qty |-> B.orders[h].qty, owner |-> B.orders[h].owner]
      BY <3>2, EntryAt
    <3> QED BY <3>4, <3>5, <3>6
  <2> QED BY <2>1, <2>2
<1>2. EntryOf(C) = [r \in Refs |-> EntryOf(C)[r]] /\ EntryOf(B) = [r \in Refs |-> EntryOf(B)[r]]
  BY EntryAt
<1> QED BY <1>1, <1>2

\* Read as a price-time priority book, E with queues c is W with queues d and one
\* order more, at the back of its queue.
Adds(E, c, W, d, ref, side, p, qty, owner) ==
    /\ EntryOf(E) = [EntryOf(W) EXCEPT ![ref] =
                        [side |-> side, price |-> p, qty |-> qty, owner |-> owner]]
    /\ FifoOf(E, c) = [FifoOf(W, d) EXCEPT ![side][p] =
                          Append(FifoOf(W, d)[side][p], ref)]

\* Shares come off an order, which keeps its place.
Lowers(L, B, ch, oh, shares) ==
    /\ EntryOf(L) = [EntryOf(B) EXCEPT ![B.orders[oh].ref] =
                        [side |-> B.orders[oh].side, price |-> B.orders[oh].price,
                         qty |-> B.orders[oh].qty - shares, owner |-> B.orders[oh].owner]]
    /\ FifoOf(L, ch) = FifoOf(B, ch)

\* An order leaves its queue.
Takes(F, c, B, ch, ref, side, p) ==
    /\ EntryOf(F) = [EntryOf(B) EXCEPT ![ref] = NoOrder]
    /\ FifoOf(F, c) = [FifoOf(B, ch) EXCEPT ![side][p] =
                          ClosedUp(FifoOf(B, ch)[side][p],
                                   PlaceOf(FifoOf(B, ch)[side][p], ref))]

LEMMA JoinedMaps ==
  ASSUME NEW W, NEW ch, RecordsOK(W, ch),
         NEW oh \in OrderHandles, W.orders[oh] = Free, NEW lh \in LevelHandles,
         NEW ref \in Refs, W.index[ref] = Null,
         NEW side \in Sides, NEW p \in Prices, W.ladders[side][p] = lh,
         NEW qty \in Nat, NEW owner \in Owners,
         NEW E, Joined(E, W, oh, lh, ref, side, p, qty, owner),
         NEW c, RecordsOK(E, c),
         c[lh] = Append(ch[lh], oh), \A x \in LevelHandles \ {lh} : c[x] = ch[x]
  PROVE  Adds(E, c, W, ch, ref, side, p, qty, owner)
<1>1. W \in Books /\ IndexOK(W) /\ LaddersOK(W) /\ E \in Books /\ IndexOK(E)
  BY DEF RecordsOK
<1>2. lh # Null
  BY FlatBookAssumption
<1>3. /\ E.orders[oh] = [ref |-> ref, qty |-> qty, price |-> p, side |-> side,
                         owner |-> owner, prev |-> W.levels[lh].tail, next |-> Null,
                         level |-> lh]
      /\ E.index = [W.index EXCEPT ![ref] = oh]
      /\ E.ladders = W.ladders
  BY DEF Joined
<1>4. \A h \in OrderHandles \ {oh} : W.orders[h] # Free =>
         SameOrder(E.orders[h], W.orders[h]) /\ E.orders[h].qty = W.orders[h].qty
  BY DEF Joined
<1>5. /\ E.orders[oh].ref = ref /\ E.orders[oh].price = p /\ E.orders[oh].side = side
      /\ E.orders[oh].qty = qty /\ E.orders[oh].owner = owner
  BY <1>3
<1>6. E.index[ref] = oh /\ \A r \in Refs \ {ref} : E.index[r] = W.index[r]
  <2>1. W.index \in [Refs -> OrderHandles \cup {Null}]
    BY <1>1, Fields
  <2> QED BY <1>3, <2>1
<1>7. E.orders[oh] # Free
  BY <1>1, <1>6 DEF IndexOK
<1>8. EntryOf(E)[ref] = [side |-> side, price |-> p, qty |-> qty, owner |-> owner]
  BY <1>1, <1>5, <1>7, EntryAt
<1>9. EntryOf(E) = [EntryOf(W) EXCEPT ![ref] =
                      [side |-> side, price |-> p, qty |-> qty, owner |-> owner]]
  <2>1. \A h \in OrderHandles : W.orders[h] # Free /\ W.orders[h].ref # ref =>
           SameOrder(E.orders[h], W.orders[h]) /\ E.orders[h].qty = W.orders[h].qty
    BY <1>4
  <2> QED BY <1>1, <1>6, <1>8, <2>1, OneEntry
<1>10. /\ ch[lh] \in Seq(OrderHandles)
       /\ \A i \in 1 .. Len(ch[lh]) :
             ch[lh][i] \in OrderHandles \ {oh} /\ W.orders[ch[lh][i]] # Free
             /\ W.orders[ch[lh][i]].ref \in Refs
  BY <1>2, Stored
<1>11. RefsOf(E, Append(ch[lh], oh)) = Append(RefsOf(W, ch[lh]), ref)
  <2>1. KeepsRefs(W, E, ch[lh])
    BY <1>4, <1>10 DEF SameOrder, KeepsRefs
  <2>2. ch[lh] \in Seq(OrderHandles)
    BY <1>10
  <2>3. E.orders[oh].ref = ref
    BY <1>5
  <2>4. RefsOf(E, Append(ch[lh], oh)) = Append(RefsOf(W, ch[lh]), E.orders[oh].ref)
    BY <2>1, <2>2, <2>3, RefsJoin
  <2> QED BY <2>3, <2>4
<1>12. FifoOf(W, ch)[side][p] = RefsOf(W, ch[lh])
  BY <1>2, FifoAt
<1>13. PICK q : q = Append(FifoOf(W, ch)[side][p], ref)
  OBVIOUS
<1>14. PICK g : g = [FifoOf(W, ch) EXCEPT ![side][p] = q]
  OBVIOUS
<1>15. /\ IsFamily(g)
       /\ \A s \in Sides, x \in Prices :
             g[s][x] = IF s = side /\ x = p THEN q ELSE FifoOf(W, ch)[s][x]
  <2>1. PICK f : f = FifoOf(W, ch) /\ IsFamily(f)
    BY FifoFamily
  <2>2. /\ IsFamily(Put(f, side, p, q))
        /\ \A s \in Sides, x \in Prices :
              Put(f, side, p, q)[s][x] = IF s = side /\ x = p THEN q ELSE f[s][x]
    BY <2>1, OneQueue
  <2>3. g = Put(f, side, p, q)
    BY <1>14, <2>1 DEF Put
  <2> QED BY <2>1, <2>2, <2>3
<1>16. ASSUME NEW s \in Sides, NEW x \in Prices PROVE FifoOf(E, c)[s][x] = g[s][x]
  <2>1. CASE s = side /\ x = p
    <3>1. FifoOf(E, c)[side][p] = RefsOf(E, Append(ch[lh], oh))
      <4>1. E.ladders[side][p] = lh
        BY <1>3
      <4>2. PICK y : y = E.ladders[side][p]
        OBVIOUS
      <4>3. FifoOf(E, c)[side][p] = RefsOf(E, c[y])
        BY <1>2, <4>1, <4>2, FifoAt
      <4> QED BY <4>1, <4>2, <4>3
    <3> QED BY <1>11, <1>12, <1>13, <1>15, <2>1, <3>1
  <2>2. CASE ~ (s = side /\ x = p)
    <3>1. g[s][x] = FifoOf(W, ch)[s][x]
      BY <1>15, <2>2
    <3>2. CASE W.ladders[s][x] = Null
      BY <1>3, <3>1, <3>2, FifoAt
    <3>3. CASE W.ladders[s][x] # Null
      <4>1. PICK y : y = W.ladders[s][x]
        OBVIOUS
      <4>2. y \in LevelHandles /\ y # Null
        BY <3>3, <4>1, Stored
      <4>3. y # lh
        BY <1>1, <1>2, <2>2, <4>1 DEF LaddersOK
      <4>4. \A i \in 1 .. Len(ch[y]) : ch[y][i] \in OrderHandles /\ W.orders[ch[y][i]] # Free
        BY <4>1, <4>2, Stored
      <4>5. \A i \in 1 .. Len(ch[y]) : E.orders[ch[y][i]].ref = W.orders[ch[y][i]].ref
        BY <1>4, <4>4 DEF SameOrder
      <4>6. RefsOf(E, ch[y]) = RefsOf(W, ch[y])
        BY <4>5, RefsSame
      <4>7. FifoOf(E, c)[s][x] = RefsOf(E, ch[y])
        BY <1>3, <4>1, <4>2, <4>3, FifoAt
      <4>8. FifoOf(W, ch)[s][x] = RefsOf(W, ch[y])
        BY <4>1, <4>2, FifoAt
      <4> QED BY <3>1, <4>6, <4>7, <4>8
    <3> QED BY <3>2, <3>3
  <2> QED BY <2>1, <2>2
<1>17. FifoOf(E, c) = g
  <2>1. IsFamily(FifoOf(E, c))
    BY FifoFamily
  <2> QED BY <1>15, <1>16, <2>1, SameFamily
<1> QED BY <1>9, <1>13, <1>14, <1>17 DEF Adds

LEMMA LessMaps ==
  ASSUME NEW B, NEW ch, RecordsOK(B, ch), NEW oh \in OrderHandles, B.orders[oh] # Free,
         NEW L, NEW shares, Less(L, B, oh, shares), RecordsOK(L, ch)
  PROVE  Lowers(L, B, ch, oh, shares)
<1>1. B \in Books /\ IndexOK(B) /\ L \in Books /\ IndexOK(L)
  BY DEF RecordsOK
<1>2. PICK ref \in Refs : ref = B.orders[oh].ref
  BY <1>1, EntryAt
<1>3. /\ SameOrder(L.orders[oh], B.orders[oh])
      /\ L.orders[oh].qty = B.orders[oh].qty - shares
      /\ \A h \in OrderHandles \ {oh} : L.orders[h] = B.orders[h]
      /\ L.index = B.index /\ L.ladders = B.ladders
  BY DEF Less
<1>4. /\ L.orders[oh] # Free /\ L.orders[oh].ref = ref
      /\ L.orders[oh].side = B.orders[oh].side /\ L.orders[oh].price = B.orders[oh].price
      /\ L.orders[oh].owner = B.orders[oh].owner
  BY <1>2, <1>3 DEF SameOrder
<1>5. PICK e : e = [side |-> B.orders[oh].side, price |-> B.orders[oh].price,
                    qty |-> B.orders[oh].qty - shares, owner |-> B.orders[oh].owner]
  OBVIOUS
<1>6. EntryOf(L)[ref] = e
  <2>1. EntryOf(L)[ref] = [side |-> L.orders[oh].side, price |-> L.orders[oh].price,
                           qty |-> L.orders[oh].qty, owner |-> L.orders[oh].owner]
    BY <1>1, <1>4, EntryAt
  <2> QED BY <1>3, <1>4, <1>5, <2>1
<1>7. EntryOf(L) = [EntryOf(B) EXCEPT ![ref] = e]
  <2>1. \A h \in OrderHandles : B.orders[h] # Free /\ B.orders[h].ref # ref =>
           SameOrder(L.orders[h], B.orders[h]) /\ L.orders[h].qty = B.orders[h].qty
    BY <1>2, <1>3 DEF SameOrder
  <2> QED BY <1>1, <1>3, <1>6, <2>1, OneEntry
<1>8. \A h \in OrderHandles : L.orders[h].ref = B.orders[h].ref
  BY <1>2, <1>3, <1>4
<1>9. ASSUME NEW s \in Sides, NEW x \in Prices
      PROVE  FifoOf(L, ch)[s][x] = FifoOf(B, ch)[s][x]
  <2>1. CASE B.ladders[s][x] = Null
    BY <1>3, <2>1, FifoAt
  <2>2. CASE B.ladders[s][x] # Null
    <3>1. PICK y : y = B.ladders[s][x]
      OBVIOUS
    <3>2. \A i \in 1 .. Len(ch[y]) : ch[y][i] \in OrderHandles
      BY <2>2, <3>1, Stored
    <3>3. RefsOf(L, ch[y]) = RefsOf(B, ch[y])
      BY <1>8, <3>2, RefsSame
    <3>4. FifoOf(L, ch)[s][x] = RefsOf(L, ch[y])
      BY <1>3, <2>2, <3>1, FifoAt
    <3>5. FifoOf(B, ch)[s][x] = RefsOf(B, ch[y])
      BY <2>2, <3>1, FifoAt
    <3> QED BY <3>3, <3>4, <3>5
  <2> QED BY <2>1, <2>2
<1>10. FifoOf(L, ch) = FifoOf(B, ch)
  <2>1. IsFamily(FifoOf(L, ch)) /\ IsFamily(FifoOf(B, ch))
    BY FifoFamily
  <2> QED BY <1>9, <2>1, SameFamily
<1> QED BY <1>2, <1>5, <1>7, <1>10 DEF Lowers

\* No level is at two prices.
LEMMA LaddersApart ==
  ASSUME NEW B, LaddersOK(B), NEW o \in Sides, NEW u \in Prices, NEW t \in Sides, NEW z \in Prices,
         B.ladders[o][u] # Null, B.ladders[t][z] = B.ladders[o][u]
  PROVE  t = o /\ z = u
  BY DEF LaddersOK

LEMMA LeftMaps ==
  ASSUME NEW B, NEW ch, RecordsOK(B, ch), NEW oh \in OrderHandles, B.orders[oh] # Free,
         NEW lh, lh = B.orders[oh].level, NEW F, Left(F, B, oh), NEW c, RecordsOK(F, c),
         c[lh] = ClosedUp(ch[lh], PlaceOf(ch[lh], oh)),
         \A x \in LevelHandles \ {lh} : c[x] = ch[x],
         NEW side, side = B.orders[oh].side, NEW p, p = B.orders[oh].price,
         NEW ref, ref = B.orders[oh].ref
  PROVE  Takes(F, c, B, ch, ref, side, p)
<1>1. B \in Books /\ IndexOK(B) /\ LaddersOK(B) /\ F \in Books /\ IndexOK(F)
  BY DEF RecordsOK
<1>2. /\ lh \in LevelHandles /\ lh # Null /\ side \in Sides /\ p \in Prices
      /\ B.ladders[side][p] = lh /\ ref \in Refs
  <2>1. ref \in Refs
    BY <1>1, EntryAt
  <2> QED BY <1>1, <2>1, OrderPlaced
<1>3. \A h \in OrderHandles \ {oh} : B.orders[h] # Free =>
         SameOrder(F.orders[h], B.orders[h]) /\ F.orders[h].qty = B.orders[h].qty
  BY DEF Left
<1>4. F.index[ref] = Null /\ \A r \in Refs \ {ref} : F.index[r] = B.index[r]
  <2>1. F.index = [B.index EXCEPT ![ref] = Null]
    BY DEF Left
  <2>2. B.index \in [Refs -> OrderHandles \cup {Null}]
    BY <1>1, Fields
  <2> QED BY <1>2, <2>1, <2>2
<1>5. F.ladders = B.ladders
  BY DEF Left
<1>6. EntryOf(F) = [EntryOf(B) EXCEPT ![ref] = NoOrder]
  <2>1. EntryOf(F)[ref] = NoOrder
    BY <1>1, <1>2, <1>4, EntryAt
  <2>2. \A h \in OrderHandles : B.orders[h] # Free /\ B.orders[h].ref # ref =>
           SameOrder(F.orders[h], B.orders[h]) /\ F.orders[h].qty = B.orders[h].qty
    BY <1>3
  <2>3. ref \in Refs /\ \A r \in Refs \ {ref} : F.index[r] = B.index[r]
    BY <1>2, <1>4
  <2> QED BY <1>1, <2>1, <2>2, <2>3, OneEntry
<1>7. PICK k : k = PlaceOf(ch[lh], oh)
  OBVIOUS
<1>8. PICK q \in Seq(OrderHandles) : q = ch[lh]
  BY <1>2, Stored
<1>9. k \in 1 .. Len(q) /\ q[k] = oh
  BY <1>7, <1>8, Neighbours
<1>10. /\ \A i \in 1 .. Len(q) : q[i] \in OrderHandles /\ B.orders[q[i]] # Free
       /\ \A i, j \in 1 .. Len(q) : q[i] = q[j] => i = j
  <2>1. lh \in LevelHandles /\ B.levels[lh] # Free
    BY <1>2, Stored, SMTT(30)
  <2>2. /\ \A i \in 1 .. Len(ch[lh]) : ch[lh][i] \in OrderHandles /\ B.orders[ch[lh][i]] # Free
        /\ \A i, j \in 1 .. Len(ch[lh]) : ch[lh][i] = ch[lh][j] => i = j
    BY <2>1, Queued, SMTT(30)
  <2> QED BY <1>8, <2>2
<1>11. \A i \in 1 .. Len(q) : B.orders[q[i]].ref = ref => i = k
  <2>1. ASSUME NEW i \in 1 .. Len(q), B.orders[q[i]].ref = ref PROVE i = k
    <3>1. B.index[ref] = q[i] /\ B.index[ref] = oh
      BY <1>1, <1>2, <1>10, <2>1 DEF IndexOK
    <3> QED BY <1>9, <1>10, <3>1
  <2> QED BY <2>1
<1>12. \A i \in 1 .. Len(q) : i # k => F.orders[q[i]].ref = B.orders[q[i]].ref
  <2>1. \A i \in 1 .. Len(q) : i # k => q[i] # oh
    BY <1>9, <1>10
  <2> QED BY <1>3, <1>10, <2>1 DEF SameOrder
<1>13. RefsOf(F, ClosedUp(q, k)) = ClosedUp(RefsOf(B, q), PlaceOf(RefsOf(B, q), ref))
  BY <1>9, <1>11, <1>12, RefsLeave
<1>14. FifoOf(B, ch)[side][p] = RefsOf(B, q)
  BY <1>2, <1>8, FifoAt
<1>15. PICK u : u = ClosedUp(FifoOf(B, ch)[side][p], PlaceOf(FifoOf(B, ch)[side][p], ref))
  OBVIOUS
<1>16. PICK g : g = [FifoOf(B, ch) EXCEPT ![side][p] = u]
  OBVIOUS
<1>17. /\ IsFamily(g)
       /\ \A s \in Sides, x \in Prices :
             g[s][x] = IF s = side /\ x = p THEN u ELSE FifoOf(B, ch)[s][x]
  <2>1. PICK f : f = FifoOf(B, ch) /\ IsFamily(f)
    BY FifoFamily
  <2>2. /\ IsFamily(Put(f, side, p, u))
        /\ \A s \in Sides, x \in Prices :
              Put(f, side, p, u)[s][x] = IF s = side /\ x = p THEN u ELSE f[s][x]
    BY <1>2, <2>1, OneQueue
  <2>3. g = Put(f, side, p, u)
    BY <1>16, <2>1 DEF Put
  <2> QED BY <2>1, <2>2, <2>3
<1>18. ASSUME NEW s \in Sides, NEW x \in Prices PROVE FifoOf(F, c)[s][x] = g[s][x]
  <2>1. CASE s = side /\ x = p
    <3>1. FifoOf(F, c)[side][p] = RefsOf(F, ClosedUp(q, k))
      BY <1>2, <1>5, <1>7, <1>8, FifoAt
    <3> QED BY <1>13, <1>14, <1>15, <1>17, <2>1, <3>1
  <2>2. CASE ~ (s = side /\ x = p)
    <3>1. g[s][x] = FifoOf(B, ch)[s][x]
      BY <1>17, <2>2
    <3>2. CASE B.ladders[s][x] = Null
      BY <1>5, <3>1, <3>2, FifoAt
    <3>3. CASE B.ladders[s][x] # Null
      <4>1. PICK y : y = B.ladders[s][x]
        OBVIOUS
      <4>2. y \in LevelHandles /\ y # Null
        BY <3>3, <4>1, Stored
      <4>3. y # lh
        <5>1. \A t \in Sides, z \in Prices : B.ladders[t][z] = lh => t = side /\ z = p
          <6>1. \A side1, t \in Sides, z, price1 \in Prices :
                   B.ladders[side1][price1] # Null /\ B.ladders[t][z] = B.ladders[side1][price1]
                      => t = side1 /\ z = price1
            BY <1>1, LaddersApart
          <6> QED BY <1>2, <6>1
        <5> QED BY <2>2, <4>1, <5>1
      <4>4. \A i \in 1 .. Len(ch[y]) :
               ch[y][i] \in OrderHandles \ {oh} /\ B.orders[ch[y][i]] # Free
        <5>1. \A i \in 1 .. Len(ch[y]) : /\ ch[y][i] \in OrderHandles
                                          /\ B.orders[ch[y][i]] # Free
                                          /\ B.orders[ch[y][i]].level = y
          BY <4>1, <4>2, Stored
        <5> QED BY <4>3, <5>1
      <4>5. \A i \in 1 .. Len(ch[y]) : F.orders[ch[y][i]].ref = B.orders[ch[y][i]].ref
        BY <1>3, <4>4 DEF SameOrder
      <4>6. RefsOf(F, ch[y]) = RefsOf(B, ch[y])
        BY <4>5, RefsSame
      <4>7. FifoOf(F, c)[s][x] = RefsOf(F, ch[y])
        BY <1>5, <4>1, <4>2, <4>3, FifoAt
      <4>8. FifoOf(B, ch)[s][x] = RefsOf(B, ch[y])
        BY <4>1, <4>2, FifoAt
      <4> QED BY <3>1, <4>6, <4>7, <4>8
    <3> QED BY <3>2, <3>3
  <2> QED BY <2>1, <2>2
<1>19. FifoOf(F, c) = g
  <2>1. IsFamily(FifoOf(F, c))
    BY FifoFamily
  <2> QED BY <1>17, <1>18, <2>1, SameFamily
<1> QED BY <1>6, <1>15, <1>16, <1>19 DEF Takes

------------------------------------------------------------------------------
(* The counts: what a recount of the records gives. *)

SharesOf(B) == [h \in OrderHandles |-> IF B.orders[h] = Free THEN 0 ELSE B.orders[h].qty]

OnSide(B, side) == {h \in OrderHandles : B.orders[h] # Free /\ B.orders[h].side = side}

\* The shares of the records of X.
Total(B, X) == SumFunctionOnSet(SharesOf(B), X)

CountsOK(B) ==
    /\ \A lh \in LevelHandles : B.levels[lh] # Free =>
          B.levels[lh].total_qty = Total(B, On(B, lh))
    /\ \A side \in Sides :
          /\ B.stats.total_qty[side] = Total(B, OnSide(B, side))
          /\ B.stats.level_count[side] = Cardinality(StoredPrices(B, side))
    /\ B.stats.order_count = Cardinality(Live(B))

LEMMA SharesAreNumbers ==
  ASSUME NEW B \in Books, NEW X \in SUBSET OrderHandles
  PROVE  /\ IsFiniteSet(X)
         /\ \A h \in OrderHandles : SharesOf(B)[h] \in Int
         /\ \A h \in OrderHandles : B.orders[h] # Free => SharesOf(B)[h] = B.orders[h].qty
         /\ Total(B, X) \in Int
<1>1. IsFiniteSet(X)
  BY FlatBookAssumption, FS_Subset
<1>2. \A h \in OrderHandles : B.orders[h] # Free => SharesOf(B)[h] = B.orders[h].qty
  BY DEF SharesOf
<1>3. \A h \in OrderHandles : SharesOf(B)[h] \in Int
  <2>1. ASSUME NEW h \in OrderHandles PROVE SharesOf(B)[h] \in Int
    <3>1. CASE B.orders[h] = Free
      BY <3>1 DEF SharesOf
    <3>2. CASE B.orders[h] # Free
      <4>1. B.orders[h] \in Orders
        BY <3>2, Fields
      <4>2. B.orders[h].qty \in Int
        BY <4>1 DEF Orders
      <4> QED BY <1>2, <3>2, <4>2
    <3> QED BY <3>1, <3>2
  <2> QED BY <2>1
<1>4. Total(B, X) \in Int
  <2>1. \A h \in X : SharesOf(B)[h] \in Int
    BY <1>3
  <2>2. PICK f : f = SharesOf(B)
    OBVIOUS
  <2>3. SumFunctionOnSet(f, X) \in Int
    BY <1>1, <2>1, <2>2, SumSplits
  <2> QED BY <2>2, <2>3 DEF Total
<1> QED BY <1>1, <1>2, <1>3, <1>4

LEMMA TotalSame ==
  ASSUME NEW B \in Books, NEW C \in Books, NEW X \in SUBSET OrderHandles,
         \A h \in X : SharesOf(C)[h] = SharesOf(B)[h]
  PROVE  Total(C, X) = Total(B, X)
<1>1. IsFiniteSet(X)
  BY SharesAreNumbers
<1>2. PICK f : f = SharesOf(B)
  OBVIOUS
<1>3. PICK g : g = SharesOf(C)
  OBVIOUS
<1>4. SumFunctionOnSet(f, X) = SumFunctionOnSet(g, X)
  BY <1>1, <1>2, <1>3, SumSame
<1> QED BY <1>2, <1>3, <1>4 DEF Total

LEMMA TotalGrows ==
  ASSUME NEW B \in Books, NEW C \in Books, NEW X \in SUBSET OrderHandles,
         \A h \in X : SharesOf(C)[h] = SharesOf(B)[h],
         NEW oh \in OrderHandles, oh \notin X
  PROVE  Total(C, X \cup {oh}) = Total(B, X) + SharesOf(C)[oh]
<1>1. IsFiniteSet(X) /\ \A h \in OrderHandles : SharesOf(C)[h] \in Int
  BY SharesAreNumbers
<1>2. PICK g : g = SharesOf(C)
  OBVIOUS
<1>3. \A y \in X \cup {oh} : g[y] \in Int
  BY <1>1, <1>2
<1>4. SumFunctionOnSet(g, X \cup {oh}) = SumFunctionOnSet(g, X) + g[oh]
  BY <1>1, <1>3, SumGrows
<1>5. Total(C, X \cup {oh}) = Total(C, X) + SharesOf(C)[oh]
  BY <1>2, <1>4 DEF Total
<1>6. Total(C, X) = Total(B, X)
  BY TotalSame
<1> QED BY <1>5, <1>6

LEMMA TotalChanges ==
  ASSUME NEW B \in Books, NEW C \in Books, NEW X \in SUBSET OrderHandles,
         NEW oh \in X, \A h \in X \ {oh} : SharesOf(C)[h] = SharesOf(B)[h]
  PROVE  Total(C, X) = Total(B, X) - SharesOf(B)[oh] + SharesOf(C)[oh]
<1>1. /\ IsFiniteSet(X) /\ \A h \in X : SharesOf(C)[h] \in Int
      /\ \A h \in X : SharesOf(B)[h] \in Int
  BY SharesAreNumbers
<1>2. PICK f : f = SharesOf(B)
  OBVIOUS
<1>3. PICK g : g = SharesOf(C)
  OBVIOUS
<1>4. /\ \A y \in X : f[y] \in Int /\ g[y] \in Int
      /\ \A y \in X \ {oh} : f[y] = g[y]
  BY <1>1, <1>2, <1>3
<1>5. SumFunctionOnSet(g, X) = SumFunctionOnSet(f, X) - f[oh] + g[oh]
  BY <1>1, <1>4, SumChanges
<1> QED BY <1>2, <1>3, <1>5 DEF Total

LEMMA TotalWithout ==
  ASSUME NEW B \in Books, NEW C \in Books, NEW X \in SUBSET OrderHandles,
         NEW oh \in OrderHandles, SharesOf(B)[oh] = 0,
         \A h \in X \ {oh} : SharesOf(C)[h] = SharesOf(B)[h]
  PROVE  Total(C, X \ {oh}) = Total(B, X)
<1>1. PICK Y \in SUBSET OrderHandles : Y = X \ {oh}
  OBVIOUS
<1>2. Total(C, Y) = Total(B, Y)
  <2>1. \A h \in Y : SharesOf(C)[h] = SharesOf(B)[h]
    BY <1>1
  <2> QED BY <2>1, TotalSame
<1>3. CASE oh \in X
  <2>1. Y \cup {oh} = X /\ oh \notin Y
    BY <1>1, <1>3
  <2>2. Total(B, Y \cup {oh}) = Total(B, Y) + SharesOf(B)[oh]
    BY <2>1, TotalGrows
  <2>3. Total(B, Y) \in Int
    BY SharesAreNumbers
  <2> QED BY <1>1, <1>2, <2>1, <2>2, <2>3
<1>4. CASE oh \notin X
  BY <1>1, <1>2, <1>4
<1> QED BY <1>3, <1>4

LEMMA LevelledCounts ==
  ASSUME NEW B, NEW ch, RecordsOK(B, ch), CountsOK(B), NEW side \in Sides, NEW p \in Prices,
         NEW lh \in LevelHandles, B.ladders[side][p] = Null, B.levels[lh] = Free,
         NEW W, Levelled(W, B, lh, side, p)
  PROVE  /\ CountsOK(W)
         /\ StoredPrices(W, side) = StoredPrices(B, side) \cup {p}
         /\ \A s \in Sides \ {side} : StoredPrices(W, s) = StoredPrices(B, s)
<1>1. B \in Books /\ LaddersOK(B) /\ W \in Books
  BY DEF RecordsOK, Levelled
<1>2. W.orders = B.orders
  BY DEF Levelled
<1>3. /\ \A X : Total(W, X) = Total(B, X)
      /\ \A x \in LevelHandles : On(W, x) = On(B, x)
      /\ \A s \in Sides : OnSide(W, s) = OnSide(B, s)
      /\ Live(W) = Live(B)
  <2>1. SharesOf(W) = SharesOf(B)
    BY <1>2 DEF SharesOf
  <2> QED BY <1>2, <2>1 DEF Total, On, OnSide, Live
<1>4. /\ W.levels[lh].total_qty = 0
      /\ \A x \in LevelHandles \ {lh} : W.levels[x] = B.levels[x]
  <2>1. B.levels \in [LevelHandles -> Levels \cup {Free}]
    BY <1>1, Fields
  <2> QED BY <2>1 DEF Levelled
<1>5. /\ W.ladders[side][p] = lh
      /\ \A s \in Sides, x \in Prices : ~ (s = side /\ x = p) =>
            W.ladders[s][x] = B.ladders[s][x]
  <2>1. W.ladders = [B.ladders EXCEPT ![side][p] = lh]
    BY DEF Levelled
  <2>2. B.ladders \in [Sides -> [Prices -> LevelHandles \cup {Null}]]
    BY <1>1, Fields
  <2> QED BY <2>1, <2>2
<1>6. /\ StoredPrices(W, side) = StoredPrices(B, side) \cup {p}
      /\ p \notin StoredPrices(B, side)
      /\ \A s \in Sides \ {side} : StoredPrices(W, s) = StoredPrices(B, s)
  <2>1. lh # Null
    BY FlatBookAssumption
  <2> QED BY <1>5, <2>1 DEF StoredPrices
<1>7. ASSUME NEW x \in LevelHandles, W.levels[x] # Free
      PROVE  W.levels[x].total_qty = Total(W, On(W, x))
  <2>1. CASE x = lh
    <3>1. On(B, lh) = {}
      <4>1. \A h \in OrderHandles : B.orders[h] # Free => B.orders[h].level # lh
        BY <1>1, OrderPlaced
      <4> QED BY <4>1 DEF On
    <3>2. Total(B, {}) = 0
      BY SumEmpty DEF Total
    <3> QED BY <1>3, <1>4, <2>1, <3>1, <3>2
  <2>2. CASE x # lh
    BY <1>3, <1>4, <1>7, <2>2 DEF CountsOK
  <2> QED BY <2>1, <2>2
<1>8. ASSUME NEW s \in Sides
      PROVE  W.stats.level_count[s] = Cardinality(StoredPrices(W, s))
  <2>1. B.stats.level_count \in [Sides -> Int]
    BY <1>1, Fields DEF Stats
  <2>2. W.stats.level_count = [B.stats.level_count EXCEPT ![side] = @ + 1]
    BY DEF Levelled
  <2>3. B.stats.level_count[s] = Cardinality(StoredPrices(B, s))
    BY DEF CountsOK
  <2>4. CASE s = side
    <3>1. PICK T : T = StoredPrices(B, side)
      OBVIOUS
    <3>2. IsFiniteSet(T) /\ p \notin T /\ StoredPrices(W, side) = T \cup {p}
      <4>1. T \in SUBSET Prices
        BY <3>1 DEF StoredPrices
      <4> QED BY <1>6, <3>1, <4>1, FlatBookAssumption, FS_Subset
    <3>3. Cardinality(T \cup {p}) = Cardinality(T) + 1
      BY <3>2, FS_AddElement
    <3>4. W.stats.level_count[side] = B.stats.level_count[side] + 1
      BY <2>1, <2>2
    <3> QED BY <2>3, <2>4, <3>1, <3>2, <3>3, <3>4
  <2>5. CASE s # side
    <3>1. W.stats.level_count[s] = B.stats.level_count[s]
      BY <2>1, <2>2, <2>5
    <3> QED BY <1>6, <2>3, <2>5, <3>1
  <2> QED BY <2>4, <2>5
<1>9. \A s \in Sides : W.stats.total_qty[s] = Total(W, OnSide(W, s))
  <2>1. W.stats.total_qty = B.stats.total_qty
    BY DEF Levelled
  <2>2. \A s \in Sides : B.stats.total_qty[s] = Total(B, OnSide(B, s))
    BY DEF CountsOK
  <2> QED BY <1>3, <2>1, <2>2
<1>10. W.stats.order_count = Cardinality(Live(W))
  <2>1. W.stats.order_count = B.stats.order_count
    BY DEF Levelled
  <2>2. B.stats.order_count = Cardinality(Live(B))
    BY DEF CountsOK
  <2> QED BY <1>3, <2>1, <2>2
<1> QED BY <1>6, <1>7, <1>8, <1>9, <1>10 DEF CountsOK

LEMMA JoinedCounts ==
  ASSUME NEW W, NEW ch, RecordsOK(W, ch), CountsOK(W),
         NEW oh \in OrderHandles, W.orders[oh] = Free, NEW lh \in LevelHandles,
         W.levels[lh] # Free, NEW ref, NEW side \in Sides, NEW p, NEW qty, NEW owner,
         NEW E, Joined(E, W, oh, lh, ref, side, p, qty, owner), E.orders[oh] # Free
  PROVE  CountsOK(E)
<1>1. W \in Books /\ E \in Books
  BY DEF RecordsOK, Joined
<1>2. /\ E.orders[oh].qty = qty /\ E.orders[oh].side = side /\ E.orders[oh].level = lh
      /\ E.orders[oh] # Free
  <2>1. E.orders[oh] = [ref |-> ref, qty |-> qty, price |-> p, side |-> side,
                        owner |-> owner, prev |-> W.levels[lh].tail, next |-> Null,
                        level |-> lh]
    BY DEF Joined
  <2> QED BY <2>1
<1>3. \A h \in OrderHandles \ {oh} :
         \/ W.orders[h] = Free /\ E.orders[h] = Free
         \/ /\ W.orders[h] # Free /\ E.orders[h] # Free
            /\ E.orders[h].qty = W.orders[h].qty /\ E.orders[h].side = W.orders[h].side
            /\ E.orders[h].level = W.orders[h].level
  BY Zenon DEF Joined, SameOrder
<1>4. /\ \A h \in OrderHandles \ {oh} : SharesOf(E)[h] = SharesOf(W)[h]
      /\ SharesOf(E)[oh] = qty
  BY <1>2, <1>3 DEF SharesOf
<1>5. /\ On(E, lh) = On(W, lh) \cup {oh} /\ OnSide(E, side) = OnSide(W, side) \cup {oh}
      /\ Live(E) = Live(W) \cup {oh}
  BY <1>2, <1>3 DEF On, OnSide, Live
<1>6. /\ \A x \in LevelHandles \ {lh} : On(E, x) = On(W, x)
      /\ \A s \in Sides \ {side} : OnSide(E, s) = OnSide(W, s)
  BY <1>2, <1>3 DEF On, OnSide
<1>7. ASSUME NEW X \in SUBSET OrderHandles, oh \notin X
      PROVE  /\ Total(E, X \cup {oh}) = Total(W, X) + qty
             /\ Total(E, X) = Total(W, X)
  <2>1. \A h \in X : SharesOf(E)[h] = SharesOf(W)[h]
    BY <1>4, <1>7
  <2> QED BY <1>1, <1>4, <1>7, <2>1, TotalGrows, TotalSame
<1>8. /\ \A x \in LevelHandles : On(W, x) \in SUBSET OrderHandles /\ oh \notin On(W, x)
      /\ \A s \in Sides : OnSide(W, s) \in SUBSET OrderHandles /\ oh \notin OnSide(W, s)
      /\ Live(W) \in SUBSET OrderHandles /\ oh \notin Live(W)
  BY DEF On, OnSide, Live
<1>9. ASSUME NEW x \in LevelHandles, E.levels[x] # Free
      PROVE  E.levels[x].total_qty = Total(E, On(E, x))
  <2>1. CASE x = lh
    <3>1. E.levels[lh].total_qty = W.levels[lh].total_qty + qty
      BY DEF Joined
    <3>2. W.levels[lh].total_qty = Total(W, On(W, lh))
      BY DEF CountsOK
    <3>3. Total(E, On(W, lh) \cup {oh}) = Total(W, On(W, lh)) + qty
      BY <1>7, <1>8
    <3> QED BY <1>5, <2>1, <3>1, <3>2, <3>3
  <2>2. CASE x # lh
    <3>1. E.levels[x] = W.levels[x]
      BY <2>2 DEF Joined
    <3>2. W.levels[x].total_qty = Total(W, On(W, x))
      BY <1>9, <3>1 DEF CountsOK
    <3>3. Total(E, On(W, x)) = Total(W, On(W, x))
      BY <1>7, <1>8
    <3> QED BY <1>6, <2>2, <3>1, <3>2, <3>3
  <2> QED BY <2>1, <2>2
<1>10. ASSUME NEW s \in Sides
       PROVE  E.stats.total_qty[s] = Total(E, OnSide(E, s))
  <2>1. W.stats.total_qty \in [Sides -> Int]
    BY <1>1, Fields DEF Stats
  <2>2. E.stats.total_qty = [W.stats.total_qty EXCEPT ![side] = @ + qty]
    BY DEF Joined
  <2>3. W.stats.total_qty[s] = Total(W, OnSide(W, s))
    BY DEF CountsOK
  <2>4. CASE s = side
    <3>1. E.stats.total_qty[s] = W.stats.total_qty[s] + qty
      BY <2>1, <2>2, <2>4
    <3>2. Total(E, OnSide(W, s) \cup {oh}) = Total(W, OnSide(W, s)) + qty
      BY <1>7, <1>8
    <3> QED BY <1>5, <2>3, <2>4, <3>1, <3>2
  <2>5. CASE s # side
    <3>1. E.stats.total_qty[s] = W.stats.total_qty[s]
      BY <2>1, <2>2, <2>5
    <3>2. Total(E, OnSide(W, s)) = Total(W, OnSide(W, s))
      BY <1>7, <1>8
    <3> QED BY <1>6, <2>3, <2>5, <3>1, <3>2
  <2> QED BY <2>4, <2>5
<1>11. \A s \in Sides : E.stats.level_count[s] = Cardinality(StoredPrices(E, s))
  <2>1. E.stats.level_count = W.stats.level_count /\ E.ladders = W.ladders
    BY DEF Joined
  <2>2. \A s \in Sides : StoredPrices(E, s) = StoredPrices(W, s)
    BY <2>1 DEF StoredPrices
  <2>3. \A s \in Sides : W.stats.level_count[s] = Cardinality(StoredPrices(W, s))
    BY DEF CountsOK
  <2> QED BY <2>1, <2>2, <2>3
<1>12. E.stats.order_count = Cardinality(Live(E))
  <2>1. E.stats.order_count = W.stats.order_count + 1
    BY DEF Joined
  <2>2. W.stats.order_count = Cardinality(Live(W))
    BY DEF CountsOK
  <2>3. IsFiniteSet(Live(W))
    BY <1>1, <1>8, SharesAreNumbers
  <2>4. Cardinality(Live(W) \cup {oh}) = Cardinality(Live(W)) + 1
    BY <1>8, <2>3, FS_AddElement
  <2> QED BY <1>5, <2>1, <2>2, <2>4
<1> QED BY <1>9, <1>10, <1>11, <1>12 DEF CountsOK

LEMMA LessCounts ==
  ASSUME NEW B, NEW ch, RecordsOK(B, ch), CountsOK(B),
         NEW oh \in OrderHandles, B.orders[oh] # Free, NEW shares \in Nat,
         NEW L, Less(L, B, oh, shares)
  PROVE  CountsOK(L)
<1>1. B \in Books /\ L \in Books /\ LaddersOK(B)
  BY DEF RecordsOK, Less
<1>2. PICK lh \in LevelHandles : lh = B.orders[oh].level /\ B.levels[lh] # Free
  BY <1>1, OrderPlaced
<1>3. PICK side \in Sides : side = B.orders[oh].side
  BY <1>1, OrderPlaced
<1>4. /\ SameOrder(L.orders[oh], B.orders[oh])
      /\ L.orders[oh].qty = B.orders[oh].qty - shares
      /\ \A h \in OrderHandles \ {oh} : L.orders[h] = B.orders[h]
  BY DEF Less
<1>5. /\ L.orders[oh] # Free /\ L.orders[oh].side = side /\ L.orders[oh].level = lh
  BY <1>2, <1>3, <1>4 DEF SameOrder
<1>6. /\ \A x \in LevelHandles : On(L, x) = On(B, x)
      /\ \A s \in Sides : OnSide(L, s) = OnSide(B, s)
      /\ Live(L) = Live(B)
  BY <1>2, <1>3, <1>4, <1>5 DEF On, OnSide, Live
<1>7. /\ \A h \in OrderHandles \ {oh} : SharesOf(L)[h] = SharesOf(B)[h]
      /\ SharesOf(L)[oh] = SharesOf(B)[oh] - shares
  BY <1>4, <1>5 DEF SharesOf
<1>8. SharesOf(B)[oh] \in Int
  BY <1>1, SharesAreNumbers
<1>9. ASSUME NEW X \in SUBSET OrderHandles
      PROVE  /\ oh \in X => Total(L, X) = Total(B, X) - shares
             /\ oh \notin X => Total(L, X) = Total(B, X)
  <2>1. CASE oh \in X
    <3>1. Total(L, X) = Total(B, X) - SharesOf(B)[oh] + SharesOf(L)[oh]
      BY <1>1, <1>7, <2>1, TotalChanges
    <3>2. Total(B, X) \in Int
      BY <1>1, SharesAreNumbers
    <3>3. PICK a \in Int : a = Total(B, X)
      BY <3>2
    <3>4. PICK b \in Int : b = SharesOf(B)[oh]
      BY <1>8
    <3>5. a - b + (b - shares) = a - shares
      OBVIOUS
    <3> QED BY <1>7, <2>1, <3>1, <3>3, <3>4, <3>5
  <2>2. CASE oh \notin X
    <3>1. \A h \in X : SharesOf(L)[h] = SharesOf(B)[h]
      BY <1>7, <2>2
    <3> QED BY <1>1, <2>2, <3>1, TotalSame
  <2> QED BY <2>1, <2>2
<1>10. /\ \A x \in LevelHandles : On(B, x) \in SUBSET OrderHandles /\ (oh \in On(B, x) <=> x = lh)
       /\ \A s \in Sides : OnSide(B, s) \in SUBSET OrderHandles /\ (oh \in OnSide(B, s) <=> s = side)
  BY <1>2, <1>3 DEF On, OnSide
<1>11. ASSUME NEW x \in LevelHandles, L.levels[x] # Free
       PROVE  L.levels[x].total_qty = Total(L, On(L, x))
  <2>1. CASE x = lh
    <3>1. L.levels[lh].total_qty = B.levels[lh].total_qty - shares
      BY <1>2 DEF Less
    <3>2. B.levels[lh].total_qty = Total(B, On(B, lh))
      BY <1>2 DEF CountsOK
    <3>3. Total(L, On(B, lh)) = Total(B, On(B, lh)) - shares
      BY <1>9, <1>10
    <3> QED BY <1>6, <2>1, <3>1, <3>2, <3>3
  <2>2. CASE x # lh
    <3>1. L.levels[x] = B.levels[x]
      BY <1>2, <2>2 DEF Less
    <3>2. B.levels[x].total_qty = Total(B, On(B, x))
      BY <1>11, <3>1 DEF CountsOK
    <3>3. Total(L, On(B, x)) = Total(B, On(B, x))
      BY <1>9, <1>10, <2>2
    <3> QED BY <1>6, <3>1, <3>2, <3>3
  <2> QED BY <2>1, <2>2
<1>12. ASSUME NEW s \in Sides
       PROVE  L.stats.total_qty[s] = Total(L, OnSide(L, s))
  <2>1. B.stats.total_qty \in [Sides -> Int]
    BY <1>1, Fields DEF Stats
  <2>2. L.stats.total_qty = [B.stats.total_qty EXCEPT ![side] = @ - shares]
    BY <1>3 DEF Less
  <2>3. B.stats.total_qty[s] = Total(B, OnSide(B, s))
    BY DEF CountsOK
  <2>4. CASE s = side
    <3>1. L.stats.total_qty[s] = B.stats.total_qty[s] - shares
      BY <2>1, <2>2, <2>4
    <3>2. Total(L, OnSide(B, s)) = Total(B, OnSide(B, s)) - shares
      BY <1>9, <1>10, <2>4
    <3> QED BY <1>6, <2>3, <3>1, <3>2
  <2>5. CASE s # side
    <3>1. L.stats.total_qty[s] = B.stats.total_qty[s]
      BY <2>1, <2>2, <2>5
    <3>2. Total(L, OnSide(B, s)) = Total(B, OnSide(B, s))
      BY <1>9, <1>10, <2>5
    <3> QED BY <1>6, <2>3, <3>1, <3>2
  <2> QED BY <2>4, <2>5
<1>13. \A s \in Sides : L.stats.level_count[s] = Cardinality(StoredPrices(L, s))
  <2>1. L.stats.level_count = B.stats.level_count /\ L.ladders = B.ladders
    BY DEF Less
  <2>2. \A s \in Sides : StoredPrices(L, s) = StoredPrices(B, s)
    BY <2>1 DEF StoredPrices
  <2>3. \A s \in Sides : B.stats.level_count[s] = Cardinality(StoredPrices(B, s))
    BY DEF CountsOK
  <2> QED BY <2>1, <2>2, <2>3
<1>14. L.stats.order_count = Cardinality(Live(L))
  <2>1. L.stats.order_count = B.stats.order_count
    BY DEF Less
  <2>2. B.stats.order_count = Cardinality(Live(B))
    BY DEF CountsOK
  <2> QED BY <1>6, <2>1, <2>2
<1> QED BY <1>11, <1>12, <1>13, <1>14 DEF CountsOK

\* An order with no shares left leaves every total as it is.
LEMMA LeftCounts ==
  ASSUME NEW B, NEW ch, RecordsOK(B, ch), CountsOK(B),
         NEW oh \in OrderHandles, B.orders[oh] # Free, B.orders[oh].qty = 0,
         NEW F, Left(F, B, oh)
  PROVE  CountsOK(F)
<1>1. B \in Books /\ F \in Books /\ LaddersOK(B)
  BY DEF RecordsOK, Left
<1>2. PICK lh \in LevelHandles : lh = B.orders[oh].level /\ B.levels[lh] # Free
  BY <1>1, OrderPlaced
<1>3. F.orders[oh] = Free
  BY DEF Left
<1>4. \A h \in OrderHandles \ {oh} :
         \/ B.orders[h] = Free /\ F.orders[h] = Free
         \/ /\ B.orders[h] # Free /\ F.orders[h] # Free
            /\ F.orders[h].qty = B.orders[h].qty /\ F.orders[h].side = B.orders[h].side
            /\ F.orders[h].level = B.orders[h].level
  BY Zenon DEF Left, SameOrder
<1>5. /\ \A h \in OrderHandles \ {oh} : SharesOf(F)[h] = SharesOf(B)[h]
      /\ SharesOf(B)[oh] = 0
  BY <1>4 DEF SharesOf
<1>6. /\ \A x \in LevelHandles : On(F, x) = On(B, x) \ {oh}
      /\ \A s \in Sides : OnSide(F, s) = OnSide(B, s) \ {oh}
      /\ Live(F) = Live(B) \ {oh} /\ oh \in Live(B)
  BY <1>3, <1>4 DEF On, OnSide, Live
<1>7. \A X \in SUBSET OrderHandles : Total(F, X \ {oh}) = Total(B, X)
  <2>1. SUFFICES ASSUME NEW X \in SUBSET OrderHandles
                 PROVE  Total(F, X \ {oh}) = Total(B, X)
    OBVIOUS
  <2>2. \A h \in X \ {oh} : SharesOf(F)[h] = SharesOf(B)[h]
    BY <1>5
  <2> QED BY <1>1, <1>5, <2>2, TotalWithout
<1>8. /\ \A x \in LevelHandles : On(B, x) \in SUBSET OrderHandles
      /\ \A s \in Sides : OnSide(B, s) \in SUBSET OrderHandles
      /\ Live(B) \in SUBSET OrderHandles
  BY DEF On, OnSide, Live
<1>9. ASSUME NEW x \in LevelHandles, F.levels[x] # Free
      PROVE  F.levels[x].total_qty = Total(F, On(F, x))
  <2>1. F.levels[x].total_qty = B.levels[x].total_qty /\ B.levels[x] # Free
    <3>1. CASE x = lh
      BY <1>2, <3>1 DEF Left
    <3>2. CASE x # lh
      <4>1. F.levels[x] = B.levels[x]
        BY <1>2, <3>2 DEF Left
      <4> QED BY <1>9, <4>1
    <3> QED BY <3>1, <3>2
  <2>2. B.levels[x].total_qty = Total(B, On(B, x))
    BY <2>1 DEF CountsOK
  <2>3. Total(F, On(B, x) \ {oh}) = Total(B, On(B, x))
    BY <1>7, <1>8
  <2> QED BY <1>6, <2>1, <2>2, <2>3
<1>10. ASSUME NEW s \in Sides
       PROVE  F.stats.total_qty[s] = Total(F, OnSide(F, s))
  <2>1. F.stats.total_qty = B.stats.total_qty
    BY DEF Left
  <2>2. B.stats.total_qty[s] = Total(B, OnSide(B, s))
    BY DEF CountsOK
  <2>3. Total(F, OnSide(B, s) \ {oh}) = Total(B, OnSide(B, s))
    BY <1>7, <1>8
  <2> QED BY <1>6, <2>1, <2>2, <2>3
<1>11. \A s \in Sides : F.stats.level_count[s] = Cardinality(StoredPrices(F, s))
  <2>1. F.stats.level_count = B.stats.level_count /\ F.ladders = B.ladders
    BY DEF Left
  <2>2. \A s \in Sides : StoredPrices(F, s) = StoredPrices(B, s)
    BY <2>1 DEF StoredPrices
  <2>3. \A s \in Sides : B.stats.level_count[s] = Cardinality(StoredPrices(B, s))
    BY DEF CountsOK
  <2> QED BY <2>1, <2>2, <2>3
<1>12. F.stats.order_count = Cardinality(Live(F))
  <2>1. F.stats.order_count = B.stats.order_count - 1
    BY DEF Left
  <2>2. B.stats.order_count = Cardinality(Live(B))
    BY DEF CountsOK
  <2>3. IsFiniteSet(Live(B))
    BY <1>1, <1>8, SharesAreNumbers
  <2>4. PICK T : T = Live(B)
    OBVIOUS
  <2>5. Cardinality(T \ {oh}) = Cardinality(T) - 1
    BY <1>6, <2>3, <2>4, FS_RemoveElement
  <2> QED BY <1>6, <2>1, <2>2, <2>4, <2>5
<1> QED BY <1>9, <1>10, <1>11, <1>12 DEF CountsOK

LEMMA EmptiedCounts ==
  ASSUME NEW F, NEW c, RecordsOK(F, c), CountsOK(F), NEW lh \in LevelHandles,
         NEW side \in Sides, NEW p \in Prices, F.ladders[side][p] = lh,
         NEW G, Emptied(G, F, lh, side, p)
  PROVE  /\ CountsOK(G)
         /\ p \in StoredPrices(F, side)
         /\ StoredPrices(G, side) = StoredPrices(F, side) \ {p}
         /\ \A s \in Sides \ {side} : StoredPrices(G, s) = StoredPrices(F, s)
<1>1. F \in Books /\ G \in Books
  BY DEF RecordsOK, Emptied
<1>2. G.orders = F.orders
  BY DEF Emptied
<1>3. /\ \A X : Total(G, X) = Total(F, X)
      /\ \A x \in LevelHandles : On(G, x) = On(F, x)
      /\ \A s \in Sides : OnSide(G, s) = OnSide(F, s)
      /\ Live(G) = Live(F)
  <2>1. SharesOf(G) = SharesOf(F)
    BY <1>2 DEF SharesOf
  <2> QED BY <1>2, <2>1 DEF Total, On, OnSide, Live
<1>4. /\ G.levels[lh] = Free
      /\ \A x \in LevelHandles \ {lh} : G.levels[x] = F.levels[x]
  <2>1. G.levels = [F.levels EXCEPT ![lh] = Free]
    BY DEF Emptied
  <2>2. F.levels \in [LevelHandles -> Levels \cup {Free}]
    BY <1>1, Fields
  <2> QED BY <2>1, <2>2
<1>5. /\ G.ladders[side][p] = Null
      /\ \A s \in Sides, x \in Prices : ~ (s = side /\ x = p) =>
            G.ladders[s][x] = F.ladders[s][x]
  <2>1. G.ladders = [F.ladders EXCEPT ![side][p] = Null]
    BY DEF Emptied
  <2>2. F.ladders \in [Sides -> [Prices -> LevelHandles \cup {Null}]]
    BY <1>1, Fields
  <2> QED BY <2>1, <2>2
<1>6. /\ StoredPrices(G, side) = StoredPrices(F, side) \ {p}
      /\ p \in StoredPrices(F, side)
      /\ \A s \in Sides \ {side} : StoredPrices(G, s) = StoredPrices(F, s)
  <2>1. lh # Null
    BY FlatBookAssumption
  <2> QED BY <1>5, <2>1 DEF StoredPrices
<1>7. ASSUME NEW x \in LevelHandles, G.levels[x] # Free
      PROVE  G.levels[x].total_qty = Total(G, On(G, x))
  <2>1. G.levels[x] = F.levels[x]
    BY <1>4, <1>7
  <2>2. F.levels[x].total_qty = Total(F, On(F, x))
    BY <1>7, <2>1 DEF CountsOK
  <2> QED BY <1>3, <2>1, <2>2
<1>8. ASSUME NEW s \in Sides
      PROVE  G.stats.level_count[s] = Cardinality(StoredPrices(G, s))
  <2>1. F.stats.level_count \in [Sides -> Int]
    BY <1>1, Fields DEF Stats
  <2>2. G.stats.level_count = [F.stats.level_count EXCEPT ![side] = @ - 1]
    BY DEF Emptied
  <2>3. F.stats.level_count[s] = Cardinality(StoredPrices(F, s))
    BY DEF CountsOK
  <2>4. CASE s = side
    <3>1. PICK T : T = StoredPrices(F, side)
      OBVIOUS
    <3>2. IsFiniteSet(T) /\ p \in T /\ StoredPrices(G, side) = T \ {p}
      <4>1. T \in SUBSET Prices
        BY <3>1 DEF StoredPrices
      <4> QED BY <1>6, <3>1, <4>1, FlatBookAssumption, FS_Subset
    <3>3. Cardinality(T \ {p}) = Cardinality(T) - 1
      BY <3>2, FS_RemoveElement
    <3>4. G.stats.level_count[side] = F.stats.level_count[side] - 1
      BY <2>1, <2>2
    <3> QED BY <2>3, <2>4, <3>1, <3>2, <3>3, <3>4
  <2>5. CASE s # side
    <3>1. G.stats.level_count[s] = F.stats.level_count[s]
      BY <2>1, <2>2, <2>5
    <3> QED BY <1>6, <2>3, <2>5, <3>1
  <2> QED BY <2>4, <2>5
<1>9. \A s \in Sides : G.stats.total_qty[s] = Total(G, OnSide(G, s))
  <2>1. G.stats.total_qty = F.stats.total_qty
    BY DEF Emptied
  <2>2. \A s \in Sides : F.stats.total_qty[s] = Total(F, OnSide(F, s))
    BY DEF CountsOK
  <2> QED BY <1>3, <2>1, <2>2
<1>10. G.stats.order_count = Cardinality(Live(G))
  <2>1. G.stats.order_count = F.stats.order_count
    BY DEF Emptied
  <2>2. F.stats.order_count = Cardinality(Live(F))
    BY DEF CountsOK
  <2> QED BY <1>3, <2>1, <2>2
<1> QED BY <1>6, <1>7, <1>8, <1>9, <1>10 DEF CountsOK

LEMMA SameCounts ==
  ASSUME NEW B, CountsOK(B), NEW C, C.orders = B.orders, C.levels = B.levels,
         C.ladders = B.ladders, C.stats = B.stats
  PROVE  CountsOK(C)
<1>1. SharesOf(C) = SharesOf(B)
  BY DEF SharesOf
<1>2. /\ \A X : Total(C, X) = Total(B, X)
      /\ \A x \in LevelHandles : On(C, x) = On(B, x)
      /\ \A s \in Sides : OnSide(C, s) = OnSide(B, s)
      /\ \A s \in Sides : StoredPrices(C, s) = StoredPrices(B, s)
      /\ Live(C) = Live(B)
  BY <1>1 DEF Total, On, OnSide, StoredPrices, Live
<1> QED BY <1>2 DEF CountsOK

------------------------------------------------------------------------------
(* The cached best prices. *)

\* The best price of a side that stores the prices T.
BestOf(side, T) == IF T = {} THEN kNoPrice ELSE Inside(side, T)

BestOK(B) == \A side \in Sides : B.best[side] = BestOf(side, StoredPrices(B, side))

\* Prices have a bound, so a set of them that is not empty has an inside.
LEMMA InsideOfPrices ==
  ASSUME NEW T \in SUBSET Prices, T # {}, NEW side \in Sides
  PROVE  /\ Inside(side, T) \in T /\ Inside(side, T) \in Nat /\ T \subseteq Nat
         /\ side = "Buy" => \A y \in T : y <= Inside(side, T)
         /\ side = "Sell" => \A y \in T : Inside(side, T) <= y
<1>1. Prices \in SUBSET Nat /\ IsFiniteSet(Prices)
  BY FlatBookAssumption
<1>2. PICK bound \in Nat : \A x \in Prices : x <= bound
  BY <1>1, FiniteIsBounded
<1>3. T \in SUBSET Nat /\ \A x \in T : x <= bound
  BY <1>1, <1>2
<1> QED BY <1>3, InsideChosen

\* A price more: the best is the new price when it is nearer the other side.
LEMMA BestWith ==
  ASSUME kNoPrice \notin Prices, NEW T \in SUBSET Prices, NEW side \in Sides,
         NEW p \in Prices, NEW b, b = BestOf(side, T)
  PROVE  (IF b = kNoPrice \/ Before(side, p, b) THEN p ELSE b) = BestOf(side, T \cup {p})
<1> DEFINE U == T \cup {p}
<1>1. U \in SUBSET Nat /\ U # {} /\ p \in Nat
  BY FlatBookAssumption
<1>2. BestOf(side, U) = Inside(side, U)
  BY <1>1 DEF BestOf
<1>3. CASE T = {}
  <2>1. b = kNoPrice
    BY <1>3 DEF BestOf
  <2>2. \A y \in U : y <= p /\ p <= y
    BY <1>1, <1>3
  <2>3. Inside(side, U) = p
    BY <1>1, <2>2, InsideUnique
  <2> QED BY <1>2, <2>1, <2>3
<1>4. CASE T # {}
  <2>1. b = Inside(side, T)
    BY <1>4 DEF BestOf
  <2>2. /\ b \in T /\ b \in Nat /\ T \subseteq Nat
        /\ side = "Buy" => \A y \in T : y <= b
        /\ side = "Sell" => \A y \in T : b <= y
    BY <1>4, <2>1, InsideOfPrices
  <2>3. b # kNoPrice
    BY <2>2
  <2>4. CASE Before(side, p, b)
    <3>1. side = "Buy" => b < p
      BY <2>4 DEF Before
    <3>2. side = "Sell" => p < b
      BY <2>4 DEF Before
    <3>3. side = "Buy" => \A y \in U : y <= p
      BY <1>1, <2>2, <3>1
    <3>4. side = "Sell" => \A y \in U : p <= y
      BY <1>1, <2>2, <3>2
    <3>5. Inside(side, U) = p
      BY <1>1, <3>3, <3>4, InsideUnique
    <3> QED BY <1>2, <2>4, <3>5
  <2>5. CASE ~ Before(side, p, b)
    <3>1. side = "Buy" => p <= b
      BY <1>1, <2>2, <2>5 DEF Before
    <3>2. side = "Sell" => b <= p
      BY <1>1, <2>2, <2>5 DEF Before
    <3>3. side = "Buy" => \A y \in U : y <= b
      BY <1>1, <2>2, <3>1
    <3>4. side = "Sell" => \A y \in U : b <= y
      BY <1>1, <2>2, <3>2
    <3>5. b \in U
      BY <2>2
    <3>6. Inside(side, U) = b
      BY <1>1, <3>3, <3>4, <3>5, InsideUnique
    <3> QED BY <1>2, <2>3, <2>5, <3>6
  <2> QED BY <2>4, <2>5
<1> QED BY <1>3, <1>4

\* A price less: the best stays when another price goes.
LEMMA BestWithout ==
  ASSUME NEW T \in SUBSET Prices, NEW side \in Sides, NEW p \in T,
         BestOf(side, T) # p
  PROVE  BestOf(side, T \ {p}) = BestOf(side, T)
<1> DEFINE b == Inside(side, T)
           U == T \ {p}
<1>1. T # {} /\ BestOf(side, T) = b
  BY DEF BestOf
<1>2. /\ b \in T /\ b \in Nat /\ T \subseteq Nat
      /\ side = "Buy" => \A y \in T : y <= b
      /\ side = "Sell" => \A y \in T : b <= y
  BY <1>1, InsideOfPrices
<1>3. b \in U /\ U \in SUBSET Nat
  BY <1>1, <1>2
<1>4. side = "Buy" => \A y \in U : y <= b
  BY <1>2
<1>5. side = "Sell" => \A y \in U : b <= y
  BY <1>2
<1> HIDE DEF U, b
<1>6. Inside(side, U) = b
  BY <1>3, <1>4, <1>5, InsideUnique
<1>7. BestOf(side, U) = b
  BY <1>3, <1>6 DEF BestOf
<1> QED BY <1>1, <1>7 DEF U

\* C is B but for the cached best of one side.
Noted(C, B, side, b) ==
    /\ C \in Books
    /\ C.orders = B.orders /\ C.levels = B.levels /\ C.index = B.index
    /\ C.ladders = B.ladders /\ C.stats = B.stats
    /\ C.best[side] = b
    /\ \A s \in Sides \ {side} : C.best[s] = B.best[s]

LEMMA NotedFields ==
  ASSUME NEW B \in Books, NEW side \in Sides, NEW b \in Prices \cup {kNoPrice}
  PROVE  Noted([B EXCEPT !.best[side] = b], B, side, b)
<1> DEFINE C == [B EXCEPT !.best[side] = b]
<1>1. /\ C.orders = B.orders /\ C.levels = B.levels /\ C.index = B.index
      /\ C.ladders = B.ladders /\ C.stats = B.stats
      /\ C.best = [B.best EXCEPT ![side] = b]
  BY DEF Books
<1>2. B.best \in [Sides -> Prices \cup {kNoPrice}]
  BY Fields
<1>3. C.best \in [Sides -> Prices \cup {kNoPrice}]
  BY <1>1, <1>2
<1>4. C \in Books
  BY <1>3 DEF Books
<1>5. C.best[side] = b /\ \A s \in Sides \ {side} : C.best[s] = B.best[s]
  BY <1>1, <1>2
<1> QED BY <1>1, <1>4, <1>5 DEF Noted

LEMMA NotedNothing ==
  ASSUME NEW B \in Books, NEW side \in Sides
  PROVE  Noted(B, B, side, B.best[side])
  BY DEF Noted

\* The cache follows the prices.
LEMMA AddedNoted ==
  ASSUME NEW B \in Books, NEW side \in Sides, NEW p \in Prices
  PROVE  Noted(NotedAdded(B, side, p), B, side,
               IF B.best[side] = kNoPrice \/ Before(side, p, B.best[side]) THEN p
               ELSE B.best[side])
  BY NotedFields, NotedNothing DEF NotedAdded

LEMMA RemovedNoted ==
  ASSUME NEW B \in Books, NEW side \in Sides, NEW p \in Prices
  PROVE  Noted(NotedRemoved(B, side, p), B, side,
               IF p # B.best[side] THEN B.best[side]
               ELSE BestOf(side, StoredPrices(B, side)))
<1> DEFINE T == StoredPrices(B, side)
<1>1. T \in SUBSET Prices
  BY DEF StoredPrices
<1>2. T # {} => Inside(side, T) \in Prices
  BY <1>1, InsideOfPrices
<1>3. BestOf(side, T) \in Prices \cup {kNoPrice}
  BY <1>2 DEF BestOf
<1>4. NotedRemoved(B, side, p) =
        IF p # B.best[side] THEN B ELSE [B EXCEPT !.best[side] = BestOf(side, T)]
  BY DEF NotedRemoved, BestOf
<1> HIDE DEF T
<1> QED BY <1>3, <1>4, NotedFields, NotedNothing DEF T

------------------------------------------------------------------------------
(* The operations of the book. *)

\* What every operation keeps, of the book B whose levels have the queues ch.
FlatOK(B, ch) ==
    /\ RecordsOK(B, ch)
    /\ CountsOK(B)
    /\ \A h \in OrderHandles : B.orders[h] # Free => B.orders[h].qty > 0
    /\ \A lh \in LevelHandles : B.levels[lh] # Free => Len(ch[lh]) # 0
    /\ kNoPrice \notin Prices => BestOK(B)

\* The book W, with queues d, has level lh for orders at price p of its side; it
\* is B, with queues ch, otherwise.
Ready(W, d, B, ch, lh, side, p) ==
    /\ RecordsOK(W, d) /\ CountsOK(W)
    /\ W.orders = B.orders /\ W.index = B.index /\ W.best = B.best
    /\ EntryOf(W) = EntryOf(B) /\ FifoOf(W, d) = FifoOf(B, ch)
    /\ lh \in LevelHandles /\ W.ladders[side][p] = lh /\ W.levels[lh] # Free
    /\ \A x \in LevelHandles \ {lh} : W.levels[x] # Free => Len(d[x]) # 0
    /\ StoredPrices(W, side) = StoredPrices(B, side) \cup {p}
    /\ \A s \in Sides \ {side} : StoredPrices(W, s) = StoredPrices(B, s)

LEMMA LevelReady ==
  ASSUME NEW B, NEW ch, FlatOK(B, ch), NEW side \in Sides, NEW p \in Prices,
         NEW lh \in LevelChoices(B, side, p), NEW W, W = WithLevel(B, lh, side, p)
  PROVE  \E d : Ready(W, d, B, ch, lh, side, p)
<1>1. RecordsOK(B, ch) /\ CountsOK(B)
  BY DEF FlatOK
<1>2. B \in Books /\ ch \in Chains /\ LaddersOK(B)
  BY <1>1 DEF RecordsOK
<1>3. \A x \in LevelHandles : B.levels[x] # Free => Len(ch[x]) # 0
  BY DEF FlatOK
<1>4. CASE B.ladders[side][p] # Null
  <2>1. lh = B.ladders[side][p] /\ W = B
    BY <1>4 DEF LevelChoices, WithLevel
  <2>2. lh \in LevelHandles /\ B.levels[lh] # Free
    BY <1>1, <1>4, <2>1, Stored
  <2>3. p \in StoredPrices(B, side)
    BY <1>4 DEF StoredPrices
  <2>4. Ready(B, ch, B, ch, lh, side, p)
    BY <1>1, <1>3, <2>1, <2>2, <2>3 DEF Ready
  <2> QED BY <2>1, <2>4
<1>5. CASE B.ladders[side][p] = Null
  <2>1. lh \in LevelHandles /\ B.levels[lh] = Free
    BY <1>5 DEF LevelChoices
  <2>2. Levelled(W, B, lh, side, p)
    BY <1>2, <1>5, <2>1, WithLevelFields
  <2>3. PICK d : d = [ch EXCEPT ![lh] = << >>]
    OBVIOUS
  <2>4. RecordsOK(W, d) /\ W.ladders[side][p] = lh /\ W.levels[lh] # Free
    <3>1. /\ RecordsOK(W, [ch EXCEPT ![lh] = << >>])
          /\ W.ladders[side][p] = lh /\ W.levels[lh] # Free
      BY <1>1, <1>5, <2>1, WithLevelKeeps
    <3> QED BY <2>3, <3>1
  <2>5. d[lh] = << >> /\ \A x \in LevelHandles \ {lh} : d[x] = ch[x]
    BY <1>2, <2>1, <2>3 DEF Chains
  <2>6. EntryOf(W) = EntryOf(B) /\ FifoOf(W, d) = FifoOf(B, ch)
    BY <1>1, <1>5, <2>1, <2>2, <2>5, LevelledMaps
  <2>7. /\ CountsOK(W)
        /\ StoredPrices(W, side) = StoredPrices(B, side) \cup {p}
        /\ \A s \in Sides \ {side} : StoredPrices(W, s) = StoredPrices(B, s)
    BY <1>1, <1>5, <2>1, <2>2, LevelledCounts
  <2>8. W.orders = B.orders /\ W.index = B.index /\ W.best = B.best
    BY <2>2 DEF Levelled
  <2>9. B.levels \in [LevelHandles -> Levels \cup {Free}]
    BY <1>2, Fields
  <2>10. \A x \in LevelHandles \ {lh} : W.levels[x] = B.levels[x]
    BY <2>1, <2>2, <2>9 DEF Levelled
  <2>11. \A x \in LevelHandles \ {lh} : W.levels[x] # Free => Len(d[x]) # 0
    BY <1>3, <2>5, <2>10
  <2>12. Ready(W, d, B, ch, lh, side, p)
    BY <2>1, <2>4, <2>6, <2>7, <2>8, <2>11 DEF Ready
  <2> QED BY <2>12
<1> QED BY <1>4, <1>5

\* The order at the back of the queue the level has.
LEMMA EnqueuedKeeps ==
  ASSUME NEW B, NEW ch, FlatOK(B, ch), NEW side \in Sides, NEW p \in Prices,
         NEW lh, NEW W, NEW d, Ready(W, d, B, ch, lh, side, p),
         NEW oh \in OrderHandles, B.orders[oh] = Free,
         NEW ref \in Refs, B.index[ref] = Null,
         NEW qty \in Nat, qty > 0, NEW owner \in Owners,
         NEW E, E = Enqueued(W, oh, lh, ref, side, p, qty, owner)
  PROVE  \E c :
            /\ RecordsOK(E, c) /\ CountsOK(E)
            /\ E.ladders = W.ladders /\ E.best = W.best
            /\ \A h \in OrderHandles : E.orders[h] # Free => E.orders[h].qty > 0
            /\ \A x \in LevelHandles : E.levels[x] # Free => Len(c[x]) # 0
            /\ Adds(E, c, B, ch, ref, side, p, qty, owner)
<1>1. /\ RecordsOK(W, d) /\ CountsOK(W)
      /\ W.orders = B.orders /\ W.index = B.index
      /\ EntryOf(W) = EntryOf(B) /\ FifoOf(W, d) = FifoOf(B, ch)
      /\ lh \in LevelHandles /\ W.ladders[side][p] = lh /\ W.levels[lh] # Free
      /\ \A x \in LevelHandles \ {lh} : W.levels[x] # Free => Len(d[x]) # 0
  BY DEF Ready
<1>2. W \in Books /\ d \in Chains
  BY <1>1 DEF RecordsOK
<1>3. W.levels[lh].tail # Null => W.orders[W.levels[lh].tail] # Free
  <2>1. /\ Len(d[lh]) \in Nat /\ QueueOK(W, d[lh], lh)
        /\ \A i \in 1 .. Len(d[lh]) : W.orders[d[lh][i]] # Free
    BY <1>1, Queued
  <2>2. W.levels[lh].tail = IF Len(d[lh]) = 0 THEN Null ELSE d[lh][Len(d[lh])]
    BY <2>1 DEF QueueOK
  <2>3. Len(d[lh]) # 0 => Len(d[lh]) \in 1 .. Len(d[lh])
    BY <2>1
  <2> QED BY <2>1, <2>2, <2>3
<1>4. Joined(E, W, oh, lh, ref, side, p, qty, owner)
  BY <1>1, <1>2, <1>3, EnqueuedFields
<1>5. PICK c : c = [d EXCEPT ![lh] = Append(d[lh], oh)]
  OBVIOUS
<1>6. W.orders[oh] = Free /\ W.index[ref] = Null
  BY <1>1
<1>7. RecordsOK(E, c)
  BY <1>1, <1>4, <1>5, <1>6, JoinedKeeps
<1>8. c[lh] = Append(d[lh], oh) /\ \A x \in LevelHandles \ {lh} : c[x] = d[x]
  BY <1>1, <1>2, <1>5 DEF Chains
<1>9. Adds(E, c, B, ch, ref, side, p, qty, owner)
  <2>1. Adds(E, c, W, d, ref, side, p, qty, owner)
    BY <1>1, <1>4, <1>6, <1>7, <1>8, JoinedMaps
  <2> QED BY <1>1, <2>1 DEF Adds
<1>10. E.ladders = W.ladders /\ E.best = W.best /\ E \in Books /\ IndexOK(E)
  BY <1>4, <1>7 DEF Joined, RecordsOK
<1>11. E.orders[oh] # Free
  <2>1. E.index[ref] = oh
    <3>1. E.index = [W.index EXCEPT ![ref] = oh]
      BY <1>4 DEF Joined
    <3>2. W.index \in [Refs -> OrderHandles \cup {Null}]
      BY <1>2, Fields
    <3> QED BY <3>1, <3>2
  <2> QED BY <1>10, <2>1 DEF IndexOK
<1>12. CountsOK(E)
  BY <1>1, <1>4, <1>6, <1>11, JoinedCounts
<1>13. \A h \in OrderHandles : E.orders[h] # Free => E.orders[h].qty > 0
  <2>1. \A h \in OrderHandles : W.orders[h] # Free => W.orders[h].qty > 0
    BY <1>1 DEF FlatOK
  <2>2. E.orders[oh].qty = qty
    BY <1>4 DEF Joined
  <2>3. \A h \in OrderHandles \ {oh} :
           \/ E.orders[h] = Free
           \/ W.orders[h] # Free /\ E.orders[h].qty = W.orders[h].qty
    BY <1>4 DEF Joined, SameOrder
  <2> QED BY <1>1, <2>1, <2>2, <2>3
<1>14. \A x \in LevelHandles : E.levels[x] # Free => Len(c[x]) # 0
  <2>1. d[lh] \in Seq(OrderHandles)
    BY <1>1, <1>2 DEF Chains
  <2>2. Len(d[lh]) \in Nat /\ Len(Append(d[lh], oh)) = Len(d[lh]) + 1
    BY <2>1, LenProperties, AppendProperties
  <2>3. Len(c[lh]) # 0
    BY <1>8, <2>2
  <2>4. \A x \in LevelHandles \ {lh} : E.levels[x] = W.levels[x]
    BY <1>4 DEF Joined
  <2> QED BY <1>1, <1>8, <2>3, <2>4
<1> QED BY <1>1, <1>7, <1>9, <1>10, <1>12, <1>13, <1>14

\* add(): the order joins the back of the queue at its price.
LEMMA AddedKeeps ==
  ASSUME NEW B, NEW ch, FlatOK(B, ch), NEW side \in Sides, NEW p \in Prices,
         NEW lh \in LevelChoices(B, side, p),
         NEW oh \in OrderHandles, B.orders[oh] = Free,
         NEW ref \in Refs, B.index[ref] = Null,
         NEW qty \in Nat, qty > 0, NEW owner \in Owners,
         NEW A, A = Added(B, oh, lh, ref, side, p, qty, owner)
  PROVE  \E c :
            /\ FlatOK(A, c)
            /\ Adds(A, c, B, ch, ref, side, p, qty, owner)
<1>1. PICK W : W = WithLevel(B, lh, side, p)
  OBVIOUS
<1>2. PICK d : Ready(W, d, B, ch, lh, side, p)
  BY <1>1, LevelReady
<1>3. PICK E : E = Enqueued(W, oh, lh, ref, side, p, qty, owner)
  OBVIOUS
<1>4. PICK c :
         /\ RecordsOK(E, c) /\ CountsOK(E)
         /\ E.ladders = W.ladders /\ E.best = W.best
         /\ \A h \in OrderHandles : E.orders[h] # Free => E.orders[h].qty > 0
         /\ \A x \in LevelHandles : E.levels[x] # Free => Len(c[x]) # 0
         /\ Adds(E, c, B, ch, ref, side, p, qty, owner)
  BY <1>2, <1>3, EnqueuedKeeps
<1>5. A = NotedAdded(E, side, p)
  BY <1>1, <1>3 DEF Added
<1>6. E \in Books
  BY <1>4 DEF RecordsOK
<1>7. Noted(A, E, side, IF E.best[side] = kNoPrice \/ Before(side, p, E.best[side]) THEN p
                        ELSE E.best[side])
  BY <1>5, <1>6, AddedNoted
<1>8. /\ A \in Books /\ A.orders = E.orders /\ A.levels = E.levels /\ A.index = E.index
      /\ A.ladders = E.ladders /\ A.stats = E.stats
  BY <1>7 DEF Noted
<1>9. RecordsOK(A, c) /\ CountsOK(A) /\ EntryOf(A) = EntryOf(E) /\ FifoOf(A, c) = FifoOf(E, c)
  BY <1>4, <1>8, SameRecords, SameCounts, SameMaps
<1>10. ASSUME kNoPrice \notin Prices PROVE BestOK(A)
  <2>1. BestOK(B)
    BY <1>10 DEF FlatOK
  <2>2. /\ W.best = B.best
        /\ StoredPrices(W, side) = StoredPrices(B, side) \cup {p}
        /\ \A s \in Sides \ {side} : StoredPrices(W, s) = StoredPrices(B, s)
    BY <1>2 DEF Ready
  <2>3. \A s \in Sides : StoredPrices(A, s) = StoredPrices(W, s)
    BY <1>4, <1>8 DEF StoredPrices
  <2>4. PICK T : T = StoredPrices(B, side)
    OBVIOUS
  <2>5. T \in SUBSET Prices
    BY <2>4 DEF StoredPrices
  <2>6. PICK b : b = B.best[side]
    OBVIOUS
  <2>7. b = BestOf(side, T)
    BY <2>1, <2>4, <2>6 DEF BestOK
  <2>8. (IF b = kNoPrice \/ Before(side, p, b) THEN p ELSE b) = BestOf(side, T \cup {p})
    BY <1>10, <2>5, <2>7, BestWith
  <2>9. E.best[side] = b
    BY <1>4, <2>2, <2>6
  <2>10. A.best[side] = BestOf(side, StoredPrices(A, side))
    BY <1>7, <2>2, <2>3, <2>4, <2>8, <2>9 DEF Noted
  <2>11. \A s \in Sides \ {side} : A.best[s] = BestOf(s, StoredPrices(A, s))
    <3>1. \A s \in Sides \ {side} : A.best[s] = B.best[s]
      BY <1>4, <1>7, <2>2 DEF Noted
    <3> QED BY <2>1, <2>2, <2>3, <3>1 DEF BestOK
  <2> QED BY <2>10, <2>11 DEF BestOK
<1>11. FlatOK(A, c)
  BY <1>4, <1>8, <1>9, <1>10 DEF FlatOK
<1>12. Adds(A, c, B, ch, ref, side, p, qty, owner)
  BY <1>4, <1>9 DEF Adds
<1> QED BY <1>11, <1>12

\* reduce() by less than the order has left: it keeps its place.
LEMMA LoweredKeeps ==
  ASSUME NEW B, NEW ch, FlatOK(B, ch), NEW oh \in OrderHandles, B.orders[oh] # Free,
         NEW shares \in Nat, shares <= B.orders[oh].qty, shares # B.orders[oh].qty,
         NEW R, R = Reduced(B, oh, shares)
  PROVE  FlatOK(R, ch) /\ Lowers(R, B, ch, oh, shares)
<1>1. RecordsOK(B, ch) /\ CountsOK(B) /\ B \in Books /\ LaddersOK(B)
  BY DEF FlatOK, RecordsOK
<1>2. B.levels[B.orders[oh].level] # Free /\ B.orders[oh] \in Orders
  BY <1>1, OrderPlaced
<1>3. R = Lessened(B, oh, shares)
  BY DEF Reduced
<1>4. Less(R, B, oh, shares)
  BY <1>1, <1>2, <1>3, LessenedFields
<1>5. RecordsOK(R, ch)
  BY <1>1, <1>4, LessKeeps
<1>6. CountsOK(R)
  BY <1>1, <1>4, LessCounts
<1>7. Lowers(R, B, ch, oh, shares)
  BY <1>1, <1>4, <1>5, LessMaps
<1>8. \A h \in OrderHandles : R.orders[h] # Free => R.orders[h].qty > 0
  <2>1. \A h \in OrderHandles : B.orders[h] # Free => B.orders[h].qty > 0
    BY DEF FlatOK
  <2>2. B.orders[oh].qty \in Nat
    BY <1>2 DEF Orders
  <2>3. R.orders[oh].qty = B.orders[oh].qty - shares
    BY <1>4 DEF Less
  <2>4. R.orders[oh].qty > 0
    BY <2>2, <2>3
  <2>5. \A h \in OrderHandles \ {oh} : R.orders[h] = B.orders[h]
    BY <1>4 DEF Less
  <2> QED BY <2>1, <2>4, <2>5
<1>9. \A x \in LevelHandles : R.levels[x] # Free => Len(ch[x]) # 0
  <2>1. \A x \in LevelHandles \ {B.orders[oh].level} : R.levels[x] = B.levels[x]
    BY <1>4 DEF Less
  <2> QED BY <1>2, <2>1 DEF FlatOK
<1>10. ASSUME kNoPrice \notin Prices PROVE BestOK(R)
  <2>1. R.ladders = B.ladders /\ R.best = B.best
    BY <1>4 DEF Less
  <2>2. \A s \in Sides : StoredPrices(R, s) = StoredPrices(B, s)
    BY <2>1 DEF StoredPrices
  <2> QED BY <1>10, <2>1, <2>2 DEF FlatOK, BestOK
<1> QED BY <1>5, <1>6, <1>7, <1>8, <1>9, <1>10 DEF FlatOK

LEMMA NeighboursInUse ==
  ASSUME NEW B, NEW ch, RecordsOK(B, ch), NEW oh \in OrderHandles, B.orders[oh] # Free
  PROVE  /\ B.levels[B.orders[oh].level] # Free
         /\ B.orders[oh].prev # Null => B.orders[B.orders[oh].prev] # Free
         /\ B.orders[oh].next # Null => B.orders[B.orders[oh].next] # Free
  BY Neighbours

\* Order oh has left B, with queues ch, for F with queues c: its queue has closed
\* up and its record is free, U being the book before it was freed.
Gone(F, c, U, B, ch, oh) ==
    LET o == B.orders[oh]
    IN  /\ RecordsOK(F, c) /\ CountsOK(F) /\ Takes(F, c, B, ch, o.ref, o.side, o.price)
        /\ F.ladders = B.ladders /\ F.best = B.best
        /\ F.index = [B.index EXCEPT ![o.ref] = Null]
        /\ \A h \in OrderHandles : F.orders[h] # Free => F.orders[h].qty > 0
        /\ \A x \in LevelHandles \ {o.level} : F.levels[x] # Free => Len(c[x]) # 0
        /\ U \in Books /\ U.orders[oh].side = o.side /\ U.orders[oh].price = o.price
        /\ U.orders[oh].level = o.level
        /\ F.levels[o.level].order_count = U.levels[o.level].order_count

LEMMA UnlinkedKeeps ==
  ASSUME NEW B, NEW ch, FlatOK(B, ch), NEW oh \in OrderHandles, B.orders[oh] # Free,
         NEW L, L = Lessened(B, oh, B.orders[oh].qty),
         NEW U, U = Unlinked(L, oh), NEW F, F = [U EXCEPT !.orders[oh] = Free]
  PROVE  \E c : Gone(F, c, U, B, ch, oh)
<1> DEFINE lh == B.orders[oh].level
           ref == B.orders[oh].ref
           side == B.orders[oh].side
           p == B.orders[oh].price
<1>1. RecordsOK(B, ch) /\ CountsOK(B) /\ B \in Books /\ LaddersOK(B) /\ ch \in Chains
  BY DEF FlatOK, RecordsOK
<1>2. /\ B.levels[lh] # Free /\ B.orders[oh] \in Orders /\ lh \in LevelHandles
      /\ side \in Sides /\ p \in Prices
  BY <1>1, OrderPlaced
<1>3. PICK shares \in Nat : shares = B.orders[oh].qty
  BY <1>2 DEF Orders
<1>4. Less(L, B, oh, shares)
  BY <1>1, <1>2, <1>3, LessenedFields
<1>5. RecordsOK(L, ch)
  BY <1>1, <1>4, LessKeeps
<1>6. CountsOK(L)
  BY <1>1, <1>4, LessCounts
<1>7. Lowers(L, B, ch, oh, shares)
  BY <1>1, <1>4, <1>5, LessMaps
<1>8. /\ L \in Books /\ L.ladders = B.ladders /\ L.index = B.index /\ L.best = B.best
      /\ L.orders[oh] # Free /\ L.orders[oh].ref = ref /\ L.orders[oh].side = side
      /\ L.orders[oh].price = p /\ L.orders[oh].level = lh
      /\ L.orders[oh].qty = B.orders[oh].qty - shares
  BY <1>4 DEF Less, SameOrder
<1>9. L.orders[oh].qty = 0
  BY <1>3, <1>8
<1>10. /\ L.levels[lh] # Free
       /\ L.orders[oh].prev # Null => L.orders[L.orders[oh].prev] # Free
       /\ L.orders[oh].next # Null => L.orders[L.orders[oh].next] # Free
  <2>1. /\ L.levels[L.orders[oh].level] # Free
        /\ L.orders[oh].prev # Null => L.orders[L.orders[oh].prev] # Free
        /\ L.orders[oh].next # Null => L.orders[L.orders[oh].next] # Free
    BY <1>5, <1>8, NeighboursInUse
  <2> QED BY <1>8, <2>1
<1>11. /\ Left(F, L, oh) /\ F.levels = U.levels /\ U \in Books
       /\ U.orders[oh].side = side /\ U.orders[oh].price = p /\ U.orders[oh].level = lh
  <2>1. L.levels[L.orders[oh].level] # Free
    BY <1>8, <1>10
  <2>2. /\ Left([Unlinked(L, oh) EXCEPT !.orders[oh] = Free], L, oh)
        /\ Unlinked(L, oh).orders[oh].side = L.orders[oh].side
        /\ Unlinked(L, oh).orders[oh].price = L.orders[oh].price
        /\ Unlinked(L, oh).orders[oh].level = L.orders[oh].level
        /\ [Unlinked(L, oh) EXCEPT !.orders[oh] = Free].levels = Unlinked(L, oh).levels
        /\ Unlinked(L, oh) \in Books
    BY <1>8, <1>10, <2>1, UnlinkedFields, Zenon
  <2>3. [Unlinked(L, oh) EXCEPT !.orders[oh] = Free] = F
    OBVIOUS
  <2> QED BY <1>8, <2>2, <2>3, Zenon
<1>12. PICK c : c = [ch EXCEPT ![lh] = ClosedUp(ch[lh], PlaceOf(ch[lh], oh))]
  OBVIOUS
<1>13. RecordsOK(F, c)
  BY <1>5, <1>8, <1>11, <1>12, LeftKeeps
<1>14. /\ c[lh] = ClosedUp(ch[lh], PlaceOf(ch[lh], oh))
       /\ \A x \in LevelHandles \ {lh} : c[x] = ch[x]
  BY <1>1, <1>2, <1>12 DEF Chains
<1>15. CountsOK(F)
  BY <1>5, <1>6, <1>8, <1>9, <1>11, LeftCounts
<1>16. Takes(F, c, L, ch, ref, side, p)
  BY <1>5, <1>8, <1>11, <1>13, <1>14, LeftMaps
<1>17. Takes(F, c, B, ch, ref, side, p)
  <2>1. EntryOf(F) = [EntryOf(L) EXCEPT ![ref] = NoOrder] /\ FifoOf(L, ch) = FifoOf(B, ch)
    BY <1>7, <1>16 DEF Takes, Lowers
  <2>2. PICK e : EntryOf(L) = [EntryOf(B) EXCEPT ![ref] = e]
    BY <1>7 DEF Lowers
  <2>3. EntryOf(B) = [r \in Refs |-> EntryOf(B)[r]]
    BY DEF EntryOf
  <2>4. [[EntryOf(B) EXCEPT ![ref] = e] EXCEPT ![ref] = NoOrder] =
           [EntryOf(B) EXCEPT ![ref] = NoOrder]
    BY <2>3
  <2> QED BY <1>16, <2>1, <2>2, <2>4 DEF Takes
<1>18. F.ladders = B.ladders /\ F.best = B.best /\ F.index = [B.index EXCEPT ![ref] = Null]
  BY <1>8, <1>11 DEF Left
<1>19. \A h \in OrderHandles : F.orders[h] # Free => F.orders[h].qty > 0
  <2>1. \A h \in OrderHandles : B.orders[h] # Free => B.orders[h].qty > 0
    BY DEF FlatOK
  <2>2. F.orders[oh] = Free
    BY <1>11 DEF Left
  <2>3. \A h \in OrderHandles \ {oh} : L.orders[h] = B.orders[h]
    BY <1>4 DEF Less
  <2>4. \A h \in OrderHandles \ {oh} :
           F.orders[h] = Free \/ (L.orders[h] # Free /\ F.orders[h].qty = L.orders[h].qty)
    BY <1>11 DEF Left, SameOrder
  <2> QED BY <2>1, <2>2, <2>3, <2>4
<1>20. \A x \in LevelHandles \ {lh} : F.levels[x] # Free => Len(c[x]) # 0
  <2>1. \A x \in LevelHandles \ {lh} : L.levels[x] = B.levels[x]
    BY <1>4 DEF Less
  <2>2. \A x \in LevelHandles \ {lh} : F.levels[x] = L.levels[x]
    BY <1>8, <1>11 DEF Left
  <2>3. \A x \in LevelHandles : B.levels[x] # Free => Len(ch[x]) # 0
    BY DEF FlatOK
  <2> QED BY <1>14, <2>1, <2>2, <2>3
<1>21. Gone(F, c, U, B, ch, oh)
  BY <1>11, <1>13, <1>15, <1>17, <1>18, <1>19, <1>20 DEF Gone
<1> QED BY <1>21

\* reduce() by all the order has left: it goes, with its level when that is empty.
LEMMA TakenKeeps ==
  ASSUME NEW B, NEW ch, FlatOK(B, ch), NEW oh \in OrderHandles, B.orders[oh] # Free,
         NEW ref, ref = B.orders[oh].ref, NEW side, side = B.orders[oh].side,
         NEW p, p = B.orders[oh].price, NEW R, R = Reduced(B, oh, B.orders[oh].qty)
  PROVE  \E c : /\ FlatOK(R, c) /\ Takes(R, c, B, ch, ref, side, p)
                /\ R.index = [B.index EXCEPT ![ref] = Null]
<1>1. PICK lh : lh = B.orders[oh].level
  OBVIOUS
<1>2. PICK L : L = Lessened(B, oh, B.orders[oh].qty)
  OBVIOUS
<1>3. PICK U : U = Unlinked(L, oh)
  OBVIOUS
<1>4. PICK F : F = [U EXCEPT !.orders[oh] = Free]
  OBVIOUS
<1>5. PICK c :
         /\ RecordsOK(F, c) /\ CountsOK(F) /\ Takes(F, c, B, ch, ref, side, p)
         /\ F.ladders = B.ladders /\ F.best = B.best
         /\ F.index = [B.index EXCEPT ![ref] = Null]
         /\ \A h \in OrderHandles : F.orders[h] # Free => F.orders[h].qty > 0
         /\ \A x \in LevelHandles \ {lh} : F.levels[x] # Free => Len(c[x]) # 0
         /\ U \in Books /\ U.orders[oh].side = side /\ U.orders[oh].price = p
         /\ U.orders[oh].level = lh /\ F.levels[lh].order_count = U.levels[lh].order_count
  <2>1. PICK c : Gone(F, c, U, B, ch, oh)
    BY <1>2, <1>3, <1>4, UnlinkedKeeps
  <2> QED BY <1>1, <2>1, Zenon DEF Gone
<1>6. RecordsOK(B, ch) /\ B \in Books /\ LaddersOK(B) /\ F \in Books
  BY <1>5 DEF FlatOK, RecordsOK
<1>7. /\ lh \in LevelHandles /\ lh # Null /\ side \in Sides /\ p \in Prices
      /\ F.ladders[side][p] = lh
  <2>1. F.ladders = B.ladders
    BY <1>5
  <2> QED BY <1>1, <1>6, <2>1, OrderPlaced
<1>8. F.levels[lh] # Free
  BY <1>5, <1>7, Stored
<1>9. F.levels[lh].order_count = Len(c[lh])
  BY <1>5, <1>7, <1>8 DEF RecordsOK, QueueOK
<1>10. PICK G : G = [LevelCleared(U, oh) EXCEPT !.orders[oh] = Free]
  OBVIOUS
<1>11. R = IF U.levels[lh].order_count # 0 THEN F ELSE NotedRemoved(G, side, p)
  <2>1. R = IF Unlinked(L, oh).levels[B.orders[oh].level].order_count # 0
            THEN [Unlinked(L, oh) EXCEPT !.orders[oh] = Free]
            ELSE NotedRemoved([LevelCleared(Unlinked(L, oh), oh) EXCEPT !.orders[oh] = Free],
                              B.orders[oh].side, B.orders[oh].price)
    BY <1>2 DEF Reduced
  <2> QED BY <1>1, <1>3, <1>4, <1>10, <2>1, Zenon
<1>12. CASE U.levels[lh].order_count # 0
  <2>1. R = F /\ Len(c[lh]) # 0
    BY <1>5, <1>9, <1>11, <1>12
  <2>2. ASSUME kNoPrice \notin Prices PROVE BestOK(F)
    <3>1. BestOK(B)
      BY <2>2 DEF FlatOK
    <3>2. \A s \in Sides : StoredPrices(F, s) = StoredPrices(B, s)
      BY <1>5 DEF StoredPrices
    <3> QED BY <1>5, <3>1, <3>2 DEF BestOK
  <2>3. \A x \in LevelHandles : F.levels[x] # Free => Len(c[x]) # 0
    BY <1>5, <2>1
  <2>4. FlatOK(F, c)
    BY <1>5, <2>2, <2>3 DEF FlatOK
  <2> QED BY <1>5, <2>1, <2>4
<1>13. CASE U.levels[lh].order_count = 0
  <2>1. R = NotedRemoved(G, side, p) /\ Len(c[lh]) = 0
    BY <1>5, <1>9, <1>11, <1>13
  <2>2. Emptied(G, F, lh, side, p)
    BY <1>4, <1>5, <1>7, <1>10, ClearedFields
  <2>3. RecordsOK(G, c)
    BY <1>5, <1>7, <2>1, <2>2, EmptiedKeeps
  <2>4. /\ CountsOK(G) /\ p \in StoredPrices(F, side)
        /\ StoredPrices(G, side) = StoredPrices(F, side) \ {p}
        /\ \A s \in Sides \ {side} : StoredPrices(G, s) = StoredPrices(F, s)
    BY <1>5, <1>7, <2>2, EmptiedCounts
  <2>5. EntryOf(G) = EntryOf(F) /\ FifoOf(G, c) = FifoOf(F, c)
    BY <1>5, <1>7, <2>1, <2>2, EmptiedMaps
  <2>6. /\ G \in Books /\ G.orders = F.orders /\ G.index = F.index /\ G.best = F.best
        /\ G.levels = [F.levels EXCEPT ![lh] = Free]
    BY <2>2 DEF Emptied
  <2>7. Noted(R, G, side, IF p # G.best[side] THEN G.best[side]
                          ELSE BestOf(side, StoredPrices(G, side)))
    BY <1>7, <2>1, <2>6, RemovedNoted
  <2>8. /\ R \in Books /\ R.orders = G.orders /\ R.levels = G.levels /\ R.index = G.index
        /\ R.ladders = G.ladders /\ R.stats = G.stats
    BY <2>7 DEF Noted
  <2>9. RecordsOK(R, c) /\ CountsOK(R) /\ EntryOf(R) = EntryOf(G) /\ FifoOf(R, c) = FifoOf(G, c)
    BY <2>3, <2>4, <2>8, SameRecords, SameCounts, SameMaps
  <2>10. Takes(R, c, B, ch, ref, side, p)
    BY <1>5, <2>5, <2>9 DEF Takes
  <2>11. \A h \in OrderHandles : R.orders[h] # Free => R.orders[h].qty > 0
    BY <1>5, <2>6, <2>8
  <2>12. \A x \in LevelHandles : R.levels[x] # Free => Len(c[x]) # 0
    <3>1. F.levels \in [LevelHandles -> Levels \cup {Free}]
      BY <1>6, Fields
    <3>2. R.levels[lh] = Free /\ \A x \in LevelHandles \ {lh} : R.levels[x] = F.levels[x]
      BY <1>7, <2>6, <2>8, <3>1
    <3> QED BY <1>5, <3>2
  <2>13. ASSUME kNoPrice \notin Prices PROVE BestOK(R)
    <3>1. BestOK(B)
      BY <2>13 DEF FlatOK
    <3>2. \A s \in Sides : StoredPrices(F, s) = StoredPrices(B, s)
      BY <1>5 DEF StoredPrices
    <3>3. \A s \in Sides : StoredPrices(R, s) = StoredPrices(G, s)
      BY <2>8 DEF StoredPrices
    <3>4. PICK T : T = StoredPrices(B, side)
      OBVIOUS
    <3>5. T \in SUBSET Prices /\ p \in T /\ StoredPrices(R, side) = T \ {p}
      <4>1. T \in SUBSET Prices
        BY <3>4 DEF StoredPrices
      <4> QED BY <1>7, <2>4, <3>2, <3>3, <3>4, <4>1
    <3>6. G.best[side] = BestOf(side, T)
      BY <1>5, <1>7, <2>6, <3>1, <3>4 DEF BestOK
    <3>7. R.best[side] = BestOf(side, StoredPrices(R, side))
      <4>1. CASE p = G.best[side]
        <5>1. R.best[side] = BestOf(side, StoredPrices(G, side))
          BY <2>7, <4>1 DEF Noted
        <5>2. StoredPrices(R, side) = StoredPrices(G, side)
          BY <1>7, <3>3
        <5> QED BY <5>1, <5>2
      <4>2. CASE p # G.best[side]
        <5>1. BestOf(side, T \ {p}) = BestOf(side, T)
          BY <1>7, <3>5, <3>6, <4>2, BestWithout
        <5>2. R.best[side] = G.best[side]
          BY <2>7, <4>2 DEF Noted
        <5>3. BestOf(side, StoredPrices(R, side)) = BestOf(side, T \ {p})
          BY <3>5, Zenon
        <5> QED BY <3>6, <5>1, <5>2, <5>3, Zenon
      <4> QED BY <4>1, <4>2
    <3>8. \A s \in Sides \ {side} : R.best[s] = BestOf(s, StoredPrices(R, s))
      <4>1. \A s \in Sides \ {side} : R.best[s] = B.best[s]
        <5>1. \A s \in Sides \ {side} : R.best[s] = G.best[s]
          BY <2>7 DEF Noted
        <5>2. G.best = B.best
          BY <1>5, <2>6
        <5> QED BY <5>1, <5>2
      <4> QED BY <2>4, <3>1, <3>2, <3>3, <4>1 DEF BestOK
    <3> QED BY <3>7, <3>8 DEF BestOK
  <2>14. FlatOK(R, c)
    BY <2>9, <2>11, <2>12, <2>13 DEF FlatOK
  <2>15. R.index = [B.index EXCEPT ![ref] = Null]
    BY <1>5, <2>6, <2>8
  <2> QED BY <2>10, <2>14, <2>15
<1> QED BY <1>12, <1>13

------------------------------------------------------------------------------
(* Reading a queue by its links. *)

\* g[i] is the record reached from the head of level lh by i links.
Hops(g, ord, lev, live, lh) ==
    g = [i \in 0 .. Cardinality(OrderHandles) |->
            IF i = 0 THEN lev[lh].head
            ELSE IF g[i - 1] \in live THEN ord[g[i - 1]].next ELSE Null]

\* QueueOf(), of any order records, level records and set of live orders.
QueueIn(ord, lev, live, lh) ==
    LET hop == CHOOSE g : Hops(g, ord, lev, live, lh)
        visited == {i \in 1 .. Cardinality(OrderHandles) : hop[i - 1] \in live}
    IN  [i \in 1 .. Cardinality(visited) |-> hop[i - 1]]

LEMMA QueueRead == \A lh : QueueOf(lh) = QueueIn(orders, levels, LiveOrders, lh)
  BY DEF QueueOf, QueueIn, Hops

LEMMA HopStep ==
  ASSUME NEW g, NEW ord, NEW lev, NEW live, NEW lh, Hops(g, ord, lev, live, lh),
         NEW i \in 0 .. Cardinality(OrderHandles)
  PROVE  g[i] = IF i = 0 THEN lev[lh].head
                ELSE IF g[i - 1] \in live THEN ord[g[i - 1]].next ELSE Null
<1>1. PICK k : k = g
  OBVIOUS
<1>2. k = [j \in 0 .. Cardinality(OrderHandles) |->
             IF j = 0 THEN lev[lh].head
             ELSE IF g[j - 1] \in live THEN ord[g[j - 1]].next ELSE Null]
  BY <1>1 DEF Hops
<1>3. k[i] = IF i = 0 THEN lev[lh].head
             ELSE IF g[i - 1] \in live THEN ord[g[i - 1]].next ELSE Null
  BY <1>2
<1> QED BY <1>1, <1>3

\* A queue has as many places as it has orders, and there are not more of them
\* than records.
LEMMA QueueSize ==
  ASSUME NEW q \in Seq(OrderHandles), Distinct(q)
  PROVE  /\ Len(q) \in Nat /\ Cardinality(Range(q)) = Len(q)
         /\ Cardinality(OrderHandles) \in Nat /\ Len(q) <= Cardinality(OrderHandles)
<1>1. Len(q) \in Nat /\ DOMAIN q = 1 .. Len(q) /\ q \in [1 .. Len(q) -> OrderHandles]
  BY LenProperties
<1>2. IsFiniteSet(1 .. Len(q)) /\ Cardinality(1 .. Len(q)) = Len(q)
  BY <1>1, FS_Interval
<1>3. Range(q) \in SUBSET OrderHandles
  BY <1>1 DEF Range
<1>4. q \in Surjection(1 .. Len(q), Range(q)) /\ q \in Injection(1 .. Len(q), Range(q))
  <2>1. q \in [1 .. Len(q) -> Range(q)]
    BY <1>1 DEF Range
  <2>2. \A h \in Range(q) : \E i \in 1 .. Len(q) : q[i] = h
    BY <1>1 DEF Range
  <2>3. \A i, j \in 1 .. Len(q) : q[i] = q[j] => i = j
    BY <1>1 DEF Distinct
  <2> QED BY <2>1, <2>2, <2>3 DEF Surjection, Injection, IsInjective
<1>5. Cardinality(Range(q)) = Len(q)
  BY <1>2, <1>4, FS_Surjection
<1>6. IsFiniteSet(OrderHandles) /\ Cardinality(OrderHandles) \in Nat
  BY FlatBookAssumption, FS_CardinalityType
<1>7. Cardinality(Range(q)) <= Cardinality(OrderHandles)
  BY <1>3, <1>6, FS_Subset
<1> QED BY <1>1, <1>5, <1>6, <1>7

\* The links from the head of a level visit its queue.
LEMMA ChainRead ==
  ASSUME NEW B, NEW ch, RecordsOK(B, ch), NEW lh \in LevelHandles, B.levels[lh] # Free
  PROVE  QueueIn(B.orders, B.levels, Live(B), lh) = ch[lh]
<1>1. PICK q \in Seq(OrderHandles) : q = ch[lh]
  BY Queued
<1>2. /\ Distinct(q)
      /\ B.levels[lh].head = IF Len(q) = 0 THEN Null ELSE q[1]
      /\ \A i \in 1 .. Len(q) :
            B.orders[q[i]].next = IF i = Len(q) THEN Null ELSE q[i + 1]
  BY <1>1 DEF RecordsOK, QueueOK
<1>3. PICK n \in Nat : n = Len(q)
  BY <1>1, LenProperties
<1>4. PICK N \in Nat : N = Cardinality(OrderHandles)
  BY <1>1, <1>2, QueueSize
<1>5. n <= N
  BY <1>1, <1>2, <1>3, <1>4, QueueSize
<1>6. Null \notin Live(B)
  BY FlatBookAssumption DEF Live
<1>7. \A i \in 1 .. n : q[i] \in Live(B)
  <2>1. \A i \in 1 .. Len(ch[lh]) : ch[lh][i] \in OrderHandles /\ B.orders[ch[lh][i]] # Free
    BY Queued
  <2> QED BY <1>1, <1>3, <2>1 DEF Live
<1>8. PICK live : live = Live(B)
  OBVIOUS
<1>9. PICK ord : ord = B.orders
  OBVIOUS
<1>10. PICK lev : lev = B.levels
  OBVIOUS
<1>11. PICK g : g = [i \in 0 .. N |-> IF i < n THEN q[i + 1] ELSE Null]
  OBVIOUS
<1>12. \A i \in 0 .. N : g[i] = IF i < n THEN q[i + 1] ELSE Null
  BY <1>11
<1>13. lev[lh].head = IF n = 0 THEN Null ELSE q[1]
  BY <1>2, <1>3, <1>10
<1>14. \A i \in 1 .. n : ord[q[i]].next = IF i = n THEN Null ELSE q[i + 1]
  BY <1>2, <1>3, <1>9
<1>15. \A i \in 1 .. n : q[i] \in live
  BY <1>7, <1>8
<1>16. Null \notin live
  BY <1>6, <1>8
\* What g holds at a place follows from what it holds at the one before.
<1>17. ASSUME NEW h, NEW i \in 0 .. N, i # 0 => h[i - 1] = g[i - 1]
       PROVE  g[i] = IF i = 0 THEN lev[lh].head
                     ELSE IF h[i - 1] \in live THEN ord[h[i - 1]].next ELSE Null
  <2>1. CASE i = 0
    <3>1. g[0] = IF 0 < n THEN q[0 + 1] ELSE Null
      BY <1>12, <2>1
    <3> QED BY <1>3, <1>13, <2>1, <3>1
  <2>2. CASE i # 0 /\ i - 1 < n
    <3>1. i - 1 \in 0 .. N /\ i \in 1 .. n /\ (i - 1) + 1 = i
      BY <2>2, <1>3, <1>4
    <3>2. h[i - 1] = q[i]
      BY <1>12, <1>17, <2>2, <3>1
    <3>3. h[i - 1] \in live
      BY <1>15, <3>1, <3>2
    <3>4. ord[h[i - 1]].next = IF i = n THEN Null ELSE q[i + 1]
      BY <1>14, <3>1, <3>2
    <3>5. g[i] = IF i = n THEN Null ELSE q[i + 1]
      BY <1>12, <3>1
    <3> QED BY <2>2, <3>3, <3>4, <3>5
  <2>3. CASE i # 0 /\ ~ (i - 1 < n)
    <3>1. i - 1 \in 0 .. N /\ ~ (i < n)
      BY <2>3, <1>3, <1>4
    <3>2. h[i - 1] = Null
      BY <1>12, <1>17, <2>3, <3>1
    <3>3. g[i] = Null
      BY <1>12, <3>1
    <3> QED BY <1>16, <2>3, <3>2, <3>3
  <2> QED BY <2>1, <2>2, <2>3
<1>18. Hops(g, ord, lev, live, lh)
  <2>1. \A i \in 0 .. N : g[i] = IF i = 0 THEN lev[lh].head
                     ELSE IF g[i - 1] \in live THEN ord[g[i - 1]].next ELSE Null
    BY <1>17
  <2>2. g = [i \in 0 .. N |-> g[i]]
    BY <1>11
  <2>3. g = [i \in 0 .. N |-> IF i = 0 THEN lev[lh].head
                     ELSE IF g[i - 1] \in live THEN ord[g[i - 1]].next ELSE Null]
    BY <2>1, <2>2
  <2> QED BY <1>4, <2>3 DEF Hops
<1>19. PICK hop : hop = CHOOSE k : Hops(k, ord, lev, live, lh)
  OBVIOUS
<1>20. Hops(hop, ord, lev, live, lh)
  BY <1>18, <1>19
\* There is no place at which the links lead elsewhere, for there is no first one.
<1>21. \A i \in 0 .. N : hop[i] = g[i]
  <2> DEFINE Wrong == {i \in 0 .. N : hop[i] # g[i]}
  <2>1. SUFFICES ASSUME Wrong # {} PROVE FALSE
    OBVIOUS
  <2>2. PICK i \in Wrong : \A j \in Wrong : i <= j
    <3>1. Wrong \in SUBSET Nat
      OBVIOUS
    <3> HIDE DEF Wrong
    <3> QED BY <2>1, <3>1, LeastNatural
  <2>3. i \in 0 .. N
    OBVIOUS
  <2>4. i # 0 => hop[i - 1] = g[i - 1]
    <3>1. SUFFICES ASSUME i # 0 PROVE hop[i - 1] = g[i - 1]
      OBVIOUS
    <3>2. i - 1 \in 0 .. N /\ ~ (i <= i - 1)
      BY <1>4, <2>3, <3>1
    <3>3. i - 1 \notin Wrong
      BY <2>2, <3>2
    <3> QED BY <3>2, <3>3
  <2>5. hop[i] = IF i = 0 THEN lev[lh].head
                 ELSE IF hop[i - 1] \in live THEN ord[hop[i - 1]].next ELSE Null
    BY <1>4, <1>20, <2>3, HopStep
  <2>6. hop[i] = g[i]
    BY <1>17, <2>3, <2>4, <2>5
  <2> QED BY <2>6
<1>22. PICK visited : visited = {i \in 1 .. N : hop[i - 1] \in live}
  OBVIOUS
<1>23. \A i \in 1 .. N : hop[i - 1] = IF i <= n THEN q[i] ELSE Null
  <2>1. ASSUME NEW i \in 1 .. N PROVE hop[i - 1] = IF i <= n THEN q[i] ELSE Null
    <3>1. i - 1 \in 0 .. N /\ (i - 1) + 1 = i /\ (i - 1 < n <=> i <= n)
      BY <1>3, <1>4
    <3> QED BY <1>12, <1>21, <3>1
  <2> QED BY <2>1
<1>24. visited = 1 .. n
  <2>1. \A i \in 1 .. N : hop[i - 1] \in live <=> i <= n
    <3>1. ASSUME NEW i \in 1 .. N PROVE hop[i - 1] \in live <=> i <= n
      <4>1. i <= n => i \in 1 .. n
        BY <1>3
      <4> QED BY <1>15, <1>16, <1>23, <4>1
    <3> QED BY <3>1
  <2>2. \A i : i \in 1 .. N /\ i <= n <=> i \in 1 .. n
    BY <1>3, <1>4, <1>5
  <2> QED BY <1>22, <2>1, <2>2
<1>25. Cardinality(visited) = n
  BY <1>24, FS_Interval
<1>26. QueueIn(ord, lev, live, lh) = [i \in 1 .. n |-> hop[i - 1]]
  BY <1>4, <1>19, <1>22, <1>25 DEF QueueIn
<1>27. \A i \in 1 .. n : hop[i - 1] = q[i]
  BY <1>5, <1>23
<1>28. q = [i \in 1 .. n |-> q[i]]
  BY <1>1, <1>3, LenProperties
<1>29. QueueIn(ord, lev, live, lh) = q
  BY <1>26, <1>27, <1>28
<1> QED BY <1>1, <1>8, <1>9, <1>10, <1>29

\* RestingEntry and RestingQueues, of any records and handles.
EntryIn(ord, idx, live) ==
    [ref \in Refs |->
        IF idx[ref] \in live
        THEN LET o == ord[idx[ref]]
             IN  [side |-> o.side, price |-> o.price, qty |-> o.qty, owner |-> o.owner]
        ELSE NoOrder]

QueuesIn(ord, lev, lad, live, liveLevels) ==
    [side \in Sides |-> [p \in Prices |->
        IF lad[side][p] \in liveLevels
        THEN LET queue == QueueIn(ord, lev, live, lad[side][p])
             IN  [i \in DOMAIN queue |-> ord[queue[i]].ref]
        ELSE << >>]]

InUse(B) == {h \in LevelHandles : B.levels[h] # Free}

LEMMA ReadsEntry ==
  ASSUME NEW B, NEW ch, RecordsOK(B, ch)
  PROVE  EntryIn(B.orders, B.index, Live(B)) = EntryOf(B)
<1>1. B \in Books /\ IndexOK(B)
  BY DEF RecordsOK
<1>2. ASSUME NEW ref \in Refs PROVE B.index[ref] \in Live(B) <=> B.index[ref] # Null
  <2>1. B.index[ref] \in OrderHandles \cup {Null}
    BY <1>1, Fields
  <2>2. Null \notin Live(B)
    BY FlatBookAssumption DEF Live
  <2>3. B.index[ref] \in OrderHandles => B.index[ref] \in Live(B)
    BY <1>1 DEF IndexOK, Live
  <2> QED BY <2>1, <2>2, <2>3
<1>3. PICK live : live = Live(B)
  OBVIOUS
<1>4. \A ref \in Refs : B.index[ref] \in live <=> B.index[ref] # Null
  BY <1>2, <1>3
<1>5. EntryIn(B.orders, B.index, live) = EntryOf(B)
  BY <1>4 DEF EntryIn, EntryOf
<1> QED BY <1>3, <1>5

LEMMA ReadsQueues ==
  ASSUME NEW B, NEW ch, RecordsOK(B, ch)
  PROVE  QueuesIn(B.orders, B.levels, B.ladders, Live(B), InUse(B)) = FifoOf(B, ch)
<1> DEFINE read == QueuesIn(B.orders, B.levels, B.ladders, Live(B), InUse(B))
<1>1. B \in Books /\ LaddersOK(B)
  BY DEF RecordsOK
<1>2. IsFamily(read)
  BY DEF QueuesIn, IsFamily
<1>3. ASSUME NEW s \in Sides, NEW x \in Prices PROVE read[s][x] = FifoOf(B, ch)[s][x]
  <2>1. PICK lh : lh = B.ladders[s][x]
    OBVIOUS
  <2>2. PICK queue : queue = QueueIn(B.orders, B.levels, Live(B), lh)
    OBVIOUS
  <2>3. read[s][x] = IF lh \in InUse(B) THEN [i \in DOMAIN queue |-> B.orders[queue[i]].ref]
                     ELSE << >>
    BY <2>1, <2>2 DEF QueuesIn
  <2>4. FifoOf(B, ch)[s][x] = IF lh = Null THEN << >> ELSE RefsOf(B, ch[lh])
    BY <2>1, FifoAt
  <2> HIDE DEF read
  <2>5. CASE lh = Null
    <3>1. lh \notin InUse(B)
      BY <2>5, FlatBookAssumption DEF InUse
    <3> QED BY <2>3, <2>4, <2>5, <3>1
  <2>6. CASE lh # Null
    <3>1. lh \in LevelHandles /\ B.levels[lh] # Free
      BY <2>1, <2>6, Stored
    <3>2. queue = ch[lh]
      BY <2>2, <3>1, ChainRead
    <3>3. DOMAIN queue = 1 .. Len(queue)
      BY <3>1, <3>2, Queued
    <3>4. RefsOf(B, queue) = [i \in DOMAIN queue |-> B.orders[queue[i]].ref]
      BY <3>3 DEF RefsOf
    <3>5. lh \in InUse(B)
      BY <3>1 DEF InUse
    <3> QED BY <2>3, <2>4, <2>6, <3>2, <3>4, <3>5
  <2> QED BY <2>5, <2>6
<1>4. IsFamily(FifoOf(B, ch))
  BY FifoFamily
<1> HIDE DEF read
<1>5. read = FifoOf(B, ch)
  BY <1>2, <1>3, <1>4, SameFamily
<1> QED BY <1>5 DEF read

\* What the state says is resting is what its records say.
LEMMA StateRead ==
  ASSUME NEW ch, RecordsOK(Book, ch)
  PROVE  RestingEntry = EntryOf(Book) /\ RestingQueues = FifoOf(Book, ch)
<1>1. RestingEntry = EntryIn(orders, index, LiveOrders)
  BY DEF RestingEntry, EntryIn
<1>2. RestingQueues = QueuesIn(orders, levels, ladders, LiveOrders, LiveLevels)
  BY DEF RestingQueues, QueuesIn, QueueOf, QueueIn, Hops
<1>3. /\ orders = Book.orders /\ levels = Book.levels /\ index = Book.index
      /\ ladders = Book.ladders /\ LiveOrders = Live(Book) /\ LiveLevels = InUse(Book)
  BY DEF Book, LiveOrders, LiveLevels, Live, InUse
<1>4. PICK B : B = Book
  OBVIOUS
<1>5. /\ EntryIn(B.orders, B.index, Live(B)) = EntryOf(B)
      /\ QueuesIn(B.orders, B.levels, B.ladders, Live(B), InUse(B)) = FifoOf(B, ch)
  BY <1>4, ReadsEntry, ReadsQueues
<1> QED BY <1>1, <1>2, <1>3, <1>4, <1>5

LEMMA NextStateRead ==
  ASSUME NEW ch, RecordsOK(Book', ch)
  PROVE  RestingEntry' = EntryOf(Book') /\ RestingQueues' = FifoOf(Book', ch)
<1>1. RestingEntry' = EntryIn(orders', index', LiveOrders')
  BY DEF RestingEntry, EntryIn
<1>2. RestingQueues' = QueuesIn(orders', levels', ladders', LiveOrders', LiveLevels')
  BY DEF RestingQueues, QueuesIn, QueueOf, QueueIn, Hops
<1>3. /\ orders' = Book'.orders /\ levels' = Book'.levels /\ index' = Book'.index
      /\ ladders' = Book'.ladders /\ LiveOrders' = Live(Book') /\ LiveLevels' = InUse(Book')
  BY DEF Book, LiveOrders, LiveLevels, Live, InUse
<1>4. PICK B : B = Book'
  OBVIOUS
<1>5. /\ EntryIn(B.orders, B.index, Live(B)) = EntryOf(B)
      /\ QueuesIn(B.orders, B.levels, B.ladders, Live(B), InUse(B)) = FifoOf(B, ch)
  BY <1>4, ReadsEntry, ReadsQueues
<1> QED BY <1>1, <1>2, <1>3, <1>4, <1>5

------------------------------------------------------------------------------
(* The steps. *)

\* Some queues make the records whole: those the links lead through.
FlatInv == \E ch : FlatOK(Book, ch)

\* The fields of a book are all it is.
LEMMA Rebuilt ==
  ASSUME NEW B \in Books
  PROVE  B = [orders |-> B.orders, levels |-> B.levels, index |-> B.index,
              ladders |-> B.ladders, stats |-> B.stats, best |-> B.best]
  BY DEF Books

LEMMA BecomesIs ==
  ASSUME NEW B \in Books, Becomes(B)
  PROVE  Book' = B
  BY Rebuilt DEF Becomes, Book

\* A reference that rests leads to a record in use.
LEMMA Rests ==
  ASSUME NEW B, NEW ch, RecordsOK(B, ch), NEW ref \in Refs
  PROVE  /\ B.index[ref] = Null <=> EntryOf(B)[ref] = NoOrder
         /\ B.index[ref] # Null =>
               /\ B.index[ref] \in OrderHandles /\ B.orders[B.index[ref]] # Free
               /\ B.orders[B.index[ref]].ref = ref
               /\ B.orders[B.index[ref]] \in Orders
               /\ EntryOf(B)[ref] = [side |-> B.orders[B.index[ref]].side,
                                     price |-> B.orders[B.index[ref]].price,
                                     qty |-> B.orders[B.index[ref]].qty,
                                     owner |-> B.orders[B.index[ref]].owner]
<1>1. B \in Books /\ IndexOK(B)
  BY DEF RecordsOK
<1>2. B.index[ref] \in OrderHandles \cup {Null}
  BY <1>1, Fields
<1>3. ASSUME B.index[ref] # Null
      PROVE  /\ B.index[ref] \in OrderHandles /\ B.orders[B.index[ref]] # Free
             /\ B.orders[B.index[ref]].ref = ref
             /\ B.orders[B.index[ref]] \in Orders
             /\ EntryOf(B)[ref] = [side |-> B.orders[B.index[ref]].side,
                                   price |-> B.orders[B.index[ref]].price,
                                   qty |-> B.orders[B.index[ref]].qty,
                                   owner |-> B.orders[B.index[ref]].owner]
  <2>1. B.index[ref] \in OrderHandles
    BY <1>2, <1>3
  <2>2. B.orders[B.index[ref]] # Free /\ B.orders[B.index[ref]].ref = ref
    BY <1>1, <2>1 DEF IndexOK
  <2>3. B.orders[B.index[ref]] \in Orders
    BY <1>1, <2>1, <2>2, Fields
  <2> QED BY <1>3, <2>1, <2>2, <2>3 DEF EntryOf
<1>4. B.index[ref] # Null => EntryOf(B)[ref] # NoOrder
  <2>1. SUFFICES ASSUME B.index[ref] # Null PROVE EntryOf(B)[ref] # NoOrder
    OBVIOUS
  <2>2. PICK o : o = B.orders[B.index[ref]]
    OBVIOUS
  <2>3. o.side \in Sides /\ o.price \in Prices /\ o.qty \in Nat /\ o.owner \in Owners
    BY <1>3, <2>1, <2>2 DEF Orders
  <2>4. EntryOf(B)[ref] = [side |-> o.side, price |-> o.price, qty |-> o.qty,
                           owner |-> o.owner]
    BY <1>3, <2>1, <2>2
  <2> QED BY <2>3, <2>4, NoOrderAssumption
<1>5. B.index[ref] = Null => EntryOf(B)[ref] = NoOrder
  BY DEF EntryOf
<1> QED BY <1>3, <1>4, <1>5

LEMMA InitFlat ==
  ASSUME Init
  PROVE  \E ch : /\ FlatOK(Book, ch)
                 /\ EntryOf(Book) = [ref \in Refs |-> NoOrder]
                 /\ FifoOf(Book, ch) = [side \in Sides |-> [p \in Prices |-> << >>]]
<1>1. PICK B : B = Book
  OBVIOUS
<1>2. PICK ch : ch = [lh \in LevelHandles |-> << >>]
  OBVIOUS
<1>3. /\ B.orders = [h \in OrderHandles |-> Free]
      /\ B.levels = [h \in LevelHandles |-> Free]
      /\ B.index = [ref \in Refs |-> Null]
      /\ B.ladders = [side \in Sides |-> [p \in Prices |-> Null]]
      /\ B.stats = [total_qty |-> [side \in Sides |-> 0],
                    level_count |-> [side \in Sides |-> 0], order_count |-> 0]
      /\ B.best = [side \in Sides |-> kNoPrice]
  BY <1>1 DEF Book, Init
<1>4. B \in Books
  <2>1. B = [orders |-> B.orders, levels |-> B.levels, index |-> B.index,
             ladders |-> B.ladders, stats |-> B.stats, best |-> B.best]
    BY <1>1 DEF Book
  <2>2. B.stats \in Stats
    BY <1>3 DEF Stats
  <2>3. /\ B.orders \in [OrderHandles -> Orders \cup {Free}]
        /\ B.levels \in [LevelHandles -> Levels \cup {Free}]
        /\ B.index \in [Refs -> OrderHandles \cup {Null}]
        /\ B.ladders \in [Sides -> [Prices -> LevelHandles \cup {Null}]]
        /\ B.best \in [Sides -> Prices \cup {kNoPrice}]
    BY <1>3
  <2> QED BY <2>1, <2>2, <2>3 DEF Books
<1>5. ch \in Chains
  BY <1>2 DEF Chains
<1>6. \A h \in OrderHandles : B.orders[h] = Free
  BY <1>3
<1>7. \A lh \in LevelHandles : B.levels[lh] = Free
  BY <1>3
<1>8. \A ref \in Refs : B.index[ref] = Null
  BY <1>3
<1>9. \A s \in Sides, x \in Prices : B.ladders[s][x] = Null
  BY <1>3
<1>10. IndexOK(B)
  BY <1>6, <1>8, FlatBookAssumption DEF IndexOK
<1>11. LaddersOK(B)
  BY <1>6, <1>7, <1>9 DEF LaddersOK
<1>12. RecordsOK(B, ch)
  BY <1>4, <1>5, <1>7, <1>10, <1>11 DEF RecordsOK
<1>13. \A s \in Sides : StoredPrices(B, s) = {}
  BY <1>9 DEF StoredPrices
<1>14. CountsOK(B)
  <2>1. \A s \in Sides : OnSide(B, s) = {}
    BY <1>6 DEF OnSide
  <2>2. Live(B) = {}
    BY <1>6 DEF Live
  <2>3. Total(B, {}) = 0
    BY SumEmpty DEF Total
  <2>4. Cardinality({}) = 0
    BY FS_EmptySet
  <2>5. /\ B.stats.order_count = 0
        /\ \A s \in Sides : B.stats.total_qty[s] = 0 /\ B.stats.level_count[s] = 0
    BY <1>3
  <2> QED BY <1>7, <1>13, <2>1, <2>2, <2>3, <2>4, <2>5 DEF CountsOK
<1>15. BestOK(B)
  BY <1>3, <1>13 DEF BestOK, BestOf
<1>16. FlatOK(B, ch)
  BY <1>6, <1>7, <1>12, <1>14, <1>15 DEF FlatOK
<1>17. EntryOf(B) = [ref \in Refs |-> NoOrder]
  BY <1>8 DEF EntryOf
<1>18. FifoOf(B, ch) = [side \in Sides |-> [p \in Prices |-> << >>]]
  BY <1>9 DEF FifoOf
<1> QED BY <1>1, <1>16, <1>17, <1>18

\* Each operation keeps the book whole and does to the resting orders what the
\* price-time priority book does.
LEMMA AddStep ==
  ASSUME NEW ch, FlatOK(Book, ch), NEW ref \in Refs, NEW side \in Sides, NEW p \in Prices,
         NEW qty \in Quantities, NEW owner \in Owners, Add(ref, side, p, qty, owner)
  PROVE  /\ qty > 0 /\ EntryOf(Book)[ref] = NoOrder
         /\ \E c : FlatOK(Book', c) /\ Adds(Book', c, Book, ch, ref, side, p, qty, owner)
<1>1. PICK B : B = Book
  OBVIOUS
<1>2. RecordsOK(B, ch) /\ B \in Books
  BY <1>1 DEF FlatOK, RecordsOK
<1>3. qty > 0 /\ B.index[ref] = Null
  BY <1>1 DEF Add, Book
<1>4. PICK oh \in OrderChoices(B), lh \in LevelChoices(B, side, p) :
         Becomes(Added(B, oh, lh, ref, side, p, qty, owner))
  BY <1>1 DEF Add
<1>5. oh \in OrderHandles /\ B.orders[oh] = Free
  BY DEF OrderChoices
<1>6. PICK A : A = Added(B, oh, lh, ref, side, p, qty, owner)
  OBVIOUS
<1>7. qty \in Nat
  BY FlatBookAssumption
<1>8. PICK c : FlatOK(A, c) /\ Adds(A, c, B, ch, ref, side, p, qty, owner)
  BY <1>1, <1>3, <1>5, <1>6, <1>7, AddedKeeps
<1>9. A \in Books
  BY <1>8 DEF FlatOK, RecordsOK
<1>10. Book' = A
  BY <1>4, <1>6, <1>9, BecomesIs
<1>11. EntryOf(B)[ref] = NoOrder
  BY <1>3 DEF EntryOf
<1> QED BY <1>1, <1>3, <1>8, <1>10, <1>11

\* The order with reference ref withdrawn, as the price-time priority book does it.
Withdraws(R, c, B, ch, ref) ==
    /\ EntryOf(R) = [EntryOf(B) EXCEPT ![ref] = NoOrder]
    /\ FifoOf(R, c) =
          [FifoOf(B, ch) EXCEPT ![EntryOf(B)[ref].side][EntryOf(B)[ref].price] =
              ClosedUp(FifoOf(B, ch)[EntryOf(B)[ref].side][EntryOf(B)[ref].price],
                       PlaceOf(FifoOf(B, ch)[EntryOf(B)[ref].side][EntryOf(B)[ref].price],
                               ref))]

LEMMA TakeStep ==
  ASSUME NEW B, NEW ch, FlatOK(B, ch), NEW ref \in Refs, B.index[ref] # Null,
         NEW R, R = Reduced(B, B.index[ref], B.orders[B.index[ref]].qty)
  PROVE  \E c : /\ FlatOK(R, c) /\ Withdraws(R, c, B, ch, ref)
                /\ R.index = [B.index EXCEPT ![ref] = Null]
<1>1. RecordsOK(B, ch)
  BY DEF FlatOK
<1>2. PICK oh : oh = B.index[ref]
  OBVIOUS
<1>3. /\ oh \in OrderHandles /\ B.orders[oh] # Free /\ B.orders[oh].ref = ref
      /\ EntryOf(B)[ref] = [side |-> B.orders[oh].side, price |-> B.orders[oh].price,
                            qty |-> B.orders[oh].qty, owner |-> B.orders[oh].owner]
  BY <1>1, <1>2, Rests
<1>4. PICK side : side = B.orders[oh].side
  OBVIOUS
<1>5. PICK p : p = B.orders[oh].price
  OBVIOUS
<1>6. EntryOf(B)[ref].side = side /\ EntryOf(B)[ref].price = p
  BY <1>3, <1>4, <1>5
<1>7. PICK c : /\ FlatOK(R, c) /\ Takes(R, c, B, ch, ref, side, p)
               /\ R.index = [B.index EXCEPT ![ref] = Null]
  <2>1. R = Reduced(B, oh, B.orders[oh].qty) /\ ref = B.orders[oh].ref
    BY <1>2, <1>3
  <2> QED BY <1>3, <1>4, <1>5, <2>1, TakenKeeps
<1>8. Withdraws(R, c, B, ch, ref)
  BY <1>6, <1>7 DEF Withdraws, Takes
<1> QED BY <1>7, <1>8

LEMMA CancelStep ==
  ASSUME NEW ch, FlatOK(Book, ch), NEW ref \in Refs, NEW shares \in Quantities,
         Cancel(ref, shares), NEW B, B = Book
  PROVE  /\ EntryOf(B)[ref] # NoOrder /\ shares <= EntryOf(B)[ref].qty
         /\ \E c : /\ FlatOK(Book', c)
                   /\ IF shares < EntryOf(B)[ref].qty
                      THEN /\ EntryOf(Book') =
                                [EntryOf(B) EXCEPT ![ref].qty = EntryOf(B)[ref].qty - shares]
                           /\ FifoOf(Book', c) = FifoOf(B, ch)
                      ELSE Withdraws(Book', c, B, ch, ref)
<1>1. RecordsOK(B, ch)
  BY DEF FlatOK
<1>2. PICK oh : oh = B.index[ref]
  OBVIOUS
<1>3. oh # Null /\ shares <= B.orders[oh].qty /\ Becomes(Reduced(B, oh, shares))
  BY <1>2 DEF Cancel, Book
<1>4. /\ oh \in OrderHandles /\ B.orders[oh] # Free /\ B.orders[oh].ref = ref
      /\ EntryOf(B)[ref] = [side |-> B.orders[oh].side, price |-> B.orders[oh].price,
                            qty |-> B.orders[oh].qty, owner |-> B.orders[oh].owner]
      /\ B.orders[oh] \in Orders /\ EntryOf(B)[ref] # NoOrder
  BY <1>1, <1>2, <1>3, Rests
<1>5. EntryOf(B)[ref].qty = B.orders[oh].qty
  BY <1>4
<1>6. shares \in Nat /\ B.orders[oh].qty \in Nat
  BY <1>4, FlatBookAssumption DEF Orders
<1>7. PICK R : R = Reduced(B, oh, shares)
  OBVIOUS
<1>8. CASE shares = B.orders[oh].qty
  <2>1. PICK c : FlatOK(R, c) /\ Withdraws(R, c, B, ch, ref)
    BY <1>2, <1>3, <1>7, <1>8, TakeStep
  <2>2. Book' = R
    <3>1. R \in Books
      BY <2>1 DEF FlatOK, RecordsOK
    <3> QED BY <1>3, <1>7, <3>1, BecomesIs
  <2>3. ~ (shares < EntryOf(B)[ref].qty) /\ shares <= EntryOf(B)[ref].qty
    BY <1>5, <1>6, <1>8
  <2> QED BY <1>4, <2>1, <2>2, <2>3
<1>9. CASE shares # B.orders[oh].qty
  <2>1. FlatOK(R, ch) /\ Lowers(R, B, ch, oh, shares)
    BY <1>3, <1>4, <1>6, <1>7, <1>9, LoweredKeeps
  <2>2. Book' = R
    <3>1. R \in Books
      BY <2>1 DEF FlatOK, RecordsOK
    <3> QED BY <1>3, <1>7, <3>1, BecomesIs
  <2>3. shares < EntryOf(B)[ref].qty /\ shares <= EntryOf(B)[ref].qty
    BY <1>3, <1>5, <1>6, <1>9
  <2>4. EntryOf(R) = [EntryOf(B) EXCEPT ![ref].qty = EntryOf(B)[ref].qty - shares]
    <3>1. PICK e : e = EntryOf(B)[ref]
      OBVIOUS
    <3>2. [e EXCEPT !.qty = e.qty - shares] =
             [side |-> B.orders[oh].side, price |-> B.orders[oh].price,
              qty |-> B.orders[oh].qty - shares, owner |-> B.orders[oh].owner]
      BY <1>4, <3>1
    <3>3. EntryOf(R) = [EntryOf(B) EXCEPT ![ref] = [e EXCEPT !.qty = e.qty - shares]]
      BY <1>4, <2>1, <3>2 DEF Lowers
    <3>4. [EntryOf(B) EXCEPT ![ref].qty = EntryOf(B)[ref].qty - shares] =
             [EntryOf(B) EXCEPT ![ref] = [e EXCEPT !.qty = e.qty - shares]]
      BY <3>1 DEF EntryOf
    <3> QED BY <3>3, <3>4
  <2>5. FifoOf(R, ch) = FifoOf(B, ch)
    BY <2>1 DEF Lowers
  <2> QED BY <1>4, <2>1, <2>2, <2>3, <2>4, <2>5
<1> QED BY <1>8, <1>9

LEMMA RemoveStep ==
  ASSUME NEW ch, FlatOK(Book, ch), NEW ref \in Refs, Remove(ref), NEW B, B = Book
  PROVE  /\ EntryOf(B)[ref] # NoOrder
         /\ \E c : FlatOK(Book', c) /\ Withdraws(Book', c, B, ch, ref)
<1>1. RecordsOK(B, ch)
  BY DEF FlatOK
<1>2. PICK R : R = Reduced(B, B.index[ref], B.orders[B.index[ref]].qty)
  OBVIOUS
<1>3. B.index[ref] # Null /\ Becomes(R)
  BY <1>2 DEF Remove, Book
<1>4. EntryOf(B)[ref] # NoOrder
  BY <1>1, <1>3, Rests
<1>5. PICK c : FlatOK(R, c) /\ Withdraws(R, c, B, ch, ref)
  BY <1>2, <1>3, TakeStep
<1>6. Book' = R
  <2>1. R \in Books
    BY <1>5 DEF FlatOK, RecordsOK
  <2> QED BY <1>3, <2>1, BecomesIs
<1> QED BY <1>4, <1>5, <1>6

LEMMA ReplaceStep ==
  ASSUME NEW ch, FlatOK(Book, ch), NEW old \in Refs, NEW new \in Refs, NEW p \in Prices,
         NEW qty \in Quantities, Replace(old, new, p, qty), NEW B, B = Book
  PROVE  /\ EntryOf(B)[old] # NoOrder /\ qty > 0
         /\ new = old \/ EntryOf(B)[new] = NoOrder
         /\ \E R, c, d :
               /\ Withdraws(R, c, B, ch, old) /\ FlatOK(Book', d)
               /\ Adds(Book', d, R, c, new, EntryOf(B)[old].side, p, qty,
                       EntryOf(B)[old].owner)
<1>1. RecordsOK(B, ch)
  BY DEF FlatOK
<1>2. PICK o : o = B.orders[B.index[old]]
  OBVIOUS
<1>3. PICK R : R = Reduced(B, B.index[old], o.qty)
  OBVIOUS
<1>4. /\ B.index[old] # Null /\ qty > 0 /\ R.index[new] = Null
      /\ \E oh \in OrderChoices(R), lh \in LevelChoices(R, o.side, p) :
            Becomes(Added(R, oh, lh, new, o.side, p, qty, o.owner))
  BY <1>2, <1>3 DEF Replace, Book
<1>5. PICK oh \in OrderChoices(R), lh \in LevelChoices(R, o.side, p) :
         Becomes(Added(R, oh, lh, new, o.side, p, qty, o.owner))
  BY <1>4
<1>6. EntryOf(B)[old] # NoOrder
  BY <1>1, <1>4, Rests
<1>7. PICK c : /\ FlatOK(R, c) /\ Withdraws(R, c, B, ch, old)
               /\ R.index = [B.index EXCEPT ![old] = Null]
  <2>1. R = Reduced(B, B.index[old], B.orders[B.index[old]].qty)
    BY <1>2, <1>3
  <2>2. B.index[old] # Null
    BY <1>4
  <2> QED BY <2>1, <2>2, TakeStep
<1>8. /\ o.side \in Sides /\ o.owner \in Owners
      /\ EntryOf(B)[old].side = o.side /\ EntryOf(B)[old].owner = o.owner
  <2>1. /\ o \in Orders
        /\ EntryOf(B)[old] = [side |-> o.side, price |-> o.price, qty |-> o.qty,
                              owner |-> o.owner]
    <3>1. B.index[old] # Null
      BY <1>4
    <3>2. /\ B.orders[B.index[old]] \in Orders
          /\ EntryOf(B)[old] = [side |-> B.orders[B.index[old]].side,
                                price |-> B.orders[B.index[old]].price,
                                qty |-> B.orders[B.index[old]].qty,
                                owner |-> B.orders[B.index[old]].owner]
      BY <1>1, <3>1, Rests
    <3> QED BY <1>2, <3>2
  <2>2. o.side \in Sides /\ o.owner \in Owners
    BY <2>1 DEF Orders
  <2> QED BY <2>1, <2>2
<1>9. oh \in OrderHandles /\ R.orders[oh] = Free /\ qty \in Nat
  BY FlatBookAssumption DEF OrderChoices
<1>10. PICK A : A = Added(R, oh, lh, new, o.side, p, qty, o.owner)
  OBVIOUS
<1>11. PICK d : FlatOK(A, d) /\ Adds(A, d, R, c, new, o.side, p, qty, o.owner)
  BY <1>4, <1>7, <1>8, <1>9, <1>10, AddedKeeps
<1>12. Book' = A
  <2>1. A \in Books
    BY <1>11 DEF FlatOK, RecordsOK
  <2> QED BY <1>5, <1>10, <2>1, BecomesIs
<1>13. new = old \/ EntryOf(B)[new] = NoOrder
  <2>1. CASE new # old
    <3>1. B.index \in [Refs -> OrderHandles \cup {Null}]
      BY <1>1, Fields DEF RecordsOK
    <3>2. B.index[new] = Null
      BY <1>4, <1>7, <2>1, <3>1
    <3> QED BY <3>2 DEF EntryOf
  <2> QED BY <2>1
<1> QED BY <1>4, <1>6, <1>7, <1>8, <1>11, <1>12, <1>13

LEMMA StutterStep ==
  ASSUME UNCHANGED vars
  PROVE  Book' = Book
  BY DEF vars, Book

LEMMA FlatInvKept ==
  ASSUME FlatInv, [Next]_vars
  PROVE  FlatInv'
<1>1. PICK ch : FlatOK(Book, ch)
  BY DEF FlatInv
<1>2. SUFFICES \E c : FlatOK(Book', c)
  BY DEF FlatInv
<1>3. ASSUME NEW ref \in Refs, NEW side \in Sides, NEW p \in Prices, NEW qty \in Quantities,
             NEW owner \in Owners, Add(ref, side, p, qty, owner)
      PROVE  \E c : FlatOK(Book', c)
  BY <1>1, <1>3, AddStep
<1>4. ASSUME NEW ref \in Refs, NEW shares \in Quantities, Cancel(ref, shares)
      PROVE  \E c : FlatOK(Book', c)
  BY <1>1, <1>4, CancelStep
<1>5. ASSUME NEW ref \in Refs, Remove(ref) PROVE \E c : FlatOK(Book', c)
  BY <1>1, <1>5, RemoveStep
<1>6. ASSUME NEW old \in Refs, NEW new \in Refs, NEW p \in Prices, NEW qty \in Quantities,
             Replace(old, new, p, qty)
      PROVE  \E c : FlatOK(Book', c)
  BY <1>1, <1>6, ReplaceStep
<1>7. CASE UNCHANGED vars
  BY <1>1, <1>7, StutterStep
<1> QED BY <1>3, <1>4, <1>5, <1>6, <1>7 DEF Next

LEMMA FlatHandles ==
  ASSUME NEW ch, FlatOK(Book, ch)
  PROVE  TypeOK /\ HandlesExact
<1>1. PICK B : B = Book
  OBVIOUS
<1>2. RecordsOK(B, ch) /\ B \in Books /\ IndexOK(B) /\ LaddersOK(B)
  BY <1>1 DEF FlatOK, RecordsOK
<1>3. /\ orders = B.orders /\ levels = B.levels /\ index = B.index
      /\ ladders = B.ladders /\ stats = B.stats /\ best = B.best
  BY <1>1 DEF Book
<1>4. TypeOK
  BY <1>2, <1>3, Fields DEF TypeOK
<1>5. IndexExact
  <2>1. ASSUME NEW ref \in Refs, index[ref] # Null
        PROVE  index[ref] \in LiveOrders /\ orders[index[ref]].ref = ref
    BY <1>2, <1>3, <2>1, Rests DEF LiveOrders
  <2>2. ASSUME NEW h \in LiveOrders PROVE index[orders[h].ref] = h
    <3>1. h \in OrderHandles /\ B.orders[h] # Free
      BY <1>3 DEF LiveOrders
    <3>2. B.orders[h].ref \in Refs
      BY <1>2, <3>1, Fields DEF Orders
    <3> QED BY <1>2, <1>3, <3>1, <3>2 DEF IndexOK
  <2> QED BY <2>1, <2>2 DEF IndexExact
<1>6. LevelsExact
  <2>1. ASSUME NEW h \in LiveOrders
        PROVE  /\ orders[h].level \in LiveLevels
               /\ ladders[orders[h].side][orders[h].price] = orders[h].level
    BY <1>2, <1>3, OrderPlaced DEF LiveOrders, LiveLevels
  <2>2. ASSUME NEW s \in Sides, NEW x \in Prices, ladders[s][x] # Null
        PROVE  /\ ladders[s][x] \in LiveLevels /\ levels[ladders[s][x]].price = x
               /\ OrdersOn(ladders[s][x]) # {}
    <3>1. PICK lh : lh = B.ladders[s][x]
      OBVIOUS
    <3>2. lh \in LevelHandles /\ B.levels[lh] # Free
      BY <1>2, <1>3, <2>2, <3>1, Stored
    <3>3. B.levels[lh].price = x
      BY <1>2, <1>3, <2>2, <3>1 DEF LaddersOK
    <3>4. /\ Len(ch[lh]) \in Nat
          /\ \A i \in 1 .. Len(ch[lh]) : /\ ch[lh][i] \in OrderHandles
                                         /\ B.orders[ch[lh][i]] # Free
                                         /\ B.orders[ch[lh][i]].level = lh
      BY <1>2, <3>2, Queued
    <3>5. Len(ch[lh]) # 0
      BY <1>1, <3>2 DEF FlatOK
    <3>6. 1 \in 1 .. Len(ch[lh])
      BY <3>4, <3>5
    <3>7. ch[lh][1] \in OrdersOn(lh)
      BY <1>3, <3>4, <3>6 DEF OrdersOn, LiveOrders
    <3> QED BY <1>3, <3>1, <3>2, <3>3, <3>7 DEF LiveLevels
  <2>3. LiveLevels = {ladders[s][x] : s \in Sides, x \in Prices} \ {Null}
    <3>1. ASSUME NEW lh \in LiveLevels
          PROVE  lh # Null /\ \E s \in Sides, x \in Prices : ladders[s][x] = lh
      <4>1. lh \in LevelHandles /\ B.levels[lh] # Free
        BY <1>3 DEF LiveLevels
      <4> QED BY <1>2, <1>3, <4>1, FlatBookAssumption DEF LaddersOK
    <3> QED BY <2>2, <3>1
  <2> QED BY <2>1, <2>2, <2>3 DEF LevelsExact
<1> QED BY <1>4, <1>5, <1>6 DEF HandlesExact

LEMMA FlatQueues ==
  ASSUME NEW ch, FlatOK(Book, ch)
  PROVE  /\ QueueLinks
         /\ \A lh \in LevelHandles : levels[lh] # Free =>
               /\ levels[lh].order_count = Cardinality(OrdersOn(lh))
               /\ OrdersOn(lh) = On(Book, lh)
<1>1. PICK B : B = Book
  OBVIOUS
<1>2. RecordsOK(B, ch) /\ \A x \in LevelHandles : B.levels[x] # Free => Len(ch[x]) # 0
  BY <1>1 DEF FlatOK
<1>3. /\ orders = B.orders /\ levels = B.levels /\ LiveOrders = Live(B)
      /\ LiveLevels = InUse(B)
  BY <1>1 DEF Book, LiveOrders, LiveLevels, Live, InUse
<1>4. \A lh : OrdersOn(lh) = On(B, lh)
  BY <1>3 DEF OrdersOn, On, Live
<1>5. ASSUME NEW lh \in LevelHandles, B.levels[lh] # Free, NEW q, q = ch[lh]
      PROVE  /\ QueueOf(lh) = q /\ Range(q) = OrdersOn(lh) /\ DOMAIN q = 1 .. Len(q)
             /\ Len(q) = Cardinality(OrdersOn(lh))
             /\ levels[lh].order_count = Cardinality(OrdersOn(lh))
             /\ levels[lh].tail = q[Len(q)]
             /\ \A i \in 1 .. Len(q) : orders[q[i]].prev = IF i = 1 THEN Null ELSE q[i - 1]
  <2>1. QueueOf(lh) = QueueIn(B.orders, B.levels, Live(B), lh)
    BY <1>3, QueueRead
  <2>2. QueueOf(lh) = q
    BY <1>2, <1>5, <2>1, ChainRead
  <2>3. q \in Seq(OrderHandles) /\ DOMAIN q = 1 .. Len(q) /\ QueueOK(B, q, lh)
    BY <1>2, <1>5, Queued
  <2>4. /\ Distinct(q) /\ Range(q) = On(B, lh) /\ B.levels[lh].order_count = Len(q)
        /\ B.levels[lh].tail = IF Len(q) = 0 THEN Null ELSE q[Len(q)]
        /\ \A i \in 1 .. Len(q) :
              B.orders[q[i]].prev = IF i = 1 THEN Null ELSE q[i - 1]
    BY <2>3 DEF QueueOK
  <2>5. Cardinality(Range(q)) = Len(q)
    BY <2>3, <2>4, QueueSize
  <2>6. Len(q) # 0
    BY <1>2, <1>5
  <2> QED BY <1>3, <1>4, <2>2, <2>3, <2>4, <2>5, <2>6
<1>6. QueueLinks
  <2>1. ASSUME NEW lh \in LiveLevels, NEW q, q = QueueOf(lh)
        PROVE  /\ Range(q) = OrdersOn(lh) /\ Len(q) = Cardinality(OrdersOn(lh))
               /\ levels[lh].tail = q[Len(q)]
               /\ \A i \in DOMAIN q : orders[q[i]].prev = IF i = 1 THEN Null ELSE q[i - 1]
    <3>1. lh \in LevelHandles /\ B.levels[lh] # Free
      BY <1>3 DEF InUse
    <3>2. q = ch[lh]
      BY <1>5, <2>1, <3>1
    <3> QED BY <1>5, <3>1, <3>2
  <2> QED BY <2>1 DEF QueueLinks
<1> QED BY <1>1, <1>3, <1>4, <1>5, <1>6

LEMMA FlatCounts ==
  ASSUME NEW ch, FlatOK(Book, ch)
  PROVE  CountsExact
<1>1. PICK B : B = Book
  OBVIOUS
<1>2. CountsOK(B) /\ \A h \in OrderHandles : B.orders[h] # Free => B.orders[h].qty > 0
  BY <1>1 DEF FlatOK
<1>3. /\ orders = B.orders /\ levels = B.levels /\ stats = B.stats
      /\ LiveOrders = Live(B)
  BY <1>1 DEF Book, LiveOrders, Live
<1>4. Shares = SharesOf(B)
  BY <1>3 DEF Shares, SharesOf
<1>5. LevelTotals
  <2>1. ASSUME NEW lh \in LiveLevels
        PROVE  /\ levels[lh].total_qty = SumFunctionOnSet(Shares, OrdersOn(lh))
               /\ levels[lh].order_count = Cardinality(OrdersOn(lh))
    <3>1. lh \in LevelHandles /\ levels[lh] # Free
      BY DEF LiveLevels
    <3>2. levels[lh].order_count = Cardinality(OrdersOn(lh)) /\ OrdersOn(lh) = On(B, lh)
      BY <1>1, <3>1, FlatQueues
    <3>3. B.levels[lh].total_qty = Total(B, On(B, lh))
      BY <1>2, <1>3, <3>1 DEF CountsOK
    <3> QED BY <1>3, <1>4, <3>2, <3>3 DEF Total
  <2>2. \A h \in LiveOrders : orders[h].qty > 0
    BY <1>2, <1>3 DEF LiveOrders
  <2> QED BY <2>1, <2>2 DEF LevelTotals
<1>6. StatsExact
  <2>1. stats.order_count = Cardinality(LiveOrders)
    BY <1>2, <1>3 DEF CountsOK
  <2>2. ASSUME NEW side \in Sides
        PROVE  /\ stats.total_qty[side] =
                     SumFunctionOnSet(Shares, {h \in LiveOrders : orders[h].side = side})
               /\ stats.level_count[side] = Cardinality(StoredPrices(Book, side))
    <3>1. {h \in LiveOrders : orders[h].side = side} = OnSide(B, side)
      BY <1>3 DEF OnSide, Live
    <3>2. /\ B.stats.total_qty[side] = Total(B, OnSide(B, side))
          /\ B.stats.level_count[side] = Cardinality(StoredPrices(B, side))
      BY <1>2 DEF CountsOK
    <3> QED BY <1>1, <1>3, <1>4, <3>1, <3>2 DEF Total
  <2> QED BY <2>1, <2>2 DEF StatsExact
<1> QED BY <1>5, <1>6 DEF CountsExact

LEMMA FlatBest ==
  ASSUME NEW ch, FlatOK(Book, ch), kNoPrice \notin Prices
  PROVE  BestCached
  BY DEF FlatOK, BestOK, BestOf, BestCached, Book, StoredPrices

\* After any sequence of operations, on records however often freed and used
\* again, the handles, the links and the counts of the book are exact.
THEOREM FlatBookIsWhole == Spec => [](RecordsExact /\ CountsExact)
<1>1. Init => FlatInv
  BY InitFlat DEF FlatInv
<1>2. FlatInv /\ [Next]_vars => FlatInv'
  BY FlatInvKept
<1>3. FlatInv => RecordsExact /\ CountsExact
  BY FlatHandles, FlatQueues, FlatCounts DEF FlatInv, RecordsExact
<1> QED BY <1>1, <1>2, <1>3, PTL DEF Spec

\* Where no order may name the price that marks an empty side, the cached best
\* prices are also those the level containers would compute.
THEOREM FlatBookCaches == ASSUME kNoPrice \notin Prices PROVE Spec => []CachesExact
<1>1. Init => FlatInv
  BY InitFlat DEF FlatInv
<1>2. FlatInv /\ [Next]_vars => FlatInv'
  BY FlatInvKept
<1>3. FlatInv => CachesExact
  BY FlatCounts, FlatBest DEF FlatInv, CachesExact
<1> QED BY <1>1, <1>2, <1>3, PTL DEF Spec

\* The abstract book has the same sides, and closes a queue up in the same way.
LEMMA SameNotions ==
  /\ Reference!Sides = Sides
  /\ \A q, ref : Reference!PlaceOf(q, ref) = PlaceOf(q, ref)
  /\ \A q, k : Reference!ClosedUp(q, k) = ClosedUp(q, k)
  BY DEF Reference!Sides, Sides, Reference!PlaceOf, PlaceOf, Reference!ClosedUp, ClosedUp

LEMMA InitMaps ==
  ASSUME Init
  PROVE  Reference!BookInit
<1>1. PICK ch : /\ FlatOK(Book, ch)
                /\ EntryOf(Book) = [ref \in Refs |-> NoOrder]
                /\ FifoOf(Book, ch) = [side \in Sides |-> [p \in Prices |-> << >>]]
  BY InitFlat
<1>2. RestingEntry = EntryOf(Book) /\ RestingQueues = FifoOf(Book, ch)
  BY <1>1, StateRead DEF FlatOK
<1> QED BY <1>1, <1>2, SameNotions DEF Reference!BookInit

LEMMA WithdrawnIs ==
  ASSUME NEW e, NEW f, RestingEntry = e, RestingQueues = f, NEW ref
  PROVE  Reference!Withdrawn(ref) =
            [f EXCEPT ![e[ref].side][e[ref].price] =
                ClosedUp(f[e[ref].side][e[ref].price],
                         PlaceOf(f[e[ref].side][e[ref].price], ref))]
  BY SameNotions DEF Reference!Withdrawn

\* An order with another price and quantity.
LEMMA Repriced ==
  ASSUME NEW o \in [side : Sides, price : Prices, qty : Nat, owner : Owners], NEW p, NEW qty
  PROVE  [o EXCEPT !.price = p, !.qty = qty] =
            [side |-> o.side, price |-> p, qty |-> qty, owner |-> o.owner]
<1>1. PICK x : x = [o EXCEPT !.price = p]
  OBVIOUS
<1>2. x = [side |-> o.side, price |-> p, qty |-> o.qty, owner |-> o.owner]
  BY <1>1
<1>3. [x EXCEPT !.qty = qty] = [side |-> o.side, price |-> p, qty |-> qty, owner |-> o.owner]
  BY <1>2
<1>4. [[o EXCEPT !.price = p] EXCEPT !.qty = qty] = [o EXCEPT !.price = p, !.qty = qty]
  OBVIOUS
<1> QED BY <1>1, <1>3, <1>4

\* Every operation of the flat book is the same operation of the abstract one.
LEMMA OperationsMap ==
  ASSUME FlatInv
  PROVE  /\ \A ref \in Refs, side \in Sides, p \in Prices, qty \in Quantities, owner \in Owners :
               Add(ref, side, p, qty, owner) => Reference!Add(ref, side, p, qty, owner)
         /\ \A ref \in Refs, shares \in Quantities :
               Cancel(ref, shares) => Reference!Reduce(ref, shares)
         /\ \A ref \in Refs : Remove(ref) => Reference!Remove(ref)
         /\ \A old, new \in Refs, p \in Prices, qty \in Quantities :
               Replace(old, new, p, qty) => Reference!Replace(old, new, p, qty)
         /\ UNCHANGED vars => UNCHANGED Reference!bookVars
<1>1. PICK ch : FlatOK(Book, ch)
  BY DEF FlatInv
<1>2. PICK B : B = Book
  OBVIOUS
<1>3. PICK e : e = EntryOf(B)
  OBVIOUS
<1>4. PICK f : f = FifoOf(B, ch)
  OBVIOUS
<1>5. RestingEntry = e /\ RestingQueues = f
  BY <1>1, <1>2, <1>3, <1>4, StateRead DEF FlatOK
<1>6. ASSUME NEW c, FlatOK(Book', c)
      PROVE  RestingEntry' = EntryOf(Book') /\ RestingQueues' = FifoOf(Book', c)
  BY <1>6, NextStateRead DEF FlatOK
<1>7. ASSUME NEW ref \in Refs, NEW side \in Sides, NEW p \in Prices, NEW qty \in Quantities,
             NEW owner \in Owners, Add(ref, side, p, qty, owner)
      PROVE  Reference!Add(ref, side, p, qty, owner)
  <2>1. /\ qty > 0 /\ e[ref] = NoOrder
        /\ \E c : FlatOK(Book', c) /\ Adds(Book', c, B, ch, ref, side, p, qty, owner)
    BY <1>1, <1>2, <1>3, <1>7, AddStep
  <2>2. PICK c : FlatOK(Book', c) /\ Adds(Book', c, B, ch, ref, side, p, qty, owner)
    BY <2>1
  <2>3. /\ RestingEntry' = [e EXCEPT ![ref] =
                              [side |-> side, price |-> p, qty |-> qty, owner |-> owner]]
        /\ RestingQueues' = [f EXCEPT ![side][p] = Append(f[side][p], ref)]
    BY <1>3, <1>4, <1>6, <2>2 DEF Adds
  <2> QED BY <1>5, <2>1, <2>3 DEF Reference!Add
<1>8. ASSUME NEW c, NEW ref \in Refs, FlatOK(Book', c), Withdraws(Book', c, B, ch, ref)
      PROVE  /\ RestingEntry' = [e EXCEPT ![ref] = NoOrder]
             /\ RestingQueues' = Reference!Withdrawn(ref)
  <2>1. /\ RestingEntry' = [e EXCEPT ![ref] = NoOrder]
        /\ RestingQueues' = [f EXCEPT ![e[ref].side][e[ref].price] =
                               ClosedUp(f[e[ref].side][e[ref].price],
                                        PlaceOf(f[e[ref].side][e[ref].price], ref))]
    BY <1>3, <1>4, <1>6, <1>8 DEF Withdraws
  <2> QED BY <1>5, <2>1, WithdrawnIs
<1>9. ASSUME NEW ref \in Refs, NEW shares \in Quantities, Cancel(ref, shares)
      PROVE  Reference!Reduce(ref, shares)
  <2>1. /\ e[ref] # NoOrder /\ shares <= e[ref].qty
        /\ \E c : /\ FlatOK(Book', c)
                  /\ IF shares < e[ref].qty
                     THEN /\ EntryOf(Book') = [e EXCEPT ![ref].qty = e[ref].qty - shares]
                          /\ FifoOf(Book', c) = f
                     ELSE Withdraws(Book', c, B, ch, ref)
    BY <1>1, <1>2, <1>3, <1>4, <1>9, CancelStep
  <2>2. PICK c : /\ FlatOK(Book', c)
                 /\ IF shares < e[ref].qty
                    THEN /\ EntryOf(Book') = [e EXCEPT ![ref].qty = e[ref].qty - shares]
                         /\ FifoOf(Book', c) = f
                    ELSE Withdraws(Book', c, B, ch, ref)
    BY <2>1
  <2>3. IF shares < e[ref].qty
        THEN /\ RestingEntry' = [e EXCEPT ![ref].qty = e[ref].qty - shares]
             /\ RestingQueues' = f
        ELSE /\ RestingEntry' = [e EXCEPT ![ref] = NoOrder]
             /\ RestingQueues' = Reference!Withdrawn(ref)
    BY <1>6, <1>8, <2>2
  <2> QED BY <1>5, <2>1, <2>3 DEF Reference!Reduce
<1>10. ASSUME NEW ref \in Refs, Remove(ref) PROVE Reference!Remove(ref)
  <2>1. /\ e[ref] # NoOrder
        /\ \E c : FlatOK(Book', c) /\ Withdraws(Book', c, B, ch, ref)
    BY <1>1, <1>2, <1>3, <1>10, RemoveStep
  <2> QED BY <1>5, <1>8, <2>1 DEF Reference!Remove
<1>11. ASSUME NEW old \in Refs, NEW new \in Refs, NEW p \in Prices, NEW qty \in Quantities,
              Replace(old, new, p, qty)
       PROVE  Reference!Replace(old, new, p, qty)
  <2>1. /\ e[old] # NoOrder /\ qty > 0 /\ (new = old \/ e[new] = NoOrder)
        /\ \E R, c, d : /\ Withdraws(R, c, B, ch, old) /\ FlatOK(Book', d)
                        /\ Adds(Book', d, R, c, new, e[old].side, p, qty, e[old].owner)
    BY <1>1, <1>2, <1>3, <1>11, ReplaceStep
  <2>2. PICK R, c, d : /\ Withdraws(R, c, B, ch, old) /\ FlatOK(Book', d)
                       /\ Adds(Book', d, R, c, new, e[old].side, p, qty, e[old].owner)
    BY <2>1
  <2>3. EntryOf(R) = [e EXCEPT ![old] = NoOrder] /\ FifoOf(R, c) = Reference!Withdrawn(old)
    <3>1. /\ EntryOf(R) = [e EXCEPT ![old] = NoOrder]
          /\ FifoOf(R, c) = [f EXCEPT ![e[old].side][e[old].price] =
                               ClosedUp(f[e[old].side][e[old].price],
                                        PlaceOf(f[e[old].side][e[old].price], old))]
      BY <1>3, <1>4, <2>2 DEF Withdraws
    <3> QED BY <1>5, <3>1, WithdrawnIs
  <2>4. PICK g : g = Reference!Withdrawn(old)
    OBVIOUS
  <2>5. /\ RestingEntry' = [EntryOf(R) EXCEPT ![new] =
                              [side |-> e[old].side, price |-> p, qty |-> qty,
                               owner |-> e[old].owner]]
        /\ RestingQueues' = [g EXCEPT ![e[old].side][p] = Append(g[e[old].side][p], new)]
    BY <1>6, <2>2, <2>3, <2>4 DEF Adds
  <2>6. e[old] \in [side : Sides, price : Prices, qty : Nat, owner : Owners]
    <3>1. EntryOf(B)[old] \in [side : Sides, price : Prices, qty : Nat, owner : Owners]
      <4>1. RecordsOK(B, ch) /\ B.index[old] # Null
        <5>1. RecordsOK(B, ch)
          BY <1>1, <1>2 DEF FlatOK
        <5> QED BY <1>3, <2>1, <5>1, Rests
      <4>2. PICK o : o = B.orders[B.index[old]]
        OBVIOUS
      <4>3. /\ o \in Orders
            /\ EntryOf(B)[old] = [side |-> o.side, price |-> o.price, qty |-> o.qty,
                                  owner |-> o.owner]
        BY <4>1, <4>2, Rests
      <4> QED BY <4>3 DEF Orders
    <3> QED BY <1>3, <3>1
  <2>7. RestingEntry' = [e EXCEPT ![old] = NoOrder,
                                  ![new] = [e[old] EXCEPT !.price = p, !.qty = qty]]
    <3>1. [e[old] EXCEPT !.price = p, !.qty = qty] =
             [side |-> e[old].side, price |-> p, qty |-> qty, owner |-> e[old].owner]
      <4>1. PICK o \in [side : Sides, price : Prices, qty : Nat, owner : Owners] : o = e[old]
        BY <2>6
      <4>2. [o EXCEPT !.price = p, !.qty = qty] =
               [side |-> o.side, price |-> p, qty |-> qty, owner |-> o.owner]
        BY Repriced
      <4> QED BY <4>1, <4>2
    <3>2. e = [r \in Refs |-> e[r]]
      BY <1>3 DEF EntryOf
    <3> QED BY <2>3, <2>5, <3>1, <3>2
  <2>8. RestingQueues' = [Reference!Withdrawn(old) EXCEPT ![e[old].side][p] = Append(@, new)]
    BY <2>4, <2>5
  <2> QED BY <1>5, <2>1, <2>7, <2>8 DEF Reference!Replace
<1>12. ASSUME UNCHANGED vars PROVE UNCHANGED Reference!bookVars
  <2>1. Book' = Book
    BY <1>12, StutterStep
  <2>2. FlatOK(Book', ch)
    BY <1>1, <2>1
  <2> QED BY <1>2, <1>3, <1>4, <1>5, <1>6, <2>1, <2>2 DEF Reference!bookVars
<1> QED BY <1>7, <1>9, <1>10, <1>11, <1>12

LEMMA StepMaps ==
  ASSUME FlatInv, [Next]_vars
  PROVE  [Reference!BookNext]_Reference!bookVars
<1>1. CASE Next
  <2>1. ASSUME NEW ref \in Refs, NEW side \in Sides, NEW p \in Prices, NEW qty \in Quantities,
               NEW owner \in Owners, Add(ref, side, p, qty, owner)
        PROVE  Reference!BookNext
    BY <2>1, OperationsMap, SameNotions DEF Reference!BookNext
  <2>2. ASSUME NEW ref \in Refs, NEW shares \in Quantities, Cancel(ref, shares)
        PROVE  Reference!BookNext
    BY <2>2, OperationsMap DEF Reference!BookNext
  <2>3. ASSUME NEW ref \in Refs, Remove(ref) PROVE Reference!BookNext
    BY <2>3, OperationsMap DEF Reference!BookNext
  <2>4. ASSUME NEW old \in Refs, NEW new \in Refs, NEW p \in Prices, NEW qty \in Quantities,
               Replace(old, new, p, qty)
        PROVE  Reference!BookNext
    BY <2>4, OperationsMap DEF Reference!BookNext
  <2> QED BY <1>1, <2>1, <2>2, <2>3, <2>4 DEF Next
<1>2. CASE UNCHANGED vars
  BY <1>2, OperationsMap
<1> QED BY <1>1, <1>2

\* Read through its index and its queues, the book is the price-time priority
\* book: no sequence of operations shows a difference.
THEOREM FlatBookImplements == Spec => ImplementsLimitOrderBook
<1>1. Init => FlatInv
  BY InitFlat DEF FlatInv
<1>2. FlatInv /\ [Next]_vars => FlatInv'
  BY FlatInvKept
<1>3. Init => Reference!BookInit
  BY InitMaps
<1>4. FlatInv /\ [Next]_vars => [Reference!BookNext]_Reference!bookVars
  BY StepMaps
<1> QED BY <1>1, <1>2, <1>3, <1>4, PTL DEF Spec, ImplementsLimitOrderBook, Reference!BookSpec
==============================================================================
