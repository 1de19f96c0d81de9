------------------------------ MODULE StoresProof ------------------------------
(***************************************************************************)
(* The two stores of order records.  The pool: no slot is ever handed out  *)
(* twice and none is lost, for any number of slots, any generation width   *)
(* and any quarantine.  The index: linear probing with backward-shift      *)
(* deletion is a map, for a table of any size, any hash and any            *)
(* references: whatever erase_at() moves, no entry comes to lie behind an  *)
(* empty slot, and find() sees each of them.                               *)
(***************************************************************************)
EXTENDS Pool, OrderIndex, BookTypesProof, FiniteSetTheorems, TLAPS


\* The slots of the free list: neither live nor held back.
Listed == Slots \ (LiveSlots \cup Quarantined)

\* The links, from the head on, spell out the sequence c, which holds the slots
\* of S once each, and end after it.
Chain(c, head, next, S) ==
    /\ \A i \in 1 .. Len(c) : c[i] \in S
    /\ \A s \in S : \E i \in 1 .. Len(c) : c[i] = s
    /\ \A i, j \in 1 .. Len(c) : c[i] = c[j] => i = j
    /\ head = IF Len(c) = 0 THEN Null ELSE c[1]
    /\ \A i \in 1 .. Len(c) : next[c[i]] = IF i = Len(c) THEN Null ELSE c[i + 1]

\* The free list holds every slot that is listed.
ListOK == \E c \in Seq(Slots) : Chain(c, freeHead, link, Listed)

\* The slots held back: none is live, none is held back twice, and there are
\* never more of them than the limit.
QuarantineOK ==
    /\ Quarantined \cap LiveSlots = {}
    /\ IsInjective(quarantine)
    /\ Len(quarantine) <= limit

CountOK == live = Cardinality(LiveSlots)

\* The generation of the stale handle's slot is as far ahead of the handle's own
\* as the reuses and a free since the last of them have brought it, wrapped at
\* most once.
StaleOK ==
    stale # Null =>
        LET ahead == 2 * reuses + (IF stale.index \in LiveSlots THEN 0 ELSE 1)
        IN  \/ gen[stale.index] = stale.generation + ahead
            \/ gen[stale.index] = stale.generation + ahead - GenMod

IInv == TypeOK /\ NoDoubleIssue /\ ListOK /\ QuarantineOK /\ CountOK /\ StaleOK

------------------------------------------------------------------------------
(* Generations. *)

\* A generation that is bumped stays in range and changes parity, also when it
\* wraps: the number of generations is even.
LEMMA BumpFacts ==
    ASSUME NEW g \in 0 .. GenMod - 1
    PROVE  /\ (g + 1) % GenMod \in 0 .. GenMod - 1
           /\ Odd((g + 1) % GenMod) <=> ~Odd(g)
<1>1. GenMod \in Nat /\ GenMod > 0 /\ GenMod % 2 = 0
  BY PoolAssumption
<1>2. CASE g + 1 < GenMod
  <2>1. (g + 1) % GenMod = g + 1
    BY <1>1, <1>2
  <2> QED  BY <1>1, <1>2, <2>1 DEF Odd
<1>3. CASE g + 1 = GenMod
  <2>1. (g + 1) % GenMod = 0
    BY <1>1, <1>3
  <2>2. g % 2 = 1
    BY <1>1, <1>3
  <2> QED  BY <1>1, <1>3, <2>1, <2>2 DEF Odd
<1> QED  BY <1>1, <1>2, <1>3

\* Bumping one slot leaves the others live or free as they were.
LEMMA LiveAfterBump ==
    ASSUME TypeOK, NEW s \in Slots, gen' = Bumped(s)
    PROVE  /\ gen' \in [Slots -> 0 .. GenMod - 1]
           /\ \A t \in Slots \ {s} : gen'[t] = gen[t]
           /\ Odd(gen[s]) => LiveSlots' = LiveSlots \ {s}
           /\ ~Odd(gen[s]) => LiveSlots' = LiveSlots \cup {s}
<1>1. gen[s] \in 0 .. GenMod - 1
  BY DEF TypeOK
<1>2. gen' \in [Slots -> 0 .. GenMod - 1] /\ gen'[s] = (gen[s] + 1) % GenMod
  BY <1>1, BumpFacts DEF TypeOK, Bumped
<1>3. \A t \in Slots \ {s} : gen'[t] = gen[t]
  BY DEF TypeOK, Bumped
<1>4. Odd(gen'[s]) <=> ~Odd(gen[s])
  BY <1>1, <1>2, BumpFacts
<1> QED  BY <1>2, <1>3, <1>4 DEF LiveSlots, Slots

\* There are Capacity slots, and the live ones are some of them.
LEMMA SlotCount ==
    /\ IsFiniteSet(Slots)
    /\ Cardinality(Slots) = Capacity
    /\ IsFiniteSet(LiveSlots)
    /\ Cardinality(LiveSlots) \in Nat
<1>1. IsFiniteSet(Slots) /\ Cardinality(Slots) = Capacity
  <2>1. Capacity - 1 \in Int /\ 0 \in Int /\ Capacity \in Nat /\ Capacity > 0
    BY PoolAssumption
  <2> QED  BY <2>1, FS_Interval DEF Slots
<1>2. LiveSlots \subseteq Slots
  BY DEF LiveSlots
<1> QED  BY <1>1, <1>2, FS_Subset, FS_CardinalityType

------------------------------------------------------------------------------
(* The free list. *)

\* The head of a list is its first slot, or null when it has none.
LEMMA ChainHead ==
    ASSUME NEW S, NEW c \in Seq(Slots), NEW head, NEW next, Chain(c, head, next, S)
    PROVE  head \in S \cup {Null} /\ (head # Null => Len(c) > 0 /\ head = c[1])
<1>1. Len(c) \in Nat
  OBVIOUS
<1> QED  BY <1>1 DEF Chain

\* allocate() takes the first slot; the links of the others are still a list.
LEMMA ChainPop ==
    ASSUME NEW S \in SUBSET Slots, NEW c \in Seq(Slots), NEW next, NEW next2, NEW s \in S,
           Null \notin Slots, Chain(c, s, next, S),
           \A t \in S \ {s} : next2[t] = next[t]
    PROVE  \E d \in Seq(Slots) : Chain(d, next[s], next2, S \ {s})
<1>1. Len(c) \in Nat /\ Len(c) > 0 /\ s = c[1]
  BY ChainHead
<1>2. PICK n \in Nat : Len(c) = n + 1
  <2>1. Len(c) - 1 \in Nat /\ Len(c) = (Len(c) - 1) + 1
    BY <1>1
  <2> QED  BY <2>1
<1>3. /\ \A i \in 1 .. n + 1 : c[i] \in S
      /\ \A t \in S : \E i \in 1 .. n + 1 : c[i] = t
      /\ \A i, j \in 1 .. n + 1 : c[i] = c[j] => i = j
      /\ \A i \in 1 .. n + 1 : next[c[i]] = IF i = n + 1 THEN Null ELSE c[i + 1]
  BY <1>2 DEF Chain
<1>4. PICK d : d = [i \in 1 .. n |-> c[i + 1]]
  OBVIOUS
<1>5. \A i \in 1 .. n : d[i] = c[i + 1] /\ i + 1 \in 1 .. n + 1 /\ i + 1 # 1
  BY <1>4
<1>6. d \in Seq(Slots) /\ Len(d) = n
  <2>1. d \in [1 .. n -> Slots]
    BY <1>3, <1>4, <1>5
  <2> QED  BY <2>1, IsSequence
<1>7. \A i \in 1 .. n : d[i] \in S \ {s}
  BY <1>1, <1>3, <1>5
<1>8. \A t \in S \ {s} : \E i \in 1 .. n : d[i] = t
  <2>1. ASSUME NEW t \in S \ {s} PROVE \E i \in 1 .. n : d[i] = t
    <3>1. PICK i \in 1 .. n + 1 : c[i] = t
      BY <1>3
    <3>2. i # 1
      BY <1>1, <3>1
    <3>3. i - 1 \in 1 .. n /\ (i - 1) + 1 = i
      BY <3>2
    <3> QED  BY <1>5, <3>1, <3>3
  <2> QED  BY <2>1
<1>9. \A i, j \in 1 .. n : d[i] = d[j] => i = j
  <2>1. ASSUME NEW i \in 1 .. n, NEW j \in 1 .. n, d[i] = d[j] PROVE i + 1 = j + 1
    BY <1>3, <1>5, <2>1
  <2> QED  BY <2>1
<1>10. next[s] = IF n = 0 THEN Null ELSE d[1]
  <2>1. next[s] = IF 1 = n + 1 THEN Null ELSE c[1 + 1]
    BY <1>1, <1>3
  <2> QED  BY <1>5, <2>1
<1>11. \A i \in 1 .. n : next2[d[i]] = IF i = n THEN Null ELSE d[i + 1]
  <2>1. ASSUME NEW i \in 1 .. n PROVE next2[d[i]] = IF i = n THEN Null ELSE d[i + 1]
    <3>1. next2[d[i]] = next[c[i + 1]]
      BY <1>5, <1>7
    <3>2. next[c[i + 1]] = IF i + 1 = n + 1 THEN Null ELSE c[(i + 1) + 1]
      BY <1>3, <1>5
    <3>3. i # n => i + 1 \in 1 .. n
      OBVIOUS
    <3> QED  BY <1>5, <3>1, <3>2, <3>3
  <2> QED  BY <2>1
<1> QED  BY <1>6, <1>7, <1>8, <1>9, <1>10, <1>11 DEF Chain

\* push_free(): a slot linked to the head of a list is the head of a longer one.
LEMMA ChainPush ==
    ASSUME NEW S \in SUBSET Slots, NEW c \in Seq(Slots), NEW head, NEW next, NEW next2,
           NEW r \in Slots, r \notin S, Null \notin Slots, Chain(c, head, next, S),
           next2[r] = head, \A t \in S : next2[t] = next[t]
    PROVE  \E d \in Seq(Slots) : Chain(d, r, next2, S \cup {r})
<1>1. PICK n \in Nat : Len(c) = n
  OBVIOUS
<1>2. /\ \A i \in 1 .. n : c[i] \in S
      /\ \A t \in S : \E i \in 1 .. n : c[i] = t
      /\ \A i, j \in 1 .. n : c[i] = c[j] => i = j
      /\ head = IF n = 0 THEN Null ELSE c[1]
      /\ \A i \in 1 .. n : next[c[i]] = IF i = n THEN Null ELSE c[i + 1]
  BY <1>1 DEF Chain
<1>3. PICK d : d = [i \in 1 .. n + 1 |-> IF i = 1 THEN r ELSE c[i - 1]]
  OBVIOUS
<1>4. d[1] = r /\ \A i \in 1 .. n : d[i + 1] = c[i]
  BY <1>3
<1>5. \A i \in 1 .. n + 1 : i = 1 \/ (i - 1 \in 1 .. n /\ d[i] = c[i - 1])
  BY <1>3
<1>6. d \in Seq(Slots) /\ Len(d) = n + 1
  <2>1. d \in [1 .. n + 1 -> Slots]
    BY <1>2, <1>3, <1>4, <1>5
  <2> QED  BY <2>1, IsSequence
<1>7. \A i \in 1 .. n + 1 : d[i] \in S \cup {r}
  BY <1>2, <1>4, <1>5
<1>8. \A t \in S \cup {r} : \E i \in 1 .. n + 1 : d[i] = t
  <2>1. ASSUME NEW t \in S PROVE \E i \in 1 .. n + 1 : d[i] = t
    <3>1. PICK i \in 1 .. n : c[i] = t
      BY <1>2
    <3>2. i + 1 \in 1 .. n + 1
      OBVIOUS
    <3> QED  BY <1>4, <3>1, <3>2
  <2>2. 1 \in 1 .. n + 1
    OBVIOUS
  <2> QED  BY <1>4, <2>1, <2>2
<1>9. \A i, j \in 1 .. n + 1 : d[i] = d[j] => i = j
  <2>1. ASSUME NEW i \in 1 .. n + 1, NEW j \in 1 .. n + 1, d[i] = d[j] PROVE i = j
    <3>1. CASE i = 1 \/ j = 1
      BY <1>2, <1>4, <1>5, <2>1, <3>1
    <3>2. CASE i # 1 /\ j # 1
      <4>1. i - 1 = j - 1
        BY <1>2, <1>5, <2>1, <3>2
      <4> QED  BY <4>1
    <3> QED  BY <3>1, <3>2
  <2> QED  BY <2>1
<1>10. \A i \in 1 .. n + 1 : next2[d[i]] = IF i = n + 1 THEN Null ELSE d[i + 1]
  <2>1. ASSUME NEW i \in 1 .. n + 1 PROVE next2[d[i]] = IF i = n + 1 THEN Null ELSE d[i + 1]
    <3>1. CASE i = 1
      <4>1. n = 0 \/ (n # 0 /\ 1 \in 1 .. n)
        OBVIOUS
      <4> QED  BY <1>2, <1>4, <3>1, <4>1
    <3>2. CASE i # 1
      <4>1. i - 1 \in 1 .. n /\ d[i] = c[i - 1]
        BY <1>5, <3>2
      <4>2. next2[d[i]] = IF i - 1 = n THEN Null ELSE c[(i - 1) + 1]
        BY <1>2, <4>1
      <4>3. i # n + 1 => i \in 1 .. n
        BY <3>2
      <4> QED  BY <1>4, <4>1, <4>2, <4>3
    <3> QED  BY <3>1, <3>2
  <2> QED  BY <2>1
<1>11. r = IF n + 1 = 0 THEN Null ELSE d[1]
  BY <1>4
<1>12. PICK T : T = S \cup {r}
  OBVIOUS
<1>13. Chain(d, r, next2, T)
  BY <1>6, <1>7, <1>8, <1>9, <1>10, <1>11, <1>12 DEF Chain
<1> QED  BY <1>6, <1>12, <1>13

------------------------------------------------------------------------------
(* The stale handle. *)

\* A bump adds one to a generation, or wraps it to zero.
LEMMA BumpedValue ==
    ASSUME TypeOK, NEW s \in Slots, gen' = Bumped(s)
    PROVE  /\ gen[s] + 1 < GenMod => gen'[s] = gen[s] + 1
           /\ gen[s] + 1 >= GenMod => gen[s] + 1 = GenMod /\ gen'[s] = 0
<1>1. GenMod \in Nat /\ GenMod > 0
  BY PoolAssumption
<1>2. gen[s] \in 0 .. GenMod - 1
  BY DEF TypeOK
<1>3. gen'[s] = (gen[s] + 1) % GenMod
  BY DEF TypeOK, Bumped
<1>4. PICK g : g = gen[s]
  OBVIOUS
<1>5. g + 1 < GenMod => (g + 1) % GenMod = g + 1
  BY <1>1, <1>2, <1>4
<1>6. g + 1 >= GenMod => g + 1 = GenMod /\ (g + 1) % GenMod = 0
  BY <1>1, <1>2, <1>4
<1> QED  BY <1>3, <1>4, <1>5, <1>6

\* Half the generations are odd.
LEMMA HalfOfThem ==
    /\ GenMod \div 2 \in Nat /\ GenMod \div 2 > 0
    /\ GenMod = 2 * (GenMod \div 2)
  BY PoolAssumption

\* The reuses wrap with the generation.
LEMMA ReusesWrap ==
    ASSUME NEW r \in 0 .. (GenMod \div 2) - 1
    PROVE  /\ (r + 1) % (GenMod \div 2) \in 0 .. (GenMod \div 2) - 1
           /\ r + 1 < GenMod \div 2 => (r + 1) % (GenMod \div 2) = r + 1
           /\ ~ (r + 1 < GenMod \div 2) =>
                 r + 1 = GenMod \div 2 /\ (r + 1) % (GenMod \div 2) = 0
<1>1. PICK h : h = GenMod \div 2
  OBVIOUS
<1>2. h \in Nat /\ h > 0
  BY <1>1, HalfOfThem
<1>3. r \in 0 .. h - 1
  BY <1>1
<1>4. /\ (r + 1) % h \in 0 .. h - 1
      /\ r + 1 < h => (r + 1) % h = r + 1
      /\ ~ (r + 1 < h) => r + 1 = h /\ (r + 1) % h = 0
  BY <1>2, <1>3
<1> QED  BY <1>1, <1>4

\* What it takes for the handle to be accepted again.
LEMMA StaleCaught == IInv => StaleCaughtUntilWrap
<1>1. SUFFICES ASSUME IInv, stale # Null
               PROVE  Accepted(stale) <=> stale.index \in LiveSlots /\ reuses = 0
  BY DEF StaleCaughtUntilWrap
<1>2. PICK g \in 0 .. GenMod - 1 : g = gen[stale.index]
  BY <1>1 DEF IInv, TypeOK, Handles
<1>3. PICK k \in 0 .. GenMod - 1 : k = stale.generation
  BY <1>1 DEF IInv, TypeOK, Handles
<1>4. PICK h \in Nat : h > 0 /\ GenMod = 2 * h /\ reuses \in 0 .. h - 1
  BY <1>1, HalfOfThem DEF IInv, TypeOK
<1>5. Accepted(stale) <=> g = k
  BY <1>2, <1>3 DEF Accepted
<1>6. CASE stale.index \in LiveSlots
  <2>1. g = k + 2 * reuses \/ g = k + 2 * reuses - GenMod
    <3>1. \/ gen[stale.index] = stale.generation + (2 * reuses + 0)
          \/ gen[stale.index] = stale.generation + (2 * reuses + 0) - GenMod
      BY <1>1, <1>6 DEF IInv, StaleOK
    <3> QED  BY <1>2, <1>3, <1>4, <3>1
  <2>2. g = k <=> reuses = 0
    BY <1>4, <2>1
  <2> QED  BY <1>5, <1>6, <2>2
<1>7. CASE stale.index \notin LiveSlots
  <2>1. g = k + (2 * reuses + 1) \/ g = k + (2 * reuses + 1) - GenMod
    BY <1>1, <1>2, <1>3, <1>7 DEF IInv, StaleOK
  <2>2. g # k
    BY <1>4, <2>1
  <2> QED  BY <1>5, <1>7, <2>2
<1> QED  BY <1>6, <1>7

------------------------------------------------------------------------------
(* Initial states. *)

\* The constructor's pool satisfies the invariant: every slot is listed, and
\* the links ascend.
LEMMA InitIInv == ASSUME Init PROVE IInv
<1>0. Capacity \in Nat /\ Capacity > 0 /\ GenMod \in Nat /\ GenMod > 0 /\ GenMod % 2 = 0
  BY PoolAssumption
<1>1. Null \notin Slots /\ Null \notin Nat /\ Limits \subseteq Nat
  BY PoolAssumption DEF Slots
<1>2. \A s \in Slots : ~Odd(gen[s])
  BY DEF Init, Odd
<1>3. LiveSlots = {} /\ Quarantined = {} /\ Listed = Slots
  BY <1>2 DEF Init, LiveSlots, Quarantined, Listed
<1>4. TypeOK
  <2>1. GenMod \div 2 >= 1
    BY <1>0
  <2>2. gen \in [Slots -> 0 .. GenMod - 1]
    BY <1>0 DEF Init
  <2>3. link \in [Slots -> Slots \cup {Null, Data}] /\ freeHead \in Slots \cup {Null}
    BY <1>0 DEF Init, Slots
  <2> QED  BY <1>0, <2>1, <2>2, <2>3 DEF Init, TypeOK
<1>5. NoDoubleIssue
  BY <1>3 DEF Init, NoDoubleIssue
<1>6. ListOK
  <2>1. PICK c : c = [i \in 1 .. Capacity |-> i - 1]
    OBVIOUS
  <2>2. \A i \in 1 .. Capacity : c[i] = i - 1 /\ c[i] \in Slots
    BY <1>0, <2>1 DEF Slots
  <2>3. c \in Seq(Slots) /\ Len(c) = Capacity
    <3>1. c \in [1 .. Capacity -> Slots]
      BY <2>1, <2>2
    <3> QED  BY <1>0, <3>1, IsSequence
  <2>4. \A s \in Slots : \E i \in 1 .. Capacity : c[i] = s
    <3>1. ASSUME NEW s \in Slots PROVE \E i \in 1 .. Capacity : c[i] = s
      <4>1. s + 1 \in 1 .. Capacity /\ (s + 1) - 1 = s
        BY <1>0 DEF Slots
      <4> QED  BY <2>2, <4>1
    <3> QED  BY <3>1
  <2>5. freeHead = IF Capacity = 0 THEN Null ELSE c[1]
    BY <1>0, <2>2 DEF Init
  <2>6. \A i \in 1 .. Capacity : link[c[i]] = IF i = Capacity THEN Null ELSE c[i + 1]
    <3>1. ASSUME NEW i \in 1 .. Capacity
          PROVE  link[c[i]] = IF i = Capacity THEN Null ELSE c[i + 1]
      <4>1. link[i - 1] = IF (i - 1) + 1 < Capacity THEN (i - 1) + 1 ELSE Null
        BY <2>2 DEF Init
      <4> QED  BY <1>0, <2>2, <4>1
    <3> QED  BY <3>1
  <2>7. \A i, j \in 1 .. Capacity : c[i] = c[j] => i = j
    BY <1>0, <2>2
  <2>8. Chain(c, freeHead, link, Slots)
    BY <2>2, <2>3, <2>4, <2>5, <2>6, <2>7 DEF Chain
  <2> QED  BY <1>3, <2>3, <2>8 DEF ListOK
<1>7. QuarantineOK
  BY <1>1, <1>3 DEF Init, QuarantineOK, IsInjective
<1>8. CountOK
  BY <1>3, FS_EmptySet DEF Init, CountOK
<1> QED  BY <1>4, <1>5, <1>6, <1>7, <1>8 DEF IInv, StaleOK, Init

------------------------------------------------------------------------------
(* allocate() *)

\* The stale handle's slot may be the one that is issued again.
LEMMA AllocateStale ==
    ASSUME IInv, Allocate, NEW s \in Slots, s = freeHead, s \notin LiveSlots, gen' = Bumped(s),
           \A t \in Slots \ {s} : gen'[t] = gen[t], LiveSlots' = LiveSlots \cup {s}
    PROVE  StaleOK'
<1>1. stale' = stale /\ reuses' = IF stale # Null /\ stale.index = s
                                 THEN (reuses + 1) % (GenMod \div 2) ELSE reuses
  BY DEF Allocate
<1>2. SUFFICES ASSUME stale # Null PROVE StaleOK'
  BY <1>1 DEF StaleOK
<1>3. PICK x \in Slots : x = stale.index
  BY <1>2 DEF IInv, TypeOK, Handles
<1>4. PICK k \in 0 .. GenMod - 1 : k = stale.generation
  BY <1>2 DEF IInv, TypeOK, Handles
<1>5. CASE x # s
  <2>1. gen'[x] = gen[x] /\ reuses' = reuses /\ (x \in LiveSlots' <=> x \in LiveSlots)
    BY <1>1, <1>3, <1>5
  <2> QED  BY <1>1, <1>2, <1>3, <2>1 DEF IInv, StaleOK
<1>6. CASE x = s
  <2>1. PICK h \in Nat : h > 0 /\ GenMod = 2 * h /\ h = GenMod \div 2
    BY HalfOfThem
  <2>2. PICK r \in 0 .. h - 1 : r = reuses
    BY <2>1 DEF IInv, TypeOK
  <2>3. PICK g \in 0 .. GenMod - 1 : g = gen[x]
    BY DEF IInv, TypeOK
  <2>4. g = k + (2 * r + 1) \/ g = k + (2 * r + 1) - GenMod
    BY <1>2, <1>3, <1>4, <1>6, <2>2, <2>3 DEF IInv, StaleOK
  <2>5. PICK g2 : g2 = gen'[x]
    OBVIOUS
  <2>6. /\ g + 1 < GenMod => g2 = g + 1
        /\ g + 1 >= GenMod => g + 1 = GenMod /\ g2 = 0
    BY <1>6, <2>3, <2>5, BumpedValue DEF IInv
  <2>7. PICK r2 : r2 = reuses'
    OBVIOUS
  <2>8. /\ r + 1 < h => r2 = r + 1
        /\ ~ (r + 1 < h) => r + 1 = h /\ r2 = 0
    BY <1>1, <1>2, <1>3, <1>6, <2>1, <2>2, <2>7, ReusesWrap
  <2>9. g2 = k + (2 * r2 + 0) \/ g2 = k + (2 * r2 + 0) - GenMod
    BY <2>1, <2>4, <2>6, <2>8
  <2>10. x \in LiveSlots'
    BY <1>6
  <2> QED  BY <1>1, <1>3, <1>4, <2>5, <2>7, <2>9, <2>10 DEF StaleOK
<1> QED  BY <1>5, <1>6

\* The slot taken from the free list was free, so its new handle is the only
\* one for it, and the rest of the list is still a list.
LEMMA AllocateIInv ==
    ASSUME IInv, Allocate
    PROVE  IInv' /\ freeHead \in Slots \ LiveSlots
<1>. PICK s : s = freeHead
  OBVIOUS
<1>. PICK h : h = [index |-> s, generation |-> gen'[s]]
  OBVIOUS
<1>0. Null \notin Slots /\ Data \notin Slots /\ Null # Data
  BY PoolAssumption DEF Slots
<1>c. PICK c \in Seq(Slots) : Chain(c, s, link, Listed)
  BY DEF IInv, ListOK
<1>1. s \in Listed /\ s \in Slots /\ s \notin LiveSlots /\ s \notin Quarantined /\ ~Odd(gen[s])
  BY <1>c, ChainHead DEF Allocate, Listed, LiveSlots
<1>2. gen' = Bumped(s)
  BY DEF Allocate
<1>3. /\ gen' \in [Slots -> 0 .. GenMod - 1]
      /\ \A t \in Slots \ {s} : gen'[t] = gen[t]
      /\ LiveSlots' = LiveSlots \cup {s}
  BY <1>1, <1>2, LiveAfterBump DEF IInv
<1>4. Quarantined' = Quarantined
  BY DEF Allocate, Quarantined
<1>5. Listed' = Listed \ {s}
  BY <1>1, <1>3, <1>4 DEF Listed
<1>6. \A t \in Slots \ {s} : link'[t] = link[t]
  BY DEF Allocate, IInv, TypeOK
<1>7. h \in Handles /\ Odd(gen'[s])
  BY <1>1, <1>3 DEF Handles, LiveSlots
<1>8. held' = held \cup {h}
  BY DEF Allocate
<1>9. CountOK' /\ live' \in 0 .. Capacity
  <2>1. Cardinality(LiveSlots') = Cardinality(LiveSlots) + 1
    BY <1>1, <1>3, SlotCount, FS_AddElement
  <2>2. LiveSlots' \subseteq Slots
    BY <1>1, <1>3 DEF LiveSlots
  <2>3. Cardinality(LiveSlots') <= Capacity
    BY <2>2, SlotCount, FS_Subset
  <2>4. live' = Cardinality(LiveSlots')
    BY <2>1 DEF IInv, CountOK, Allocate
  <2> QED  BY <2>1, <2>3, <2>4, SlotCount, PoolAssumption DEF CountOK
<1>10. ListOK' /\ freeHead' \in Slots \cup {Null}
  <2>1. freeHead' = link[s]
    BY DEF Allocate
  <2>2. Listed \in SUBSET Slots
    BY DEF Listed
  <2>3. \A t \in Listed \ {s} : link'[t] = link[t]
    BY <1>6, <2>2
  <2>4. PICK d \in Seq(Slots) : Chain(d, link[s], link', Listed \ {s})
    BY <1>0, <1>1, <1>c, <2>2, <2>3, ChainPop
  <2>5. Chain(d, freeHead', link', Listed')
    BY <1>5, <2>1, <2>4
  <2>6. freeHead' \in Listed' \cup {Null}
    BY <2>5, ChainHead
  <2> QED  BY <2>5, <2>6 DEF ListOK, Listed
<1>11. TypeOK'
  <2>1. link' \in [Slots -> Slots \cup {Null, Data}]
    BY <1>1 DEF Allocate, IInv, TypeOK
  <2>2. freeHead' \in Slots \cup {Null}
    BY <1>10
  <2>3. highWater' \in 0 .. Capacity
    BY <1>9 DEF Allocate, IInv, TypeOK
  <2>4. held' \subseteq Handles
    BY <1>7, <1>8 DEF IInv, TypeOK
  <2>5. reuses' \in 0 .. (GenMod \div 2) - 1
    <3>1. GenMod \div 2 \in Nat /\ GenMod \div 2 > 0
      BY PoolAssumption
    <3>2. (reuses + 1) % (GenMod \div 2) \in 0 .. (GenMod \div 2) - 1
      BY <3>1 DEF IInv, TypeOK
    <3> QED  BY <3>2 DEF Allocate, IInv, TypeOK
  <2>6. quarantine' = quarantine /\ limit' = limit /\ stale' = stale
    BY DEF Allocate
  <2> QED  BY <1>3, <1>9, <2>1, <2>2, <2>3, <2>4, <2>5, <2>6 DEF IInv, TypeOK
<1>12. NoDoubleIssue'
  <2>1. \A g \in held : g.index # s /\ g.index \in Slots
    BY <1>1 DEF IInv, NoDoubleIssue, TypeOK, Handles
  <2>2. \A g \in held : IsLive(g)'
    BY <1>3, <2>1 DEF IInv, NoDoubleIssue, IsLive, Accepted
  <2>3. h.index = s /\ IsLive(h)'
    BY <1>7 DEF IsLive, Accepted
  <2>4. LiveSlots' = {g.index : g \in held'}
    BY <1>3, <1>8, <2>3 DEF IInv, NoDoubleIssue
  <2>5. \A g, k \in held' : g.index = k.index => g = k
    BY <1>8, <2>1, <2>3 DEF IInv, NoDoubleIssue
  <2> QED  BY <1>8, <2>2, <2>3, <2>4, <2>5 DEF NoDoubleIssue
<1>13. QuarantineOK'
  BY <1>1, <1>3, <1>4 DEF IInv, QuarantineOK, Allocate
<1>14. StaleOK'
  BY <1>1, <1>2, <1>3, AllocateStale
<1> QED  BY <1>1, <1>9, <1>10, <1>11, <1>12, <1>13, <1>14 DEF IInv

------------------------------------------------------------------------------
(* free() *)

\* push_free(): a slot pushed in front of the free list leaves it a list.
LEMMA PushFree ==
    ASSUME IInv, NEW r \in Slots, r \notin Listed,
           Listed' = Listed \cup {r},
           freeHead' = r,
           link' = [link EXCEPT ![r] = freeHead]
    PROVE  ListOK' /\ link' \in [Slots -> Slots \cup {Null, Data}]
<1>1. Null \notin Slots /\ Listed \in SUBSET Slots
  BY PoolAssumption DEF Slots, Listed
<1>2. PICK c \in Seq(Slots) : Chain(c, freeHead, link, Listed)
  BY DEF IInv, ListOK
<1>3. link \in [Slots -> Slots \cup {Null, Data}] /\ freeHead \in Slots \cup {Null}
  BY DEF IInv, TypeOK
<1>4. link'[r] = freeHead /\ \A t \in Listed : link'[t] = link[t]
  BY <1>1, <1>3
<1>5. PICK d \in Seq(Slots) : Chain(d, r, link', Listed \cup {r})
  BY <1>1, <1>2, <1>4, ChainPush
<1>6. ListOK'
  BY <1>5 DEF ListOK
<1>7. link' \in [Slots -> Slots \cup {Null, Data}]
  BY <1>3
<1> QED  BY <1>6, <1>7

\* What giving a handle back does to the slots and to the other handles.
LEMMA FreeHandles ==
    ASSUME IInv, NEW h \in held, Free(h)
    PROVE  /\ h.index \in LiveSlots
           /\ h.index \notin Quarantined
           /\ h.index \notin Listed
           /\ gen' \in [Slots -> 0 .. GenMod - 1]
           /\ LiveSlots' = LiveSlots \ {h.index}
           /\ NoDoubleIssue'
           /\ CountOK'
           /\ live' \in 0 .. Capacity
<1>1. h \in Handles /\ h.index \in Slots /\ h.index \in LiveSlots /\ Odd(gen[h.index])
  BY DEF IInv, TypeOK, NoDoubleIssue, Handles, IsLive
<1>2. h.index \notin Quarantined /\ h.index \notin Listed
  BY <1>1 DEF IInv, QuarantineOK, Listed
<1>3. gen' = Bumped(h.index)
  BY DEF Free
<1>4. /\ gen' \in [Slots -> 0 .. GenMod - 1]
      /\ \A t \in Slots \ {h.index} : gen'[t] = gen[t]
      /\ LiveSlots' = LiveSlots \ {h.index}
  BY <1>1, <1>3, LiveAfterBump DEF IInv
<1>5. held' = held \ {h}
  BY DEF Free
<1>6. NoDoubleIssue'
  <2>1. \A g \in held' : g \in held /\ g.index # h.index /\ g.index \in Slots
    BY <1>5 DEF IInv, NoDoubleIssue, TypeOK, Handles
  <2>2. \A g \in held' : IsLive(g)'
    BY <1>4, <2>1 DEF IInv, NoDoubleIssue, IsLive, Accepted
  <2>3. LiveSlots' = {g.index : g \in held'}
    BY <1>4, <1>5, <2>1 DEF IInv, NoDoubleIssue
  <2>4. \A g, k \in held' : g.index = k.index => g = k
    BY <2>1 DEF IInv, NoDoubleIssue
  <2> QED  BY <2>2, <2>3, <2>4 DEF NoDoubleIssue
<1>7. CountOK' /\ live' \in 0 .. Capacity
  <2>1. Cardinality(LiveSlots') = Cardinality(LiveSlots) - 1 /\ IsFiniteSet(LiveSlots')
    BY <1>1, <1>4, SlotCount, FS_RemoveElement
  <2>2. live' = live - 1 /\ live = Cardinality(LiveSlots) /\ live \in 0 .. Capacity
    BY DEF Free, IInv, CountOK, TypeOK
  <2>3. Cardinality(LiveSlots') \in Nat
    BY <2>1, FS_CardinalityType
  <2> QED  BY <2>1, <2>2, <2>3, PoolAssumption DEF CountOK
<1> QED  BY <1>1, <1>2, <1>4, <1>6, <1>7

\* A slot that was live joins the quarantine: what the sequence holds then.
LEMMA Entered ==
    ASSUME IInv, NEW s \in Slots, s \notin Quarantined
    PROVE  LET e == Append(quarantine, s)
           IN  /\ e \in Seq(Slots)
               /\ Len(e) = Len(quarantine) + 1
               /\ Len(quarantine) \in Nat
               /\ ToSet(e) = Quarantined \cup {s}
               /\ IsInjective(e)
<1> DEFINE e == Append(quarantine, s)
<1>1. quarantine \in Seq(Slots)
  BY DEF IInv, TypeOK
<1>2. e \in Seq(Slots) /\ Len(e) = Len(quarantine) + 1 /\ Len(quarantine) \in Nat
  BY <1>1
<1>3. DOMAIN e = 1 .. Len(quarantine) + 1 /\ DOMAIN quarantine = 1 .. Len(quarantine)
  BY <1>1, <1>2
<1>4. e[Len(quarantine) + 1] = s /\ \A i \in DOMAIN quarantine : e[i] = quarantine[i]
  BY <1>1, <1>3
<1> HIDE DEF e
<1>5. DOMAIN e = DOMAIN quarantine \cup {Len(quarantine) + 1}
  BY <1>2, <1>3
<1>6. ToSet(e) = Quarantined \cup {s}
  BY <1>4, <1>5 DEF Quarantined, ToSet
<1>7. IsInjective(e)
  <2>1. IsInjective(quarantine)
    BY DEF IInv, QuarantineOK, IsInjective
  <2>2. \A i \in DOMAIN quarantine : quarantine[i] # s
    BY DEF Quarantined
  <2> QED  BY <1>4, <1>5, <2>1, <2>2 DEF IsInjective
<1> QED  BY <1>2, <1>6, <1>7 DEF e

\* The oldest of several distinct slots leaves a sequence.
LEMMA Released ==
    ASSUME NEW e \in Seq(Slots), Len(e) > 0,
           IsInjective(e),
           NEW q, q = Tail(e), NEW r, r = Head(e)
    PROVE  /\ q \in Seq(Slots) /\ Len(q) = Len(e) - 1
           /\ r \in ToSet(e)
           /\ ToSet(q) = ToSet(e) \ {r}
           /\ IsInjective(q)
<1>1. e # <<>> /\ Len(e) \in Nat /\ DOMAIN e = 1 .. Len(e)
  OBVIOUS
<1>2. q \in Seq(Slots) /\ Len(q) = Len(e) - 1 /\ r = e[1]
  BY <1>1
<1>3. DOMAIN q = 1 .. Len(e) - 1 /\ \A i \in 1 .. Len(e) - 1 : q[i] = e[i + 1]
  BY <1>1, <1>2
<1>4. 1 \in DOMAIN e /\ \A i \in DOMAIN q : i + 1 \in DOMAIN e /\ i + 1 # 1
  BY <1>1, <1>3
<1>5. \A i \in DOMAIN e \ {1} : i - 1 \in DOMAIN q /\ q[i - 1] = e[i]
  BY <1>1, <1>3
<1>6. ToSet(q) = ToSet(e) \ {e[1]}
  <2>1. \A i \in DOMAIN q : q[i] = e[i + 1] /\ i + 1 \in DOMAIN e /\ e[i + 1] # e[1]
    BY <1>3, <1>4 DEF IsInjective
  <2>2. \A i \in DOMAIN e : e[i] # e[1] => \E k \in DOMAIN q : q[k] = e[i]
    BY <1>5
  <2>3. ASSUME NEW x \in ToSet(q) PROVE x \in ToSet(e) \ {e[1]}
    <3>1. PICK i \in DOMAIN q : q[i] = x
      BY DEF ToSet
    <3> QED  BY <2>1, <3>1, Zenon DEF ToSet
  <2>4. ASSUME NEW x \in ToSet(e), x # e[1] PROVE x \in ToSet(q)
    <3>1. PICK i \in DOMAIN e : e[i] = x
      BY DEF ToSet
    <3> QED  BY <2>2, <2>4, <3>1, Zenon DEF ToSet
  <2> QED  BY <2>3, <2>4, Zenon
<1>7. IsInjective(q)
  BY <1>3, <1>4 DEF IsInjective
<1> QED  BY <1>2, <1>4, <1>6, <1>7 DEF ToSet

\* The slot given back, or the one the quarantine releases for it, goes to the
\* free list; a quarantine within its limit just grows.
LEMMA FreeLists ==
    ASSUME IInv, NEW h \in held, Free(h)
    PROVE  /\ ListOK' /\ QuarantineOK'
           /\ link' \in [Slots -> Slots \cup {Null, Data}]
           /\ quarantine' \in Seq(Slots)
<1>. PICK s : s = h.index
  OBVIOUS
<1>e. PICK e : e = Append(quarantine, s)
  OBVIOUS
<1>0. Null \notin Slots /\ limit \in Nat /\ limit' = limit
  BY PoolAssumption DEF Slots, IInv, TypeOK, Free
<1>1. /\ s \in Slots /\ s \in LiveSlots /\ s \notin Quarantined /\ s \notin Listed
      /\ LiveSlots' = LiveSlots \ {s}
  BY FreeHandles DEF LiveSlots
<1>2. /\ e \in Seq(Slots)
      /\ Len(e) = Len(quarantine) + 1
      /\ Len(quarantine) \in Nat
      /\ ToSet(e) = Quarantined \cup {s}
      /\ IsInjective(e)
  BY <1>1, <1>e, Entered
<1>3. /\ Quarantined \cap LiveSlots = {} /\ Len(quarantine) <= limit
      /\ IsInjective(quarantine)
      /\ quarantine \in Seq(Slots) /\ Quarantined \subseteq Slots
  BY DEF IInv, QuarantineOK, TypeOK, Quarantined
<1>4. CASE limit = 0
  <2>1. quarantine' = quarantine /\ freeHead' = s /\ link' = [link EXCEPT ![s] = freeHead]
    BY <1>0, <1>1, <1>4 DEF Free
  <2>2. Quarantined' = Quarantined
    BY <2>1 DEF Quarantined
  <2>3. Listed' = Listed \cup {s}
    BY <1>1, <2>2 DEF Listed
  <2>4. ListOK' /\ link' \in [Slots -> Slots \cup {Null, Data}]
    BY <1>1, <2>1, <2>3, PushFree
  <2>5. QuarantineOK'
    BY <1>0, <1>1, <1>3, <2>1, <2>2 DEF QuarantineOK
  <2> QED  BY <1>3, <2>1, <2>4, <2>5
<1>5. CASE limit > 0 /\ Len(e) <= limit
  <2>1. quarantine' = e /\ freeHead' = freeHead /\ link' = link
    BY <1>0, <1>2, <1>5, <1>e DEF Free
  <2>2. Quarantined' = Quarantined \cup {s}
    BY <1>2, <2>1 DEF Quarantined, ToSet
  <2>3. Listed' = Listed
    BY <1>1, <2>2 DEF Listed
  <2>4. ListOK'
    BY <2>1, <2>3 DEF IInv, ListOK
  <2>5. QuarantineOK'
    BY <1>0, <1>1, <1>2, <1>3, <1>5, <2>1, <2>2 DEF QuarantineOK
  <2> QED  BY <1>2, <2>1, <2>4, <2>5 DEF IInv, TypeOK
<1>6. CASE limit > 0 /\ Len(e) > limit
  <2>r. PICK r : r = Head(e)
    OBVIOUS
  <2>q. PICK q : q = Tail(e)
    OBVIOUS
  <2>0. Len(e) > 0
    BY <1>0, <1>6, <1>2
  <2>1. /\ q \in Seq(Slots) /\ Len(q) = Len(e) - 1
        /\ r \in ToSet(e)
        /\ ToSet(q) = ToSet(e) \ {r}
        /\ IsInjective(q)
    BY <1>2, <2>0, <2>r, <2>q, Released
  <2>2. r \in Slots /\ r \in Quarantined \cup {s} /\ r \notin Listed
    BY <1>1, <1>2, <1>3, <2>1 DEF Listed
  <2>3. quarantine' = q /\ freeHead' = r /\ link' = [link EXCEPT ![r] = freeHead]
    <3>1. limit # 0 /\ Len(Append(quarantine, h.index)) > limit
      BY <1>0, <1>6, <1>e
    <3>2. r # Null /\ r = Head(Append(quarantine, h.index))
          /\ q = Tail(Append(quarantine, h.index))
      BY <1>0, <1>e, <2>2, <2>r, <2>q
    <3> QED  BY <3>1, <3>2 DEF Free
  <2>4. Quarantined' = (Quarantined \cup {s}) \ {r}
    <3>1. Quarantined' = ToSet(q)
      BY <2>3 DEF Quarantined, ToSet
    <3> QED  BY <1>2, <2>1, <3>1, Zenon
  <2>5. Listed' = Listed \cup {r}
    BY <1>1, <1>3, <2>2, <2>4 DEF Listed
  <2>6. ListOK' /\ link' \in [Slots -> Slots \cup {Null, Data}]
    BY <2>2, <2>3, <2>5, PushFree
  <2>7. Len(q) <= limit
    BY <1>0, <1>2, <1>3, <2>1
  <2>8. QuarantineOK'
    BY <1>0, <1>1, <1>3, <2>1, <2>3, <2>4, <2>7 DEF QuarantineOK
  <2> QED  BY <2>1, <2>3, <2>6, <2>8
<1> QED  BY <1>0, <1>2, <1>4, <1>5, <1>6

\* Giving a handle back, and keeping it by mistake, begins the count of reuses;
\* the stale handle's slot may be given back again by who holds it now.
LEMMA FreeStale ==
    ASSUME IInv, NEW h \in held, Free(h)
    PROVE  StaleOK'
<1>1. PICK s \in Slots : s = h.index
  BY DEF IInv, TypeOK, Handles
<1>2. PICK k \in 0 .. GenMod - 1 : k = h.generation
  BY DEF IInv, TypeOK, Handles
<1>3. s \in LiveSlots /\ LiveSlots' = LiveSlots \ {s}
  BY <1>1, FreeHandles
<1>4. PICK g \in 0 .. GenMod - 1 : g = gen[s]
  BY DEF IInv, TypeOK
<1>5. PICK g2 : g2 = gen'[s]
  OBVIOUS
<1>6. gen' = Bumped(s)
  BY <1>1 DEF Free
<1>7. /\ g + 1 < GenMod => g2 = g + 1
      /\ g + 1 >= GenMod => g + 1 = GenMod /\ g2 = 0
  BY <1>4, <1>5, <1>6, BumpedValue DEF IInv
<1>8. GenMod \in Nat
  BY PoolAssumption
<1>9. CASE stale' = h /\ reuses' = 0
  <2>1. g = k
    BY <1>1, <1>2, <1>4 DEF IInv, NoDoubleIssue, IsLive, Accepted
  <2>2. g2 = k + (2 * 0 + 1) \/ g2 = k + (2 * 0 + 1) - GenMod
    BY <1>7, <1>8, <2>1
  <2>3. s \notin LiveSlots'
    BY <1>3
  <2> QED  BY <1>1, <1>2, <1>5, <1>9, <2>2, <2>3 DEF StaleOK
<1>10. CASE stale' = stale /\ reuses' = reuses
  <2>1. SUFFICES ASSUME stale # Null PROVE StaleOK'
    BY <1>10 DEF StaleOK
  <2>2. PICK x \in Slots : x = stale.index
    BY <2>1 DEF IInv, TypeOK, Handles
  <2>3. PICK y \in 0 .. GenMod - 1 : y = stale.generation
    BY <2>1 DEF IInv, TypeOK, Handles
  <2>4. CASE x # s
    <3>1. gen'[x] = gen[x] /\ (x \in LiveSlots' <=> x \in LiveSlots)
      BY <1>3, <1>6, <2>4, LiveAfterBump DEF IInv
    <3> QED  BY <1>10, <2>1, <2>2, <3>1 DEF IInv, StaleOK
  <2>5. CASE x = s
    <3>1. PICK r \in Nat : r = reuses
      BY DEF IInv, TypeOK
    <3>2. g = y + (2 * r + 0) \/ g = y + (2 * r + 0) - GenMod
      BY <1>3, <1>4, <2>1, <2>2, <2>3, <2>5, <3>1 DEF IInv, StaleOK
    <3>3. y + (2 * r + 1) < 2 * GenMod
      <4>1. PICK n \in Nat : GenMod = 2 * n /\ reuses \in 0 .. n - 1
        BY HalfOfThem DEF IInv, TypeOK
      <4> QED  BY <1>8, <3>1, <4>1
    <3>4. g2 = y + (2 * r + 1) \/ g2 = y + (2 * r + 1) - GenMod
      BY <1>7, <1>8, <3>1, <3>2, <3>3
    <3>5. x \notin LiveSlots'
      BY <1>3, <2>5
    <3> QED  BY <1>5, <1>10, <2>2, <2>3, <2>5, <3>1, <3>4, <3>5 DEF StaleOK
  <2> QED  BY <2>4, <2>5
<1> QED  BY <1>9, <1>10 DEF Free

\* free() keeps the invariant.
LEMMA FreeIInv ==
    ASSUME IInv, NEW h \in held, Free(h)
    PROVE  IInv'
<1>1. /\ gen' \in [Slots -> 0 .. GenMod - 1]
      /\ NoDoubleIssue' /\ CountOK' /\ live' \in 0 .. Capacity
  BY FreeHandles
<1>2. /\ ListOK' /\ QuarantineOK'
      /\ link' \in [Slots -> Slots \cup {Null, Data}]
      /\ quarantine' \in Seq(Slots)
  BY FreeLists
<1>3. freeHead' \in Slots \cup {Null}
  <2>1. PICK c \in Seq(Slots) : Chain(c, freeHead', link', Listed')
    BY <1>2 DEF ListOK
  <2>2. freeHead' \in Listed' \cup {Null}
    BY <2>1, ChainHead
  <2> QED  BY <2>2 DEF Listed
<1>4. held' \subseteq Handles /\ h \in Handles
  BY DEF Free, IInv, TypeOK
<1>5. stale' \in Handles \cup {Null}
  BY <1>4 DEF Free, IInv, TypeOK
<1>6. reuses' \in 0 .. (GenMod \div 2) - 1
  <2>1. GenMod \div 2 \in Nat /\ GenMod \div 2 > 0
    BY PoolAssumption
  <2> QED  BY <2>1 DEF Free, IInv, TypeOK
<1>7. highWater' = highWater /\ limit' = limit
  BY DEF Free
<1>8. TypeOK'
  BY <1>1, <1>2, <1>3, <1>4, <1>5, <1>6, <1>7 DEF IInv, TypeOK
<1> QED  BY <1>1, <1>2, <1>8, FreeStale DEF IInv

------------------------------------------------------------------------------
(* Reading the free list by its links. *)

\* g[i] is what i links lead to from the head.
Hops(g, head, next) ==
    g = [i \in 0 .. Capacity |->
            IF i = 0 THEN head ELSE IF g[i - 1] \in Slots THEN next[g[i - 1]] ELSE Null]

\* FreeList, of any head and links.
ListFrom(head, next) ==
    LET hop == CHOOSE g : Hops(g, head, next)
        visited == {i \in 1 .. Capacity : hop[i - 1] \in Slots}
    IN  [i \in 1 .. Cardinality(visited) |-> hop[i - 1]]

LEMMA FreeListRead == FreeList = ListFrom(freeHead, link)
  BY DEF FreeList, ListFrom, Hops

LEMMA HopStep ==
    ASSUME NEW g, NEW head, NEW next, Hops(g, head, next), NEW i \in 0 .. Capacity
    PROVE  g[i] = IF i = 0 THEN head ELSE IF g[i - 1] \in Slots THEN next[g[i - 1]] ELSE Null
<1>1. PICK k : k = g
  OBVIOUS
<1>2. k = [j \in 0 .. Capacity |->
             IF j = 0 THEN head ELSE IF g[j - 1] \in Slots THEN next[g[j - 1]] ELSE Null]
  BY <1>1 DEF Hops
<1>3. k[i] = IF i = 0 THEN head ELSE IF g[i - 1] \in Slots THEN next[g[i - 1]] ELSE Null
  BY <1>2
<1> QED  BY <1>1, <1>3

\* c lists the elements of S, each of them once.
Enumerates(c, n, S) ==
    /\ c \in [1 .. n -> S]
    /\ \A s \in S : \E i \in 1 .. n : c[i] = s
    /\ \A i, j \in 1 .. n : c[i] = c[j] => i = j

\* A sequence of distinct elements has as many places as elements.
LEMMA DistinctCount ==
    ASSUME NEW S, NEW c, NEW n \in Nat, Enumerates(c, n, S)
    PROVE  IsFiniteSet(S) /\ Cardinality(S) = n
<1>1. c \in Surjection(1 .. n, S) /\ c \in Injection(1 .. n, S)
  BY DEF Enumerates, Surjection, Injection, IsInjective
<1>2. IsFiniteSet(1 .. n) /\ Cardinality(1 .. n) = n
  BY FS_Interval
<1> QED  BY <1>1, <1>2, FS_Surjection

\* The links from the head of a list visit it and nothing else.
LEMMA ChainRead ==
    ASSUME NEW S \in SUBSET Slots, NEW c \in Seq(Slots), NEW head, NEW next,
           Null \notin Slots, Chain(c, head, next, S)
    PROVE  ListFrom(head, next) = c /\ Cardinality(S) = Len(c)
<1>1. PICK n \in Nat : n = Len(c)
  OBVIOUS
<1>2. /\ \A i \in 1 .. n : c[i] \in S
      /\ \A t \in S : \E i \in 1 .. n : c[i] = t
      /\ \A i, j \in 1 .. n : c[i] = c[j] => i = j
      /\ head = IF n = 0 THEN Null ELSE c[1]
      /\ \A i \in 1 .. n : next[c[i]] = IF i = n THEN Null ELSE c[i + 1]
  BY <1>1 DEF Chain
<1>3. c = [i \in 1 .. n |-> c[i]] /\ c \in [1 .. n -> S]
  BY <1>1, <1>2
<1>4. Cardinality(S) = n
  <2>1. Enumerates(c, n, S)
    BY <1>2, <1>3 DEF Enumerates
  <2> QED  BY <2>1, DistinctCount
<1>5. Capacity \in Nat /\ n <= Capacity
  BY <1>4, SlotCount, FS_Subset, PoolAssumption
<1>6. PICK g : g = [i \in 0 .. Capacity |-> IF i < n THEN c[i + 1] ELSE Null]
  OBVIOUS
<1>7. \A i \in 0 .. Capacity : g[i] = IF i < n THEN c[i + 1] ELSE Null
  BY <1>6
<1>8. \A i \in 1 .. n : c[i] \in Slots
  BY <1>2
\* What g holds at a place follows from what it holds at the one before.
<1>9. ASSUME NEW h, NEW i \in 0 .. Capacity, i # 0 => h[i - 1] = g[i - 1]
      PROVE  g[i] = IF i = 0 THEN head
                    ELSE IF h[i - 1] \in Slots THEN next[h[i - 1]] ELSE Null
  <2>1. CASE i = 0
    <3>1. g[0] = IF 0 < n THEN c[0 + 1] ELSE Null
      BY <1>7, <2>1
    <3> QED  BY <1>2, <2>1, <3>1
  <2>2. CASE i # 0 /\ i - 1 < n
    <3>1. i - 1 \in 0 .. Capacity /\ i \in 1 .. n /\ (i - 1) + 1 = i
      BY <2>2, <1>5
    <3>2. h[i - 1] = c[i]
      BY <1>7, <1>9, <2>2, <3>1
    <3>3. h[i - 1] \in Slots
      BY <1>8, <3>1, <3>2
    <3>4. next[h[i - 1]] = IF i = n THEN Null ELSE c[i + 1]
      BY <1>2, <3>1, <3>2
    <3>5. g[i] = IF i = n THEN Null ELSE c[i + 1]
      BY <1>7, <3>1
    <3> QED  BY <2>2, <3>3, <3>4, <3>5
  <2>3. CASE i # 0 /\ ~ (i - 1 < n)
    <3>1. i - 1 \in 0 .. Capacity /\ ~ (i < n)
      BY <2>3, <1>5
    <3>2. h[i - 1] = Null
      BY <1>7, <1>9, <2>3, <3>1
    <3>3. g[i] = Null
      BY <1>7, <3>1
    <3> QED  BY <2>3, <3>2, <3>3
  <2> QED  BY <2>1, <2>2, <2>3
<1>10. Hops(g, head, next)
  <2>1. \A i \in 0 .. Capacity :
           g[i] = IF i = 0 THEN head ELSE IF g[i - 1] \in Slots THEN next[g[i - 1]] ELSE Null
    BY <1>9
  <2>2. g = [i \in 0 .. Capacity |-> g[i]]
    BY <1>6
  <2>3. g = [i \in 0 .. Capacity |->
               IF i = 0 THEN head ELSE IF g[i - 1] \in Slots THEN next[g[i - 1]] ELSE Null]
    BY <2>1, <2>2
  <2> QED  BY <2>3 DEF Hops
<1>11. PICK hop : hop = CHOOSE k : Hops(k, head, next)
  OBVIOUS
<1>12. Hops(hop, head, next)
  BY <1>10, <1>11
\* There is no place at which the links lead elsewhere, for there is no first one.
<1>13. \A i \in 0 .. Capacity : hop[i] = g[i]
  <2> DEFINE Wrong == {i \in 0 .. Capacity : hop[i] # g[i]}
  <2>1. SUFFICES ASSUME Wrong # {} PROVE FALSE
    OBVIOUS
  <2>2. PICK i \in Wrong : \A j \in Wrong : i <= j
    <3>1. Wrong \in SUBSET Nat
      OBVIOUS
    <3> HIDE DEF Wrong
    <3> QED  BY <2>1, <3>1, LeastNatural
  <2>3. i \in 0 .. Capacity
    OBVIOUS
  <2>4. i # 0 => hop[i - 1] = g[i - 1]
    <3>1. SUFFICES ASSUME i # 0 PROVE hop[i - 1] = g[i - 1]
      OBVIOUS
    <3>2. i - 1 \in 0 .. Capacity /\ ~ (i <= i - 1)
      BY <1>5, <2>3, <3>1
    <3>3. i - 1 \notin Wrong
      BY <2>2, <3>2
    <3> QED  BY <3>2, <3>3
  <2>5. hop[i] = IF i = 0 THEN head
                 ELSE IF hop[i - 1] \in Slots THEN next[hop[i - 1]] ELSE Null
    BY <1>12, <2>3, HopStep
  <2>6. hop[i] = g[i]
    BY <1>9, <2>3, <2>4, <2>5
  <2> QED  BY <2>6
<1>14. PICK visited : visited = {i \in 1 .. Capacity : hop[i - 1] \in Slots}
  OBVIOUS
<1>15. \A i \in 1 .. Capacity : hop[i - 1] = IF i <= n THEN c[i] ELSE Null
  <2>1. ASSUME NEW i \in 1 .. Capacity PROVE hop[i - 1] = IF i <= n THEN c[i] ELSE Null
    <3>1. i - 1 \in 0 .. Capacity /\ (i - 1) + 1 = i /\ (i - 1 < n <=> i <= n)
      BY <1>5
    <3> QED  BY <1>7, <1>13, <3>1
  <2> QED  BY <2>1
<1>16. visited = 1 .. n
  <2>1. \A i \in 1 .. Capacity : hop[i - 1] \in Slots <=> i <= n
    <3>1. ASSUME NEW i \in 1 .. Capacity PROVE hop[i - 1] \in Slots <=> i <= n
      <4>1. i <= n => i \in 1 .. n
        OBVIOUS
      <4> QED  BY <1>8, <1>15, <4>1
    <3> QED  BY <3>1
  <2>2. \A i : i \in 1 .. Capacity /\ i <= n <=> i \in 1 .. n
    BY <1>5
  <2> QED  BY <1>14, <2>1, <2>2
<1>17. Cardinality(visited) = n
  BY <1>16, FS_Interval
<1>18. ListFrom(head, next) = [i \in 1 .. n |-> hop[i - 1]]
  BY <1>11, <1>14, <1>17 DEF ListFrom
<1>19. \A i \in 1 .. n : hop[i - 1] = c[i]
  BY <1>5, <1>15
<1> QED  BY <1>1, <1>3, <1>4, <1>18, <1>19

\* Every slot is live, held back or on the free list, and counted once.
LEMMA SlotsPartitioned ==
    ASSUME IInv
    PROVE  Cardinality(Listed) + live + Len(quarantine) = Capacity
<1>1. PICK q \in Seq(Slots) : q = quarantine
  BY DEF IInv, TypeOK
<1>2. Cardinality(Quarantined) = Len(quarantine)
  <2>1. PICK n \in Nat : n = Len(q)
    BY <1>1
  <2>2. DOMAIN q = 1 .. n
    BY <1>1, <2>1
  <2>3. q \in [1 .. n -> Quarantined] /\ \A s \in Quarantined : \E i \in 1 .. n : q[i] = s
    BY <1>1, <2>1, <2>2 DEF Quarantined
  <2>4. \A i, j \in 1 .. n : q[i] = q[j] => i = j
    BY <1>1, <2>2 DEF IInv, QuarantineOK, IsInjective
  <2>5. Enumerates(q, n, Quarantined)
    BY <2>3, <2>4 DEF Enumerates
  <2> QED  BY <1>1, <2>1, <2>5, DistinctCount
<1>3. Quarantined \subseteq Slots /\ LiveSlots \subseteq Slots /\ Quarantined \cap LiveSlots = {}
  BY DEF IInv, TypeOK, QuarantineOK, Quarantined, LiveSlots
<1>4. IsFiniteSet(Quarantined) /\ IsFiniteSet(LiveSlots) /\ IsFiniteSet(Slots)
  BY <1>3, SlotCount, FS_Subset
<1>5. PICK taken : taken = LiveSlots \cup Quarantined
  OBVIOUS
<1>6. IsFiniteSet(taken) /\ Cardinality(taken) = live + Len(quarantine)
  <2>1. Cardinality(LiveSlots \cap Quarantined) = 0
    BY <1>3, FS_EmptySet
  <2>2. Cardinality(taken) = Cardinality(LiveSlots) + Cardinality(Quarantined) - 0
    BY <1>4, <1>5, <2>1, FS_Union
  <2>3. IsFiniteSet(taken)
    BY <1>4, <1>5, FS_Union
  <2>4. live = Cardinality(LiveSlots) /\ live \in Nat
    BY SlotCount DEF IInv, CountOK
  <2>5. Len(quarantine) \in Nat
    BY <1>1
  <2> QED  BY <1>2, <2>2, <2>3, <2>4, <2>5
<1>7. Cardinality(Listed) = Cardinality(Slots) - Cardinality(taken)
  <2>1. taken \cap Slots = taken /\ Listed = Slots \ taken
    BY <1>3, <1>5 DEF Listed
  <2>2. Slots \cap taken = taken
    BY <2>1
  <2>3. PICK all : all = Slots /\ IsFiniteSet(all)
    BY <1>4
  <2>4. Cardinality(all \ taken) = Cardinality(all) - Cardinality(all \cap taken)
    BY <2>3, FS_Difference
  <2> QED  BY <2>1, <2>2, <2>3, <2>4
<1>8. Capacity \in Nat /\ live \in Nat /\ Len(quarantine) \in Nat
  BY <1>1, PoolAssumption DEF IInv, TypeOK
<1> QED  BY <1>6, <1>7, <1>8, SlotCount

\* What validate() checks follows from the invariant.
LEMMA ListValid == IInv => FreeListWellFormed
<1>1. SUFFICES ASSUME IInv PROVE FreeListWellFormed
  OBVIOUS
<1>2. PICK c \in Seq(Slots) : Chain(c, freeHead, link, Listed)
  BY <1>1 DEF IInv, ListOK
<1>3. Null \notin Slots /\ Listed \in SUBSET Slots
  BY PoolAssumption DEF Slots, Listed
<1>4. FreeList = c /\ Cardinality(Listed) = Len(c)
  BY <1>2, <1>3, ChainRead, FreeListRead
<1>5. PICK n \in Nat : n = Len(c) /\ DOMAIN c = 1 .. n
  BY <1>2
<1>6. /\ \A i \in 1 .. n : c[i] \in Listed
      /\ \A t \in Listed : \E i \in 1 .. n : c[i] = t
      /\ \A i, j \in 1 .. n : c[i] = c[j] => i = j
      /\ \A i \in 1 .. n : link[c[i]] = IF i = n THEN Null ELSE c[i + 1]
  BY <1>2, <1>5 DEF Chain
<1>7. IsInjective(c)
  BY <1>5, <1>6 DEF IsInjective
<1>8. ToSet(c) = Listed
  BY <1>5, <1>6 DEF ToSet
<1>9. c # << >> => link[c[Len(c)]] = Null
  <2>1. SUFFICES ASSUME c # << >> PROVE n \in 1 .. n
    BY <1>5, <1>6
  <2> QED  BY <1>5, <2>1
<1>10. Len(c) + live + Len(quarantine) = Capacity
  BY <1>1, <1>4, SlotsPartitioned
<1> QED  BY <1>4, <1>7, <1>8, <1>9, <1>10 DEF FreeListWellFormed, Listed

------------------------------------------------------------------------------
(* The invariant and what follows from it. *)

\* Every step keeps the invariant: a slot is allocated only off the free list,
\* and comes back to it, or to the quarantine, only once.
LEMMA NextIInv == ASSUME IInv, [Next]_vars PROVE IInv'
<1>1. CASE Allocate
  BY <1>1, AllocateIInv
<1>2. ASSUME NEW h \in held, Free(h) PROVE IInv'
  BY <1>2, FreeIInv
<1>3. CASE Forget
  <2>1. GenMod \div 2 \in Nat /\ GenMod \div 2 > 0
    BY PoolAssumption
  <2>2. /\ UNCHANGED <<gen, link, freeHead, live, highWater, quarantine, limit, held>>
        /\ stale' = Null /\ reuses' = 0
    BY <1>3 DEF Forget
  <2>3. TypeOK'
    BY <2>1, <2>2 DEF IInv, TypeOK
  <2>4. LiveSlots' = LiveSlots /\ Quarantined' = Quarantined
    BY <2>2 DEF LiveSlots, Quarantined
  <2>5. Listed' = Listed
    BY <2>4 DEF Listed
  <2>6. NoDoubleIssue'
    BY <2>2, <2>4 DEF IInv, NoDoubleIssue, IsLive, Accepted
  <2>7. ListOK'
    BY <2>2, <2>5 DEF IInv, ListOK
  <2>8. QuarantineOK' /\ CountOK'
    BY <2>2, <2>4 DEF IInv, QuarantineOK, CountOK
  <2>9. StaleOK'
    BY <2>2 DEF StaleOK
  <2> QED  BY <2>3, <2>6, <2>7, <2>8, <2>9 DEF IInv
<1>4. CASE UNCHANGED vars
  <2>1. /\ UNCHANGED <<gen, link, freeHead, live, highWater>>
        /\ UNCHANGED <<quarantine, limit, held, stale, reuses>>
    BY <1>4 DEF vars
  <2>2. TypeOK'
    BY <2>1 DEF IInv, TypeOK
  <2>3. LiveSlots' = LiveSlots /\ Quarantined' = Quarantined
    BY <2>1 DEF LiveSlots, Quarantined
  <2>4. Listed' = Listed
    BY <2>3 DEF Listed
  <2>5. NoDoubleIssue'
    BY <2>1, <2>3 DEF IInv, NoDoubleIssue, IsLive, Accepted
  <2>6. ListOK'
    BY <2>1, <2>4 DEF IInv, ListOK
  <2>7. QuarantineOK' /\ CountOK'
    BY <2>1, <2>3 DEF IInv, QuarantineOK, CountOK
  <2>8. StaleOK'
    BY <2>1, <2>3 DEF IInv, StaleOK
  <2> QED  BY <2>2, <2>5, <2>6, <2>7, <2>8 DEF IInv
<1> QED  BY <1>1, <1>2, <1>3, <1>4 DEF Next

\* The free list, the quarantine and the live slots of a pool are disjoint and
\* well formed in every reachable state: one list of every free slot is what
\* allocate() and free() keep.
THEOREM PoolIInvInvariant == Spec => []IInv
<1>1. Init => IInv
  BY InitIInv
<1>2. IInv /\ [Next]_vars => IInv'
  BY NextIInv
<1> QED  BY <1>1, <1>2, PTL DEF Spec

\* allocate() never hands out a slot that is live or held back, so every handle
\* in circulation is accepted by deref_checked() and is alone on its slot.
THEOREM PoolCorrect == Spec => []IssuedOnce
<1>1. IInv => IssuedOnce
  BY DEF IInv, IssuedOnce
<1> QED  BY <1>1, PoolIInvInvariant, PTL

\* After any calls of allocate() and free() the free list is what validate()
\* asks for, and deref_checked() accepts a handle kept after free() exactly when
\* its slot is live again after a whole round of generations.
THEOREM PoolIsSound == Spec => []PoolSound
<1>1. IInv => PoolSound
  BY ListValid, StaleCaught DEF PoolSound
<1> QED  BY <1>1, PoolIInvInvariant, PTL

\* Whatever its free list and quarantine do, a pool is an allocator to its
\* clients: allocate() issues a handle for a slot nobody holds, and free()
\* withdraws the handle it is given.
THEOREM PoolImplementsAllocator == Spec => ImplementsSlotAllocator
<1>1. Init => Allocator!Init
  BY DEF Init, Allocator!Init
<1>2. IInv /\ [Next]_vars => [Allocator!Next]_held
  <2>. SUFFICES ASSUME IInv, [Next]_vars
                PROVE  [Allocator!Next]_held
    OBVIOUS
  <2>1. CASE Allocate
    <3>. PICK h : h = [index |-> freeHead, generation |-> gen'[freeHead]]
      OBVIOUS
    <3>1. IInv' /\ freeHead \in Slots \ LiveSlots
      BY <2>1, AllocateIInv
    <3>2. held' = held \cup {h} /\ h.index = freeHead
      BY <2>1 DEF Allocate
    <3>3. h \in Handles
      BY <3>1, <3>2 DEF IInv, TypeOK
    <3>4. \A g \in held : g.index # h.index
      BY <3>1, <3>2 DEF IInv, NoDoubleIssue
    <3> QED  BY <3>2, <3>3, <3>4 DEF Allocator!Next, Allocator!Allocate
  <2>2. ASSUME NEW h \in held, Free(h) PROVE Allocator!Next
    BY <2>2 DEF Free, Allocator!Next, Allocator!Free
  <2>3. CASE Forget
    BY <2>3 DEF Forget
  <2>4. CASE UNCHANGED vars
    BY <2>4 DEF vars
  <2> QED  BY <2>1, <2>2, <2>3, <2>4 DEF Next
<1> QED  BY <1>1, <1>2, PoolIInvInvariant, PTL DEF Spec, ImplementsSlotAllocator, Allocator!Spec

------------------------------------------------------------------------------
(* Going round the table. *)

\* Where a step of less than a round leads, and how far a slot is.
LEMMA AlongIs ==
    ASSUME NEW i \in TableSlots, NEW d \in TableSlots
    PROVE  Along(i, d) = IF i + d < Size THEN i + d ELSE i + d - Size
<1>1. Size \in Nat /\ Size > 1 /\ i \in Nat /\ d \in Nat /\ i < Size /\ d < Size
  BY OrderIndexAssumption DEF TableSlots
<1>2. CASE i + d < Size
  BY <1>1, <1>2 DEF Along
<1>3. CASE ~ (i + d < Size)
  <2>1. PICK m : m = i + d - Size
    OBVIOUS
  <2>2. m \in Nat /\ m < Size /\ i + d = m + Size
    BY <1>1, <1>3, <2>1
  <2>3. (m + Size) % Size = m % Size /\ m % Size = m
    BY <1>1, <2>2
  <2> QED  BY <1>3, <2>1, <2>2, <2>3 DEF Along
<1> QED  BY <1>2, <1>3

LEMMA DistanceIs ==
    ASSUME NEW i \in TableSlots, NEW j \in TableSlots
    PROVE  Distance(i, j) = IF i <= j THEN j - i ELSE j - i + Size
<1>1. Size \in Nat /\ Size > 1 /\ i \in Nat /\ j \in Nat /\ i < Size /\ j < Size
  BY OrderIndexAssumption DEF TableSlots
<1>2. CASE i <= j
  BY <1>1, <1>2 DEF Distance
<1>3. CASE ~ (i <= j)
  <2>1. PICK m : m = j - i + Size
    OBVIOUS
  <2>2. m \in Nat /\ m < Size /\ j - i = m - Size
    BY <1>1, <1>3, <2>1
  <2>3. (m - Size) % Size = m
    BY <1>1, <2>2
  <2> QED  BY <1>3, <2>1, <2>2, <2>3 DEF Distance
<1> QED  BY <1>2, <1>3

\* Every slot is reached from every other, in less than a round.
LEMMA RoundTrip ==
    ASSUME NEW i \in TableSlots, NEW j \in TableSlots, NEW d \in TableSlots
    PROVE  /\ Along(i, d) \in TableSlots
           /\ Distance(i, j) \in TableSlots
           /\ Along(i, Distance(i, j)) = j
           /\ Distance(i, Along(i, d)) = d
           /\ Distance(i, j) = 0 <=> i = j
<1>1. Size \in Nat /\ Size > 1 /\ i \in Nat /\ d \in Nat /\ j \in Nat /\ i < Size /\ d < Size /\ j < Size
  BY OrderIndexAssumption DEF TableSlots
<1>2. Along(i, d) \in TableSlots
  BY <1>1, AlongIs DEF TableSlots
<1>3. Distance(i, j) \in TableSlots /\ (Distance(i, j) = 0 <=> i = j)
  BY <1>1, DistanceIs DEF TableSlots
<1>4. Along(i, Distance(i, j)) = j
  <2>1. Along(i, Distance(i, j))
           = IF i + Distance(i, j) < Size THEN i + Distance(i, j) ELSE i + Distance(i, j) - Size
    BY <1>3, AlongIs
  <2> QED  BY <1>1, <2>1, DistanceIs
<1>5. Distance(i, Along(i, d)) = d
  <2>1. Distance(i, Along(i, d))
           = IF i <= Along(i, d) THEN Along(i, d) - i ELSE Along(i, d) - i + Size
    BY <1>2, DistanceIs
  <2> QED  BY <1>1, <2>1, AlongIs
<1> QED  BY <1>2, <1>3, <1>4, <1>5

\* Two slots are not equally far from a third.
LEMMA DistanceInjective ==
    ASSUME NEW k \in TableSlots, NEW i \in TableSlots, NEW j \in TableSlots,
           Distance(k, i) = Distance(k, j)
    PROVE  i = j
<1>1. Size \in Nat /\ k \in Nat /\ i \in Nat /\ j \in Nat /\ k < Size /\ i < Size /\ j < Size
  BY OrderIndexAssumption DEF TableSlots
<1> QED  BY <1>1, DistanceIs

\* The slot after j is one place further from c, unless it is c.
LEMMA NextSlot ==
    ASSUME NEW c \in TableSlots, NEW j \in TableSlots
    PROVE  /\ Along(j, 1) \in TableSlots
           /\ IF Along(j, 1) = c THEN Distance(c, j) = Size - 1
              ELSE Distance(c, Along(j, 1)) = Distance(c, j) + 1
<1>1. Size \in Nat /\ Size > 1 /\ c \in Nat /\ j \in Nat /\ c < Size /\ j < Size /\ 1 \in TableSlots
  BY OrderIndexAssumption DEF TableSlots
<1>2. Along(j, 1) = (IF j + 1 < Size THEN j + 1 ELSE j + 1 - Size) /\ Along(j, 1) \in TableSlots
  BY <1>1, AlongIs, RoundTrip
<1>3. Distance(c, j) = IF c <= j THEN j - c ELSE j - c + Size
  BY DistanceIs
<1>4. Distance(c, Along(j, 1)) = IF c <= Along(j, 1) THEN Along(j, 1) - c
                                 ELSE Along(j, 1) - c + Size
  BY <1>2, DistanceIs
<1> QED  BY <1>1, <1>2, <1>3, <1>4

\* The test of erase_at(), read without regard to the end of the table: an entry
\* at j stays when its probe starts behind the hole at i, and then never meets it.
LEMMA StaysIs ==
    ASSUME NEW i \in TableSlots, NEW j \in TableSlots, NEW k \in TableSlots, i # j
    PROVE  Stays(i, j, k) <=> Distance(k, j) < Distance(k, i)
<1>1. Size \in Nat /\ i \in Nat /\ j \in Nat /\ k \in Nat /\ i < Size /\ j < Size /\ k < Size
  BY OrderIndexAssumption DEF TableSlots
<1>2. /\ Distance(k, i) = IF k <= i THEN i - k ELSE i - k + Size
      /\ Distance(k, j) = IF k <= j THEN j - k ELSE j - k + Size
  BY DistanceIs
<1> QED  BY <1>1, <1>2 DEF Stays

\* Of three slots after c, those between a and i are on every way to i through c
\* that starts before c.
LEMMA PastTheHole ==
    ASSUME NEW c \in TableSlots, NEW a \in TableSlots, NEW i \in TableSlots, NEW k \in TableSlots,
           Distance(k, c) <= Distance(k, i), Distance(c, a) <= Distance(c, i)
    PROVE  Distance(k, a) <= Distance(k, i)
<1>1. Size \in Nat /\ c \in Nat /\ a \in Nat /\ i \in Nat /\ k \in Nat
      /\ c < Size /\ a < Size /\ i < Size /\ k < Size
  BY OrderIndexAssumption DEF TableSlots
<1>2. /\ Distance(k, c) = IF k <= c THEN c - k ELSE c - k + Size
      /\ Distance(k, i) = IF k <= i THEN i - k ELSE i - k + Size
      /\ Distance(k, a) = IF k <= a THEN a - k ELSE a - k + Size
      /\ Distance(c, a) = IF c <= a THEN a - c ELSE a - c + Size
      /\ Distance(c, i) = IF c <= i THEN i - c ELSE i - c + Size
  BY DistanceIs
<1> QED  BY <1>1, <1>2

------------------------------------------------------------------------------
(* The table as a value: t of the slots, h of the hash, c and j of erase_at(). *)

Tables == [TableSlots -> Entries \cup {Empty}]

Hashes == [Refs -> Ideals]

\* s is on the way from the ideal slot of a reference to the slot i.
OnProbe(h, ref, s, i) == Distance(h[ref], s) <= Distance(h[ref], i)

\* ProbeChains, of any table: the way to an entry is occupied, but for the hole
\* when erase_at() has not got to the entry yet.
Whole(h, t, c, j) ==
    \A i, s \in TableSlots :
        t[i] # Empty /\ OnProbe(h, t[i].ref, s, i) =>
            t[s] # Empty \/ (s = c /\ Distance(c, i) > Distance(c, j))

\* A reference has one entry.
Unique(t) ==
    \A i, j \in TableSlots : t[i] # Empty /\ t[j] # Empty /\ t[i].ref = t[j].ref => i = j

\* An entry has a reference, whose ideal slot is a slot.
LEMMA EntryFacts ==
    ASSUME NEW t \in Tables, NEW h \in Hashes, NEW i \in TableSlots, t[i] # Empty
    PROVE  /\ t[i] \in Entries /\ t[i].ref \in Refs /\ t[i].handle \in RefHandles
           /\ h[t[i].ref] \in TableSlots
<1>1. t[i] \in Entries
  BY DEF Tables
<1>2. t[i].ref \in Refs /\ t[i].handle \in RefHandles
  BY <1>1 DEF Entries
<1> QED  BY <1>1, <1>2, OrderIndexAssumption DEF Hashes, TableSlots

\* The entry ahead stays: the probe for it does not pass the hole.
LEMMA PassWhole ==
    ASSUME NEW t \in Tables, NEW h \in Hashes, NEW c \in TableSlots, NEW j \in TableSlots,
           Whole(h, t, c, j), t[c] = Empty, t[Along(j, 1)] # Empty,
           Stays(c, Along(j, 1), h[t[Along(j, 1)].ref])
    PROVE  Whole(h, t, c, Along(j, 1))
<1>1. PICK a : a = Along(j, 1)
  OBVIOUS
<1>2. a \in TableSlots /\ a # c /\ Distance(c, a) = Distance(c, j) + 1
  BY <1>1, NextSlot
<1>3. SUFFICES ASSUME NEW i \in TableSlots, NEW s \in TableSlots,
                      t[i] # Empty, OnProbe(h, t[i].ref, s, i), t[s] = Empty
               PROVE  s = c /\ Distance(c, i) > Distance(c, a)
  BY <1>1 DEF Whole
<1>4. s = c /\ Distance(c, i) > Distance(c, j)
  BY <1>3 DEF Whole
<1>5. i # a
  <2>1. SUFFICES ASSUME i = a PROVE FALSE
    OBVIOUS
  <2>2. h[t[a].ref] \in TableSlots
    BY <1>3, <2>1, EntryFacts
  <2>3. Distance(h[t[a].ref], a) < Distance(h[t[a].ref], c)
    BY <1>1, <1>2, <2>2, StaysIs
  <2>4. Distance(h[t[a].ref], c) <= Distance(h[t[a].ref], a)
    BY <1>3, <1>4, <2>1 DEF OnProbe
  <2>5. Distance(h[t[a].ref], a) \in TableSlots /\ Distance(h[t[a].ref], c) \in TableSlots
    BY <1>2, <2>2, RoundTrip
  <2> QED  BY <2>3, <2>4, <2>5 DEF TableSlots
<1>6. Distance(c, i) # Distance(c, a)
  BY <1>2, <1>5, DistanceInjective
<1>7. Distance(c, i) \in Int /\ Distance(c, j) \in Int
  BY RoundTrip DEF TableSlots
<1> QED  BY <1>2, <1>4, <1>6, <1>7

\* The entry ahead fills the hole: the probe for it stops there, and what it left
\* is the only slot missing on any way.
LEMMA ShiftWhole ==
    ASSUME NEW t \in Tables, NEW h \in Hashes, NEW c \in TableSlots, NEW j \in TableSlots,
           NEW a, a = Along(j, 1),
           Whole(h, t, c, j), t[c] = Empty, t[a] # Empty, ~ Stays(c, a, h[t[a].ref]),
           NEW u, u = [t EXCEPT ![c] = t[a], ![a] = Empty]
    PROVE  Whole(h, u, a, a)
<1>1. a \in TableSlots /\ a # c
  BY NextSlot
<1>2. /\ u[c] = t[a] /\ u[a] = Empty
      /\ \A i \in TableSlots : i # c /\ i # a => u[i] = t[i]
  BY <1>1 DEF Tables
<1>3. SUFFICES ASSUME NEW i \in TableSlots, NEW s \in TableSlots,
                      u[i] # Empty, OnProbe(h, u[i].ref, s, i), u[s] = Empty
               PROVE  s = a /\ Distance(a, i) > Distance(a, a)
  BY DEF Whole
<1>4. i # a
  BY <1>2, <1>3
<1>5. Distance(a, i) > Distance(a, a)
  <2>1. Distance(a, i) \in TableSlots /\ Distance(a, i) # 0 /\ Distance(a, a) = 0
    BY <1>1, <1>4, RoundTrip
  <2> QED  BY <2>1, OrderIndexAssumption DEF TableSlots
<1>6. s # c
  BY <1>2, <1>3
<1>7. ASSUME s # a PROVE FALSE
  <2>1. t[s] = Empty
    BY <1>2, <1>3, <1>6, <1>7
  <2>2. CASE i # c
    <3>1. t[i] # Empty /\ OnProbe(h, t[i].ref, s, i)
      BY <1>2, <1>3, <1>4, <2>2
    <3> QED  BY <1>6, <2>1, <3>1 DEF Whole
  <2>3. CASE i = c
    <3>1. PICK k : k = h[t[a].ref]
      OBVIOUS
    <3>2. k \in TableSlots
      BY <1>1, <3>1, EntryFacts
    <3>3. Distance(k, s) <= Distance(k, c)
      BY <1>2, <1>3, <2>3, <3>1 DEF OnProbe
    <3>4. ~ (Distance(k, a) < Distance(k, c))
      BY <1>1, <3>1, <3>2, StaysIs
    <3>5. /\ Distance(k, s) \in TableSlots
          /\ Distance(k, c) \in TableSlots
          /\ Distance(k, a) \in TableSlots
      BY <1>1, <3>2, RoundTrip
    <3>6. OnProbe(h, t[a].ref, s, a)
      BY <3>1, <3>3, <3>4, <3>5 DEF OnProbe, TableSlots
    <3> QED  BY <1>1, <1>6, <2>1, <3>6 DEF Whole
  <2> QED  BY <2>2, <2>3
<1> QED  BY <1>5, <1>7

\* An empty slot ahead: no entry behind it is reached through it, so none is
\* reached through the hole.
LEMMA DoneWhole ==
    ASSUME NEW t \in Tables, NEW h \in Hashes, NEW c \in TableSlots, NEW j \in TableSlots,
           Whole(h, t, c, j), t[c] = Empty, t[Along(j, 1)] = Empty
    PROVE  Whole(h, t, NullHandle, 0)
<1>1. PICK a : a = Along(j, 1)
  OBVIOUS
<1>2. a \in TableSlots /\ IF a = c THEN Distance(c, j) = Size - 1
                     ELSE Distance(c, a) = Distance(c, j) + 1
  BY <1>1, NextSlot
<1>3. SUFFICES ASSUME NEW i \in TableSlots, NEW s \in TableSlots,
                      t[i] # Empty, OnProbe(h, t[i].ref, s, i), t[s] = Empty
               PROVE  FALSE
  BY DEF Whole
<1>4. s = c /\ Distance(c, i) > Distance(c, j)
  BY <1>3 DEF Whole
<1>5. /\ Distance(c, i) \in 0 .. Size - 1 /\ Distance(c, j) \in 0 .. Size - 1
      /\ Distance(c, a) \in 0 .. Size - 1 /\ Size \in Nat
  BY <1>2, RoundTrip, OrderIndexAssumption DEF TableSlots
<1>6. a # c /\ Distance(c, a) <= Distance(c, i)
  BY <1>2, <1>4, <1>5
<1>7. h[t[i].ref] \in TableSlots
  BY <1>3, EntryFacts
<1>8. OnProbe(h, t[i].ref, a, i)
  BY <1>2, <1>3, <1>4, <1>6, <1>7, PastTheHole DEF OnProbe
<1> QED  BY <1>1, <1>2, <1>3, <1>6, <1>8 DEF Whole

\* An entry put where its probe ends.
LEMMA InsertWhole ==
    ASSUME NEW t \in Tables, NEW h \in Hashes,
           Whole(h, t, NullHandle, 0), NEW ref \in Refs, NEW hd, NEW p \in TableSlots,
           \A s \in TableSlots : OnProbe(h, ref, s, p) => s = p \/ t[s] # Empty,
           NEW u, u = [t EXCEPT ![p] = [ref |-> ref, handle |-> hd]],
           [ref |-> ref, handle |-> hd] \in Entries
    PROVE  Whole(h, u, NullHandle, 0)
<1>1. PICK e : e = [ref |-> ref, handle |-> hd]
  OBVIOUS
<1>2. e.ref = ref /\ e # Empty
  BY <1>1, OrderIndexAssumption DEF Entries
<1>3. u[p] = e /\ \A i \in TableSlots : i # p => u[i] = t[i]
  BY <1>1 DEF Tables
<1>4. SUFFICES ASSUME NEW i \in TableSlots, NEW s \in TableSlots,
                      u[i] # Empty, OnProbe(h, u[i].ref, s, i), u[s] = Empty
               PROVE  FALSE
  BY DEF Whole
<1>5. s # p /\ t[s] = Empty
  BY <1>2, <1>3, <1>4
<1>6. i # p
  BY <1>2, <1>3, <1>4, <1>5
<1>7. t[i] # Empty /\ OnProbe(h, t[i].ref, s, i)
  BY <1>3, <1>4, <1>6
<1>8. s = NullHandle
  BY <1>5, <1>7 DEF Whole
<1> QED  BY <1>8, OrderIndexAssumption DEF TableSlots

\* A hole opened in a whole table.
LEMMA EraseWhole ==
    ASSUME NEW t \in Tables, NEW h \in Hashes,
           Whole(h, t, NullHandle, 0), NEW p \in TableSlots,
           NEW u, u = [t EXCEPT ![p] = Empty]
    PROVE  Whole(h, u, p, p)
<1>1. u[p] = Empty /\ \A i \in TableSlots : i # p => u[i] = t[i]
  BY DEF Tables
<1>2. SUFFICES ASSUME NEW i \in TableSlots, NEW s \in TableSlots,
                      u[i] # Empty, OnProbe(h, u[i].ref, s, i), u[s] = Empty
               PROVE  s = p /\ Distance(p, i) > Distance(p, p)
  BY DEF Whole
<1>3. i # p /\ t[i] # Empty /\ OnProbe(h, t[i].ref, s, i)
  BY <1>1, <1>2
<1>4. s = p
  <2>1. SUFFICES ASSUME s # p PROVE FALSE
    OBVIOUS
  <2>2. t[s] = Empty
    BY <1>1, <1>2, <2>1
  <2>3. s = NullHandle
    BY <1>3, <2>2 DEF Whole
  <2> QED  BY <2>3, OrderIndexAssumption DEF TableSlots
<1>5. Distance(p, i) > Distance(p, p)
  <2>1. Distance(p, i) \in TableSlots /\ Distance(p, i) # 0 /\ Distance(p, p) = 0
    BY <1>3, RoundTrip
  <2> QED  BY <2>1, OrderIndexAssumption DEF TableSlots
<1> QED  BY <1>4, <1>5

------------------------------------------------------------------------------
(* Probing. *)

\* ProbeEnd, Find and Stored, of any table.
ProbeIn(h, t, ref) ==
    Along(h[ref], Min({d \in TableSlots : LET e == t[Along(h[ref], d)]
                                     IN  e = Empty \/ e.ref = ref}))

FindIn(h, t, ref) ==
    IF t[ProbeIn(h, t, ref)] = Empty THEN NullHandle ELSE t[ProbeIn(h, t, ref)].handle

StoredIn(t, ref) ==
    IF \E i \in {s \in TableSlots : t[s] # Empty} : t[i].ref = ref
    THEN t[CHOOSE i \in {s \in TableSlots : t[s] # Empty} : t[i].ref = ref].handle
    ELSE NullHandle

LEMMA ProbeRead ==
    ASSUME NEW ref
    PROVE  /\ ProbeEnd(ref) = ProbeIn(hash, slots, ref)
           /\ Find(ref) = FindIn(hash, slots, ref)
           /\ Stored(ref) = StoredIn(slots, ref)
<1>1. ProbeEnd(ref) = ProbeIn(hash, slots, ref)
  BY DEF ProbeEnd, ProbeIn
<1> QED  BY <1>1 DEF Find, FindIn, Stored, StoredIn, Occupied

\* While a slot is empty a probe ends: at an empty slot or at the reference, with
\* entries for others on the way.
LEMMA ProbeFacts ==
    ASSUME NEW t \in Tables, NEW h \in Hashes, NEW ref \in Refs,
           \E s \in TableSlots : t[s] = Empty
    PROVE  /\ ProbeIn(h, t, ref) \in TableSlots
           /\ t[ProbeIn(h, t, ref)] = Empty \/ t[ProbeIn(h, t, ref)].ref = ref
           /\ \A s \in TableSlots : OnProbe(h, ref, s, ProbeIn(h, t, ref)) =>
                 s = ProbeIn(h, t, ref) \/ (t[s] # Empty /\ t[s].ref # ref)
<1>1. PICK k : k = h[ref]
  OBVIOUS
<1>2. k \in TableSlots
  BY <1>1, OrderIndexAssumption DEF Hashes, TableSlots
<1>3. PICK D : D = {d \in TableSlots : t[Along(k, d)] = Empty \/ t[Along(k, d)].ref = ref}
  OBVIOUS
<1>4. D \in SUBSET Nat /\ D # {}
  <2>1. D \in SUBSET Nat
    BY <1>3 DEF TableSlots
  <2>2. PICK s \in TableSlots : t[s] = Empty
    OBVIOUS
  <2>3. Distance(k, s) \in TableSlots /\ Along(k, Distance(k, s)) = s
    BY <1>2, RoundTrip
  <2> QED  BY <1>3, <2>1, <2>2, <2>3
<1>5. Min(D) \in D /\ \A d \in D : Min(D) <= d
  <2>1. \E x \in D : \A y \in D : x <= y
    BY <1>4, LeastNatural
  <2> QED  BY <2>1 DEF Min
<1>6. PICK d : d = Min(D)
  OBVIOUS
<1>7. ProbeIn(h, t, ref) = Along(k, d)
  BY <1>1, <1>3, <1>6 DEF ProbeIn
<1>8. PICK p : p = Along(k, d)
  OBVIOUS
<1>9. d \in TableSlots /\ (t[p] = Empty \/ t[p].ref = ref)
  BY <1>3, <1>5, <1>6, <1>8
<1>10. p \in TableSlots /\ Distance(k, p) = d
  BY <1>2, <1>8, <1>9, RoundTrip
<1>11. ASSUME NEW s \in TableSlots, OnProbe(h, ref, s, p), s # p
       PROVE  t[s] # Empty /\ t[s].ref # ref
  <2>1. Distance(k, s) <= d
    BY <1>1, <1>10, <1>11 DEF OnProbe
  <2>2. Distance(k, s) # d
    BY <1>2, <1>10, <1>11, DistanceInjective
  <2>3. Distance(k, s) \in TableSlots /\ Along(k, Distance(k, s)) = s
    BY <1>2, RoundTrip
  <2>4. ~ (d <= Distance(k, s))
    BY <1>9, <2>1, <2>2, <2>3 DEF TableSlots
  <2>5. Distance(k, s) \notin D
    BY <1>5, <1>6, <2>4
  <2> QED  BY <1>3, <2>3, <2>5
<1> QED  BY <1>7, <1>8, <1>9, <1>10, <1>11

\* The one entry of a reference is what is stored for it.
LEMMA StoredIs ==
    ASSUME NEW t, Unique(t), NEW ref
    PROVE  /\ \A i \in TableSlots : t[i] # Empty /\ t[i].ref = ref => StoredIn(t, ref) = t[i].handle
           /\ (\A i \in TableSlots : t[i] # Empty => t[i].ref # ref) => StoredIn(t, ref) = NullHandle
<1>1. ASSUME NEW i \in TableSlots, t[i] # Empty, t[i].ref = ref
      PROVE  StoredIn(t, ref) = t[i].handle
  <2>1. PICK j : j = CHOOSE x \in {s \in TableSlots : t[s] # Empty} : t[x].ref = ref
    OBVIOUS
  <2>2. i \in {s \in TableSlots : t[s] # Empty}
    BY <1>1
  <2>3. j \in TableSlots /\ t[j] # Empty /\ t[j].ref = ref
    BY <1>1, <2>1, <2>2
  <2>4. j = i
    BY <1>1, <2>3 DEF Unique
  <2> QED  BY <1>1, <2>1, <2>2, <2>4 DEF StoredIn
<1>2. ASSUME \A i \in TableSlots : t[i] # Empty => t[i].ref # ref
      PROVE  StoredIn(t, ref) = NullHandle
  BY <1>2 DEF StoredIn
<1> QED  BY <1>1, <1>2

\* In a whole table find() sees what is stored, and where it is.
LEMMA FindFacts ==
    ASSUME NEW t \in Tables, NEW h \in Hashes, NEW ref \in Refs,
           \E s \in TableSlots : t[s] = Empty, Whole(h, t, NullHandle, 0), Unique(t)
    PROVE  /\ FindIn(h, t, ref) = StoredIn(t, ref)
           /\ FindIn(h, t, ref) # NullHandle =>
                 t[ProbeIn(h, t, ref)] # Empty /\ t[ProbeIn(h, t, ref)].ref = ref
           /\ FindIn(h, t, ref) = NullHandle =>
                 /\ t[ProbeIn(h, t, ref)] = Empty
                 /\ \A i \in TableSlots : t[i] # Empty => t[i].ref # ref
<1>1. PICK p : p = ProbeIn(h, t, ref)
  OBVIOUS
<1>2. /\ p \in TableSlots /\ (t[p] = Empty \/ t[p].ref = ref)
      /\ \A s \in TableSlots : OnProbe(h, ref, s, p) => s = p \/ (t[s] # Empty /\ t[s].ref # ref)
  BY <1>1, ProbeFacts
<1>3. FindIn(h, t, ref) = IF t[p] = Empty THEN NullHandle ELSE t[p].handle
  BY <1>1 DEF FindIn
<1>4. CASE t[p] # Empty
  <2>1. t[p].ref = ref /\ t[p].handle \in RefHandles /\ NullHandle \notin RefHandles
    BY <1>2, <1>4, EntryFacts, OrderIndexAssumption
  <2>2. StoredIn(t, ref) = t[p].handle
    BY <1>2, <1>4, <2>1, StoredIs
  <2> QED  BY <1>1, <1>3, <1>4, <2>1, <2>2
<1>5. CASE t[p] = Empty
  <2>1. ASSUME NEW i \in TableSlots, t[i] # Empty, t[i].ref = ref PROVE FALSE
    <3>1. PICK k : k = h[ref]
      OBVIOUS
    <3>2. Distance(k, p) \in Int /\ Distance(k, i) \in Int
      <4>1. k \in TableSlots
        BY <3>1, OrderIndexAssumption DEF Hashes, TableSlots
      <4> QED  BY <1>2, <4>1, RoundTrip DEF TableSlots
    <3>3. CASE Distance(k, p) <= Distance(k, i)
      <4>1. OnProbe(h, t[i].ref, p, i)
        BY <2>1, <3>1, <3>3 DEF OnProbe
      <4>2. p = NullHandle
        BY <1>2, <1>5, <2>1, <4>1 DEF Whole
      <4> QED  BY <1>2, <4>2, OrderIndexAssumption DEF TableSlots
    <3>4. CASE ~ (Distance(k, p) <= Distance(k, i))
      <4>1. OnProbe(h, ref, i, p)
        BY <3>1, <3>2, <3>4 DEF OnProbe
      <4> QED  BY <1>2, <1>5, <2>1, <4>1
    <3> QED  BY <3>3, <3>4
  <2>2. StoredIn(t, ref) = NullHandle
    BY <2>1, StoredIs
  <2> QED  BY <1>1, <1>3, <1>5, <2>1, <2>2
<1> QED  BY <1>4, <1>5

------------------------------------------------------------------------------
(* Counting. *)

OccupiedIn(t) == {i \in TableSlots : t[i] # Empty}

\* The slots in use are finitely many, and some slot is empty while they are
\* fewer than all.
LEMMA OccupiedFacts ==
    ASSUME NEW t
    PROVE  /\ IsFiniteSet(OccupiedIn(t)) /\ Cardinality(OccupiedIn(t)) \in Nat
           /\ Cardinality(OccupiedIn(t)) < Size => \E s \in TableSlots : t[s] = Empty
<1>1. Size \in Nat /\ 0 \in Int /\ Size - 1 \in Int /\ 0 <= Size - 1
  BY OrderIndexAssumption
<1>2. IsFiniteSet(TableSlots) /\ Cardinality(TableSlots) = Size
  <2>1. IsFiniteSet(0 .. Size - 1) /\ Cardinality(0 .. Size - 1) = (Size - 1) - 0 + 1
    BY <1>1, FS_Interval
  <2> QED  BY <1>1, <2>1 DEF TableSlots
<1>3. IsFiniteSet(OccupiedIn(t))
  BY <1>2, FS_Subset DEF OccupiedIn
<1>4. Cardinality(OccupiedIn(t)) \in Nat
  BY <1>3, FS_CardinalityType
<1>5. ASSUME \A s \in TableSlots : t[s] # Empty PROVE Cardinality(OccupiedIn(t)) = Size
  BY <1>2, <1>5 DEF OccupiedIn
<1> QED  BY <1>1, <1>3, <1>4, <1>5

------------------------------------------------------------------------------
(* The invariant. *)

\* What ProbeChains and EntriesExact say, that the table never fills up, and
\* where erase_at() is.
IndexIInv ==
    /\ IndexTypeOK
    /\ Whole(hash, slots, hole, scan)
    /\ Unique(slots)
    /\ indexed = Cardinality(OccupiedIn(slots)) + IF Erasing THEN 1 ELSE 0
    /\ indexed < Size
    /\ IF Erasing THEN slots[hole] = Empty ELSE scan = 0

\* The invariant as its parts, for a table that is not being changed.
LEMMA AtRest ==
    ASSUME IndexIInv, ~ Erasing
    PROVE  /\ slots \in Tables /\ hash \in Hashes /\ hole = NullHandle /\ scan = 0
           /\ Whole(hash, slots, NullHandle, 0) /\ Unique(slots)
           /\ indexed = Cardinality(OccupiedIn(slots)) /\ indexed < Size /\ indexed \in Nat
           /\ \E s \in TableSlots : slots[s] = Empty
<1>1. slots \in Tables /\ hash \in Hashes /\ hole = NullHandle /\ scan = 0 /\ Unique(slots)
  BY DEF IndexIInv, IndexTypeOK, Tables, Hashes, Erasing
<1>2. Whole(hash, slots, NullHandle, 0)
  BY <1>1 DEF IndexIInv
<1>3. Cardinality(OccupiedIn(slots)) \in Nat
  BY OccupiedFacts
<1>4. indexed = Cardinality(OccupiedIn(slots)) /\ indexed < Size
  BY <1>3 DEF IndexIInv, Erasing
<1> QED  BY <1>1, <1>2, <1>3, <1>4, OccupiedFacts

\* And for one in which erase_at() has opened a hole.
LEMMA InErase ==
    ASSUME IndexIInv, Erasing
    PROVE  /\ slots \in Tables /\ hash \in Hashes /\ hole \in TableSlots /\ scan \in TableSlots
           /\ Whole(hash, slots, hole, scan) /\ Unique(slots)
           /\ indexed = Cardinality(OccupiedIn(slots)) + 1 /\ indexed < Size /\ indexed \in Nat
           /\ slots[hole] = Empty /\ Ahead \in TableSlots
<1>1. slots \in Tables /\ hash \in Hashes /\ hole \in TableSlots /\ scan \in TableSlots /\ Unique(slots)
  BY DEF IndexIInv, IndexTypeOK, Tables, Hashes, Erasing
<1>2. Whole(hash, slots, hole, scan) /\ slots[hole] = Empty
  BY DEF IndexIInv
<1>3. Cardinality(OccupiedIn(slots)) \in Nat
  BY OccupiedFacts
<1>4. indexed = Cardinality(OccupiedIn(slots)) + 1 /\ indexed < Size
  BY <1>3 DEF IndexIInv, Erasing
<1>5. Ahead \in TableSlots
  BY <1>1, NextSlot DEF Ahead
<1> QED  BY <1>1, <1>2, <1>3, <1>4, <1>5

\* An empty table.
LEMMA IndexInitIInv == ASSUME IndexInit PROVE IndexIInv
<1>1. Size \in Nat /\ Size > 1 /\ 0 \in TableSlots /\ hole = NullHandle /\ ~ Erasing /\ scan = 0 /\ indexed = 0
  BY OrderIndexAssumption DEF TableSlots, IndexInit, Erasing
<1>2. \A i \in TableSlots : slots[i] = Empty
  BY DEF IndexInit
<1>3. IndexTypeOK
  BY <1>1 DEF IndexInit, IndexTypeOK
<1>4. Whole(hash, slots, hole, scan) /\ Unique(slots)
  BY <1>2 DEF Whole, Unique
<1>5. Cardinality(OccupiedIn(slots)) = 0
  <2>1. OccupiedIn(slots) = {}
    BY <1>2 DEF OccupiedIn
  <2> QED  BY <2>1, FS_EmptySet
<1> QED  BY <1>1, <1>3, <1>4, <1>5 DEF IndexIInv

\* What insert() does to the table: an entry more, where the probe ended.
LEMMA InsertFacts ==
    ASSUME IndexIInv, NEW ref \in Refs, NEW hd \in RefHandles, Insert(ref, hd)
    PROVE  /\ IndexIInv'
           /\ StoredIn(slots, ref) = NullHandle
           /\ \A r \in Refs : StoredIn(slots', r) = IF r = ref THEN hd ELSE StoredIn(slots, r)
<1>1. /\ ~ Erasing /\ Find(ref) = NullHandle /\ indexed * 2 < Size /\ indexed' = indexed + 1
      /\ slots' = [slots EXCEPT ![ProbeEnd(ref)] = [ref |-> ref, handle |-> hd]]
      /\ UNCHANGED <<hash, hole, scan>>
  BY DEF Insert
<1>2. /\ slots \in Tables /\ hash \in Hashes /\ hole = NullHandle /\ scan = 0
      /\ Whole(hash, slots, NullHandle, 0) /\ Unique(slots)
      /\ indexed = Cardinality(OccupiedIn(slots)) /\ indexed \in Nat
      /\ \E s \in TableSlots : slots[s] = Empty
  BY <1>1, AtRest
<1>3. PICK p : p = ProbeIn(hash, slots, ref)
  OBVIOUS
<1>4. PICK u : u = slots'
  OBVIOUS
<1>5. PICK e : e = [ref |-> ref, handle |-> hd]
  OBVIOUS
<1>6. e \in Entries /\ e # Empty /\ e.ref = ref /\ e.handle = hd
  BY <1>5, OrderIndexAssumption DEF Entries
<1>7. u = [slots EXCEPT ![p] = e]
  BY <1>1, <1>3, <1>4, <1>5, ProbeRead
<1>8. /\ p \in TableSlots
      /\ \A s \in TableSlots : OnProbe(hash, ref, s, p) => s = p \/ slots[s] # Empty
  BY <1>2, <1>3, ProbeFacts
<1>9. /\ slots[p] = Empty /\ \A i \in TableSlots : slots[i] # Empty => slots[i].ref # ref
  BY <1>1, <1>2, <1>3, FindFacts, ProbeRead
<1>10. u \in Tables /\ u[p] = e /\ \A i \in TableSlots : i # p => u[i] = slots[i]
  BY <1>2, <1>6, <1>7, <1>8 DEF Tables
<1>11. Whole(hash, u, NullHandle, 0)
  BY <1>2, <1>5, <1>6, <1>7, <1>8, InsertWhole
<1>12. Unique(u)
  BY <1>2, <1>6, <1>9, <1>10 DEF Unique
<1>13. Cardinality(OccupiedIn(u)) = indexed + 1
  <2>1. OccupiedIn(u) = OccupiedIn(slots) \cup {p} /\ p \notin OccupiedIn(slots)
    BY <1>6, <1>8, <1>9, <1>10 DEF OccupiedIn
  <2> QED  BY <1>2, <2>1, OccupiedFacts, FS_AddElement
<1>14. indexed' \in 0 .. Size /\ indexed' < Size /\ indexed' \in Nat
  BY <1>1, <1>2, OrderIndexAssumption
<1>15. ~ Erasing' /\ hole' = NullHandle /\ scan' = 0 /\ hash' = hash
  BY <1>1, <1>2 DEF Erasing
<1>16. IndexTypeOK'
  BY <1>1, <1>4, <1>10, <1>14 DEF IndexIInv, IndexTypeOK, Tables
<1>17. IndexIInv'
  BY <1>1, <1>4, <1>11, <1>12, <1>13, <1>14, <1>15, <1>16 DEF IndexIInv
<1>18. StoredIn(slots, ref) = NullHandle
  BY <1>2, <1>9, StoredIs
<1>19. ASSUME NEW r \in Refs
       PROVE  StoredIn(u, r) = IF r = ref THEN hd ELSE StoredIn(slots, r)
  <2>1. CASE r = ref
    BY <1>6, <1>8, <1>10, <1>12, <2>1, StoredIs
  <2>2. CASE r # ref
    <3>1. CASE \E i \in TableSlots : slots[i] # Empty /\ slots[i].ref = r
      <4>1. PICK i \in TableSlots : slots[i] # Empty /\ slots[i].ref = r
        BY <3>1
      <4>2. u[i] = slots[i]
        BY <1>9, <1>10, <4>1
      <4>3. StoredIn(u, r) = u[i].handle
        BY <1>12, <4>1, <4>2, StoredIs
      <4>4. StoredIn(slots, r) = slots[i].handle
        BY <1>2, <4>1, StoredIs
      <4> QED  BY <2>2, <4>2, <4>3, <4>4
    <3>2. CASE \A i \in TableSlots : slots[i] # Empty => slots[i].ref # r
      <4>1. \A i \in TableSlots : u[i] # Empty => u[i].ref # r
        BY <1>6, <1>10, <2>2, <3>2
      <4>2. StoredIn(u, r) = NullHandle
        BY <1>12, <4>1, StoredIs
      <4>3. StoredIn(slots, r) = NullHandle
        BY <1>2, <3>2, StoredIs
      <4> QED  BY <2>2, <4>2, <4>3
    <3> QED  BY <3>1, <3>2
  <2> QED  BY <2>1, <2>2
<1> QED  BY <1>4, <1>17, <1>18, <1>19

\* What erase() does at once: the entry is gone.
LEMMA EraseFacts ==
    ASSUME IndexIInv, NEW ref \in Refs, Erase(ref)
    PROVE  /\ IndexIInv'
           /\ StoredIn(slots, ref) # NullHandle
           /\ \A r \in Refs : StoredIn(slots', r) = IF r = ref THEN NullHandle ELSE StoredIn(slots, r)
<1>1. /\ ~ Erasing /\ Find(ref) # NullHandle /\ hole' = ProbeEnd(ref) /\ scan' = ProbeEnd(ref)
      /\ slots' = [slots EXCEPT ![ProbeEnd(ref)] = Empty]
      /\ UNCHANGED <<hash, indexed>>
  BY DEF Erase
<1>2. /\ slots \in Tables /\ hash \in Hashes
      /\ Whole(hash, slots, NullHandle, 0) /\ Unique(slots)
      /\ indexed = Cardinality(OccupiedIn(slots)) /\ indexed \in Nat /\ indexed < Size
      /\ \E s \in TableSlots : slots[s] = Empty
  BY <1>1, AtRest
<1>3. PICK p : p = ProbeIn(hash, slots, ref)
  OBVIOUS
<1>4. PICK u : u = slots'
  OBVIOUS
<1>5. u = [slots EXCEPT ![p] = Empty] /\ hole' = p /\ scan' = p
  BY <1>1, <1>3, <1>4, ProbeRead
<1>6. p \in TableSlots
  BY <1>2, <1>3, ProbeFacts
<1>7. slots[p] # Empty /\ slots[p].ref = ref /\ StoredIn(slots, ref) # NullHandle
  BY <1>1, <1>2, <1>3, FindFacts, ProbeRead
<1>8. u \in Tables /\ u[p] = Empty /\ \A i \in TableSlots : i # p => u[i] = slots[i]
  BY <1>2, <1>5, <1>6 DEF Tables
<1>9. Whole(hash, u, p, p)
  BY <1>2, <1>5, <1>6, EraseWhole
<1>10. Unique(u)
  BY <1>2, <1>8 DEF Unique
<1>11. Cardinality(OccupiedIn(u)) + 1 = indexed
  <2>1. OccupiedIn(u) = OccupiedIn(slots) \ {p} /\ p \in OccupiedIn(slots)
    BY <1>6, <1>7, <1>8 DEF OccupiedIn
  <2>2. Cardinality(OccupiedIn(u)) = Cardinality(OccupiedIn(slots)) - 1
    BY <2>1, OccupiedFacts, FS_RemoveElement
  <2> QED  BY <1>2, <2>2, OccupiedFacts
<1>12. Erasing'
  BY <1>5, <1>6, OrderIndexAssumption DEF Erasing, TableSlots
<1>13. IndexTypeOK'
  BY <1>1, <1>4, <1>5, <1>6, <1>8 DEF IndexIInv, IndexTypeOK, Tables
<1>14. IndexIInv'
  BY <1>1, <1>2, <1>4, <1>5, <1>8, <1>9, <1>10, <1>11, <1>12, <1>13 DEF IndexIInv
<1>15. ASSUME NEW r \in Refs
       PROVE  StoredIn(u, r) = IF r = ref THEN NullHandle ELSE StoredIn(slots, r)
  <2>1. CASE r = ref
    <3>1. \A i \in TableSlots : u[i] # Empty => u[i].ref # r
      BY <1>2, <1>6, <1>7, <1>8, <2>1 DEF Unique
    <3> QED  BY <1>10, <2>1, <3>1, StoredIs
  <2>2. CASE r # ref
    <3>1. CASE \E i \in TableSlots : slots[i] # Empty /\ slots[i].ref = r
      <4>1. PICK i \in TableSlots : slots[i] # Empty /\ slots[i].ref = r
        BY <3>1
      <4>2. u[i] = slots[i]
        BY <1>7, <1>8, <2>2, <4>1
      <4>3. StoredIn(u, r) = u[i].handle
        BY <1>10, <4>1, <4>2, StoredIs
      <4>4. StoredIn(slots, r) = slots[i].handle
        BY <1>2, <4>1, StoredIs
      <4> QED  BY <2>2, <4>2, <4>3, <4>4
    <3>2. CASE \A i \in TableSlots : slots[i] # Empty => slots[i].ref # r
      <4>1. \A i \in TableSlots : u[i] # Empty => u[i].ref # r
        BY <1>8, <3>2
      <4>2. StoredIn(u, r) = NullHandle
        BY <1>10, <4>1, StoredIs
      <4>3. StoredIn(slots, r) = NullHandle
        BY <1>2, <3>2, StoredIs
      <4> QED  BY <2>2, <4>2, <4>3
    <3> QED  BY <3>1, <3>2
  <2> QED  BY <2>1, <2>2
<1> QED  BY <1>4, <1>7, <1>14, <1>15

\* An entry passed over.
LEMMA PassFacts ==
    ASSUME IndexIInv, Pass
    PROVE  IndexIInv' /\ UNCHANGED slots
<1>1. /\ Erasing /\ slots[Ahead] # Empty /\ Stays(hole, Ahead, hash[slots[Ahead].ref])
      /\ scan' = Ahead /\ UNCHANGED <<hash, slots, indexed, hole>>
  BY DEF Pass
<1>2. /\ slots \in Tables /\ hash \in Hashes /\ hole \in TableSlots /\ scan \in TableSlots
      /\ Whole(hash, slots, hole, scan) /\ slots[hole] = Empty /\ Ahead \in TableSlots
  BY <1>1, InErase
<1>3. Whole(hash, slots, hole, Ahead)
  BY <1>1, <1>2, PassWhole DEF Ahead
<1>4. Erasing'
  BY <1>1 DEF Erasing
<1>5. IndexTypeOK'
  BY <1>1, <1>2 DEF IndexIInv, IndexTypeOK
<1> QED  BY <1>1, <1>2, <1>3, <1>4, <1>5 DEF IndexIInv

\* An entry moved back over the hole is still the entry of its reference.
LEMMA ShiftFacts ==
    ASSUME IndexIInv, Shift
    PROVE  IndexIInv' /\ \A r \in Refs : StoredIn(slots', r) = StoredIn(slots, r)
<1>1. PICK a, c, u : a = Ahead /\ c = hole /\ u = slots'
  OBVIOUS
<1>2. /\ Erasing /\ slots[a] # Empty /\ ~ Stays(c, a, hash[slots[a].ref])
      /\ u = [slots EXCEPT ![c] = slots[a], ![a] = Empty]
      /\ hole' = a /\ scan' = a /\ UNCHANGED <<hash, indexed>>
  BY <1>1 DEF Shift
<1>3. /\ slots \in Tables /\ hash \in Hashes /\ c \in TableSlots /\ scan \in TableSlots
      /\ Whole(hash, slots, c, scan) /\ Unique(slots)
      /\ indexed = Cardinality(OccupiedIn(slots)) + 1 /\ indexed < Size /\ indexed \in Nat
      /\ slots[c] = Empty /\ a \in TableSlots /\ a = Along(scan, 1)
  BY <1>1, <1>2, InErase DEF Ahead
<1>4. a # c
  BY <1>2, <1>3
<1>5. Whole(hash, u, a, a)
  BY <1>2, <1>3, ShiftWhole
<1>6. /\ u \in Tables /\ u[c] = slots[a] /\ u[a] = Empty
      /\ \A i \in TableSlots : i # c /\ i # a => u[i] = slots[i]
  BY <1>2, <1>3, <1>4 DEF Tables
<1>7. Unique(u)
  <2>1. SUFFICES ASSUME NEW i \in TableSlots, NEW j \in TableSlots,
                        u[i] # Empty, u[j] # Empty, u[i].ref = u[j].ref
                 PROVE  i = j
    BY DEF Unique
  <2>2. i # a /\ j # a
    BY <1>6, <2>1
  <2>3. CASE i = c /\ j # c
    BY <1>2, <1>3, <1>6, <2>1, <2>2, <2>3 DEF Unique
  <2>4. CASE i # c /\ j = c
    BY <1>2, <1>3, <1>6, <2>1, <2>2, <2>4 DEF Unique
  <2>5. CASE i # c /\ j # c
    BY <1>3, <1>6, <2>1, <2>2, <2>5 DEF Unique
  <2> QED  BY <2>3, <2>4, <2>5
<1>8. Cardinality(OccupiedIn(u)) = Cardinality(OccupiedIn(slots))
  <2>1. PICK S : S = OccupiedIn(slots)
    OBVIOUS
  <2>2. IsFiniteSet(S) /\ Cardinality(S) \in Nat /\ a \in S /\ c \notin S
    BY <1>2, <1>3, <2>1, OccupiedFacts DEF OccupiedIn
  <2>3. OccupiedIn(u) = (S \ {a}) \cup {c}
    BY <1>2, <1>3, <1>4, <1>6, <2>1 DEF OccupiedIn
  <2>4. IsFiniteSet(S \ {a}) /\ Cardinality(S \ {a}) = Cardinality(S) - 1
    BY <2>2, FS_RemoveElement
  <2>5. Cardinality((S \ {a}) \cup {c}) = Cardinality(S \ {a}) + 1
    BY <2>2, <2>4, FS_AddElement
  <2> QED  BY <2>1, <2>2, <2>3, <2>4, <2>5
<1>9. Erasing'
  BY <1>2, <1>3, OrderIndexAssumption DEF Erasing, TableSlots
<1>10. IndexTypeOK'
  BY <1>1, <1>2, <1>3, <1>6 DEF IndexIInv, IndexTypeOK, Tables
<1>11. IndexIInv'
  BY <1>1, <1>2, <1>3, <1>5, <1>6, <1>7, <1>8, <1>9, <1>10 DEF IndexIInv
<1>12. ASSUME NEW r \in Refs PROVE StoredIn(u, r) = StoredIn(slots, r)
  <2>1. CASE \E i \in TableSlots : slots[i] # Empty /\ slots[i].ref = r
    <3>1. PICK i \in TableSlots : slots[i] # Empty /\ slots[i].ref = r
      BY <2>1
    <3>2. PICK j \in TableSlots : u[j] = slots[i]
      <4>1. CASE i = a
        BY <1>3, <1>6, <4>1
      <4>2. CASE i # a
        BY <1>3, <1>6, <3>1, <4>2
      <4> QED  BY <4>1, <4>2
    <3>3. StoredIn(u, r) = u[j].handle
      BY <1>7, <3>1, <3>2, StoredIs
    <3>4. StoredIn(slots, r) = slots[i].handle
      BY <1>3, <3>1, StoredIs
    <3> QED  BY <3>2, <3>3, <3>4
  <2>2. CASE \A i \in TableSlots : slots[i] # Empty => slots[i].ref # r
    <3>1. \A i \in TableSlots : u[i] # Empty => u[i].ref # r
      BY <1>2, <1>3, <1>6, <2>2
    <3>2. StoredIn(u, r) = NullHandle
      BY <1>7, <3>1, StoredIs
    <3>3. StoredIn(slots, r) = NullHandle
      BY <1>3, <2>2, StoredIs
    <3> QED  BY <3>2, <3>3
  <2> QED  BY <2>1, <2>2
<1> QED  BY <1>1, <1>11, <1>12

\* The end of the cluster: the table is whole again.
LEMMA DoneFacts ==
    ASSUME IndexIInv, Done
    PROVE  IndexIInv' /\ UNCHANGED slots
<1>1. /\ Erasing /\ slots[Ahead] = Empty /\ hole' = NullHandle /\ scan' = 0 /\ indexed' = indexed - 1
      /\ UNCHANGED <<hash, slots>>
  BY DEF Done
<1>2. /\ slots \in Tables /\ hash \in Hashes /\ hole \in TableSlots /\ scan \in TableSlots
      /\ Whole(hash, slots, hole, scan) /\ slots[hole] = Empty
      /\ indexed = Cardinality(OccupiedIn(slots)) + 1 /\ indexed < Size /\ indexed \in Nat
      /\ Cardinality(OccupiedIn(slots)) \in Nat /\ Size \in Nat /\ Size > 1
  BY <1>1, InErase, OccupiedFacts, OrderIndexAssumption
<1>3. Whole(hash, slots, NullHandle, 0)
  BY <1>1, <1>2, DoneWhole DEF Ahead
<1>4. ~ Erasing' /\ indexed' = Cardinality(OccupiedIn(slots)) /\ indexed' < Size /\ indexed' \in 0 .. Size
      /\ 0 \in TableSlots
  BY <1>1, <1>2 DEF Erasing, TableSlots
<1>5. IndexTypeOK'
  BY <1>1, <1>4 DEF IndexIInv, IndexTypeOK
<1> QED  BY <1>1, <1>2, <1>3, <1>4, <1>5 DEF IndexIInv

\* Every step of the index keeps the invariant.
LEMMA IndexNextIInv == ASSUME IndexIInv, [IndexNext]_indexVars PROVE IndexIInv'
<1>1. ASSUME NEW ref \in Refs, NEW hd \in RefHandles, Insert(ref, hd) PROVE IndexIInv'
  BY <1>1, InsertFacts
<1>2. ASSUME NEW ref \in Refs, Erase(ref) PROVE IndexIInv'
  BY <1>2, EraseFacts
<1>3. CASE Pass
  BY <1>3, PassFacts
<1>4. CASE Shift
  BY <1>4, ShiftFacts
<1>5. CASE Done
  BY <1>5, DoneFacts
<1>6. CASE UNCHANGED indexVars
  BY <1>6 DEF indexVars, IndexIInv, IndexTypeOK, Erasing
<1> QED  BY <1>1, <1>2, <1>3, <1>4, <1>5, <1>6 DEF IndexNext, EraseStep

------------------------------------------------------------------------------
(* The theorems. *)

\* The invariant is what validate() asks, slot by slot along every chain.
LEMMA WholeIsProbeChains ==
    ASSUME IndexIInv
    PROVE  ProbeChains
<1>1. SUFFICES ASSUME NEW i \in Occupied, NEW d \in 0 .. Distance(hash[slots[i].ref], i),
                      NEW s, s = Along(hash[slots[i].ref], d)
               PROVE  \/ s \in Occupied
                      \/ s = hole /\ Distance(hole, i) > Distance(hole, scan)
  BY DEF ProbeChains
<1>2. PICK k : k = hash[slots[i].ref]
  OBVIOUS
<1>3. slots \in Tables /\ hash \in Hashes /\ i \in TableSlots /\ slots[i] # Empty
  BY DEF IndexIInv, IndexTypeOK, Tables, Hashes, Occupied
<1>4. k \in TableSlots /\ Size \in Nat
  BY <1>2, <1>3, EntryFacts, OrderIndexAssumption
<1>5. d \in TableSlots /\ d <= Distance(k, i)
  <2>1. Distance(k, i) \in 0 .. Size - 1
    BY <1>3, <1>4, RoundTrip DEF TableSlots
  <2> QED  BY <1>1, <1>2, <1>4, <2>1 DEF TableSlots
<1>6. s \in TableSlots /\ Distance(k, s) = d
  BY <1>1, <1>2, <1>4, <1>5, RoundTrip
<1>7. OnProbe(hash, slots[i].ref, s, i)
  BY <1>2, <1>5, <1>6 DEF OnProbe
<1>8. Whole(hash, slots, hole, scan)
  BY DEF IndexIInv
<1> QED  BY <1>3, <1>6, <1>7, <1>8 DEF Whole, Occupied

\* After any calls of insert() and erase(), and between any two passes of the
\* loop of erase_at(), no probe chain is broken but by the hole it is about to
\* close, a reference has one entry, and live_ counts the entries.
THEOREM IndexIsSound == IndexSpec => []TableSound
<1>1. IndexInit => IndexIInv
  BY IndexInitIInv
<1>2. IndexIInv /\ [IndexNext]_indexVars => IndexIInv'
  BY IndexNextIInv
<1>3. IndexIInv => TableSound
  <2>. SUFFICES ASSUME IndexIInv PROVE TableSound
    OBVIOUS
  <2>1. IndexTypeOK
    BY DEF IndexIInv
  <2>2. ProbeChains
    BY WholeIsProbeChains
  <2>3. EntriesExact
    <3>1. Occupied = OccupiedIn(slots) /\ Unique(slots)
      BY DEF Occupied, OccupiedIn, IndexIInv
    <3>2. indexed = Cardinality(Occupied) + IF Erasing THEN 1 ELSE 0
      BY <3>1 DEF IndexIInv
    <3>3. \A i, j \in Occupied : slots[i].ref = slots[j].ref => i = j
      BY <3>1 DEF Unique, Occupied
    <3> QED  BY <3>2, <3>3 DEF EntriesExact
  <2> QED  BY <2>1, <2>2, <2>3 DEF TableSound
<1> QED  BY <1>1, <1>2, <1>3, PTL DEF IndexSpec

\* The map that find() shows.
Seen == [ref \in Refs |-> IF Erasing THEN Stored(ref) ELSE Find(ref)]

Contents(t) == [ref \in Refs |-> StoredIn(t, ref)]

SeenStored == Seen = Contents(slots)

\* It is what the table stores.
LEMMA SeenIsStored == ASSUME IndexIInv PROVE Seen = Contents(slots)
<1>1. ASSUME NEW ref \in Refs
      PROVE  (IF Erasing THEN Stored(ref) ELSE Find(ref)) = StoredIn(slots, ref)
  <2>1. CASE Erasing
    BY <2>1, ProbeRead
  <2>2. CASE ~ Erasing
    <3>1. Find(ref) = FindIn(hash, slots, ref)
      BY ProbeRead
    <3>2. FindIn(hash, slots, ref) = StoredIn(slots, ref)
      BY <2>2, AtRest, FindFacts
    <3> QED  BY <2>2, <3>1, <3>2
  <2> QED  BY <2>1, <2>2
<1> QED  BY <1>1 DEF Seen, Contents

\* Seen through find(), an index is the map from reference to handle the book
\* takes it for: insert() adds one pair, erase() takes one away, and the entries
\* erase_at() moves are found as before.
THEOREM IndexImplementsMap == IndexSpec => IndexImplementsHandleMap
<1>1. IndexInit => IndexIInv
  BY IndexInitIInv
<1>2. IndexIInv /\ [IndexNext]_indexVars => IndexIInv'
  BY IndexNextIInv
<1>3. IndexInit => Map!Init
  <2>. SUFFICES ASSUME IndexInit PROVE Map!Init
    OBVIOUS
  <2>1. Seen = Contents(slots) /\ Unique(slots)
    BY IndexInitIInv, SeenIsStored DEF IndexIInv
  <2>2. \A i \in TableSlots : slots[i] = Empty
    BY DEF IndexInit
  <2>3. \A ref \in Refs : StoredIn(slots, ref) = NullHandle
    BY <2>1, <2>2, StoredIs
  <2> QED  BY <2>1, <2>3 DEF Seen, Contents, Map!Init
<1>4. IndexIInv => SeenStored
  BY SeenIsStored DEF SeenStored
<1>5. IndexIInv /\ SeenStored /\ SeenStored' /\ [IndexNext]_indexVars => [Map!Next]_Seen
  <2>. SUFFICES ASSUME IndexIInv, SeenStored, SeenStored', [IndexNext]_indexVars
                PROVE  Map!Next \/ UNCHANGED Seen
    OBVIOUS
  <2>1. /\ Seen = [ref \in Refs |-> StoredIn(slots, ref)]
        /\ Seen' = [ref \in Refs |-> StoredIn(slots', ref)]
    BY DEF SeenStored, Contents
  <2>2. ASSUME NEW ref \in Refs, NEW hd \in RefHandles \ {slots[i].handle : i \in Occupied},
               Insert(ref, hd)
        PROVE  Map!Insert(ref, hd)
    <3>1. /\ StoredIn(slots, ref) = NullHandle
          /\ \A r \in Refs : StoredIn(slots', r) = IF r = ref THEN hd ELSE StoredIn(slots, r)
      BY <2>2, InsertFacts
    <3>2. ASSUME NEW r \in Refs PROVE StoredIn(slots, r) # hd
      <4>1. Unique(slots) /\ hd # NullHandle /\ \A i \in TableSlots : slots[i] # Empty => slots[i].handle # hd
        BY OrderIndexAssumption DEF IndexIInv, Occupied
      <4> QED  BY <4>1, StoredIs
    <3>3. Seen[ref] = NullHandle /\ hd \notin {Seen[k] : k \in Refs} \ {NullHandle}
      BY <2>1, <3>1, <3>2
    <3>4. Seen' = [Seen EXCEPT ![ref] = hd]
      BY <2>1, <3>1
    <3> QED  BY <3>3, <3>4 DEF Map!Insert, Map!Stored, Seen
  <2>3. ASSUME NEW ref \in Refs, Erase(ref) PROVE Map!Erase(ref)
    <3>1. /\ StoredIn(slots, ref) # NullHandle
          /\ \A r \in Refs : StoredIn(slots', r) = IF r = ref THEN NullHandle ELSE StoredIn(slots, r)
      BY <2>3, EraseFacts
    <3>2. Seen[ref] # NullHandle /\ Seen' = [Seen EXCEPT ![ref] = NullHandle]
      BY <2>1, <3>1
    <3> QED  BY <3>2 DEF Map!Erase, Seen
  <2>4. CASE EraseStep
    <3>1. \A r \in Refs : StoredIn(slots', r) = StoredIn(slots, r)
      BY <2>4, PassFacts, ShiftFacts, DoneFacts DEF EraseStep
    <3> QED  BY <2>1, <3>1
  <2>5. CASE UNCHANGED indexVars
    BY <2>1, <2>5 DEF indexVars
  <2> QED  BY <2>2, <2>3, <2>4, <2>5 DEF IndexNext, Map!Next
<1> QED  BY <1>1, <1>2, <1>3, <1>4, <1>5, PTL DEF IndexSpec, IndexImplementsHandleMap, Map!Spec, Seen
================================================================================
