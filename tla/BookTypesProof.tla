---------------------------- MODULE BookTypesProof ----------------------------
(***************************************************************************)
(* What Inside() picks from a bounded set of prices, for either side; what *)
(* joins and leaves do to a queue of orders; and sums over finite sets.    *)
(***************************************************************************)
EXTENDS BookTypes, Functions, FiniteSetTheorems, SequenceTheorems, WellFoundedInduction, TLAPS

\* A set of naturals that is not empty has a least element.
LEMMA LeastNatural ==
  ASSUME NEW T \in SUBSET Nat, T # {}
  PROVE  \E m \in T : \A n \in T : m <= n
<1> DEFINE R == {ss \in Nat \X Nat : ss[1] < ss[2]}
<1>1. IsWellFoundedOn(R, Nat)
  BY NatLessThanWellFounded DEF OpToRel
<1>2. \E m \in T : \A n \in T : ~ (<<n, m>> \in R)
  <2> HIDE DEF R
  <2> QED BY <1>1, WFMin
<1>3. PICK m \in T : \A n \in T : ~ (<<n, m>> \in R)
  BY <1>2
<1>4. ASSUME NEW n \in T PROVE m <= n
  <2>1. m \in Nat /\ n \in Nat OBVIOUS
  <2>2. ~ (n < m) BY <2>1, <1>3, Zenon
  <2> QED BY <2>1, <2>2
<1> QED BY <1>3, <1>4

\* A set of naturals under a bound that is not empty has a greatest element.
LEMMA GreatestNatural ==
  ASSUME NEW T \in SUBSET Nat, T # {}, NEW bound \in Nat, \A x \in T : x <= bound
  PROVE  \E m \in T : \A n \in T : n <= m
<1> DEFINE M == {bound - x : x \in T}
<1>1. M \in SUBSET Nat /\ M # {}
  <2>1. \A x \in T : x \in Nat /\ bound - x \in Nat
    OBVIOUS
  <2>2. M \in SUBSET Nat
    BY <2>1
  <2>3. PICK x \in T : TRUE
    OBVIOUS
  <2>4. bound - x \in M
    BY <2>3
  <2> QED BY <2>2, <2>4
<1>2. PICK k \in M : \A j \in M : k <= j
  <2> HIDE DEF M
  <2> QED BY <1>1, LeastNatural
<1>3. PICK m \in T : k = bound - m
  OBVIOUS
<1>4. ASSUME NEW n \in T PROVE n <= m
  <2>1. bound - m <= bound - n BY <1>2, <1>3
  <2>2. m \in Nat /\ n \in Nat OBVIOUS
  <2> QED BY <2>1, <2>2
<1> QED BY <1>3, <1>4

\* Inside() picks an element of any set of naturals that is bounded, and no
\* element lies nearer the other side of the book.
LEMMA InsideChosen ==
  ASSUME NEW T \in SUBSET Nat, T # {}, NEW bound \in Nat, \A x \in T : x <= bound,
         NEW side \in Sides
  PROVE  /\ Inside(side, T) \in T
         /\ side = "Buy" => \A y \in T : y <= Inside(side, T)
         /\ side = "Sell" => \A y \in T : Inside(side, T) <= y
<1>1. CASE side = "Buy"
  <2>1. \E m \in T : \A n \in T : n <= m
    BY GreatestNatural
  <2>2. Highest(T) \in T /\ \A y \in T : y <= Highest(T)
    BY <2>1 DEF Highest
  <2> QED BY <1>1, <2>2 DEF Inside
<1>2. CASE side = "Sell"
  <2>1. \E m \in T : \A n \in T : m <= n
    BY LeastNatural
  <2>2. Lowest(T) \in T /\ \A y \in T : Lowest(T) <= y
    BY <2>1 DEF Lowest
  <2> QED BY <1>2, <2>2 DEF Inside
<1> QED BY <1>1, <1>2 DEF Sides

\* The element Inside() picks is the only one with that position.
LEMMA InsideUnique ==
  ASSUME NEW T \in SUBSET Nat, NEW side \in Sides, NEW x \in T,
         side = "Buy" => \A y \in T : y <= x,
         side = "Sell" => \A y \in T : x <= y
  PROVE  Inside(side, T) = x
<1>1. CASE side = "Buy"
  <2>1. \A y \in T : y <= x BY <1>1
  <2>2. \A z \in T : (\A y \in T : y <= z) => z = x BY <2>1
  <2>3. Highest(T) = x BY <2>1, <2>2 DEF Highest
  <2> QED BY <1>1, <2>3 DEF Inside
<1>2. CASE side = "Sell"
  <2>1. \A y \in T : x <= y BY <1>2
  <2>2. \A z \in T : (\A y \in T : z <= y) => z = x BY <2>1
  <2>3. Lowest(T) = x BY <2>1, <2>2 DEF Lowest
  <2> QED BY <1>2, <2>3 DEF Inside
<1> QED BY <1>1, <1>2 DEF Sides

\* A finite set of naturals has a bound; by the least size of one without.
LEMMA FiniteIsBounded ==
  ASSUME NEW T \in SUBSET Nat, IsFiniteSet(T)
  PROVE  \E bound \in Nat : \A x \in T : x <= bound
<1> DEFINE Bounded(X) == \E bound \in Nat : \A x \in X : x <= bound
           Sizes == {n \in Nat : \E X \in SUBSET T : Cardinality(X) = n /\ ~ Bounded(X)}
<1>1. Cardinality(T) \in Nat
  BY FS_CardinalityType
<1>2. SUFFICES ASSUME ~ Bounded(T) PROVE FALSE
  OBVIOUS
<1>3. Sizes # {}
  BY <1>1, <1>2
<1>4. PICK n \in Sizes : \A m \in Sizes : n <= m
  <2>1. Sizes \in SUBSET Nat
    OBVIOUS
  <2> HIDE DEF Sizes
  <2> QED BY <1>3, <2>1, LeastNatural
<1>5. PICK X \in SUBSET T : Cardinality(X) = n /\ ~ Bounded(X)
  OBVIOUS
<1>6. IsFiniteSet(X)
  BY FS_Subset
<1>7. X # {}
  BY <1>5
<1>8. PICK x \in X : TRUE
  BY <1>7
<1>9. Cardinality(X \ {x}) = n - 1 /\ Cardinality(X \ {x}) \in Nat
  BY <1>5, <1>6, <1>8, FS_RemoveElement, FS_CardinalityType
<1>10. n - 1 \in Nat /\ n \in Nat
  BY <1>9
<1>11. n - 1 \notin Sizes
  BY <1>4, <1>10
<1>12. Bounded(X \ {x})
  BY <1>9, <1>10, <1>11
<1>13. PICK bound \in Nat : \A y \in X \ {x} : y <= bound
  BY <1>12
<1>14. x \in Nat /\ x + bound \in Nat
  BY <1>8, <1>13
<1>15. \A y \in X : y <= x + bound
  BY <1>13, <1>14
<1>16. Bounded(X)
  BY <1>14, <1>15
<1> QED BY <1>5, <1>16

------------------------------------------------------------------------------
(* Queues. *)

Distinct(q) == \A i, j \in DOMAIN q : q[i] = q[j] => i = j

\* What stands in queue t stood in queue q, in the same order.
KeepsOrder(q, t) ==
    \A i, j \in DOMAIN t : i < j =>
        \E k, l \in DOMAIN q : k < l /\ q[k] = t[i] /\ q[l] = t[j]

\* A function on 1 .. n is a sequence of that length.
LEMMA IsSequence ==
  ASSUME NEW S, NEW n \in Nat, NEW t \in [1 .. n -> S]
  PROVE  t \in Seq(S) /\ Len(t) = n
<1>1. t \in Seq(S)
  BY SeqDef
<1> QED BY <1>1, LenProperties

\* ClosedUp() closes the gap it leaves.
LEMMA ClosedUpPlaces ==
  ASSUME NEW S, NEW q \in Seq(S), NEW k \in 1 .. Len(q)
  PROVE  /\ ClosedUp(q, k) \in Seq(S)
         /\ Len(ClosedUp(q, k)) = Len(q) - 1
         /\ DOMAIN ClosedUp(q, k) = 1 .. Len(q) - 1
         /\ \A i \in 1 .. Len(q) - 1 :
               ClosedUp(q, k)[i] = q[IF i < k THEN i ELSE i + 1]
<1> DEFINE n == Len(q) - 1
<1>1. n \in Nat /\ DOMAIN q = 1 .. n + 1 /\ q \in [1 .. n + 1 -> S]
  BY LenProperties
<1>2. \A i \in 1 .. n : q[IF i < k THEN i ELSE i + 1] \in S
  BY <1>1
<1>3. ClosedUp(q, k) \in [1 .. n -> S]
  BY <1>2 DEF ClosedUp
<1>4. ClosedUp(q, k) \in Seq(S) /\ Len(ClosedUp(q, k)) = n
  BY <1>1, <1>3, IsSequence
<1>5. \A i \in 1 .. n : ClosedUp(q, k)[i] = q[IF i < k THEN i ELSE i + 1]
  BY Zenon DEF ClosedUp
<1>6. DOMAIN ClosedUp(q, k) = 1 .. n
  BY <1>3
<1> QED BY <1>4, <1>5, <1>6

\* An order that leaves a queue of distinct orders leaves the others queued as
\* they were.
LEMMA Leaving ==
  ASSUME NEW S, NEW q \in Seq(S), Distinct(q), NEW r \in Range(q)
  PROVE  /\ ClosedUp(q, PlaceOf(q, r)) \in Seq(S)
         /\ Distinct(ClosedUp(q, PlaceOf(q, r)))
         /\ Range(ClosedUp(q, PlaceOf(q, r))) = Range(q) \ {r}
         /\ KeepsOrder(q, ClosedUp(q, PlaceOf(q, r)))
<1>0. Len(q) \in Nat /\ DOMAIN q = 1 .. Len(q)
  BY LenProperties
<1>1. PICK k : k = PlaceOf(q, r)
  OBVIOUS
<1>2. k \in 1 .. Len(q) /\ q[k] = r
  <2>1. \E i \in DOMAIN q : q[i] = r
    BY DEF Range
  <2> QED BY <1>0, <1>1, <2>1 DEF PlaceOf
<1>3. PICK t : t = ClosedUp(q, k)
  OBVIOUS
<1>4. /\ t \in Seq(S)
      /\ DOMAIN t = 1 .. Len(q) - 1
      /\ \A i \in 1 .. Len(q) - 1 : t[i] = q[IF i < k THEN i ELSE i + 1]
  BY <1>2, <1>3, ClosedUpPlaces
<1>5. Distinct(t)
  <2>1. ASSUME NEW i \in 1 .. Len(q) - 1, NEW j \in 1 .. Len(q) - 1, t[i] = t[j]
        PROVE  i = j
    <3>1. PICK m : m = IF i < k THEN i ELSE i + 1
      OBVIOUS
    <3>2. PICK l : l = IF j < k THEN j ELSE j + 1
      OBVIOUS
    <3>3. m \in DOMAIN q /\ l \in DOMAIN q
      BY <1>0, <1>2, <3>1, <3>2
    <3>4. q[m] = q[l]
      BY <1>4, <2>1, <3>1, <3>2
    <3>5. m = l
      BY <3>3, <3>4, Zenon DEF Distinct
    <3> QED BY <1>0, <1>2, <3>1, <3>2, <3>5
  <2> QED BY <1>4, <2>1 DEF Distinct
<1>6. ASSUME NEW x \in Range(t) PROVE x \in Range(q) \ {r}
  <2>1. PICK i \in 1 .. Len(q) - 1 : t[i] = x
    BY <1>4 DEF Range
  <2>2. PICK j \in 1 .. Len(q) : j # k /\ q[j] = x
    BY <1>0, <1>2, <1>4, <2>1
  <2>3. x # r
    BY <1>0, <1>2, <2>2 DEF Distinct
  <2> QED BY <1>0, <2>2, <2>3 DEF Range
<1>7. ASSUME NEW x \in Range(q) \ {r} PROVE x \in Range(t)
  <2>1. PICK j \in 1 .. Len(q) : q[j] = x /\ j # k
    BY <1>0, <1>2 DEF Range
  <2>2. \E i \in 1 .. Len(q) - 1 : t[i] = x
    <3>1. CASE j < k
      BY <1>0, <1>2, <1>4, <2>1, <3>1
    <3>2. CASE j > k
      <4>1. j - 1 \in 1 .. Len(q) - 1 /\ ~ (j - 1 < k)
        BY <1>0, <1>2, <3>2
      <4>2. t[j - 1] = q[j]
        BY <1>0, <1>4, <4>1
      <4> QED BY <2>1, <4>1, <4>2
    <3> QED BY <1>0, <1>2, <2>1, <3>1, <3>2
  <2> QED BY <1>4, <2>2 DEF Range
<1>8. KeepsOrder(q, t)
  <2>1. ASSUME NEW i \in DOMAIN t, NEW j \in DOMAIN t, i < j
        PROVE  \E m, l \in DOMAIN q : m < l /\ q[m] = t[i] /\ q[l] = t[j]
    <3>0. i \in 1 .. Len(q) - 1 /\ j \in 1 .. Len(q) - 1
      BY <1>4
    <3>1. PICK m : m = IF i < k THEN i ELSE i + 1
      OBVIOUS
    <3>2. PICK l : l = IF j < k THEN j ELSE j + 1
      OBVIOUS
    <3>3. m \in DOMAIN q /\ l \in DOMAIN q /\ m < l
      BY <1>0, <1>2, <2>1, <3>0, <3>1, <3>2
    <3>4. q[m] = t[i] /\ q[l] = t[j]
      BY <1>4, <3>0, <3>1, <3>2
    <3> QED BY <3>3, <3>4, Zenon
  <2> QED BY <2>1, Zenon DEF KeepsOrder
<1> QED BY <1>1, <1>3, <1>4, <1>5, <1>6, <1>7, <1>8

\* An order that joins a queue joins its back.
LEMMA Joining ==
  ASSUME NEW S, NEW q \in Seq(S), Distinct(q), NEW r \in S, r \notin Range(q)
  PROVE  /\ Append(q, r) \in Seq(S)
         /\ Distinct(Append(q, r))
         /\ Range(Append(q, r)) = Range(q) \cup {r}
         /\ \A i, j \in DOMAIN Append(q, r) : i < j =>
               /\ i \in DOMAIN q /\ Append(q, r)[i] = q[i]
               /\ \/ j = Len(Append(q, r)) /\ Append(q, r)[j] = r
                  \/ j \in DOMAIN q /\ Append(q, r)[j] = q[j]
<1>0. Len(q) \in Nat /\ DOMAIN q = 1 .. Len(q)
  BY LenProperties
<1>1. PICK t : t = Append(q, r)
  OBVIOUS
<1>2. t \in Seq(S) /\ Len(t) = Len(q) + 1 /\ DOMAIN t = 1 .. Len(q) + 1
  BY <1>0, <1>1
<1>3. t[Len(q) + 1] = r /\ \A i \in 1 .. Len(q) : t[i] = q[i]
  BY <1>0, <1>1
<1>4. Distinct(t)
  BY <1>0, <1>2, <1>3 DEF Distinct, Range
<1>5. Range(t) = Range(q) \cup {r}
  BY <1>0, <1>2, <1>3 DEF Range
<1>6. \A i, j \in DOMAIN t : i < j =>
         /\ i \in DOMAIN q /\ t[i] = q[i]
         /\ \/ j = Len(t) /\ t[j] = r
            \/ j \in DOMAIN q /\ t[j] = q[j]
  BY <1>0, <1>2, <1>3
<1> QED BY <1>1, <1>2, <1>4, <1>5, <1>6

------------------------------------------------------------------------------
(* Sums over finite sets. *)

Pick(s) == CHOOSE x \in s : TRUE

\* g[s] is the sum of f over s, for each s of D.
Sums(f, D, g) ==
    g = [s \in D |-> IF s = {} THEN 0 ELSE f[Pick(s)] + g[s \ {Pick(s)}]]

LEMMA SumIsOfSums ==
  ASSUME NEW f, NEW S
  PROVE  SumFunctionOnSet(f, S) = (CHOOSE g : Sums(f, SUBSET S, g))[S]
  BY Zenon DEF SumFunctionOnSet, FoldFunctionOnSet, MapThenFoldSet, Sums, Pick

LEMMA SumStep ==
  ASSUME NEW f, NEW D, NEW g, Sums(f, D, g), NEW s \in D
  PROVE  g[s] = IF s = {} THEN 0 ELSE f[Pick(s)] + g[s \ {Pick(s)}]
<1>1. PICK k : k = g
  OBVIOUS
<1>2. k = [t \in D |-> IF t = {} THEN 0 ELSE f[Pick(t)] + g[t \ {Pick(t)}]]
  BY <1>1 DEF Sums
<1>3. k[s] = IF s = {} THEN 0 ELSE f[Pick(s)] + g[s \ {Pick(s)}]
  BY <1>2
<1> QED BY <1>1, <1>3

\* There are such sums over a finite set; by the least size for which there are
\* none.
LEMMA SumsExist ==
  ASSUME NEW f, NEW S, IsFiniteSet(S)
  PROVE  \E g : Sums(f, SUBSET S, g)
<1> DEFINE D(n) == {s \in SUBSET S : Cardinality(s) <= n}
           Failing == {n \in Nat : ~ \E g : Sums(f, D(n), g)}
<1>1. \A s \in SUBSET S : IsFiniteSet(s) /\ Cardinality(s) \in Nat
  BY FS_Subset, FS_CardinalityType
<1>2. 0 \notin Failing
  <2>1. PICK g : g = [s \in D(0) |-> 0]
    OBVIOUS
  <2>2. \A s \in D(0) : s = {}
    BY <1>1, FS_EmptySet
  <2>3. g = [s \in D(0) |-> IF s = {} THEN 0 ELSE f[Pick(s)] + g[s \ {Pick(s)}]]
    BY <2>1, <2>2
  <2>4. Sums(f, D(0), g)
    BY <2>3 DEF Sums
  <2> QED BY <2>4
<1>3. ASSUME NEW n \in Nat, n \notin Failing PROVE n + 1 \notin Failing
  <2>1. PICK g : Sums(f, D(n), g)
    BY <1>3
  <2>2. PICK h : h = [s \in D(n + 1) |-> IF s = {} THEN 0 ELSE f[Pick(s)] + g[s \ {Pick(s)}]]
    OBVIOUS
  <2>3. ASSUME NEW s \in D(n) PROVE s \in D(n + 1) /\ h[s] = g[s]
    <3>1. s \in D(n + 1)
      BY <1>1
    <3> HIDE DEF D
    <3>2. g[s] = IF s = {} THEN 0 ELSE f[Pick(s)] + g[s \ {Pick(s)}]
      BY <2>1, SumStep
    <3>3. h[s] = IF s = {} THEN 0 ELSE f[Pick(s)] + g[s \ {Pick(s)}]
      BY <2>2, <3>1
    <3> QED BY <3>1, <3>2, <3>3
  <2>4. ASSUME NEW s \in D(n + 1), s # {} PROVE s \ {Pick(s)} \in D(n)
    <3>1. Pick(s) \in s
      BY <2>4 DEF Pick
    <3>2. Cardinality(s \ {Pick(s)}) = Cardinality(s) - 1
      BY <1>1, <3>1, FS_RemoveElement
    <3>3. s \ {Pick(s)} \in SUBSET S
      OBVIOUS
    <3>4. Cardinality(s) \in Nat /\ Cardinality(s) <= n + 1
      BY <1>1
    <3>5. Cardinality(s \ {Pick(s)}) <= n
      BY <3>2, <3>4
    <3> QED BY <3>3, <3>5
  <2>5. h = [s \in D(n + 1) |-> IF s = {} THEN 0 ELSE f[Pick(s)] + h[s \ {Pick(s)}]]
    <3> HIDE DEF D
    <3> QED BY <2>2, <2>3, <2>4
  <2>6. Sums(f, D(n + 1), h)
    BY <2>5 DEF Sums
  <2> QED BY <2>6
<1>4. Failing = {}
  <2>1. SUFFICES ASSUME Failing # {} PROVE FALSE
    OBVIOUS
  <2>2. PICK n \in Failing : \A m \in Failing : n <= m
    <3>1. Failing \in SUBSET Nat
      OBVIOUS
    <3> HIDE DEF Failing
    <3> QED BY <2>1, <3>1, LeastNatural
  <2>3. n \in Nat /\ n # 0
    BY <1>2
  <2>4. n - 1 \in Nat /\ n - 1 \notin Failing
    <3> HIDE DEF Failing
    <3> QED BY <2>2, <2>3
  <2>5. (n - 1) + 1 \notin Failing
    <3> HIDE DEF Failing
    <3> QED BY <1>3, <2>4
  <2>6. (n - 1) + 1 = n
    BY <2>3
  <2> QED BY <2>5, <2>6
<1>5. Cardinality(S) \in Nat /\ D(Cardinality(S)) = SUBSET S
  <2>1. \A s \in SUBSET S : Cardinality(s) <= Cardinality(S)
    BY FS_Subset
  <2> QED BY <2>1, FS_CardinalityType
<1>6. \E g : Sums(f, D(Cardinality(S)), g)
  BY <1>4, <1>5
<1> QED BY <1>5, <1>6

LEMMA SumsAgree ==
  ASSUME NEW f, NEW S, IsFiniteSet(S), NEW T, IsFiniteSet(T), NEW g, NEW h,
         Sums(f, SUBSET S, g), Sums(f, SUBSET T, h)
  PROVE  \A s \in SUBSET (S \cap T) : g[s] = h[s]
<1> DEFINE U == S \cap T
           Failing == {n \in Nat : \E s \in SUBSET U : Cardinality(s) = n /\ g[s] # h[s]}
<1>1. \A s \in SUBSET U : IsFiniteSet(s) /\ Cardinality(s) \in Nat
  BY FS_Subset, FS_CardinalityType
<1>2. SUFFICES ASSUME NEW t \in SUBSET U, g[t] # h[t] PROVE FALSE
  OBVIOUS
<1>3. Failing # {}
  BY <1>1, <1>2
<1>4. PICK n \in Failing : \A m \in Failing : n <= m
  <2>1. Failing \in SUBSET Nat
    OBVIOUS
  <2> HIDE DEF Failing
  <2> QED BY <1>3, <2>1, LeastNatural
<1>5. PICK s \in SUBSET U : Cardinality(s) = n /\ g[s] # h[s]
  OBVIOUS
<1>6. s \in SUBSET S /\ s \in SUBSET T
  OBVIOUS
<1>7. g[s] = IF s = {} THEN 0 ELSE f[Pick(s)] + g[s \ {Pick(s)}]
  <2>1. PICK D : D = SUBSET S
    OBVIOUS
  <2>2. Sums(f, D, g) /\ s \in D
    BY <1>6, <2>1
  <2> HIDE DEF U, Failing
  <2> QED BY <2>2, SumStep
<1>8. h[s] = IF s = {} THEN 0 ELSE f[Pick(s)] + h[s \ {Pick(s)}]
  <2>1. PICK D : D = SUBSET T
    OBVIOUS
  <2>2. Sums(f, D, h) /\ s \in D
    BY <1>6, <2>1
  <2> HIDE DEF U, Failing
  <2> QED BY <2>2, SumStep
<1>9. s # {} /\ Pick(s) \in s
  BY <1>5, <1>7, <1>8 DEF Pick
<1>10. PICK x \in s : x = Pick(s)
  BY <1>9
<1>11. Cardinality(s \ {x}) = n - 1 /\ Cardinality(s \ {x}) \in Nat /\ n \in Nat
  BY <1>1, <1>5, <1>10, FS_RemoveElement
<1>12. s \ {x} \in SUBSET U /\ g[s \ {x}] # h[s \ {x}]
  BY <1>5, <1>7, <1>8, <1>9, <1>10
<1>13. n - 1 \in Failing
  BY <1>11, <1>12
<1>14. n <= n - 1
  <2> HIDE DEF Failing
  <2> QED BY <1>4, <1>13
<1> QED BY <1>11, <1>14

LEMMA SumChosen ==
  ASSUME NEW f, NEW S, IsFiniteSet(S)
  PROVE  SumFunctionOnSet(f, S) = IF S = {} THEN 0
            ELSE f[Pick(S)] + SumFunctionOnSet(f, S \ {Pick(S)})
<1>1. PICK g : g = CHOOSE w : Sums(f, SUBSET S, w)
  OBVIOUS
<1>2. Sums(f, SUBSET S, g) /\ SumFunctionOnSet(f, S) = g[S]
  BY <1>1, SumsExist, SumIsOfSums
<1>3. g[S] = IF S = {} THEN 0 ELSE f[Pick(S)] + g[S \ {Pick(S)}]
  BY <1>2, SumStep
<1>4. PICK T : T = S \ {Pick(S)}
  OBVIOUS
<1>5. IsFiniteSet(T) /\ T \in SUBSET S
  BY <1>4, FS_Subset
<1>6. PICK h : h = CHOOSE w : Sums(f, SUBSET T, w)
  OBVIOUS
<1>7. Sums(f, SUBSET T, h) /\ SumFunctionOnSet(f, T) = h[T]
  BY <1>5, <1>6, SumsExist, SumIsOfSums
<1>8. T \in SUBSET (S \cap T)
  BY <1>5
<1>9. g[T] = h[T]
  <2>1. \A s \in SUBSET (S \cap T) : g[s] = h[s]
    <3>1. Sums(f, SUBSET T, h)
      BY <1>7
    <3>2. Sums(f, SUBSET S, g)
      BY <1>2
    <3>3. IsFiniteSet(T)
      BY <1>5
    <3> QED BY <3>1, <3>2, <3>3, SumsAgree
  <2> QED BY <1>8, <2>1
<1>10. g[S \ {Pick(S)}] = SumFunctionOnSet(f, S \ {Pick(S)})
  BY <1>4, <1>7, <1>9, Zenon
<1> QED BY <1>2, <1>3, <1>10, Zenon

\* A sum is a number, and is the sum without any one element and that element.
LEMMA SumSplits ==
  ASSUME NEW f, NEW S, IsFiniteSet(S), \A x \in S : f[x] \in Int
  PROVE  /\ SumFunctionOnSet(f, S) \in Int
         /\ \A x \in S : SumFunctionOnSet(f, S) = f[x] + SumFunctionOnSet(f, S \ {x})
<1> DEFINE Good(s) ==
      /\ SumFunctionOnSet(f, s) \in Int
      /\ \A x \in s : SumFunctionOnSet(f, s) = f[x] + SumFunctionOnSet(f, s \ {x})
<1> DEFINE Failing == {n \in Nat : \E s \in SUBSET S : Cardinality(s) = n /\ ~ Good(s)}
<1>1. \A s \in SUBSET S : IsFiniteSet(s) /\ Cardinality(s) \in Nat
  BY FS_Subset, FS_CardinalityType
<1>2. SUFFICES ASSUME ~ Good(S) PROVE FALSE
  OBVIOUS
<1>3. Failing # {}
  <2> HIDE DEF Good
  <2> QED BY <1>1, <1>2
<1>4. PICK n \in Failing : \A m \in Failing : n <= m
  <2>1. Failing \in SUBSET Nat
    OBVIOUS
  <2> HIDE DEF Failing
  <2> QED BY <1>3, <2>1, LeastNatural
<1>5. PICK s \in SUBSET S : Cardinality(s) = n /\ ~ Good(s)
  <2> HIDE DEF Good
  <2> QED OBVIOUS
<1>6. ASSUME NEW t \in SUBSET S, Cardinality(t) < n PROVE Good(t)
  <2> HIDE DEF Good
  <2>1. n \in Nat /\ Cardinality(t) \in Nat
    BY <1>1, <1>5
  <2>2. Cardinality(t) \notin Failing
    <3> HIDE DEF Failing
    <3> QED BY <1>4, <1>6, <2>1
  <2> QED BY <2>1, <2>2
<1>7. s # {}
  <2>1. s = {} => SumFunctionOnSet(f, s) = 0
    BY <1>1, SumChosen
  <2> QED BY <1>5, <2>1
<1>8. PICK y \in s : y = Pick(s)
  BY <1>7 DEF Pick
<1>9. \A x \in s : /\ s \ {x} \in SUBSET S
                   /\ Cardinality(s \ {x}) = n - 1 /\ n \in Nat
                   /\ Cardinality(s \ {x}) < n
  BY <1>1, <1>5, FS_RemoveElement
<1>10. \A x \in s : Good(s \ {x})
  <2> HIDE DEF Good
  <2> QED BY <1>6, <1>9
<1>11. SumFunctionOnSet(f, s) = f[y] + SumFunctionOnSet(f, s \ {y})
  BY <1>1, <1>7, <1>8, SumChosen
<1>12. SumFunctionOnSet(f, s) \in Int
  BY <1>10, <1>11
<1>13. ASSUME NEW x \in s
       PROVE  SumFunctionOnSet(f, s) = f[x] + SumFunctionOnSet(f, s \ {x})
  <2>1. CASE x = y
    BY <1>11, <2>1
  <2>2. CASE x # y
    <3>1. x \in s \ {y} /\ y \in s \ {x}
      BY <2>2
    <3>2. PICK t : t = s \ {x, y}
      OBVIOUS
    <3>3. (s \ {y}) \ {x} = t /\ (s \ {x}) \ {y} = t
      BY <3>2
    <3>4. SumFunctionOnSet(f, s \ {y}) = f[x] + SumFunctionOnSet(f, t)
      BY <1>10, <3>1, <3>3
    <3>5. SumFunctionOnSet(f, s \ {x}) = f[y] + SumFunctionOnSet(f, t)
      BY <1>10, <3>1, <3>3
    <3>6. t \in SUBSET S /\ Cardinality(t) < n
      <4>1. PICK u : u = s \ {y}
        OBVIOUS
      <4>2. IsFiniteSet(u) /\ Cardinality(u) = n - 1 /\ n \in Nat /\ x \in u
        BY <1>1, <1>9, <3>1, <4>1
      <4>3. Cardinality(u \ {x}) = Cardinality(u) - 1
        BY <4>2, FS_RemoveElement
      <4>4. t = u \ {x} /\ t \in SUBSET S
        BY <3>3, <4>1
      <4> QED BY <4>2, <4>3, <4>4
    <3>7. SumFunctionOnSet(f, t) \in Int
      BY <1>6, <3>6
    <3> QED BY <1>11, <3>4, <3>5, <3>7
  <2> QED BY <2>1, <2>2
<1> QED BY <1>5, <1>12, <1>13

LEMMA SumEmpty == \A f : SumFunctionOnSet(f, {}) = 0
  BY SumChosen, FS_EmptySet

\* Functions that agree on a set have one sum over it.
LEMMA SumSame ==
  ASSUME NEW f, NEW g, NEW S, IsFiniteSet(S), \A x \in S : f[x] = g[x]
  PROVE  SumFunctionOnSet(f, S) = SumFunctionOnSet(g, S)
<1>1. PICK h : h = CHOOSE w : Sums(f, SUBSET S, w)
  OBVIOUS
<1>2. Sums(f, SUBSET S, h) /\ SumFunctionOnSet(f, S) = h[S]
  BY <1>1, SumsExist, SumIsOfSums
<1>3. PICK k : k = CHOOSE w : Sums(g, SUBSET S, w)
  OBVIOUS
<1>4. Sums(g, SUBSET S, k) /\ SumFunctionOnSet(g, S) = k[S]
  BY <1>3, SumsExist, SumIsOfSums
<1>5. Sums(g, SUBSET S, h)
  <2>1. \A s \in SUBSET S : s # {} => f[Pick(s)] = g[Pick(s)]
    BY DEF Pick
  <2>2. [s \in SUBSET S |-> IF s = {} THEN 0 ELSE f[Pick(s)] + h[s \ {Pick(s)}]]
          = [s \in SUBSET S |-> IF s = {} THEN 0 ELSE g[Pick(s)] + h[s \ {Pick(s)}]]
    BY <2>1
  <2> QED BY <1>2, <2>2, Zenon DEF Sums
<1>6. h[S] = k[S]
  BY <1>4, <1>5, SumsAgree
<1> QED BY <1>2, <1>4, <1>6

\* Noughts come to nothing: their sums are found by guessing them.
LEMMA SumZero ==
  ASSUME NEW f, NEW S, IsFiniteSet(S), \A x \in S : f[x] = 0
  PROVE  SumFunctionOnSet(f, S) = 0
<1>1. PICK g : g = [s \in SUBSET S |-> 0]
  OBVIOUS
<1>2. PICK h : h = CHOOSE w : Sums(f, SUBSET S, w)
  OBVIOUS
<1>3. Sums(f, SUBSET S, h) /\ SumFunctionOnSet(f, S) = h[S]
  BY <1>2, SumsExist, SumIsOfSums
<1>4. Sums(f, SUBSET S, g)
  <2>1. \A s \in SUBSET S : s # {} => f[Pick(s)] = 0 /\ s \ {Pick(s)} \in SUBSET S
    BY DEF Pick
  <2>2. g = [s \in SUBSET S |-> IF s = {} THEN 0 ELSE f[Pick(s)] + g[s \ {Pick(s)}]]
    BY <1>1, <2>1
  <2> QED BY <2>2 DEF Sums
<1>5. h[S] = g[S]
  BY <1>3, <1>4, SumsAgree
<1> QED BY <1>1, <1>3, <1>5

\* An element more.
LEMMA SumGrows ==
  ASSUME NEW f, NEW S, IsFiniteSet(S), NEW x, x \notin S, \A y \in S \cup {x} : f[y] \in Int
  PROVE  SumFunctionOnSet(f, S \cup {x}) = SumFunctionOnSet(f, S) + f[x]
<1>1. PICK T : T = S \cup {x}
  OBVIOUS
<1>2. IsFiniteSet(T) /\ x \in T /\ T \ {x} = S
  BY <1>1, FS_AddElement
<1>3. SumFunctionOnSet(f, T) = f[x] + SumFunctionOnSet(f, S)
  BY <1>1, <1>2, SumSplits
<1>4. SumFunctionOnSet(f, S) \in Int /\ f[x] \in Int
  BY SumSplits
<1> QED BY <1>1, <1>3, <1>4

\* An element with another value.
LEMMA SumChanges ==
  ASSUME NEW f, NEW g, NEW S, IsFiniteSet(S), NEW x \in S,
         \A y \in S : f[y] \in Int /\ g[y] \in Int,
         \A y \in S \ {x} : f[y] = g[y]
  PROVE  SumFunctionOnSet(g, S) = SumFunctionOnSet(f, S) - f[x] + g[x]
<1>1. SumFunctionOnSet(f, S) = f[x] + SumFunctionOnSet(f, S \ {x})
  BY SumSplits
<1>2. SumFunctionOnSet(g, S) = g[x] + SumFunctionOnSet(g, S \ {x})
  BY SumSplits
<1>3. IsFiniteSet(S \ {x})
  BY FS_RemoveElement
<1>4. SumFunctionOnSet(f, S \ {x}) = SumFunctionOnSet(g, S \ {x})
  BY <1>3, SumSame
<1>5. SumFunctionOnSet(f, S \ {x}) \in Int
  BY <1>3, SumSplits
<1> QED BY <1>1, <1>2, <1>4, <1>5

\* Sums of naturals are naturals: by the least size of a set whose sum is none.
LEMMA SumOfNaturals ==
  ASSUME NEW f, NEW S, IsFiniteSet(S), \A x \in S : f[x] \in Nat
  PROVE  SumFunctionOnSet(f, S) \in Nat
<1> DEFINE Failing ==
             {n \in Nat : \E s \in SUBSET S : Cardinality(s) = n /\ SumFunctionOnSet(f, s) \notin Nat}
<1>1. ASSUME NEW s \in SUBSET S
      PROVE  IsFiniteSet(s) /\ Cardinality(s) \in Nat /\ \A x \in s : f[x] \in Nat /\ f[x] \in Int
  BY FS_Subset, FS_CardinalityType
<1>2. SUFFICES ASSUME SumFunctionOnSet(f, S) \notin Nat PROVE FALSE
  OBVIOUS
<1>3. Failing \in SUBSET Nat /\ Failing # {}
  <2>1. S \in SUBSET S /\ Cardinality(S) \in Nat
    BY FS_CardinalityType
  <2>2. Cardinality(S) \in Failing
    BY <1>2, <2>1
  <2> QED BY <2>2
<1>4. PICK m \in Failing : \A n \in Failing : m <= n
  <2> HIDE DEF Failing
  <2> QED BY <1>3, LeastNatural
<1>5. PICK s \in SUBSET S : Cardinality(s) = m /\ SumFunctionOnSet(f, s) \notin Nat
  BY <1>4
<1>6. s # {}
  BY <1>5, SumEmpty
<1>7. PICK x : x \in s
  BY <1>6
<1>8. PICK t \in SUBSET S : t = s \ {x}
  BY <1>5
<1>9. IsFiniteSet(s) /\ Cardinality(s) \in Nat /\ f[x] \in Nat /\ \A y \in s : f[y] \in Int
  BY <1>1, <1>7
<1>10. Cardinality(t) = m - 1
  BY <1>5, <1>7, <1>8, <1>9, FS_RemoveElement
<1>11. Cardinality(t) \in Nat
  BY <1>1
<1>12. SumFunctionOnSet(f, t) \in Nat
  <2>1. m \in Nat
    BY <1>4
  <2>2. ~ (m - 1 \in Failing)
    <3>1. ~ (m <= m - 1)
      BY <2>1
    <3> HIDE DEF Failing
    <3> QED BY <1>4, <3>1, Zenon
  <2> QED BY <1>10, <1>11, <2>2
<1>13. SumFunctionOnSet(f, s) = f[x] + SumFunctionOnSet(f, t)
  BY <1>7, <1>8, <1>9, SumSplits
<1> QED BY <1>5, <1>9, <1>12, <1>13

\* Two sets that share nothing; by the least size of one whose sum does not add.
LEMMA SumJoined ==
  ASSUME NEW f, NEW S, NEW T, IsFiniteSet(S), IsFiniteSet(T), S \cap T = {},
         \A x \in S \cup T : f[x] \in Int
  PROVE  SumFunctionOnSet(f, S \cup T) = SumFunctionOnSet(f, S) + SumFunctionOnSet(f, T)
<1> DEFINE Adds(s) ==
             SumFunctionOnSet(f, s \cup T) = SumFunctionOnSet(f, s) + SumFunctionOnSet(f, T)
           Failing == {n \in Nat : \E s \in SUBSET S : Cardinality(s) = n /\ ~ Adds(s)}
<1>1. ASSUME NEW s \in SUBSET S
      PROVE  /\ IsFiniteSet(s) /\ Cardinality(s) \in Nat /\ IsFiniteSet(s \cup T)
             /\ \A x \in s : f[x] \in Int
             /\ \A x \in s \cup T : f[x] \in Int
  BY FS_Subset, FS_CardinalityType, FS_Union
<1>2. SUFFICES ASSUME ~ Adds(S) PROVE FALSE
  OBVIOUS
<1>3. Failing \in SUBSET Nat /\ Failing # {}
  <2>1. S \in SUBSET S /\ Cardinality(S) \in Nat
    BY FS_CardinalityType
  <2>2. Cardinality(S) \in Failing
    <3> HIDE DEF Adds
    <3> QED BY <1>2, <2>1
  <2> QED BY <2>2
<1>4. PICK m \in Failing : \A n \in Failing : m <= n
  <2> HIDE DEF Failing
  <2> QED BY <1>3, LeastNatural
<1>5. PICK s \in SUBSET S : Cardinality(s) = m /\ ~ Adds(s)
  <2> HIDE DEF Adds
  <2> QED BY <1>4
<1>6. SumFunctionOnSet(f, T) \in Int
  BY SumSplits
<1>7. s # {}
  <2>1. SUFFICES ASSUME s = {} PROVE FALSE
    OBVIOUS
  <2>2. s \cup T = T
    BY <2>1
  <2> QED BY <1>5, <1>6, <2>1, <2>2, SumEmpty
<1>8. PICK x : x \in s
  BY <1>7
<1>9. PICK t \in SUBSET S : t = s \ {x}
  BY <1>5
<1>10. (s \cup T) \ {x} = t \cup T /\ x \in s \cup T /\ x \in S
  BY <1>8, <1>9
<1>11. Cardinality(t) \in Nat /\ Cardinality(t) = m - 1
  BY <1>1, <1>5, <1>8, <1>9, FS_RemoveElement
<1>12. Adds(t)
  <2> HIDE DEF Adds
  <2>1. m \in Nat
    BY <1>4
  <2>2. ~ (m - 1 \in Failing)
    <3>1. ~ (m <= m - 1)
      BY <2>1
    <3> HIDE DEF Failing
    <3> QED BY <1>4, <3>1, Zenon
  <2> QED BY <1>11, <2>2
<1>13. SumFunctionOnSet(f, s) = f[x] + SumFunctionOnSet(f, t)
  <2>1. IsFiniteSet(s) /\ \A y \in s : f[y] \in Int
    BY <1>1
  <2>2. SumFunctionOnSet(f, s) = f[x] + SumFunctionOnSet(f, s \ {x})
    BY <1>8, <2>1, SumSplits
  <2> QED BY <1>9, <2>2
<1>14. SumFunctionOnSet(f, s \cup T) = f[x] + SumFunctionOnSet(f, t \cup T)
  <2>1. PICK u : u = s \cup T
    OBVIOUS
  <2>2. IsFiniteSet(u) /\ x \in u /\ \A y \in u : f[y] \in Int
    BY <1>1, <1>10, <2>1
  <2>3. SumFunctionOnSet(f, u) = f[x] + SumFunctionOnSet(f, u \ {x})
    BY <2>2, SumSplits
  <2>4. u \ {x} = t \cup T
    BY <1>10, <2>1
  <2> QED BY <2>1, <2>3, <2>4
<1>15. SumFunctionOnSet(f, t) \in Int /\ f[x] \in Int
  BY <1>1, <1>10, SumSplits
<1> QED BY <1>5, <1>6, <1>12, <1>13, <1>14, <1>15

------------------------------------------------------------------------------
(* Reading a set outwards. *)

\* How many of a set come before a price.
Rank(side, S, p) == Cardinality({q \in S : Before(side, q, p)})

\* q runs strictly outwards.
InOrder(side, q) == \A i, j \in 1 .. Len(q) : i < j => Before(side, q[i], q[j])

\* o is a sequence of all of a set, strictly outwards.
ReadsOutwards(side, S, o) ==
    /\ o \in Seq(S) /\ Len(o) = Cardinality(S) /\ Len(o) \in Nat
    /\ \A p \in S : \E i \in 1 .. Len(o) : o[i] = p
    /\ InOrder(side, o)

\* Reading a finite set outwards gives a sequence of all its elements in order.
LEMMA OutwardsFacts ==
  ASSUME NEW S \in SUBSET Nat, IsFiniteSet(S), NEW side \in Sides
  PROVE  ReadsOutwards(side, S, Outwards(side, S))
<1>1. PICK o : o = Outwards(side, S)
  OBVIOUS
<1> DEFINE n == Cardinality(S)
           before(p) == {q \in S : Before(side, q, p)}
           place == [p \in S |-> Rank(side, S, p) + 1]
<1>2. n \in Nat
  BY FS_CardinalityType
<1>3. \A p, q, r \in S :
        /\ ~ Before(side, p, p)
        /\ p = q \/ Before(side, p, q) \/ Before(side, q, p)
        /\ Before(side, p, q) /\ Before(side, q, r) => Before(side, p, r)
  <2>1. \A p \in S : p \in Nat
    OBVIOUS
  <2> QED  BY <2>1 DEF Before
<1>4. ASSUME NEW p \in S
      PROVE  /\ IsFiniteSet(before(p)) /\ p \notin before(p)
             /\ Rank(side, S, p) = Cardinality(before(p))
             /\ Rank(side, S, p) \in 0 .. n - 1
  <2>1. p \notin before(p)
    BY <1>3
  <2>2. IsFiniteSet(S \ {p}) /\ Cardinality(S \ {p}) = n - 1
    BY FS_RemoveElement
  <2>3. before(p) \in SUBSET (S \ {p})
    BY <2>1
  <2>4. IsFiniteSet(before(p)) /\ Cardinality(before(p)) <= n - 1
    BY <2>2, <2>3, FS_Subset
  <2>5. Cardinality(before(p)) \in Nat
    BY <2>4, FS_CardinalityType
  <2> QED  BY <1>2, <2>1, <2>4, <2>5 DEF Rank
<1> HIDE DEF n
<1>5. ASSUME NEW p \in S, NEW q \in S, Before(side, p, q)
      PROVE  Rank(side, S, p) < Rank(side, S, q)
  <2>1. before(p) \cup {p} \in SUBSET before(q)
    BY <1>3, <1>5
  <2> HIDE DEF before
  <2>2. /\ Cardinality(before(p) \cup {p}) = Rank(side, S, p) + 1
        /\ Rank(side, S, p) \in Nat /\ Rank(side, S, q) \in Nat
    <3>1. IsFiniteSet(before(p)) /\ p \notin before(p)
      BY <1>4
    <3>2. Cardinality(before(p) \cup {p}) = Cardinality(before(p)) + 1
      BY <3>1, FS_AddElement
    <3>3. Rank(side, S, p) = Cardinality(before(p)) /\ Rank(side, S, p) \in 0 .. n - 1
      BY <1>4
    <3>4. Rank(side, S, q) \in 0 .. n - 1
      BY <1>4
    <3> QED  BY <1>2, <3>2, <3>3, <3>4
  <2>3. Cardinality(before(p) \cup {p}) <= Rank(side, S, q)
    BY <1>4, <2>1, FS_Subset
  <2> QED  BY <2>2, <2>3
<1> HIDE DEF before
<1>6. place \in Injection(S, 1 .. n)
  <2>1. \A p \in S : place[p] \in 1 .. n
    BY <1>2, <1>4
  <2>2. \A p, q \in S : place[p] = place[q] => p = q
    <3> SUFFICES ASSUME NEW p \in S, NEW q \in S, p # q PROVE place[p] # place[q]
      OBVIOUS
    <3>1. Rank(side, S, p) \in Int /\ Rank(side, S, q) \in Int
      BY <1>4
    <3> QED  BY <1>3, <1>5, <3>1
  <2> QED  BY <2>1, <2>2 DEF Injection, IsInjective
<1>7. place \in Surjection(S, 1 .. n)
  <2>1. IsFiniteSet(1 .. n) /\ Cardinality(1 .. n) = n
    BY <1>2, FS_Interval
  <2> HIDE DEF place
  <2> QED  BY <1>2, <1>6, <2>1, FS_Injection DEF n
<1>8. o = [i \in 1 .. n |-> CHOOSE x \in S : Rank(side, S, x) = i - 1]
  BY <1>1 DEF Outwards, Rank, n
<1>9. ASSUME NEW i \in 1 .. n
      PROVE  o[i] \in S /\ Rank(side, S, o[i]) = i - 1
  <2>1. PICK p \in S : place[p] = i
    BY <1>7 DEF Surjection
  <2>2. Rank(side, S, p) \in Int
    BY <1>4
  <2>3. Rank(side, S, p) = i - 1
    BY <2>1, <2>2
  <2>4. o[i] = CHOOSE x \in S : Rank(side, S, x) = i - 1
    BY <1>8
  <2> QED  BY <2>3, <2>4
<1>10. o = [i \in 1 .. n |-> o[i]]
  BY <1>8
<1>11. o \in [1 .. n -> S]
  BY <1>9, <1>10
<1>12. o \in Seq(S) /\ Len(o) = n
  BY <1>2, <1>11, IsSequence
<1>13. ASSUME NEW p \in S PROVE \E i \in 1 .. n : o[i] = p
  <2>1. Rank(side, S, p) + 1 \in 1 .. n
    BY <1>2, <1>4
  <2>2. PICK i \in 1 .. n : i = Rank(side, S, p) + 1
    BY <2>1
  <2>3. o[i] \in S /\ Rank(side, S, o[i]) = Rank(side, S, p) /\ Rank(side, S, p) \in Int
    BY <1>4, <1>9, <2>2
  <2>4. o[i] = p
    <3>1. /\ Before(side, o[i], p) => Rank(side, S, o[i]) < Rank(side, S, p)
          /\ Before(side, p, o[i]) => Rank(side, S, p) < Rank(side, S, o[i])
      BY <1>5, <2>3
    <3>2. ~ Before(side, o[i], p) /\ ~ Before(side, p, o[i])
      BY <2>3, <3>1
    <3> QED  BY <1>3, <2>3, <3>2
  <2> QED  BY <2>4
<1>14. ASSUME NEW i \in 1 .. n, NEW j \in 1 .. n, i < j PROVE Before(side, o[i], o[j])
  <2>1. /\ o[i] \in S /\ Rank(side, S, o[i]) = i - 1
        /\ o[j] \in S /\ Rank(side, S, o[j]) = j - 1
    BY <1>9
  <2>2. i - 1 < j - 1 /\ i - 1 \in Int /\ j - 1 \in Int
    BY <1>14
  <2>3. o[i] # o[j] /\ ~ Before(side, o[j], o[i])
    <3>1. Before(side, o[j], o[i]) => Rank(side, S, o[j]) < Rank(side, S, o[i])
      BY <1>5, <2>1
    <3> QED  BY <2>1, <2>2, <3>1
  <2> QED  BY <1>3, <2>1, <2>3
<1> QED  BY <1>1, <1>2, <1>12, <1>13, <1>14 DEF n, ReadsOutwards, InOrder
==============================================================================
