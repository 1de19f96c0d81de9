------------------------------ MODULE OrderIndex ------------------------------
(***************************************************************************)
(* itch::book::OrderIndex: the open-addressed table from order reference   *)
(* to handle, with linear probing and backward-shift deletion (Knuth's     *)
(* algorithm R).  A pass of erase_at()'s inner loop is a step, so that its *)
(* loop invariant can be stated; find() and insert() are single steps.     *)
(*                                                                         *)
(* The hash is any function of the reference, so both IndexHash choices    *)
(* are covered.  Probe and shift counters are left out.                    *)
(***************************************************************************)
EXTENDS Integers, FiniteSets, FiniteSetsExt

CONSTANTS
    Size,       \* number of slots
    Ideals,     \* the slots a reference may hash to
    Refs,       \* order references
    RefHandles, \* order handles
    NullHandle, \* the null handle
    Empty       \* a slot whose handle is null

\* The constructor makes no table of fewer than 16 slots.
ASSUME OrderIndexAssumption ==
    /\ Size \in Nat /\ Size > 1
    /\ Ideals \subseteq 0 .. Size - 1
    /\ NullHandle \notin RefHandles \cup (0 .. Size - 1)
    /\ Empty \notin [ref : Refs, handle : RefHandles]

VARIABLES
    hash,       \* hash(ref) & mask_, fixed
    slots,      \* slots_
    indexed,    \* live_
    hole,       \* i of erase_at() while it runs, NullHandle otherwise
    scan        \* j of erase_at()

indexVars == <<hash, slots, indexed, hole, scan>>

TableSlots == 0 .. Size - 1

Entries == [ref : Refs, handle : RefHandles]

Occupied == {i \in TableSlots : slots[i] # Empty}

Erasing == hole # NullHandle

IndexTypeOK ==
    /\ hash \in [Refs -> Ideals]
    /\ slots \in [TableSlots -> Entries \cup {Empty}]
    /\ indexed \in 0 .. Size
    /\ hole \in TableSlots \cup {NullHandle}
    /\ scan \in TableSlots

IndexInit ==
    /\ hash \in [Refs -> Ideals]
    /\ slots = [i \in TableSlots |-> Empty]
    /\ indexed = 0
    /\ hole = NullHandle
    /\ scan = 0

------------------------------------------------------------------------------
(* Probing. *)

\* The slot d places after i, cyclically.
Along(i, d) == (i + d) % Size

\* How many places j comes after i, cyclically.
Distance(i, j) == (j - i) % Size

\* The slot at which a probe for ref stops: the first that is empty or holds it.
ProbeEnd(ref) ==
    Along(hash[ref],
          Min({d \in TableSlots : LET e == slots[Along(hash[ref], d)]
                                  IN  e = Empty \/ e.ref = ref}))

Find(ref) ==
    IF slots[ProbeEnd(ref)] = Empty THEN NullHandle ELSE slots[ProbeEnd(ref)].handle

\* A mutant: the interval is not read cyclically.
StaysUnwrapped(i, j, k) == i < k /\ k <= j

\* k is in the cyclic interval (i, j]: an entry at j whose ideal slot is k still
\* has its ideal slot after the hole at i.
Stays(i, j, k) ==
    IF i <= j THEN i < k /\ k <= j ELSE i < k \/ k <= j

------------------------------------------------------------------------------
(* The operations. *)

\* A mutant: the entry is written to its ideal slot without a probe.
InsertAtIdeal(ref, h) ==
    /\ ~Erasing
    /\ Find(ref) = NullHandle
    /\ indexed * 2 < Size
    /\ slots' = [slots EXCEPT ![hash[ref]] = [ref |-> ref, handle |-> h]]
    /\ indexed' = indexed + 1
    /\ UNCHANGED <<hash, hole, scan>>

\* insert(): the caller knows the reference is absent; more than half full is
\* an assertion and never a resize.
Insert(ref, h) ==
    /\ ~Erasing
    /\ Find(ref) = NullHandle
    /\ indexed * 2 < Size
    /\ slots' = [slots EXCEPT ![ProbeEnd(ref)] = [ref |-> ref, handle |-> h]]
    /\ indexed' = indexed + 1
    /\ UNCHANGED <<hash, hole, scan>>

\* erase() finds the entry; erase_at() opens a hole there.
Erase(ref) ==
    /\ ~Erasing
    /\ Find(ref) # NullHandle
    /\ hole' = ProbeEnd(ref)
    /\ scan' = ProbeEnd(ref)
    /\ slots' = [slots EXCEPT ![ProbeEnd(ref)] = Empty]
    /\ UNCHANGED <<hash, indexed>>

Ahead == Along(scan, 1)

\* A mutant: the scan looks at the same entry for ever.
PassNowhere ==
    /\ Erasing
    /\ slots[Ahead] # Empty
    /\ Stays(hole, Ahead, hash[slots[Ahead].ref])
    /\ UNCHANGED indexVars

\* The entry ahead does not move.
Pass ==
    /\ Erasing
    /\ slots[Ahead] # Empty
    /\ Stays(hole, Ahead, hash[slots[Ahead].ref])
    /\ scan' = Ahead
    /\ UNCHANGED <<hash, slots, indexed, hole>>

\* The entry ahead fills the hole and leaves a hole where it was.
Shift ==
    /\ Erasing
    /\ slots[Ahead] # Empty
    /\ ~Stays(hole, Ahead, hash[slots[Ahead].ref])
    /\ slots' = [slots EXCEPT ![hole] = slots[Ahead], ![Ahead] = Empty]
    /\ hole' = Ahead
    /\ scan' = Ahead
    /\ UNCHANGED <<hash, indexed>>

\* An empty slot ends the cluster, and erase().
Done ==
    /\ Erasing
    /\ slots[Ahead] = Empty
    /\ hole' = NullHandle
    /\ scan' = 0
    /\ indexed' = indexed - 1
    /\ UNCHANGED <<hash, slots>>

EraseStep == Pass \/ Shift \/ Done

IndexNext ==
    \/ \E ref \in Refs, h \in RefHandles \ {slots[i].handle : i \in Occupied} : Insert(ref, h)
    \/ \E ref \in Refs : Erase(ref)
    \/ EraseStep

\* erase() is straight-line code in one thread: it does not stop half way.
IndexSpec == IndexInit /\ [][IndexNext]_indexVars /\ WF_indexVars(EraseStep)

------------------------------------------------------------------------------
(* Properties. *)

\* What linear probing relies on and validate() asserts: no empty slot lies
\* between an entry and its ideal slot.  While an entry is being erased, the
\* hole is the only such slot, and only for entries erase_at() has yet to reach.
ProbeChains ==
    \A i \in Occupied : \A d \in 0 .. Distance(hash[slots[i].ref], i) :
        LET s == Along(hash[slots[i].ref], d)
        IN  \/ s \in Occupied
            \/ s = hole /\ Distance(hole, i) > Distance(hole, scan)

\* A reference has at most one entry, and live_ counts the entries: validate()
\* recounts them, and the half-full assertion of insert() depends on it.
EntriesExact ==
    /\ \A i, j \in Occupied : slots[i].ref = slots[j].ref => i = j
    /\ indexed = Cardinality(Occupied) + IF Erasing THEN 1 ELSE 0

\* Also between two passes of the loop of erase_at() the table is whole but for
\* the hole it is about to close.
TableSound == IndexTypeOK /\ ProbeChains /\ EntriesExact

\* The handle of the entry for a reference, wherever deletions have moved it.
Stored(ref) ==
    IF \E i \in Occupied : slots[i].ref = ref
    THEN slots[CHOOSE i \in Occupied : slots[i].ref = ref].handle
    ELSE NullHandle

\* An erase ends, however long the cluster it has to close.
EraseReturns == Erasing ~> ~Erasing

\* Seen through find(), the table is a map from reference to handle: an erase
\* takes one reference out of it, at once, and what it then moves back over the
\* hole changes nothing for any other.  Nobody can call find() during an erase.
Map == INSTANCE HandleMap
           WITH Keys <- Refs, Handles <- RefHandles, Null <- NullHandle,
                at <- [ref \in Refs |-> IF Erasing THEN Stored(ref) ELSE Find(ref)]

IndexImplementsHandleMap == Map!Spec
==============================================================================
