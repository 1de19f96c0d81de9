--------------------------------- MODULE Pool ---------------------------------
(***************************************************************************)
(* itch::book::Pool and Handle: fixed slots, a free list threaded through  *)
(* the free ones, and a generation per slot that is odd while the slot is  *)
(* live and wraps.  A handle is a slot and the generation it was issued    *)
(* with; it is accepted while the slot's generation equals its own.        *)
(*                                                                         *)
(* The link field is the owner's to overwrite while the slot is live       *)
(* (Order::next doubles as the free-list link), so it is Data from the     *)
(* moment the slot is handed out.  A failed assertion ends the process.    *)
(***************************************************************************)
EXTENDS Integers, Sequences, FiniteSets, SequencesExt

CONSTANTS
    Capacity,       \* number of slots
    GenMod,         \* 2^bits of a generation
    Limits,         \* the quarantine limits a pool may be built with
    Null,           \* the null handle
    Data            \* a link field holding its owner's data

ASSUME PoolAssumption ==
    /\ Capacity \in Nat \ {0}
    /\ GenMod \in Nat \ {0}
    /\ GenMod % 2 = 0
    /\ Limits \subseteq Nat
    /\ Null \notin Nat
    /\ Data \notin Nat
    /\ Null # Data

VARIABLES
    gen,        \* pool_generation() of each slot
    link,       \* pool_link() of each slot, as the slot it names
    freeHead,   \* free_head_
    live,       \* live_
    highWater,  \* high_water_
    quarantine, \* quarantine_: freed slots held back, oldest first
    limit,      \* quarantine_limit_, fixed when the pool is built
    held,       \* the handles issued and not yet given back
    stale,      \* a handle given back and kept by mistake, or Null
    reuses      \* times the stale handle's slot was handed out since, mod GenMod / 2

vars == <<gen, link, freeHead, live, highWater, quarantine, limit, held, stale, reuses>>

Slots == 0 .. Capacity - 1

Handles == [index : Slots, generation : 0 .. GenMod - 1]

Odd(g) == g % 2 = 1

\* A mutant: a generation that only tells free from live.
ToggledOnly(s) == [gen EXCEPT ![s] = (@ + 1) % 2]

Bumped(s) == [gen EXCEPT ![s] = (@ + 1) % GenMod]

\* deref_checked() accepts the handle: the slot still has its generation.
Accepted(h) == gen[h.index] = h.generation

\* is_live(), which states the liveness half of the same check on its own.
IsLive(h) == Accepted(h) /\ Odd(gen[h.index])

Quarantined == {quarantine[i] : i \in DOMAIN quarantine}

LiveSlots == {s \in Slots : Odd(gen[s])}

TypeOK ==
    /\ gen \in [Slots -> 0 .. GenMod - 1]
    /\ link \in [Slots -> Slots \cup {Null, Data}]
    /\ freeHead \in Slots \cup {Null}
    /\ live \in 0 .. Capacity
    /\ highWater \in 0 .. Capacity
    /\ quarantine \in Seq(Slots)
    /\ limit \in Limits
    /\ held \subseteq Handles
    /\ stale \in Handles \cup {Null}
    /\ reuses \in 0 .. (GenMod \div 2) - 1

\* The constructor chains the slots in ascending order.
Init ==
    /\ gen = [s \in Slots |-> 0]
    /\ link = [s \in Slots |-> IF s + 1 < Capacity THEN s + 1 ELSE Null]
    /\ freeHead = 0
    /\ live = 0
    /\ highWater = 0
    /\ quarantine = <<>>
    /\ limit \in Limits
    /\ held = {}
    /\ stale = Null
    /\ reuses = 0

\* A mutant: the head of the free list stays where it is.
AllocateKeepsHead ==
    /\ freeHead # Null
    /\ gen' = Bumped(freeHead)
    /\ live' = live + 1
    /\ highWater' = IF live + 1 > highWater THEN live + 1 ELSE highWater
    /\ held' = held \cup {[index |-> freeHead, generation |-> gen'[freeHead]]}
    /\ UNCHANGED <<link, freeHead, quarantine, limit, stale, reuses>>

Allocate ==
    /\ freeHead # Null
    /\ freeHead' = link[freeHead]
    /\ gen' = Bumped(freeHead)
    /\ link' = [link EXCEPT ![freeHead] = Data]
    /\ live' = live + 1
    /\ highWater' = IF live + 1 > highWater THEN live + 1 ELSE highWater
    /\ held' = held \cup {[index |-> freeHead, generation |-> gen'[freeHead]]}
    /\ reuses' = IF stale # Null /\ stale.index = freeHead
                 THEN (reuses + 1) % (GenMod \div 2) ELSE reuses
    /\ UNCHANGED <<quarantine, limit, stale>>

\* A mutant: the oldest slot is released and not taken out of the quarantine.
FreeWithoutPop(h) ==
    /\ Accepted(h)
    /\ gen' = Bumped(h.index)
    /\ live' = live - 1
    /\ quarantine' = Append(quarantine, h.index)
    /\ IF Len(quarantine') > limit
       THEN /\ link' = [link EXCEPT ![Head(quarantine')] = freeHead]
            /\ freeHead' = Head(quarantine')
       ELSE UNCHANGED <<link, freeHead>>
    /\ held' = held \ {h}
    /\ UNCHANGED <<highWater, limit, stale, reuses>>

\* free(): through the quarantine when there is one, which releases its oldest
\* slot when it overflows.  The holder may forget to drop its handle.
Free(h) ==
    /\ Accepted(h)
    /\ gen' = Bumped(h.index)
    /\ live' = live - 1
    /\ LET entered  == Append(quarantine, h.index)
           released == IF limit = 0 THEN h.index
                       ELSE IF Len(entered) > limit THEN Head(entered) ELSE Null
       IN  /\ quarantine' = IF limit = 0 THEN quarantine
                            ELSE IF Len(entered) > limit THEN Tail(entered) ELSE entered
           /\ IF released = Null THEN UNCHANGED <<link, freeHead>>
              ELSE /\ link' = [link EXCEPT ![released] = freeHead]
                   /\ freeHead' = released
    /\ held' = held \ {h}
    /\ \/ UNCHANGED <<stale, reuses>>
       \/ stale = Null /\ stale' = h /\ reuses' = 0
    /\ UNCHANGED <<highWater, limit>>

\* The holder drops the stale handle.
Forget ==
    /\ stale # Null
    /\ stale' = Null
    /\ reuses' = 0
    /\ UNCHANGED <<gen, link, freeHead, live, highWater, quarantine, limit, held>>

Next ==
    \/ Allocate
    \/ \E h \in held : Free(h)
    \/ Forget

Spec == Init /\ [][Next]_vars

------------------------------------------------------------------------------
(* Properties. *)

\* A handle in circulation is accepted, is the only one for its slot, and names
\* a live slot: no slot is ever handed out twice.
NoDoubleIssue ==
    /\ \A h \in held : IsLive(h)
    /\ \A g, h \in held : g.index = h.index => g = h
    /\ LiveSlots = {h.index : h \in held}

\* However slots are freed, held back and issued again, nobody shares one.
IssuedOnce == TypeOK /\ NoDoubleIssue

\* The slots of the free list in order: hop[i] is what i links from its head
\* lead to, and the list ends where they lead to no slot.
FreeList ==
    LET hop[i \in 0 .. Capacity] ==
            IF i = 0 THEN freeHead
            ELSE IF hop[i - 1] \in Slots THEN link[hop[i - 1]] ELSE Null
        visited == {i \in 1 .. Capacity : hop[i - 1] \in Slots}
    IN  [i \in 1 .. Cardinality(visited) |-> hop[i - 1]]

\* validate(): the free list holds every slot that is neither live nor in
\* quarantine, once, and ends; no slot is lost and none is live and free.
FreeListWellFormed ==
    /\ IsInjective(FreeList)
    /\ ToSet(FreeList) = Slots \ (LiveSlots \cup Quarantined)
    /\ FreeList # <<>> => link[FreeList[Len(FreeList)]] = Null
    /\ Len(FreeList) + live + Len(quarantine) = Capacity

\* A handle used after its slot was given back is rejected until the generation
\* has wrapped: it is accepted exactly while the slot is live again after a
\* multiple of GenMod / 2 reuses, 128 of them for the 8-bit generation.
StaleCaughtUntilWrap ==
    stale # Null => (Accepted(stale) <=> stale.index \in LiveSlots /\ reuses = 0)

\* The free list and the quarantine lose no slot, and the generation does what
\* it is for, in each of the pool's configurations.
PoolSound == FreeListWellFormed /\ StaleCaughtUntilWrap

\* Seen by its clients, the pool is an allocator: whatever the state of the
\* free list and the quarantine, a slot is issued only when nobody holds it.
Allocator == INSTANCE SlotAllocator WITH inUse <- held

ImplementsSlotAllocator == Allocator!Spec

\* What the comment on kPoolQuarantine says of a pool with a quarantine: a
\* handle used after free is rejected, whether or not a generation wrapped.
QuarantineCatchesStale == stale # Null /\ limit > 0 => ~Accepted(stale)
==============================================================================
