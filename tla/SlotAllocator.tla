---------------------------- MODULE SlotAllocator ----------------------------
(***************************************************************************)
(* What the book asks of a pool: a handle names a slot nobody else has,    *)
(* from the moment it is issued until it is given back.                    *)
(***************************************************************************)
CONSTANT Handles    \* records with a field `index', the slot they name

VARIABLE inUse      \* the handles issued and not given back

Init == inUse = {}

Allocate ==
    \E h \in Handles :
        /\ \A g \in inUse : g.index # h.index
        /\ inUse' = inUse \cup {h}

Free == \E h \in inUse : inUse' = inUse \ {h}

Next == Allocate \/ Free

Spec == Init /\ [][Next]_inUse
==============================================================================
