------------------------------ MODULE HandleMap ------------------------------
(***************************************************************************)
(* A map from keys to record handles with at most one handle for a key and *)
(* at most one key for a handle: what BookT asks of a side's level         *)
(* container (price to level) and of its order index (reference to order). *)
(***************************************************************************)
CONSTANTS
    Keys,       \* prices, or order references
    Handles,    \* the handles a client may store
    Null        \* the null handle

VARIABLE at     \* at[k]: the handle stored for key k, or Null

Stored == {at[k] : k \in Keys} \ {Null}

Init == at = [k \in Keys |-> Null]

Insert(k, h) ==
    /\ at[k] = Null
    /\ h \notin Stored
    /\ at' = [at EXCEPT ![k] = h]

Erase(k) ==
    /\ at[k] # Null
    /\ at' = [at EXCEPT ![k] = Null]

Next ==
    \/ \E k \in Keys, h \in Handles : Insert(k, h)
    \/ \E k \in Keys : Erase(k)

Spec == Init /\ [][Next]_at
==============================================================================
