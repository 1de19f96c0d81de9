------------------------------- MODULE MCStores -------------------------------
(***************************************************************************)
(* The two stores of order records under a BookT, a pool of slots and the  *)
(* index from reference to handle, each driven by every sequence of calls  *)
(* its preconditions allow; a behaviour exercises one of them, `store'.    *)
(*                                                                         *)
(* Three slots, quarantines of none, one and two, and a generation that    *)
(* wraps after four reuses.  A table of eight slots, half of which may be  *)
(* in use; ideal slots on both sides of its end, so that clusters form     *)
(* around it.  References are interchangeable, so their hashes are taken   *)
(* in ascending order.                                                     *)
(***************************************************************************)
EXTENDS Pool, OrderIndex

VARIABLE store  \* the store exercised

MCInit ==
    /\ Init
    /\ IndexInit
    /\ \/ store = "Pool" /\ \A ref \in Refs : hash[ref] = 0
       \/ /\ store = "OrderIndex" /\ limit = 0
          /\ \A r, s \in Refs : r < s => hash[r] <= hash[s]

PoolStep ==
    /\ store = "Pool"
    /\ Next
    /\ UNCHANGED <<store, indexVars>>

IndexStep ==
    /\ store = "OrderIndex"
    /\ IndexNext
    /\ UNCHANGED <<store, vars>>

MCNext == PoolStep \/ IndexStep

\* erase() is straight-line code in one thread: it does not stop half way.
MCSpec ==
    /\ MCInit
    /\ [][MCNext]_<<vars, indexVars, store>>
    /\ WF_indexVars(IndexStep /\ EraseStep)
==============================================================================
