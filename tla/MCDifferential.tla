---------------------------- MODULE MCDifferential ----------------------------
(***************************************************************************)
(* Books small enough to enumerate: three orders on up to three levels,    *)
(* and in the flat book records enough that a freed one and a fresh one    *)
(* are both candidates for reuse.  References and records are              *)
(* interchangeable.                                                        *)
(***************************************************************************)
EXTENDS Differential, TLC

Symmetry ==
    Permutations(Refs) \cup Permutations(OrderHandles) \cup Permutations(LevelHandles)
==============================================================================
