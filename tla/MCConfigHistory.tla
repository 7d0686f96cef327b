-------------------------- MODULE MCConfigHistory --------------------------
(***************************************************************************)
(* Two calls on a target with two watched files.                           *)
(***************************************************************************)
EXTENDS ConfigHistory, TLC

Symmetry == Permutations(Paths) \cup Permutations(Contents) \cup Permutations(CallIds)
=============================================================================
