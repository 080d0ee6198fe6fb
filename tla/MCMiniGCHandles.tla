-------------------------- MODULE MCMiniGCHandles --------------------------
(***************************************************************************)
(* Instances of MiniGCHandles for TLC.                                     *)
(***************************************************************************)
EXTENDS MiniGCHandles, TLC

CONSTANTS o1, o2

Symmetry == Permutations({o1, o2})
=============================================================================
