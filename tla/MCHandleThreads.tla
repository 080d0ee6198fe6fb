-------------------------- MODULE MCHandleThreads --------------------------
(***************************************************************************)
(* Instances of HandleThreads for TLC.                                     *)
(***************************************************************************)
EXTENDS HandleThreads, TLC

Symmetry == Permutations(Threads) \cup Permutations(Objects)
=============================================================================
