-------------------------- MODULE MCFrozenQueries --------------------------
(***************************************************************************)
(* Instances of FrozenQueries for TLC.  The two bases are adjacent, and one*)
(* range may be registered several times.                                  *)
(***************************************************************************)
EXTENDS FrozenQueries, TLC

MCBases == {2, 3}

Symmetry == Permutations(Records)
=============================================================================
