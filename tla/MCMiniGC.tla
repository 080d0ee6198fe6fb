------------------------------ MODULE MCMiniGC ------------------------------
(***************************************************************************)
(* Instances of MiniGC for TLC: hosts in turn, an arena of two segments of *)
(* 4 bytes, two slots of handles.                                          *)
(***************************************************************************)
EXTENDS MiniGC, TLC

MCArenaBases == {40, 80}
MCTableBases == {1, 2}

Symmetry == Permutations(EEs) \cup Permutations(Stores)
=============================================================================
