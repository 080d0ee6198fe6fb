---------------------------- MODULE MCMiniGCHeap ----------------------------
(***************************************************************************)
(* Instances of MiniGCHeap for TLC.  Addresses are scaled down: a segment  *)
(* of 4 bytes whose first byte is the gap, and an arena of 3 segments at   *)
(* one of two places.  Requests of 0 and 4 bytes are illegal, 3 fills a    *)
(* segment exactly, 2 leaves a tail no second request of 2 fits into.      *)
(***************************************************************************)
EXTENDS MiniGCHeap, TLC

MCSizes == 0..4
MCArenaBases == {40, 80}
MCTableBases == {1, 2}

Symmetry == Permutations(Contexts)
=============================================================================
