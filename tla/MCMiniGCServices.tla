-------------------------- MODULE MCMiniGCServices --------------------------
(***************************************************************************)
(* An instance of MiniGCServices for TLC: a small object, a large one,     *)
(* and the 8 MB of GcDemo.                                                 *)
(***************************************************************************)
EXTENDS MiniGCServices

CONSTANTS small, large, huge

MCSizeOf == (small :> 24) @@ (large :> 100000) @@ (huge :> 8388608)
=============================================================================
