--------------------------- MODULE MCAllocThreads ---------------------------
(***************************************************************************)
(* Instances of AllocThreads for TLC: threads that share one locked context*)
(* and threads with a context each.  Segments have 4 bytes, the first is   *)
(* the gap; a request of 3 fills a segment, so each call needs a new one.  *)
(***************************************************************************)
EXTENDS AllocThreads, TLC

CONSTANTS t1, t2, t3, c1, c2

SharedContext == (t1 :> c1) @@ (t2 :> c1) @@ (t3 :> c1)
OwnContexts == (t1 :> c1) @@ (t2 :> c2)
=============================================================================
