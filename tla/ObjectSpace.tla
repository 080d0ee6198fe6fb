---------------------------- MODULE ObjectSpace ----------------------------
(***************************************************************************)
(* What IGCHeap::Alloc promises to the execution engine, free of segments, *)
(* contexts and threads.  The heap occupies one region of memory that is   *)
(* chosen once and never moves; the objects handed out lie inside it, never*)
(* share a byte, and (MiniGC neither moves nor reclaims) keep their place  *)
(* for ever.                                                               *)
(***************************************************************************)
EXTENDS Integers

CONSTANT RegionSize     \* bytes in the heap's region

VARIABLES
  region,               \* first address of the region, 0 until it is chosen
  objs                  \* objects handed out: a set of [start, size] records

(* Two byte ranges given as [start, size] records share no byte.           *)
Apart(o, p) == o.start + o.size <= p.start \/ p.start + p.size <= o.start

Inside(o, r) == r <= o.start /\ o.start + o.size <= r + RegionSize

Init == region = 0 /\ objs = {}

(* The region is fixed before any object exists.                           *)
ChooseRegion ==
  /\ region = 0
  /\ region' \in Nat \ {0}
  /\ UNCHANGED objs

(* One more object, inside the region and apart from every earlier one.    *)
NewObject ==
  /\ region # 0
  /\ \E o \in objs' \ objs :
       /\ objs' = objs \cup {o}
       /\ o.size > 0
       /\ Inside(o, region)
       /\ \A p \in objs : Apart(o, p)
  /\ UNCHANGED region

Next == ChooseRegion \/ NewObject

vars == <<region, objs>>

Spec == Init /\ [][Next]_vars
=============================================================================
