----------------------------- MODULE Collector -----------------------------
(***************************************************************************)
(* What the interface of a GC promises about the objects a program has     *)
(* (gcinterface.h): which it may take away, when their finalizers run, and *)
(* what short weak handles see.  A GC finds any of the objects that cannot *)
(* be reached, also none.                                                  *)
(***************************************************************************)
CONSTANTS Objects, NoObject

VARIABLES
  heap,       \* objects allocated and not taken away
  held,       \* those the program, or a finalizer that runs, can reach
  pending,    \* those whose finalizer is to run upon their collection
  ready,      \* those found unreachable whose finalizer is due
  weak        \* those a short weak handle still tracks

vars == <<heap, held, pending, ready, weak>>

Init == heap = {} /\ held = {} /\ pending = {} /\ ready = {} /\ weak = {}

(* Alloc; the flag GC_ALLOC_FINALIZE asks for the finalizer.               *)
Alloc(o, finalize) ==
  /\ o \notin heap
  /\ heap' = heap \cup {o} /\ held' = held \cup {o}
  /\ pending' = IF finalize THEN pending \cup {o} ELSE pending
  /\ UNCHANGED <<ready, weak>>

Drop(o) == held' = held \ {o} /\ UNCHANGED <<heap, pending, ready, weak>>

(* A weak handle on an object, and an object taken from its weak handle.   *)
Track(o) ==
  /\ o \in held
  /\ weak' = weak \cup {o}
  /\ UNCHANGED <<heap, held, pending, ready>>

ReadWeak(o) ==
  /\ o \in weak
  /\ held' = held \cup {o}
  /\ UNCHANGED <<heap, pending, ready, weak>>

(* Unreachable objects are found: their weak handles are severed, finalizers*)
(* fall due, and what has no finalizer to wait for is gone.                *)
Unreachable == heap \ (held \cup ready)

GarbageCollect ==
  \E found \in SUBSET Unreachable :
    /\ weak' = weak \ found
    /\ ready' = ready \cup (found \cap pending)
    /\ pending' = pending \ found
    /\ heap' = heap \ (found \ pending)
    /\ UNCHANGED held

(* An object's finalizer should, or should not, be run upon its collection.*)
RegisterForFinalization(o, registered) ==
  /\ o \in held
  /\ pending' = IF registered THEN pending \cup {o} ELSE pending
  /\ UNCHANGED <<heap, held, ready, weak>>

SetFinalizationRun(o) ==
  /\ o \in held
  /\ pending' = pending \ {o}
  /\ UNCHANGED <<heap, held, ready, weak>>

(* The finalizer thread gets an object that is due, or learns of none.     *)
GetNextFinalizable(o) ==
  IF o = NoObject
    THEN ready = {} /\ UNCHANGED vars
    ELSE /\ o \in ready
         /\ ready' = ready \ {o} /\ held' = held \cup {o}
         /\ UNCHANGED <<heap, pending, weak>>

Next ==
  \/ \E o \in Objects :
       \/ Drop(o) \/ Track(o) \/ ReadWeak(o) \/ SetFinalizationRun(o)
       \/ \E b \in BOOLEAN : Alloc(o, b) \/ RegisterForFinalization(o, b)
  \/ \E o \in Objects \cup {NoObject} : GetNextFinalizable(o)
  \/ GarbageCollect

Spec == Init /\ [][Next]_vars

-----------------------------------------------------------------------------
(* What the program can reach is there, now or through a weak handle, and  *)
(* so is what waits for its finalizer, which is due once and not again.    *)
Safe ==
  /\ held \cup weak \cup pending \cup ready \subseteq heap
  /\ pending \cap ready = {}
  /\ (held \cup weak) \cap ready = {}
=============================================================================
