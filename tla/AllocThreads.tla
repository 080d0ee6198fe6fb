---------------------------- MODULE AllocThreads ----------------------------
(***************************************************************************)
(* IGCHeap::Alloc executed by several EE threads at once, at the grain of  *)
(* its loads and stores of shared data, after a successful Initialize.     *)
(*                                                                         *)
(* CtxOf says which allocation context a thread passes.  Threads that share*)
(* one hold its lock around the call, as gcinterface.h:919-922 asks of the *)
(* EE; a thread with a context of its own never finds the lock taken, which*)
(* is the documented lock-free use.  While the EE is suspended only the    *)
(* suspending thread takes steps; a thread may be stopped anywhere.        *)
(*                                                                         *)
(* A thread's alloc context is never raced, so the code around it is one   *)
(* step.  g_arena_next and segmentsCount are plain variables: each of their*)
(* loads and stores is a step, which covers builds that merge loads (no    *)
(* other thread in between) and builds that do not.                        *)
(***************************************************************************)
EXTENDS Integers, Sequences, FiniteSets

CONSTANTS
  Threads, NoThread,
  Contexts, CtxOf,         \* contexts and the one each thread uses
  Sizes, GrowthSize, BeginGap, ArenaSize, MaxSegments,    \* as in MiniGCHeap
  ArenaBase, CardTable, BundleTable     \* what Initialize obtained

ASSUME ThreadAssumption ==
  /\ NoThread \notin Threads
  /\ CtxOf \in [Threads -> Contexts]

ASSUME SizeAssumption ==
  /\ Sizes \subseteq Nat
  /\ GrowthSize \in Nat /\ BeginGap \in Nat /\ BeginGap < GrowthSize
  /\ ArenaSize \in Nat /\ MaxSegments \in Nat \ {0}
  /\ ArenaSize <= MaxSegments * GrowthSize

ASSUME PageAssumption ==
  /\ {ArenaBase, CardTable, BundleTable} \subseteq Nat \ {0}
  /\ ArenaBase \notin {CardTable, BundleTable}

VARIABLES
  arenaNext,      \* g_arena_next
  segments,       \* the array segments, Null where never written
  segmentsCount,
  highest,        \* g_gc_highest_address
  barrier,        \* the EE's WriteBarrierParameters
  ctx,            \* the allocation contexts
  gcInProgress,
  objs,           \* history: every object returned by Alloc
  suspender,      \* the thread between SuspendEE and RestartEE, or NoThread
  holder,         \* who holds each context's lock, or NoThread
  pc,             \* where in Alloc each thread is, "idle" outside
  local           \* size, newPages, the loaded value and the barrier arguments

shared == <<arenaNext, segments, segmentsCount, highest>>
vars == <<arenaNext, segments, segmentsCount, highest, barrier, ctx,
          gcInProgress, objs, suspender, holder, pc, local>>

Null == 0

(* A segment is carved but the call that carved it has not returned.       *)
Carved  == {"table", "index", "count", "slot", "first", "publish", "args",
            "stomp", "fill"}
Counted == {"slot", "first", "publish", "args", "stomp", "fill"}
Raised  == {"args", "stomp", "fill"}

Pending(labels) == {t \in Threads : pc[t] \in labels}

(* The serialised heap, seen through calls that have not yet filled their  *)
(* context: what such a call carved, registered or published is not there. *)
PendingFirst(labels) == \E t \in Pending(labels) : local[t].newPages = ArenaBase

Registered ==
  [i \in 1..(segmentsCount - Cardinality(Pending(Counted))) |-> segments[i - 1]]

SerialArena == IF Pending(Carved) = {} THEN arenaNext
               ELSE local[CHOOSE t \in Pending(Carved) : TRUE].newPages

SerialHighest == IF PendingFirst(Raised) THEN ArenaBase ELSE highest

SerialBarrier == IF PendingFirst({"fill"}) THEN [barrier EXCEPT !.high = ArenaBase]
                 ELSE barrier

Heap == INSTANCE MiniGCHeap WITH
  ArenaBases  <- {ArenaBase},
  TableBases  <- {CardTable, BundleTable},
  heapArena   <- ArenaBase,
  cardTable   <- CardTable,
  bundleTable <- BundleTable,
  lowest      <- ArenaBase,
  mapped      <- {ArenaBase, CardTable, BundleTable},
  arenaNext   <- SerialArena,
  segments    <- Registered,
  highest     <- SerialHighest,
  barrier     <- SerialBarrier

NoLocals == [size |-> 0, newPages |-> Null, load |-> 0, high |-> Null]

Init ==
  /\ arenaNext = ArenaBase
  /\ segments = [i \in 0..(MaxSegments - 1) |-> Null] /\ segmentsCount = 0
  /\ highest = ArenaBase
  /\ barrier = Heap!BarrierArgs(ArenaBase, ArenaBase, CardTable, BundleTable)
  /\ ctx = [c \in Contexts |-> Heap!NoContext]
  /\ gcInProgress = FALSE
  /\ objs = {}
  /\ suspender = NoThread
  /\ holder = [c \in Contexts |-> NoThread]
  /\ pc = [t \in Threads |-> "idle"]
  /\ local = [t \in Threads |-> NoLocals]

-----------------------------------------------------------------------------
(* IGCToCLR::SuspendEE stops every thread but its caller.                  *)
Runs(t) == suspender \in {NoThread, t}

At(t, label) == Runs(t) /\ pc[t] = label
Goto(t, label) == pc' = [pc EXCEPT ![t] = label]

(* Leaving Alloc gives the context's lock back and forgets the locals.     *)
Return(t) ==
  /\ Goto(t, "idle")
  /\ local' = [local EXCEPT ![t] = NoLocals]
  /\ holder' = [holder EXCEPT ![CtxOf[t]] = NoThread]

Load(t, value) == local' = [local EXCEPT ![t].load = value]

(* BOUND: no slow path is entered that could run past the segments array   *)
(* of the instance, which lost updates can fill with any number of entries.*)
TableBound == segmentsCount + Cardinality(Threads) <= MaxSegments

(* The entry of Alloc: illegal sizes return nullptr, a request the window  *)
(* holds is served from it, and any other takes the slow path, with a GC   *)
(* first when the context has had a segment already.                       *)
CallRefused(t, n) ==
  /\ At(t, "idle") /\ holder[CtxOf[t]] = NoThread
  /\ ~Heap!LegalSize(n)
  /\ UNCHANGED vars

CallFast(t, n) ==
  LET c == CtxOf[t] IN
  /\ At(t, "idle") /\ holder[c] = NoThread
  /\ Heap!LegalSize(n) /\ Heap!FitsWindow(c, n)
  /\ ctx' = [ctx EXCEPT ![c].ptr = @ + n]
  /\ objs' = objs \cup {[start |-> ctx[c].ptr, size |-> n]}
  /\ UNCHANGED <<shared, barrier, gcInProgress, suspender, holder, pc, local>>

RaiseFlagNever == UNCHANGED gcInProgress

RaiseFlag == gcInProgress' = TRUE

CallSlow(t, n) ==
  LET c == CtxOf[t] IN
  /\ TableBound
  /\ At(t, "idle") /\ holder[c] = NoThread
  /\ Heap!LegalSize(n) /\ ~Heap!FitsWindow(c, n)
  /\ holder' = [holder EXCEPT ![c] = t]
  /\ local' = [local EXCEPT ![t].size = n]
  /\ IF ctx[c].limit # Null
       THEN RaiseFlag /\ Goto(t, "suspend")
       ELSE UNCHANGED gcInProgress /\ Goto(t, "check")
  /\ UNCHANGED <<shared, barrier, ctx, objs, suspender>>

-----------------------------------------------------------------------------
(* The GC: stop the EE, print what the stacks and the strong handles refer *)
(* to (neither writes to the heap), let the EE run again.                  *)
gcVars == <<shared, barrier, ctx, objs, holder, local>>

SuspendEE(t) ==
  /\ At(t, "suspend") /\ suspender = NoThread
  /\ suspender' = t
  /\ Goto(t, "restart")
  /\ UNCHANGED <<gcVars, gcInProgress>>

RestartEE(t) ==
  /\ At(t, "restart")
  /\ suspender' = NoThread
  /\ Goto(t, "endgc")
  /\ UNCHANGED <<gcVars, gcInProgress>>

EndGCLeavingFlag(t) ==
  /\ At(t, "endgc")
  /\ Goto(t, "check")
  /\ UNCHANGED <<gcVars, suspender, gcInProgress>>

EndGCCollectingAgain(t) ==
  /\ At(t, "endgc")
  /\ gcInProgress' = FALSE
  /\ Goto(t, "suspend")
  /\ UNCHANGED <<gcVars, suspender>>

EndGC(t) ==
  /\ At(t, "endgc")
  /\ gcInProgress' = FALSE
  /\ Goto(t, "check")
  /\ UNCHANGED <<gcVars, suspender>>

-----------------------------------------------------------------------------
(* Carving: is there room, which pages, and the two halves of              *)
(* g_arena_next += GrowthSize.                                             *)
carveVars == <<segments, segmentsCount, highest, barrier, ctx, gcInProgress,
               objs, suspender>>

CheckArenaForgettingSize(t) ==
  /\ At(t, "check")
  /\ IF arenaNext <= ArenaBase + ArenaSize
       THEN Goto(t, "take") /\ UNCHANGED <<local, holder>>
       ELSE Return(t)
  /\ UNCHANGED <<arenaNext, carveVars>>

CheckArena(t) ==
  /\ At(t, "check")
  /\ IF arenaNext + GrowthSize <= ArenaBase + ArenaSize
       THEN Goto(t, "take") /\ UNCHANGED <<local, holder>>
       ELSE Return(t)
  /\ UNCHANGED <<arenaNext, carveVars>>

TakePages(t) ==
  /\ At(t, "take")
  /\ local' = [local EXCEPT ![t].newPages = arenaNext]
  /\ Goto(t, "load")
  /\ UNCHANGED <<arenaNext, holder, carveVars>>

LoadArena(t) ==
  /\ At(t, "load")
  /\ Load(t, arenaNext)
  /\ Goto(t, "store")
  /\ UNCHANGED <<arenaNext, holder, carveVars>>

StoreArenaUnchanged(t) ==
  /\ At(t, "store")
  /\ arenaNext' = local[t].load
  /\ Goto(t, "table")
  /\ UNCHANGED <<holder, local, carveVars>>

StoreArena(t) ==
  /\ At(t, "store")
  /\ arenaNext' = local[t].load + GrowthSize
  /\ Goto(t, "table")
  /\ UNCHANGED <<holder, local, carveVars>>

-----------------------------------------------------------------------------
(* registerSegment: is the array full, then segments[segmentsCount++] = .. *)
registerVars == <<arenaNext, highest, barrier, ctx, gcInProgress, objs, suspender>>

CheckTable(t) ==
  /\ At(t, "table")
  /\ IF segmentsCount < MaxSegments
       THEN Goto(t, "index") /\ UNCHANGED <<local, holder>>
       ELSE Return(t)
  /\ UNCHANGED <<segments, segmentsCount, registerVars>>

LoadCount(t) ==
  /\ At(t, "index")
  /\ Load(t, segmentsCount)
  /\ Goto(t, "count")
  /\ UNCHANGED <<segments, segmentsCount, holder, registerVars>>

StoreCountUnchanged(t) ==
  /\ At(t, "count")
  /\ segmentsCount' = local[t].load
  /\ Goto(t, "slot")
  /\ UNCHANGED <<segments, holder, local, registerVars>>

StoreCount(t) ==
  /\ At(t, "count")
  /\ segmentsCount' = local[t].load + 1
  /\ Goto(t, "slot")
  /\ UNCHANGED <<segments, holder, local, registerVars>>

StoreSlot(t) ==
  /\ At(t, "slot")
  /\ segments' = [segments EXCEPT ![local[t].load] = local[t].newPages]
  /\ Goto(t, "first")
  /\ UNCHANGED <<segmentsCount, holder, local, registerVars>>

-----------------------------------------------------------------------------
(* Publishing: the first segment raises g_gc_highest_address and stomps the*)
(* write barrier.  The EE is not suspended, so it has to suspend itself.   *)
publishVars == <<arenaNext, segments, segmentsCount, ctx, gcInProgress, objs,
                 suspender, holder>>

CheckFirst(t) ==
  /\ At(t, "first")
  /\ Goto(t, IF highest = ArenaBase THEN "publish" ELSE "fill")
  /\ UNCHANGED <<highest, barrier, local, publishVars>>

StoreHighest(t) ==
  /\ At(t, "publish")
  /\ highest' = local[t].newPages + GrowthSize
  /\ Goto(t, "args")
  /\ UNCHANGED <<barrier, local, publishVars>>

LoadBarrierArgs(t) ==
  /\ At(t, "args")
  /\ local' = [local EXCEPT ![t].high = highest]
  /\ Goto(t, "stomp")
  /\ UNCHANGED <<highest, barrier, publishVars>>

StompWriteBarrier(t) ==
  /\ At(t, "stomp") /\ suspender = NoThread
  /\ barrier' = Heap!BarrierArgs(ArenaBase, local[t].high, CardTable, BundleTable)
  /\ Goto(t, "fill")
  /\ UNCHANGED <<highest, local, publishVars>>

(* The context gets the segment's window, less the object returned.        *)
FillContext(t) ==
  LET c == CtxOf[t]  p == local[t].newPages IN
  /\ At(t, "fill")
  /\ ctx' = [ctx EXCEPT ![c] = Heap!NewWindow(c, local[t].size, p)]
  /\ objs' = objs \cup {[start |-> p + BeginGap, size |-> local[t].size]}
  /\ Return(t)
  /\ UNCHANGED <<shared, barrier, gcInProgress, suspender>>

Step(t) ==
  \/ SuspendEE(t) \/ RestartEE(t) \/ EndGC(t)
  \/ CheckArena(t) \/ TakePages(t) \/ LoadArena(t) \/ StoreArena(t)
  \/ CheckTable(t) \/ LoadCount(t) \/ StoreCount(t) \/ StoreSlot(t)
  \/ CheckFirst(t) \/ StoreHighest(t) \/ LoadBarrierArgs(t)
  \/ StompWriteBarrier(t) \/ FillContext(t)

Call(t, n) == CallRefused(t, n) \/ CallFast(t, n) \/ CallSlow(t, n)

Next == \E t \in Threads : Step(t) \/ \E n \in Sizes : Call(t, n)

Spec == Init /\ [][Next]_vars

(* A thread inside Alloc is scheduled again and again, and the EE does not *)
(* let one waiter overtake another for ever where it has to suspend.  No   *)
(* thread ever has to call Alloc.                                          *)
Fairness == \A t \in Threads : SF_vars(Step(t))

FairSpec == Spec /\ Fairness

-----------------------------------------------------------------------------
(* Every variable holds a value of its type.                               *)
Labels == {"idle", "suspend", "restart", "endgc", "check", "take", "load", "store"}
            \cup Carved
Locals == [size : Nat, newPages : Nat, load : Nat, high : Nat]
Windows == [ptr : Nat, limit : Nat, bytes : Nat]

TypeOK ==
  /\ arenaNext \in Nat /\ highest \in Nat
  /\ segments \in [0..(MaxSegments - 1) -> Nat]
  /\ segmentsCount \in 0..MaxSegments
  /\ barrier \in [low : Nat, high : Nat, cards : Nat, bundles : Nat]
  /\ ctx \in [Contexts -> Windows]
  /\ gcInProgress \in BOOLEAN
  /\ objs \subseteq [start : Nat, size : Nat \ {0}]
  /\ suspender \in Threads \cup {NoThread}
  /\ holder \in [Contexts -> Threads \cup {NoThread}]
  /\ pc \in [Threads -> Labels]
  /\ local \in [Threads -> Locals]

(* The strengthening the proofs need: with one context for all threads its *)
(* lock lets one of them in at a time, and where that one is says how the  *)
(* shared variables differ from those of the serialised heap.              *)
OneContext == \A t, u \in Threads : CtxOf[t] = CtxOf[u]

LocksHeld == \A t \in Threads : pc[t] # "idle" => holder[CtxOf[t]] = t

GCTracked ==
  /\ \A t \in Threads : pc[t] \in {"suspend", "restart", "endgc"} => gcInProgress
  /\ suspender # NoThread => pc[suspender] = "restart"

(* What a thread has checked of its request and carved of the arena.       *)
CarvingOf(t) ==
  /\ pc[t] # "idle" =>
       /\ local[t].size \in Sizes /\ Heap!LegalSize(local[t].size)
       /\ ~Heap!FitsWindow(CtxOf[t], local[t].size)
  /\ pc[t] \in {"take", "load", "store"} =>
       arenaNext + GrowthSize <= ArenaBase + ArenaSize
  /\ pc[t] \in {"load", "store"} => local[t].newPages = arenaNext
  /\ pc[t] = "store" => local[t].load = arenaNext
  /\ pc[t] \in Carved =>
       /\ ArenaBase <= local[t].newPages
       /\ arenaNext = local[t].newPages + GrowthSize
       /\ arenaNext <= ArenaBase + ArenaSize

(* How far it is with registering its segment.                             *)
RegisteringOf(t) ==
  /\ pc[t] \in Carved \ Counted /\ segmentsCount > 0 => local[t].newPages # ArenaBase
  /\ pc[t] \in {"index", "count"} => segmentsCount < MaxSegments
  /\ pc[t] = "count" => local[t].load = segmentsCount
  /\ pc[t] \in Counted => segmentsCount > 0
  /\ pc[t] = "slot" => segmentsCount = local[t].load + 1
  /\ pc[t] \in Counted \ {"slot"} => segments[segmentsCount - 1] = local[t].newPages

(* And with publishing it, if it is the first.                             *)
Published(high) == Heap!BarrierArgs(ArenaBase, high, CardTable, BundleTable)

PublishingOf(t) ==
  /\ pc[t] \in {"publish", "args", "stomp"} => local[t].newPages = ArenaBase
  /\ pc[t] \in Carved \ Raised =>
       /\ highest = ArenaBase <=> local[t].newPages = ArenaBase
       /\ highest = ArenaBase => barrier = Published(ArenaBase)
  /\ pc[t] \in {"args", "stomp"} => barrier = Published(ArenaBase)
  /\ pc[t] \in Raised =>
       \/ highest = ArenaBase + GrowthSize
       \/ highest # ArenaBase /\ local[t].newPages # ArenaBase
  /\ pc[t] = "stomp" => local[t].high = highest
  /\ pc[t] = "fill" /\ local[t].newPages = ArenaBase => barrier = Published(highest)

BetweenCarvings ==
  /\ ArenaBase <= arenaNext
  /\ Pending(Carved) = {} =>
       /\ highest = ArenaBase <=> arenaNext = ArenaBase
       /\ highest = ArenaBase => segmentsCount = 0
       /\ highest = ArenaBase => barrier = Published(ArenaBase)

(* Threads that share a locked context leave no trace of each other: what  *)
(* the plain variables of the heap hold always follows from how far the one*)
(* thread inside Alloc has come, no step of another having slipped between *)
(* its loads and stores (MiniGCHeap.cpp:550-573, 651-657).                 *)
SharedInv ==
  /\ TypeOK
  /\ LocksHeld
  /\ GCTracked
  /\ BetweenCarvings
  /\ \A t \in Threads : CarvingOf(t) /\ RegisteringOf(t) /\ PublishingOf(t)

(* With the locks of a shared context the EE is suspended only while       *)
(* gcInProgress says so (MiniGCHeap.cpp:536-544).                          *)
FlagTracksSuspension == suspender # NoThread => gcInProgress

(* However the GCs of several threads overlap, once every call is past its *)
(* GC the flag is down: no raise of it outlives the thread that raised it. *)
FlagNotStuck == Pending({"suspend", "restart", "endgc"}) = {} => ~gcInProgress

(* No thread that has restarted the EE, and is about to lower the flag, is *)
(* overtaken by another that has raised it for a GC of its own.            *)
LoweredAlone == Pending({"endgc"}) # {} => Pending({"suspend", "restart"}) = {}

(* The flag covers every suspension of the EE as long as it is lowered     *)
(* alone: of all ways in which lock-free GCs overlap the one that leaves   *)
(* the EE suspended with the flag down is that one starts between another's*)
(* RestartEE and its lowering of the flag (MiniGCHeap.cpp:536, 543-544).   *)
FlagIsHonest == []LoweredAlone => []FlagTracksSuspension

(* With the locks of gcinterface.h:919-922 on one shared context, the loads*)
(* and stores of Alloc take effect like one step of the serialised heap.   *)
ImplementsHeap == [][Heap!Next]_(Heap!vars)

(* Every call of Alloc returns: no thread waits for ever for the EE, and a *)
(* suspended EE runs again (MiniGCHeap.cpp:538-543, 566-570).              *)
AllocReturns == \A t \in Threads : pc[t] # "idle" ~> pc[t] = "idle"

(* The lines between the check for room and the store of g_arena_next, and *)
(* that no two threads are at them together.                               *)
Carving == {"take", "load", "store"}
CarvedAlone == \A t, u \in Pending(Carving) : t = u

(* Objects of any threads on any contexts never overlap as long as no two  *)
(* threads carve at once: of all the loads and stores of Alloc these are   *)
(* the ones that a lock, or one atomic addition, would have to keep whole  *)
(* (MiniGCHeap.cpp:550-556).                                               *)
UnracedCarvingIsSafe == []CarvedAlone => []Heap!ObjectsDisjoint

(* The lines from the check for room to the store of the slot in segments, *)
(* and those from a thread's finding g_gc_highest_address at the arena's   *)
(* base to its StompWriteBarrier.                                          *)
Installing == Carving \cup {"table", "index", "count", "slot"}
InstalledAlone == \A t, u \in Pending(Installing) : t = u

Publishing == {"publish", "args", "stomp"}
PublishedAlone == \A t, u \in Pending(Publishing) : t = u

(* What IsHeapPointer says of an object, wherever the threads are.         *)
ObjectsListed ==
  \A o \in objs : \E i \in 0..(segmentsCount - 1) :
    segments[i] + BeginGap <= o.start /\ o.start + o.size <= segments[i] + GrowthSize

(* What the EE was told is what the globals say, once it was told.         *)
BarrierCurrent == Pending({"args", "stomp"}) = {} => barrier = Published(highest)

(* Every object returned lies in a segment of the table as long as no two  *)
(* threads install a segment at once: CarvedAlone is not enough for that,  *)
(* for segmentsCount++ can lose a segment (MiniGCHeap.cpp:429-441, 550-556,*)
(* 651-657).  The range the EE works with is the globals' as long as no two*)
(* threads take theirs for the first segment, whatever else they race on;  *)
(* the later of two could bring the older boundary (562-574).              *)
UnracedInstallingIsSafe ==
  /\ []InstalledAlone => []ObjectsListed
  /\ []PublishedAlone => []BarrierCurrent

-----------------------------------------------------------------------------
(* Stated by the repository, and not what the code does: see the README.   *)

(* "If using per-thread alloc contexts, no lock is needed"                 *)
(* (gcinterface.h:920-921): objects of different threads do not overlap.   *)
ObjectsDisjoint == Heap!ObjectsDisjoint
=============================================================================
