----------------------------- MODULE MiniGCHeap -----------------------------
(***************************************************************************)
(* The heap of MiniGC (MiniGCHeap.cpp) with its calls serialised: every    *)
(* IGCHeap::Initialize and IGCHeap::Alloc runs from entry to return before *)
(* the next one starts.  AllocThreads takes the same code apart into the   *)
(* loads and stores of concurrent threads.                                 *)
(*                                                                         *)
(* Addresses are naturals and nullptr is 0.  objs is a history variable    *)
(* (every object Alloc returned), mapped is the OS's view of the pages     *)
(* MiniGC owns, and barrier is the last WriteBarrierParameters the EE got. *)
(* The GC cycle inside Alloc changes none of these variables: it suspends  *)
(* the EE, prints the roots and restarts it, so that only AllocThreads,    *)
(* where its steps can interleave, shows it.                               *)
(***************************************************************************)
EXTENDS Integers, Sequences

CONSTANTS
  Contexts,      \* the gc_alloc_contexts the EE owns
  Sizes,         \* request sizes the EE may pass, 0 and oversized included
  GrowthSize,    \* SEGMENT_SIZE, 1 MB in the code
  BeginGap,      \* bytes skipped at the start of a segment, 24 in the code
  ArenaSize,     \* HEAP_ARENA_SIZE, 128 MB in the code
  MaxSegments,   \* length of the segments array, 1024 in the code
  ArenaBases,    \* addresses at which the OS may place the arena
  TableBases     \* addresses at which the OS may place a card table

Null == 0

ASSUME SizeAssumption ==
  /\ Sizes \subseteq Nat
  /\ GrowthSize \in Nat /\ BeginGap \in Nat /\ BeginGap < GrowthSize
  /\ ArenaSize \in Nat

(* segments[1024] is long enough for the 128 segments the arena holds.     *)
ASSUME TableAssumption ==
  MaxSegments \in Nat /\ ArenaSize <= MaxSegments * GrowthSize

ASSUME PageAssumption ==
  /\ ArenaBases \subseteq Nat \ {Null}
  /\ TableBases \subseteq Nat \ {Null}
  /\ ArenaBases \cap TableBases = {}

VARIABLES
  heapArena,     \* g_heap_arena
  arenaNext,     \* g_arena_next
  cardTable,     \* g_gc_card_table
  bundleTable,   \* g_gc_card_bundle_table
  lowest,        \* g_gc_lowest_address
  highest,       \* g_gc_highest_address
  segments,      \* segments[0 .. segmentsCount - 1]
  ctx,           \* alloc_ptr, alloc_limit and alloc_bytes of each context
  mapped,        \* page blocks obtained from the OS and not yet released
  barrier,       \* the EE's copy of the heap range and the card tables
  objs           \* every object returned by Alloc, as [start, size]

pageVars  == <<heapArena, cardTable, bundleTable, lowest, mapped>>
allocVars == <<segments, ctx, objs>>
vars == <<heapArena, arenaNext, cardTable, bundleTable, lowest, highest,
          segments, ctx, mapped, barrier, objs>>

NoContext == [ptr |-> Null, limit |-> Null, bytes |-> 0]

BarrierArgs(low, high, cards, bundles) ==
  [low |-> low, high |-> high, cards |-> cards, bundles |-> bundles]

Init ==
  /\ heapArena = Null /\ arenaNext = Null
  /\ cardTable = Null /\ bundleTable = Null
  /\ lowest = Null /\ highest = Null
  /\ segments = <<>>
  /\ ctx = [c \in Contexts |-> NoContext]
  /\ mapped = {}
  /\ barrier = BarrierArgs(Null, Null, Null, Null)
  /\ objs = {}

-----------------------------------------------------------------------------
(* IGCToCLR::StompWriteBarrier: the EE takes over the parameters.          *)
StompWriteBarrier(low, high, cards, bundles) ==
  barrier' = BarrierArgs(low, high, cards, bundles)

(* MiniGCAllocatePages: a block of the OS's choosing, or nullptr.          *)
AllocatePages(pool) == (pool \ mapped) \cup {Null}

(* What Initialize has allocated when it reaches its first failing call.   *)
Obtained(a, k, b) ==
  IF a = Null THEN {}
  ELSE IF k = Null THEN {a}
  ELSE IF b = Null THEN {a, k} ELSE {a, k, b}

(* What its error paths hand back to MiniGCFreePages.                      *)
ReleasedLeakingArena(a, k, b) == IF k = Null THEN {a} ELSE {k}

Released(a, k, b) == IF k = Null THEN {a} ELSE {a, k}

(* E_OUTOFMEMORY: the arena, the card table or the bundle table could not  *)
(* be mapped.  g_arena_next keeps the address of the released arena.       *)
InitializeFails(a, k, b) ==
  /\ Null \in {a, k, b}
  /\ arenaNext' = IF a = Null THEN arenaNext ELSE a
  /\ mapped' = (mapped \cup Obtained(a, k, b)) \ Released(a, k, b)
  /\ UNCHANGED <<heapArena, cardTable, bundleTable, lowest, highest,
                 barrier, allocVars>>

(* S_OK: an empty heap range and both tables are handed to the EE.         *)
InitializeSucceeds(a, k, b) ==
  /\ Null \notin {a, k, b}
  /\ heapArena' = a /\ arenaNext' = a
  /\ cardTable' = k /\ bundleTable' = b
  /\ lowest' = a /\ highest' = a
  /\ mapped' = mapped \cup Obtained(a, k, b)
  /\ StompWriteBarrier(a, a, k, b)
  /\ UNCHANGED allocVars

(* A repeated Initialize returns S_OK at once.                             *)
InitializeAgain == heapArena # Null /\ UNCHANGED vars

InitializeWithoutIdempotency ==
  \E a \in AllocatePages(ArenaBases), k, b \in AllocatePages(TableBases) :
    (k # b \/ k = Null) /\ (InitializeFails(a, k, b) \/ InitializeSucceeds(a, k, b))

Initialize ==
  \/ InitializeAgain
  \/ /\ heapArena = Null
     /\ \E a \in AllocatePages(ArenaBases), k, b \in AllocatePages(TableBases) :
          /\ k # b \/ k = Null
          /\ InitializeFails(a, k, b) \/ InitializeSucceeds(a, k, b)

-----------------------------------------------------------------------------
LegalSizeForgettingGap(n) == n # 0 /\ n <= GrowthSize

(* Alloc's entry check.  Contexts are never nullptr here.                  *)
LegalSize(n) == n # 0 /\ n <= GrowthSize - BeginGap

(* The request fits in what is left between alloc_ptr and alloc_limit.     *)
FitsWindowOffByOne(c, n) ==
  /\ ctx[c].ptr # Null /\ ctx[c].limit # Null
  /\ n <= ctx[c].limit - ctx[c].ptr + 1

FitsWindow(c, n) ==
  /\ ctx[c].ptr # Null /\ ctx[c].limit # Null
  /\ n <= ctx[c].limit - ctx[c].ptr

ArenaHasRoomOffByOne == heapArena # Null /\ arenaNext <= heapArena + ArenaSize

ArenaHasRoom ==
  heapArena # Null /\ arenaNext + GrowthSize <= heapArena + ArenaSize

(* nullptr: an illegal size, an uninitialised heap or an exhausted arena.  *)
Refuses(c, n) == ~LegalSize(n) \/ (~FitsWindow(c, n) /\ ~ArenaHasRoom)

AllocReturnsNull(c, n) == Refuses(c, n) /\ UNCHANGED vars

(* The fast path: bump alloc_ptr inside the context's window.              *)
AllocFastWithoutBump(c, n) ==
  /\ LegalSize(n) /\ FitsWindow(c, n)
  /\ objs' = objs \cup {[start |-> ctx[c].ptr, size |-> n]}
  /\ UNCHANGED <<ctx, arenaNext, highest, segments, barrier, pageVars>>

AllocFast(c, n) ==
  /\ LegalSize(n) /\ FitsWindow(c, n)
  /\ ctx' = [ctx EXCEPT ![c].ptr = @ + n]
  /\ objs' = objs \cup {[start |-> ctx[c].ptr, size |-> n]}
  /\ UNCHANGED <<arenaNext, highest, segments, barrier, pageVars>>

(* The first segment opens the published heap range up to its end.         *)
PublishFirstSegmentSilently(newPages) ==
  /\ highest' = IF highest = heapArena THEN newPages + GrowthSize ELSE highest
  /\ UNCHANGED barrier

PublishFirstSegment(newPages) ==
  IF highest = heapArena
    THEN /\ highest' = newPages + GrowthSize
         /\ StompWriteBarrier(lowest, highest', cardTable, bundleTable)
    ELSE UNCHANGED <<highest, barrier>>

(* The context after it got a segment and n bytes of it were taken.        *)
NewWindow(c, n, newPages) ==
  [ptr |-> newPages + BeginGap + n, limit |-> newPages + GrowthSize,
   bytes |-> ctx[c].bytes + GrowthSize]

(* registerSegment, then the rest of the slow path.                        *)
InstallSegment(c, n, newPages) ==
  /\ segments' = Append(segments, newPages)
  /\ PublishFirstSegment(newPages)
  /\ ctx' = [ctx EXCEPT ![c] = NewWindow(c, n, newPages)]
  /\ objs' = objs \cup {[start |-> newPages + BeginGap, size |-> n]}

(* The slow path: carve the next segment out of the arena.  g_arena_next   *)
(* has moved on when registerSegment refuses a segment it has no room for. *)
AllocSlowForgettingToCarve(c, n) ==
  /\ LegalSize(n) /\ ~FitsWindow(c, n) /\ ArenaHasRoom
  /\ arenaNext' = arenaNext
  /\ InstallSegment(c, n, arenaNext)
  /\ UNCHANGED pageVars

AllocSlow(c, n) ==
  /\ LegalSize(n) /\ ~FitsWindow(c, n) /\ ArenaHasRoom
  /\ arenaNext' = arenaNext + GrowthSize
  /\ IF Len(segments) < MaxSegments
       THEN InstallSegment(c, n, arenaNext)
       ELSE UNCHANGED <<highest, barrier, allocVars>>
  /\ UNCHANGED pageVars

Alloc(c, n) == AllocReturnsNull(c, n) \/ AllocFast(c, n) \/ AllocSlow(c, n)

Next == Initialize \/ \E c \in Contexts, n \in Sizes : Alloc(c, n)

Spec == Init /\ [][Next]_vars

-----------------------------------------------------------------------------
(* IsHeapPointer: some registered segment contains the address.            *)
IsHeapPointerInclusive(p) ==
  \E i \in 1..Len(segments) : segments[i] <= p /\ p <= segments[i] + GrowthSize

IsHeapPointer(p) ==
  \E i \in 1..Len(segments) : segments[i] <= p /\ p < segments[i] + GrowthSize

-----------------------------------------------------------------------------
(* The abstract heap this one implements.                                  *)
Promise == INSTANCE ObjectSpace WITH
             RegionSize <- ArenaSize, region <- heapArena, objs <- objs

(* Every variable holds a value of its type; in particular no object is    *)
(* empty and the segments array is never overrun (MiniGCHeap.cpp:523, 653).*)
TypeOK ==
  /\ heapArena \in ArenaBases \cup {Null}
  /\ arenaNext \in Nat
  /\ cardTable \in TableBases \cup {Null}
  /\ bundleTable \in TableBases \cup {Null}
  /\ lowest \in Nat /\ highest \in Nat
  /\ segments \in Seq(Nat) /\ Len(segments) <= MaxSegments
  /\ ctx \in [Contexts -> [ptr : Nat, limit : Nat, bytes : Nat]]
  /\ mapped \subseteq ArenaBases \cup TableBases
  /\ barrier \in [low : Nat, high : Nat, cards : Nat, bundles : Nat]
  /\ objs \subseteq [start : Nat, size : Nat \ {0}]

(* Two objects Alloc returned never share a byte, whichever contexts they  *)
(* came from and however fast and slow paths alternated.                   *)
ObjectsDisjoint == \A o, p \in objs : o = p \/ Promise!Apart(o, p)

(* What a context may still hand out, [alloc_ptr, alloc_limit), belongs to *)
(* it alone: no other context's window and no object reaches into it.  The *)
(* window is never negative, so the cast to size_t at line 528 is exact.   *)
WindowsPrivate ==
  \A c \in Contexts :
    /\ ctx[c].ptr <= ctx[c].limit
    /\ \A o \in objs : o.start + o.size <= ctx[c].ptr \/ ctx[c].limit <= o.start
    /\ \A d \in Contexts \ {c} :
         \/ ctx[c].limit <= ctx[d].ptr
         \/ ctx[d].limit <= ctx[c].ptr

(* Every object lies whole inside one registered segment, behind its gap.  *)
ObjectsInSegments ==
  \A o \in objs : \E i \in 1..Len(segments) :
    /\ segments[i] + BeginGap <= o.start
    /\ o.start + o.size <= segments[i] + GrowthSize

(* The registered segments tile the arena from its base up to g_arena_next.*)
(* A carved segment is thus never lost: registerSegment does not refuse    *)
(* after g_arena_next has moved, and Alloc runs out of memory only when    *)
(* the whole arena is in registered segments.                              *)
SegmentsTileArena ==
  heapArena # Null =>
    /\ \A i \in 1..Len(segments) : segments[i] = heapArena + (i - 1) * GrowthSize
    /\ arenaNext = heapArena + Len(segments) * GrowthSize
    /\ Len(segments) * GrowthSize <= ArenaSize

(* After any number of Initialize calls, failed or not, MiniGC owns exactly*)
(* the pages its globals point to (all three blocks or none), and it       *)
(* never frees a block twice or keeps a pointer to a freed one.            *)
NoPageLeak ==
  /\ mapped = {heapArena, cardTable, bundleTable} \ {Null}
  /\ mapped # {} => Null \notin {heapArena, cardTable, bundleTable}

(* What the write barrier was last told is what the GC's own globals say,  *)
(* and they describe the heap from its base to the end of a segment.       *)
BarrierMatchesGlobals ==
  heapArena # Null =>
    /\ barrier = BarrierArgs(lowest, highest, cardTable, bundleTable)
    /\ lowest = heapArena
    /\ highest = IF segments = <<>> THEN heapArena ELSE segments[1] + GrowthSize

(* IsHeapPointer (MiniGCHeap.cpp:429-441) answers true for exactly the     *)
(* addresses between the arena's base and g_arena_next.                    *)
PointerExact(p) ==
  IsHeapPointer(p) <=> heapArena # Null /\ heapArena <= p /\ p < arenaNext

HeapPointersExact ==
  \A p \in 0..(heapArena + ArenaSize + GrowthSize) : PointerExact(p)

(* The strengthening the proofs need.  That a new segment is free follows  *)
(* only from all that was handed out so far lying below g_arena_next, and  *)
(* that registerSegment has room for it only from the segments tiling the  *)
(* arena; neither ObjectsDisjoint nor SegmentsTileArena is inductive alone.*)

(* Nothing exists before Initialize has succeeded.                         *)
IdleBeforeInitialize ==
  heapArena = Null =>
    /\ segments = <<>> /\ objs = {} /\ mapped = {}
    /\ ctx = [c \in Contexts |-> NoContext]

(* Windows and objects lie between the arena's base and g_arena_next.      *)
BelowFrontier ==
  /\ \A o \in objs : heapArena <= o.start /\ o.start + o.size <= arenaNext
  /\ \A c \in Contexts : ctx[c].limit <= arenaNext

(* A window that is not null ends where a registered segment ends.         *)
WindowsInSegments ==
  \A c \in Contexts : ctx[c].ptr # Null =>
    \E i \in 1..Len(segments) :
      segments[i] + BeginGap <= ctx[c].ptr /\ ctx[c].limit = segments[i] + GrowthSize

(* The inductive invariant of Initialize and Alloc.                        *)
HeapInv ==
  /\ TypeOK
  /\ IdleBeforeInitialize
  /\ BelowFrontier
  /\ WindowsInSegments
  /\ SegmentsTileArena
  /\ ObjectsDisjoint
  /\ WindowsPrivate
  /\ ObjectsInSegments

(* The heap implements the promise of ObjectSpace: one region, chosen once,*)
(* and objects in it that neither overlap nor move.                        *)
ImplementsObjectSpace == Promise!Spec

-----------------------------------------------------------------------------
(* Stated by the repository, and not what the code does: see the README.   *)

(* "The heap's new high boundary" (gcinterface.h:92): the range the write  *)
(* barrier works with contains every object of the heap.                   *)
BarrierCoversHeap ==
  \A o \in objs : barrier.low <= o.start /\ o.start + o.size <= barrier.high
=============================================================================
