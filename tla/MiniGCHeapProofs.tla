-------------------------- MODULE MiniGCHeapProofs --------------------------
(***************************************************************************)
(* Theorems about MiniGCHeap for every arena size, segment size, set of    *)
(* requests and set of contexts.                                           *)
(***************************************************************************)
EXTENDS MiniGCHeap, TLAPS

USE DEF Null

(* Products grow with their first factor: the arithmetic of the tiling.    *)
LEMMA ProductStep ==
  ASSUME NEW k \in Nat, NEW g \in Nat
  PROVE  /\ k * g \in Nat
         /\ (k + 1) * g = k * g + g
  BY SMT

LEMMA ProductBound ==
  ASSUME NEW k \in Nat, NEW m \in Nat, NEW g \in Nat \ {0},
         (k + 1) * g <= m * g
  PROVE  k < m
<1>1. SUFFICES ASSUME k >= m PROVE FALSE
  BY SMT
<1>2. PICK d \in Nat : k = m + d
  <2>1. k - m \in Nat /\ k = m + (k - m)
    BY <1>1, SMT
  <2> QED BY <2>1
<1>3. /\ d * g \in Nat
      /\ (k + 1) * g = m * g + d * g + g
  BY <1>2, SMT
<1> QED BY <1>3, SMT

-----------------------------------------------------------------------------
(* Type correctness is inductive by itself.                                *)
LEMMA TypeStep == TypeOK /\ [Next]_vars => TypeOK'
<1> SUFFICES ASSUME TypeOK, [Next]_vars PROVE TypeOK'
  OBVIOUS
<1>1. CASE UNCHANGED vars
  BY <1>1 DEF vars, TypeOK
<1>2. CASE Initialize
  <2>1. CASE InitializeAgain
    BY <2>1 DEF InitializeAgain, vars, TypeOK
  <2>2. ASSUME NEW a \in AllocatePages(ArenaBases),
               NEW k \in AllocatePages(TableBases),
               NEW b \in AllocatePages(TableBases),
               InitializeFails(a, k, b)
        PROVE  TypeOK'
    <3>1. a \in ArenaBases \cup {Null} /\ k \in TableBases \cup {Null}
          /\ b \in TableBases \cup {Null}
      BY DEF AllocatePages
    <3>2. mapped' \subseteq ArenaBases \cup TableBases
      BY <2>2, <3>1 DEF InitializeFails, Obtained, Released, TypeOK
    <3>3. arenaNext' \in Nat
      BY <2>2, <3>1, PageAssumption DEF InitializeFails, TypeOK
    <3> QED BY <2>2, <3>2, <3>3 DEF InitializeFails, allocVars, TypeOK
  <2>3. ASSUME NEW a \in AllocatePages(ArenaBases),
               NEW k \in AllocatePages(TableBases),
               NEW b \in AllocatePages(TableBases),
               InitializeSucceeds(a, k, b)
        PROVE  TypeOK'
    <3>1. a \in ArenaBases /\ k \in TableBases /\ b \in TableBases
      BY <2>3 DEF AllocatePages, InitializeSucceeds
    <3>2. mapped' \subseteq ArenaBases \cup TableBases
      BY <2>3, <3>1 DEF InitializeSucceeds, Obtained, TypeOK
    <3>3. barrier' \in [low : Nat, high : Nat, cards : Nat, bundles : Nat]
      BY <2>3, <3>1, PageAssumption
         DEF InitializeSucceeds, StompWriteBarrier, BarrierArgs
    <3> QED BY <2>3, <3>1, <3>2, <3>3, PageAssumption
           DEF InitializeSucceeds, allocVars, TypeOK
  <2> QED BY <1>2, <2>1, <2>2, <2>3 DEF Initialize
<1>3. ASSUME NEW c \in Contexts, NEW n \in Sizes, Alloc(c, n)
      PROVE  TypeOK'
  <2> n \in Nat /\ GrowthSize \in Nat /\ BeginGap \in Nat
    BY SizeAssumption
  <2> ctx[c] \in [ptr : Nat, limit : Nat, bytes : Nat]
    BY DEF TypeOK
  <2>1. CASE AllocReturnsNull(c, n)
    BY <2>1 DEF AllocReturnsNull, vars, TypeOK
  <2>2. CASE AllocFast(c, n)
    <3>1. ctx' \in [Contexts -> [ptr : Nat, limit : Nat, bytes : Nat]]
      <4>1. ctx' = [ctx EXCEPT ![c] = [ctx[c] EXCEPT !.ptr = ctx[c].ptr + n]]
        BY <2>2 DEF AllocFast
      <4>2. [ctx[c] EXCEPT !.ptr = ctx[c].ptr + n] \in [ptr : Nat, limit : Nat, bytes : Nat]
        OBVIOUS
      <4> QED BY <4>1, <4>2 DEF TypeOK
    <3>2. objs' \subseteq [start : Nat, size : Nat \ {0}]
      BY <2>2, SMTT(20) DEF AllocFast, LegalSize, TypeOK
    <3> QED BY <2>2, <3>1, <3>2 DEF AllocFast, pageVars, TypeOK
  <2>3. CASE AllocSlow(c, n)
    <3>1. CASE Len(segments) < MaxSegments
      <4>1. InstallSegment(c, n, arenaNext)
        BY <2>3, <3>1 DEF AllocSlow
      <4>2. segments' \in Seq(Nat) /\ Len(segments') <= MaxSegments
        <5>1. segments \in Seq(Nat) /\ arenaNext \in Nat /\ MaxSegments \in Nat
          BY TableAssumption DEF TypeOK
        <5>2. segments' = Append(segments, arenaNext)
          BY <4>1 DEF InstallSegment
        <5> QED BY <3>1, <5>1, <5>2
      <4>3. arenaNext' \in Nat /\ highest' \in Nat
        BY <2>3, <4>1 DEF AllocSlow, InstallSegment, PublishFirstSegment, TypeOK
      <4>4. barrier' \in [low : Nat, high : Nat, cards : Nat, bundles : Nat]
        <5>1. cardTable \in Nat /\ bundleTable \in Nat /\ lowest \in Nat
          BY PageAssumption DEF TypeOK
        <5>2. BarrierArgs(lowest, highest', cardTable, bundleTable)
                \in [low : Nat, high : Nat, cards : Nat, bundles : Nat]
          BY <4>3, <5>1 DEF BarrierArgs
        <5>3. \/ barrier' = BarrierArgs(lowest, highest', cardTable, bundleTable)
              \/ barrier' = barrier
          BY <4>1 DEF InstallSegment, PublishFirstSegment, StompWriteBarrier
        <5> QED BY <5>2, <5>3 DEF TypeOK
      <4>5. ctx' \in [Contexts -> [ptr : Nat, limit : Nat, bytes : Nat]]
        <5>1. NewWindow(c, n, arenaNext) \in [ptr : Nat, limit : Nat, bytes : Nat]
          BY DEF TypeOK, NewWindow
        <5>2. ctx' = [ctx EXCEPT ![c] = NewWindow(c, n, arenaNext)]
          BY <4>1 DEF InstallSegment
        <5> QED BY <5>1, <5>2 DEF TypeOK
      <4>6. objs' \subseteq [start : Nat, size : Nat \ {0}]
        <5>1. n # 0
          BY <2>3 DEF AllocSlow, LegalSize
        <5>2. objs' = objs \cup {[start |-> arenaNext + BeginGap, size |-> n]}
          BY <4>1 DEF InstallSegment
        <5>3. arenaNext + BeginGap \in Nat
          BY DEF TypeOK
        <5> QED BY <5>1, <5>2, <5>3 DEF TypeOK
      <4> QED BY <2>3, <4>2, <4>3, <4>4, <4>5, <4>6 DEF AllocSlow, pageVars, TypeOK
    <3>2. CASE ~(Len(segments) < MaxSegments)
      BY <2>3, <3>2 DEF AllocSlow, allocVars, pageVars, TypeOK
    <3> QED BY <3>1, <3>2
  <2> QED BY <1>3, <2>1, <2>2, <2>3 DEF Alloc
<1> QED BY <1>1, <1>2, <1>3 DEF Next

LEMMA TypeInit == Init => TypeOK
  BY SizeAssumption, TableAssumption, PageAssumption
     DEF Init, TypeOK, NoContext, BarrierArgs

(* Every reachable state is well typed; in particular no object is empty   *)
(* and registerSegment never overruns the segments array.                  *)
THEOREM TypeCorrect == Spec => []TypeOK
  BY TypeInit, TypeStep, PTL DEF Spec

-----------------------------------------------------------------------------
LEMMA HeapInvInit == Init => HeapInv
<1> SUFFICES ASSUME Init PROVE HeapInv
  OBVIOUS
<1>1. /\ heapArena = Null /\ objs = {} /\ segments = <<>> /\ mapped = {}
      /\ arenaNext = Null
      /\ \A c \in Contexts : ctx[c].ptr = Null /\ ctx[c].limit = Null
  BY DEF Init, NoContext
<1> QED BY <1>1, TypeInit
        DEF Init, HeapInv, IdleBeforeInitialize, BelowFrontier, WindowsInSegments,
            SegmentsTileArena, ObjectsDisjoint, WindowsPrivate, ObjectsInSegments

(* No Alloc has succeeded, and Initialize only if g_arena_next is fresh.   *)
NothingAllocated ==
  /\ segments = <<>> /\ objs = {} /\ ctx = [c \in Contexts |-> NoContext]
  /\ IF heapArena = Null THEN mapped = {} ELSE arenaNext = heapArena

(* Before the first segment the conjuncts of HeapInv hold vacuously.       *)
LEMMA EmptyHeap == TypeOK /\ NothingAllocated => HeapInv
<1> SUFFICES ASSUME TypeOK, NothingAllocated PROVE HeapInv
  OBVIOUS
<1> USE DEF NothingAllocated
<1>1. \A c \in Contexts : ctx[c].ptr = 0 /\ ctx[c].limit = 0
  BY Zenon DEF NoContext
<1>2. IdleBeforeInitialize
  BY DEF IdleBeforeInitialize
<1>3. BelowFrontier
  BY <1>1 DEF BelowFrontier, TypeOK
<1>4. SegmentsTileArena
  BY SizeAssumption, PageAssumption DEF SegmentsTileArena, TypeOK
<1>5. WindowsInSegments /\ WindowsPrivate
  BY <1>1 DEF WindowsInSegments, WindowsPrivate
<1>6. ObjectsDisjoint /\ ObjectsInSegments
  BY DEF ObjectsDisjoint, ObjectsInSegments
<1> QED BY <1>2, <1>3, <1>4, <1>5, <1>6 DEF HeapInv

LEMMA InitializeStep == HeapInv /\ TypeOK' /\ Initialize => HeapInv'
<1> SUFFICES ASSUME HeapInv, TypeOK', Initialize PROVE HeapInv'
  OBVIOUS
<1>1. CASE InitializeAgain
  BY <1>1 DEF InitializeAgain, vars, HeapInv, TypeOK, IdleBeforeInitialize,
       BelowFrontier, WindowsInSegments, SegmentsTileArena, ObjectsDisjoint,
       WindowsPrivate, ObjectsInSegments
<1>2. CASE heapArena = Null
  <2>1. segments = <<>> /\ objs = {} /\ mapped = {}
        /\ ctx = [c \in Contexts |-> NoContext]
    BY <1>2 DEF HeapInv, IdleBeforeInitialize
  <2>2. PICK a \in AllocatePages(ArenaBases),
             k \in AllocatePages(TableBases), b \in AllocatePages(TableBases) :
               InitializeFails(a, k, b) \/ InitializeSucceeds(a, k, b)
    BY <1>2 DEF Initialize, InitializeAgain
  <2>3. CASE InitializeFails(a, k, b)
    <3>1. mapped' = {}
      BY <2>1, <2>3 DEF InitializeFails, Obtained, Released
    <3>2. heapArena' = Null /\ segments' = <<>> /\ objs' = {}
          /\ ctx' = [c \in Contexts |-> NoContext]
      BY <1>2, <2>1, <2>3 DEF InitializeFails, allocVars
    <3>3. NothingAllocated'
      BY <3>1, <3>2 DEF NothingAllocated
    <3> QED BY <3>3, EmptyHeap, PTL
  <2>4. CASE InitializeSucceeds(a, k, b)
    <3>1. heapArena' # Null /\ arenaNext' = heapArena'
          /\ segments' = <<>> /\ objs' = {}
          /\ ctx' = [c \in Contexts |-> NoContext]
      BY <2>1, <2>4 DEF InitializeSucceeds, allocVars
    <3>2. NothingAllocated'
      BY <3>1 DEF NothingAllocated
    <3> QED BY <3>2, EmptyHeap, PTL
  <2> QED BY <2>2, <2>3, <2>4
<1> QED BY <1>1, <1>2 DEF Initialize

(* The fast path takes the object out of the context's own window.         *)
LEMMA FastStep ==
  ASSUME HeapInv, TypeOK', NEW c \in Contexts, NEW n \in Sizes, AllocFast(c, n)
  PROVE  HeapInv'
<1> DEFINE obj == [start |-> ctx[c].ptr, size |-> n]
<1>1. /\ n \in Nat /\ n # 0
      /\ ctx[c].ptr # Null /\ ctx[c].ptr \in Nat /\ ctx[c].limit \in Nat
      /\ n <= ctx[c].limit - ctx[c].ptr
  BY SizeAssumption DEF AllocFast, LegalSize, FitsWindow, HeapInv, TypeOK
<1>2. /\ objs' = objs \cup {obj}
      /\ ctx'[c].ptr = ctx[c].ptr + n /\ ctx'[c].limit = ctx[c].limit
      /\ \A d \in Contexts \ {c} : ctx'[d] = ctx[d]
  BY DEF AllocFast, HeapInv, TypeOK
<1>3. UNCHANGED <<heapArena, arenaNext, segments, mapped>>
  BY DEF AllocFast, pageVars
<1>4. heapArena # Null
  BY <1>1 DEF HeapInv, IdleBeforeInitialize, NoContext
<1>5. PICK i \in 1..Len(segments) :
        segments[i] + BeginGap <= ctx[c].ptr /\ ctx[c].limit = segments[i] + GrowthSize
  BY <1>1 DEF HeapInv, WindowsInSegments
<1>6. /\ segments[i] \in Nat /\ heapArena <= segments[i]
      /\ GrowthSize \in Nat /\ BeginGap \in Nat /\ heapArena \in Nat
  <2>1. segments[i] = heapArena + (i - 1) * GrowthSize
    BY <1>4 DEF HeapInv, SegmentsTileArena
  <2>2. (i - 1) * GrowthSize \in Nat
    BY ProductStep, SizeAssumption
  <2>3. heapArena \in Nat
    BY PageAssumption DEF HeapInv, TypeOK
  <2> QED BY <2>1, <2>2, <2>3, SizeAssumption
<1>7. /\ heapArena <= obj.start /\ obj.start + obj.size <= arenaNext
      /\ obj.start + obj.size <= ctx[c].limit
  <2>1. ctx[c].limit <= arenaNext
    BY DEF HeapInv, BelowFrontier
  <2>2. arenaNext \in Nat
    BY DEF HeapInv, TypeOK
  <2>3. obj.start = ctx[c].ptr /\ obj.size = n
    OBVIOUS
  <2> HIDE DEF obj
  <2>4. heapArena <= ctx[c].ptr
    BY <1>1, <1>5, <1>6, SMTT(20)
  <2>5. ctx[c].ptr + n <= ctx[c].limit
    BY <1>1
  <2>6. ctx[c].ptr + n <= arenaNext
    BY <1>1, <2>1, <2>2, <2>5
  <2> QED BY <2>3, <2>4, <2>5, <2>6, SMTT(20)
<1>8. IdleBeforeInitialize'
  BY <1>3, <1>4 DEF IdleBeforeInitialize
<1>9. BelowFrontier'
  <2>1. \A d \in Contexts : ctx'[d].limit = ctx[d].limit
    BY <1>2
  <2> QED BY <1>2, <1>3, <1>7, <2>1 DEF HeapInv, BelowFrontier
<1>10. WindowsInSegments'
  <2> SUFFICES ASSUME NEW d \in Contexts, ctx'[d].ptr # Null
               PROVE  \E j \in 1..Len(segments) :
                        /\ segments[j] + BeginGap <= ctx'[d].ptr
                        /\ ctx'[d].limit = segments[j] + GrowthSize
    BY <1>3 DEF WindowsInSegments
  <2>1. CASE d = c
    <3>1. segments[i] + BeginGap <= ctx'[c].ptr
      BY <1>1, <1>2, <1>5, <1>6, SMTT(20)
    <3>2. ctx'[c].limit = segments[i] + GrowthSize
      BY <1>2, <1>5
    <3> QED BY <2>1, <3>1, <3>2
  <2>2. CASE d # c
    BY <1>2, <2>2 DEF HeapInv, WindowsInSegments
  <2> QED BY <2>1, <2>2
<1>11. SegmentsTileArena'
  BY <1>3 DEF HeapInv, SegmentsTileArena
<1>12. \A p \in objs : p.start + p.size <= obj.start \/ obj.start + obj.size <= p.start
  <2> SUFFICES ASSUME NEW p \in objs
               PROVE  p.start + p.size <= obj.start \/ obj.start + obj.size <= p.start
    OBVIOUS
  <2>1. p.start \in Nat /\ p.size \in Nat
    BY DEF HeapInv, TypeOK
  <2>2. p.start + p.size <= ctx[c].ptr \/ ctx[c].limit <= p.start
    BY DEF HeapInv, WindowsPrivate
  <2> QED BY <1>1, <1>7, <2>1, <2>2
<1>13. ObjectsDisjoint'
  BY <1>2, <1>12 DEF HeapInv, ObjectsDisjoint, Promise!Apart
<1>14. WindowsPrivate'
  <2>1. \A d \in Contexts : ctx[d].ptr \in Nat /\ ctx[d].limit \in Nat
    BY DEF HeapInv, TypeOK
  <2>2. \A p \in objs : p.start \in Nat /\ p.size \in Nat
    BY DEF HeapInv, TypeOK
  <2>3. ASSUME NEW d \in Contexts
        PROVE  /\ ctx'[d].ptr <= ctx'[d].limit
               /\ \A o \in objs' : \/ o.start + o.size <= ctx'[d].ptr
                                   \/ ctx'[d].limit <= o.start
    <3>1. CASE d = c
      BY <1>1, <1>2, <2>1, <2>2, <3>1, SMTT(20) DEF HeapInv, WindowsPrivate
    <3>2. CASE d # c
      <4>1. ctx[c].limit <= ctx[d].ptr \/ ctx[d].limit <= ctx[c].ptr
        BY <3>2 DEF HeapInv, WindowsPrivate
      <4>2. \A o \in objs : o.start + o.size <= ctx[d].ptr \/ ctx[d].limit <= o.start
        BY DEF HeapInv, WindowsPrivate
      <4>3. obj.start + obj.size <= ctx[d].ptr \/ ctx[d].limit <= obj.start
        BY <1>1, <1>7, <2>1, <4>1
      <4> QED BY <1>2, <3>2, <4>2, <4>3 DEF HeapInv, WindowsPrivate
    <3> QED BY <3>1, <3>2
  <2>4. ASSUME NEW d \in Contexts, NEW e \in Contexts \ {d}
        PROVE  ctx'[d].limit <= ctx'[e].ptr \/ ctx'[e].limit <= ctx'[d].ptr
    <3>1. ctx[d].limit <= ctx[e].ptr \/ ctx[e].limit <= ctx[d].ptr
      BY DEF HeapInv, WindowsPrivate
    <3>2. \A x \in Contexts : ctx'[x].limit = ctx[x].limit /\ ctx[x].ptr <= ctx'[x].ptr
      BY <1>1, <1>2, <2>1, SMTT(20)
    <3>3. ctx'[d].ptr \in Nat /\ ctx'[e].ptr \in Nat
      BY DEF TypeOK
    <3> QED BY <2>1, <3>1, <3>2, <3>3
  <2> QED BY <2>3, <2>4 DEF WindowsPrivate
<1>15. ObjectsInSegments'
  <2>1. /\ segments[i] + BeginGap <= obj.start
        /\ obj.start + obj.size <= segments[i] + GrowthSize
    BY <1>5, <1>7
  <2> QED BY <1>2, <1>3, <2>1 DEF HeapInv, ObjectsInSegments
<1> QED BY <1>8, <1>9, <1>10, <1>11, <1>13, <1>14, <1>15 DEF HeapInv

(* registerSegment always has room for a segment the arena has room for.   *)
LEMMA RoomInSegments ==
  ASSUME HeapInv, ArenaHasRoom
  PROVE  Len(segments) < MaxSegments
<1>1. heapArena # Null /\ arenaNext + GrowthSize <= heapArena + ArenaSize
  BY DEF ArenaHasRoom
<1>2. arenaNext = heapArena + Len(segments) * GrowthSize
  BY <1>1 DEF HeapInv, SegmentsTileArena
<1>3. Len(segments) \in Nat /\ heapArena \in Nat
  BY PageAssumption DEF HeapInv, TypeOK
<1>4. GrowthSize \in Nat \ {0} /\ ArenaSize \in Nat /\ MaxSegments \in Nat
  BY SizeAssumption, TableAssumption
<1>5. /\ Len(segments) * GrowthSize \in Nat
      /\ (Len(segments) + 1) * GrowthSize = Len(segments) * GrowthSize + GrowthSize
  BY <1>3, <1>4, ProductStep
<1>6. MaxSegments * GrowthSize \in Nat
  BY <1>4, ProductStep
<1>7. (Len(segments) + 1) * GrowthSize <= MaxSegments * GrowthSize
  BY <1>1, <1>2, <1>3, <1>4, <1>5, <1>6, TableAssumption
<1> QED BY <1>3, <1>4, <1>7, ProductBound

(* The slow path takes a segment no window and no object reaches into.     *)
LEMMA SlowStep ==
  ASSUME HeapInv, TypeOK', NEW c \in Contexts, NEW n \in Sizes, AllocSlow(c, n)
  PROVE  HeapInv'
<1> DEFINE obj == [start |-> arenaNext + BeginGap, size |-> n]
           k == Len(segments)
<1>1. /\ n \in Nat /\ n # 0 /\ n <= GrowthSize - BeginGap
      /\ GrowthSize \in Nat /\ BeginGap \in Nat
      /\ arenaNext \in Nat /\ heapArena \in Nat /\ k \in Nat
  <2>1. n # 0 /\ n <= GrowthSize - BeginGap
    BY DEF AllocSlow, LegalSize
  <2>2. TypeOK
    BY DEF HeapInv
  <2>3. arenaNext \in Nat /\ k \in Nat
    BY <2>2 DEF TypeOK
  <2>4. heapArena \in Nat
    BY <2>2, PageAssumption DEF TypeOK
  <2> QED BY <2>1, <2>3, <2>4, SizeAssumption
<1>2. /\ heapArena # Null /\ arenaNext' = arenaNext + GrowthSize
      /\ heapArena' = heapArena
      /\ arenaNext + GrowthSize <= heapArena + ArenaSize
  BY DEF AllocSlow, ArenaHasRoom, pageVars
<1>3. InstallSegment(c, n, arenaNext)
  <2>1. ArenaHasRoom
    BY DEF AllocSlow
  <2> QED BY <2>1, RoomInSegments DEF AllocSlow
<1>4. /\ segments' = Append(segments, arenaNext)
      /\ objs' = objs \cup {obj}
      /\ ctx'[c].ptr = arenaNext + BeginGap + n
      /\ ctx'[c].limit = arenaNext + GrowthSize
      /\ \A d \in Contexts \ {c} : ctx'[d] = ctx[d]
  BY <1>3 DEF InstallSegment, NewWindow, HeapInv, TypeOK
<1>5. /\ Len(segments') = k + 1 /\ segments'[k + 1] = arenaNext
      /\ \A i \in 1..k : segments'[i] = segments[i]
  <2>1. segments \in Seq(Nat)
    BY DEF HeapInv, TypeOK
  <2>2. segments' = Append(segments, arenaNext)
    BY <1>4
  <2>3. arenaNext \in Nat
    BY <1>1
  <2>4. Len(segments') = Len(segments) + 1
    BY <2>1, <2>2, <2>3
  <2>5. segments'[Len(segments) + 1] = arenaNext
    BY <2>1, <2>2, <2>3
  <2>6. \A i \in 1..Len(segments) : segments'[i] = segments[i]
    BY <2>1, <2>2, <2>3
  <2> QED BY <2>4, <2>5, <2>6
<1>6. /\ arenaNext = heapArena + k * GrowthSize
      /\ \A i \in 1..k : segments[i] = heapArena + (i - 1) * GrowthSize
  BY <1>2 DEF HeapInv, SegmentsTileArena
<1>7. k * GrowthSize \in Nat /\ (k + 1) * GrowthSize = k * GrowthSize + GrowthSize
  BY <1>1, ProductStep
<1>8. heapArena <= arenaNext
  BY <1>1, <1>6, <1>7
<1>9. \A d \in Contexts : /\ ctx[d].ptr \in Nat /\ ctx[d].limit \in Nat
                         /\ ctx[d].ptr <= ctx[d].limit
                         /\ ctx[d].limit <= arenaNext
  BY DEF HeapInv, TypeOK, WindowsPrivate, BelowFrontier
<1>10. \A p \in objs : /\ p.start \in Nat /\ p.size \in Nat
                      /\ heapArena <= p.start /\ p.start + p.size <= arenaNext
  BY DEF HeapInv, TypeOK, BelowFrontier
<1>11. obj.start = arenaNext + BeginGap /\ obj.size = n
  OBVIOUS
<1> HIDE DEF obj, k
<1>12. IdleBeforeInitialize'
  BY <1>2 DEF IdleBeforeInitialize
<1>13. BelowFrontier'
  <2>1. \A o \in objs' : heapArena <= o.start /\ o.start + o.size <= arenaNext + GrowthSize
    BY <1>1, <1>4, <1>8, <1>10, <1>11
  <2>2. \A d \in Contexts : ctx'[d].limit <= arenaNext + GrowthSize
    BY <1>1, <1>4, <1>9
  <2> QED BY <1>2, <2>1, <2>2 DEF BelowFrontier
<1>14. WindowsInSegments'
  <2> SUFFICES ASSUME NEW d \in Contexts, ctx'[d].ptr # Null
               PROVE  \E j \in 1..Len(segments') :
                        /\ segments'[j] + BeginGap <= ctx'[d].ptr
                        /\ ctx'[d].limit = segments'[j] + GrowthSize
    BY DEF WindowsInSegments
  <2>1. CASE d = c
    <3>1. k + 1 \in 1..Len(segments')
      BY <1>1, <1>5
    <3>2. segments'[k + 1] + BeginGap <= ctx'[c].ptr
      BY <1>1, <1>4, <1>5
    <3>3. ctx'[c].limit = segments'[k + 1] + GrowthSize
      BY <1>4, <1>5
    <3> QED BY <2>1, <3>1, <3>2, <3>3
  <2>2. CASE d # c
    <3>1. PICK j \in 1..k : /\ segments[j] + BeginGap <= ctx[d].ptr
                            /\ ctx[d].limit = segments[j] + GrowthSize
      BY <1>4, <2>2 DEF HeapInv, WindowsInSegments, k
    <3>2. j \in 1..Len(segments') /\ segments'[j] = segments[j]
      BY <1>1, <1>5
    <3> QED BY <1>4, <2>2, <3>1, <3>2
  <2> QED BY <2>1, <2>2
<1>15. SegmentsTileArena'
  <2>1. ASSUME NEW i \in 1..(k + 1)
        PROVE  segments'[i] = heapArena + (i - 1) * GrowthSize
    <3>1. CASE i = k + 1
      BY <1>1, <1>5, <1>6, <3>1
    <3>2. CASE i # k + 1
      <4>1. i \in 1..k
        BY <1>1, <3>2
      <4> QED BY <1>5, <1>6, <4>1
    <3> QED BY <3>1, <3>2
  <2>2. arenaNext' = heapArena + (k + 1) * GrowthSize
    BY <1>1, <1>2, <1>6, <1>7
  <2>3. (k + 1) * GrowthSize <= ArenaSize
    BY <1>1, <1>2, <1>6, <1>7, SizeAssumption
  <2> QED BY <1>2, <1>5, <2>1, <2>2, <2>3 DEF SegmentsTileArena
<1>16. ObjectsDisjoint'
  <2>1. \A p \in objs : p.start + p.size <= obj.start
    BY <1>1, <1>10, <1>11
  <2> QED BY <1>4, <2>1 DEF HeapInv, ObjectsDisjoint, Promise!Apart
<1>17. WindowsPrivate'
  <2>1. \A d \in Contexts \ {c} : ctx'[d].limit <= ctx'[c].ptr
    BY <1>1, <1>4, <1>9
  <2>2. ASSUME NEW d \in Contexts
        PROVE  /\ ctx'[d].ptr <= ctx'[d].limit
               /\ \A o \in objs' : \/ o.start + o.size <= ctx'[d].ptr
                                   \/ ctx'[d].limit <= o.start
    <3>1. CASE d = c
      <4>1. ctx'[c].ptr <= ctx'[c].limit
        BY <1>1, <1>4
      <4>2. \A o \in objs' : o.start + o.size <= ctx'[c].ptr
        BY <1>1, <1>4, <1>10, <1>11
      <4> QED BY <3>1, <4>1, <4>2
    <3>2. CASE d # c
      <4>1. ctx[d].limit <= obj.start
        BY <1>1, <1>9, <1>11
      <4>2. \A o \in objs : o.start + o.size <= ctx[d].ptr \/ ctx[d].limit <= o.start
        BY DEF HeapInv, WindowsPrivate
      <4> QED BY <1>4, <1>9, <3>2, <4>1, <4>2
    <3> QED BY <3>1, <3>2
  <2>3. ASSUME NEW d \in Contexts, NEW e \in Contexts \ {d}
        PROVE  ctx'[d].limit <= ctx'[e].ptr \/ ctx'[e].limit <= ctx'[d].ptr
    <3>1. CASE d = c \/ e = c
      BY <2>1, <3>1
    <3>2. CASE d # c /\ e # c
      BY <1>4, <3>2 DEF HeapInv, WindowsPrivate
    <3> QED BY <3>1, <3>2
  <2> QED BY <2>2, <2>3 DEF WindowsPrivate
<1>18. ObjectsInSegments'
  <2> SUFFICES ASSUME NEW o \in objs'
               PROVE  \E j \in 1..Len(segments') :
                        /\ segments'[j] + BeginGap <= o.start
                        /\ o.start + o.size <= segments'[j] + GrowthSize
    BY DEF ObjectsInSegments
  <2>1. CASE o = obj
    <3>1. k + 1 \in 1..Len(segments')
      BY <1>1, <1>5
    <3>2. /\ segments'[k + 1] + BeginGap <= o.start
          /\ o.start + o.size <= segments'[k + 1] + GrowthSize
      BY <1>1, <1>5, <1>11, <2>1
    <3> QED BY <3>1, <3>2
  <2>2. CASE o \in objs
    <3>1. PICK j \in 1..k : /\ segments[j] + BeginGap <= o.start
                            /\ o.start + o.size <= segments[j] + GrowthSize
      BY <2>2 DEF HeapInv, ObjectsInSegments, k
    <3>2. j \in 1..Len(segments') /\ segments'[j] = segments[j]
      BY <1>1, <1>5
    <3> QED BY <3>1, <3>2
  <2> QED BY <1>4, <2>1, <2>2
<1> QED BY <1>12, <1>13, <1>14, <1>15, <1>16, <1>17, <1>18 DEF HeapInv

LEMMA HeapInvStep == HeapInv /\ [Next]_vars => HeapInv'
<1> SUFFICES ASSUME HeapInv, [Next]_vars PROVE HeapInv'
  OBVIOUS
<1>1. TypeOK'
  BY TypeStep DEF HeapInv
<1>2. CASE UNCHANGED vars
  BY <1>2 DEF vars, HeapInv, TypeOK, IdleBeforeInitialize, BelowFrontier,
       WindowsInSegments, SegmentsTileArena, ObjectsDisjoint, WindowsPrivate,
       ObjectsInSegments
<1>3. CASE Initialize
  BY <1>1, <1>3, InitializeStep
<1>4. ASSUME NEW c \in Contexts, NEW n \in Sizes, Alloc(c, n)
      PROVE  HeapInv'
  <2>1. CASE AllocReturnsNull(c, n)
    BY <1>2, <2>1 DEF AllocReturnsNull
  <2>2. CASE AllocFast(c, n)
    BY <1>1, <2>2, FastStep
  <2>3. CASE AllocSlow(c, n)
    BY <1>1, <2>3, SlowStep
  <2> QED BY <1>4, <2>1, <2>2, <2>3 DEF Alloc
<1> QED BY <1>2, <1>3, <1>4 DEF Next

THEOREM HeapInvariant == Spec => []HeapInv
  BY HeapInvInit, HeapInvStep, PTL DEF Spec

(* No two objects ever share a byte, for every interleaving of serialised  *)
(* calls on any number of contexts.                                        *)
THEOREM ObjectsNeverOverlap == Spec => []ObjectsDisjoint
<1>1. HeapInv => ObjectsDisjoint
  BY DEF HeapInv
<1> QED BY <1>1, HeapInvariant, PTL

(* A context's window is its own, and its length is never negative.        *)
THEOREM WindowsStayPrivate == Spec => []WindowsPrivate
<1>1. HeapInv => WindowsPrivate
  BY DEF HeapInv
<1> QED BY <1>1, HeapInvariant, PTL

(* IsHeapPointer knows every object, and no object straddles two segments. *)
THEOREM ObjectsStayInSegments == Spec => []ObjectsInSegments
<1>1. HeapInv => ObjectsInSegments
  BY DEF HeapInv
<1> QED BY <1>1, HeapInvariant, PTL

(* The registered segments tile the arena up to g_arena_next: none is lost,*)
(* and registerSegment never refuses one.                                  *)
THEOREM NoSegmentLost == Spec => []SegmentsTileArena
<1>1. HeapInv => SegmentsTileArena
  BY DEF HeapInv
<1> QED BY <1>1, HeapInvariant, PTL

-----------------------------------------------------------------------------
(* The segment an address lies in, as its number from 0.                   *)
LEMMA Quotient ==
  ASSUME NEW x \in Nat, NEW g \in Nat \ {0}
  PROVE  \E q \in Nat : q * g <= x /\ x < (q + 1) * g
<1>1. x \div g \in Nat /\ x = g * (x \div g) + (x % g) /\ x % g \in 0..(g - 1)
  BY SMTT(30)
<1> DEFINE q == x \div g
<1> HIDE DEF q
<1>2. q \in Nat /\ q * g <= x /\ x < q * g + g
  BY <1>1, SMT DEF q
<1>3. (q + 1) * g = q * g + g
  BY <1>2, ProductStep
<1> QED BY <1>2, <1>3

LEMMA ProductOrder ==
  ASSUME NEW k \in Nat, NEW m \in Nat, NEW g \in Nat, k <= m
  PROVE  k * g <= m * g
<1>1. PICK d \in Nat : m = k + d
  <2>1. m - k \in Nat /\ m = k + (m - k)
    OBVIOUS
  <2> QED BY <2>1
<1>2. d * g \in Nat /\ m * g = k * g + d * g /\ k * g \in Nat
  BY <1>1, SMT
<1> QED BY <1>2

LEMMA PointersExact ==
  ASSUME HeapInv, NEW p \in Nat
  PROVE  PointerExact(p)
<1> DEFINE n == Len(segments)
<1>1. CASE heapArena = Null
  <2>1. segments = <<>>
    BY <1>1 DEF HeapInv, IdleBeforeInitialize
  <2> QED BY <1>1, <2>1 DEF PointerExact, IsHeapPointer
<1>2. CASE heapArena # Null
  <2>1. /\ \A i \in 1..n : segments[i] = heapArena + (i - 1) * GrowthSize
        /\ arenaNext = heapArena + n * GrowthSize
    BY <1>2 DEF HeapInv, SegmentsTileArena
  <2>2. n \in Nat /\ heapArena \in Nat /\ GrowthSize \in Nat \ {0}
    <3>1. segments \in Seq(Nat) /\ heapArena \in ArenaBases \cup {Null}
      BY DEF HeapInv, TypeOK
    <3> QED BY <3>1, SizeAssumption, PageAssumption
  <2> HIDE DEF n
  <2>3. ASSUME NEW i \in 1..n, segments[i] <= p, p < segments[i] + GrowthSize
        PROVE  heapArena <= p /\ p < arenaNext
    <3>1. /\ (i - 1) * GrowthSize \in Nat
          /\ i * GrowthSize = (i - 1) * GrowthSize + GrowthSize
      <4>1. i - 1 \in Nat /\ (i - 1) + 1 = i
        BY <2>2
      <4> QED BY <2>2, <4>1, ProductStep
    <3>2. i * GrowthSize <= n * GrowthSize /\ n * GrowthSize \in Nat
      BY <2>2, ProductOrder, ProductStep
    <3>3. segments[i] = heapArena + (i - 1) * GrowthSize
      BY <2>1
    <3> DEFINE low == (i - 1) * GrowthSize
               high == i * GrowthSize
               top == n * GrowthSize
    <3>4. low \in Nat /\ high = low + GrowthSize /\ high <= top /\ top \in Nat
      BY <3>1, <3>2
    <3>5. heapArena + low <= p /\ p < heapArena + low + GrowthSize
      BY <2>3, <3>3
    <3>6. arenaNext = heapArena + top
      BY <2>1
    <3> HIDE DEF low, high, top
    <3> QED BY <2>2, <3>4, <3>5, <3>6
  <2>4. ASSUME heapArena <= p, p < arenaNext
        PROVE  \E i \in 1..n : segments[i] <= p /\ p < segments[i] + GrowthSize
    <3>1. p - heapArena \in Nat
      BY <2>2, <2>4
    <3>2. PICK q \in Nat : q * GrowthSize <= p - heapArena
                           /\ p - heapArena < (q + 1) * GrowthSize
      BY <2>2, <3>1, Quotient
    <3>3. q < n
      <4>1. SUFFICES ASSUME n <= q PROVE FALSE
        BY <2>2
      <4>2. n * GrowthSize <= q * GrowthSize
        BY <2>2, <4>1, ProductOrder
      <4>3. n * GrowthSize \in Nat /\ q * GrowthSize \in Nat
        BY <2>2, ProductStep
      <4>4. p - heapArena < n * GrowthSize
        BY <2>1, <2>2, <2>4, <4>3
      <4> QED BY <3>1, <3>2, <4>2, <4>3, <4>4
    <3>4. q + 1 \in 1..n /\ segments[q + 1] = heapArena + q * GrowthSize
      <4>1. q + 1 \in 1..n /\ (q + 1) - 1 = q
        BY <2>2, <3>3
      <4> QED BY <2>1, <4>1
    <3>5. q * GrowthSize \in Nat /\ (q + 1) * GrowthSize = q * GrowthSize + GrowthSize
      BY <2>2, ProductStep
    <3>6. segments[q + 1] <= p /\ p < segments[q + 1] + GrowthSize
      <4> DEFINE low == q * GrowthSize
      <4>1. low \in Nat /\ segments[q + 1] = heapArena + low
            /\ low <= p - heapArena /\ p - heapArena < low + GrowthSize
        BY <3>2, <3>4, <3>5
      <4> HIDE DEF low
      <4> QED BY <2>2, <4>1
    <3> QED BY <3>4, <3>6
  <2> QED BY <1>2, <2>3, <2>4 DEF PointerExact, IsHeapPointer, n
<1> QED BY <1>1, <1>2

(* IsHeapPointer is exact for every address there is, not only for those   *)
(* near the heap (MiniGCHeap.cpp:429-441).                                 *)
THEOREM HeapPointersAlwaysExact ==
  Spec => [](HeapPointersExact /\ \A p \in Nat : PointerExact(p))
<1>1. HeapInv => \A p \in Nat : PointerExact(p)
  BY PointersExact
<1>2. HeapInv => HeapPointersExact
  <2> SUFFICES ASSUME HeapInv, NEW p \in 0..(heapArena + ArenaSize + GrowthSize)
               PROVE  PointerExact(p)
    BY DEF HeapPointersExact
  <2>1. heapArena \in Nat /\ ArenaSize \in Nat /\ GrowthSize \in Nat
    <3>1. heapArena \in ArenaBases \cup {Null}
      BY DEF HeapInv, TypeOK
    <3> QED BY <3>1, SizeAssumption, PageAssumption, TableAssumption
  <2> QED BY <2>1, PointersExact
<1> QED BY <1>1, <1>2, HeapInvariant, PTL

-----------------------------------------------------------------------------
(* Pages and the barrier need no arithmetic, so their invariants have      *)
(* proofs of their own.                                                    *)
PagesInv ==
  /\ mapped = {heapArena, cardTable, bundleTable} \ {Null}
  /\ heapArena = Null => cardTable = Null /\ bundleTable = Null
  /\ heapArena # Null => cardTable # Null /\ bundleTable # Null

LEMMA PagesStep == PagesInv /\ [Next]_vars => PagesInv'
<1> SUFFICES ASSUME PagesInv, [Next]_vars PROVE PagesInv'
  OBVIOUS
<1> USE DEF PagesInv
<1>1. CASE Initialize
  <2>1. CASE InitializeAgain
    BY <2>1 DEF InitializeAgain, vars
  <2>2. ASSUME heapArena = Null,
               NEW a \in AllocatePages(ArenaBases),
               NEW k \in AllocatePages(TableBases),
               NEW b \in AllocatePages(TableBases),
               InitializeFails(a, k, b)
        PROVE  PagesInv'
    BY <2>2 DEF InitializeFails, Obtained, Released
  <2>3. ASSUME heapArena = Null,
               NEW a \in AllocatePages(ArenaBases),
               NEW k \in AllocatePages(TableBases),
               NEW b \in AllocatePages(TableBases),
               InitializeSucceeds(a, k, b)
        PROVE  PagesInv'
    BY <2>3 DEF InitializeSucceeds, Obtained
  <2> QED BY <1>1, <2>1, <2>2, <2>3 DEF Initialize
<1>2. CASE UNCHANGED pageVars
  BY <1>2 DEF pageVars
<1>3. UNCHANGED pageVars \/ Initialize
  BY DEF Next, Alloc, AllocReturnsNull, AllocFast, AllocSlow, vars, pageVars
<1> QED BY <1>1, <1>2, <1>3

(* Whatever Initialize calls fail, MiniGC owns the pages its globals name, *)
(* all three blocks or none.                                               *)
THEOREM PagesAccounted == Spec => []NoPageLeak
<1>1. Init => PagesInv
  BY DEF Init, PagesInv
<1>2. PagesInv => NoPageLeak
  BY DEF PagesInv, NoPageLeak
<1> QED BY <1>1, <1>2, PagesStep, PTL DEF Spec

LEMMA BarrierStep ==
  HeapInv /\ HeapInv' /\ BarrierMatchesGlobals /\ [Next]_vars => BarrierMatchesGlobals'
<1> SUFFICES ASSUME HeapInv, HeapInv', BarrierMatchesGlobals, [Next]_vars
             PROVE  BarrierMatchesGlobals'
  OBVIOUS
<1>1. CASE UNCHANGED vars
  BY <1>1 DEF vars, BarrierMatchesGlobals
<1>2. CASE Initialize
  <2>1. CASE InitializeAgain
    BY <1>1, <2>1 DEF InitializeAgain
  <2>2. ASSUME heapArena = Null,
               NEW a, NEW k, NEW b, InitializeFails(a, k, b)
        PROVE  BarrierMatchesGlobals'
    BY <2>2 DEF InitializeFails, BarrierMatchesGlobals
  <2>3. ASSUME heapArena = Null,
               NEW a, NEW k, NEW b, InitializeSucceeds(a, k, b)
        PROVE  BarrierMatchesGlobals'
    <3>1. segments' = <<>>
      BY <2>3 DEF InitializeSucceeds, allocVars, HeapInv, IdleBeforeInitialize
    <3> QED BY <2>3, <3>1
            DEF InitializeSucceeds, StompWriteBarrier, BarrierMatchesGlobals
  <2> QED BY <1>2, <2>1, <2>2, <2>3 DEF Initialize
<1>3. ASSUME NEW c \in Contexts, NEW n \in Sizes, Alloc(c, n)
      PROVE  BarrierMatchesGlobals'
  <2>1. CASE AllocReturnsNull(c, n)
    BY <1>1, <2>1 DEF AllocReturnsNull
  <2>2. CASE AllocFast(c, n)
    BY <2>2 DEF AllocFast, pageVars, BarrierMatchesGlobals
  <2>3. CASE AllocSlow(c, n)
    <3>1. heapArena # Null /\ ArenaHasRoom
          /\ UNCHANGED <<heapArena, cardTable, bundleTable, lowest>>
      BY <2>3 DEF AllocSlow, ArenaHasRoom, pageVars
    <3>2. InstallSegment(c, n, arenaNext)
      BY <2>3, <3>1, RoomInSegments DEF AllocSlow
    <3>3. segments \in Seq(Nat) /\ arenaNext \in Nat
          /\ segments' = Append(segments, arenaNext)
      BY <3>2 DEF InstallSegment, HeapInv, TypeOK
    <3>4. segments' # <<>>
      BY <3>3
    <3>5. CASE segments = <<>>
      <4>1. segments'[1] = arenaNext
        BY <3>3, <3>5
      <4>2. highest = heapArena
        BY <3>1, <3>5 DEF BarrierMatchesGlobals
      <4> QED BY <3>1, <3>2, <3>4, <4>1, <4>2
              DEF InstallSegment, PublishFirstSegment, StompWriteBarrier,
                  BarrierMatchesGlobals
    <3>6. CASE segments # <<>>
      <4>1. segments'[1] = segments[1] /\ 1 \in 1..Len(segments)
        BY <3>3, <3>6
      <4>2. highest = segments[1] + GrowthSize
        BY <3>1, <3>6 DEF BarrierMatchesGlobals
      <4>3. segments[1] = heapArena + (1 - 1) * GrowthSize
        BY <3>1, <4>1 DEF HeapInv, SegmentsTileArena
      <4>4. heapArena \in Nat /\ GrowthSize \in Nat \ {0}
        <5>1. heapArena \in ArenaBases \cup {Null}
          BY DEF HeapInv, TypeOK
        <5> QED BY <5>1, SizeAssumption, PageAssumption
      <4>5. highest # heapArena
        BY <4>2, <4>3, <4>4
      <4>6. UNCHANGED <<highest, barrier>>
        BY <3>2, <4>5 DEF InstallSegment, PublishFirstSegment
      <4> QED BY <3>1, <3>4, <3>6, <4>1, <4>6 DEF BarrierMatchesGlobals
    <3> QED BY <3>5, <3>6
  <2> QED BY <1>3, <2>1, <2>2, <2>3 DEF Alloc
<1> QED BY <1>1, <1>2, <1>3 DEF Next

(* The write barrier always works with the range and tables in the GC's    *)
(* globals, which reach from the arena to the end of the first segment.    *)
THEOREM BarrierInformed == Spec => []BarrierMatchesGlobals
<1>1. Init => BarrierMatchesGlobals
  BY DEF Init, BarrierMatchesGlobals
<1> QED BY <1>1, BarrierStep, HeapInvariant, PTL DEF Spec

-----------------------------------------------------------------------------
LEMMA PromiseStep ==
  HeapInv /\ HeapInv' /\ [Next]_vars => [Promise!Next]_(Promise!vars)
<1> SUFFICES ASSUME HeapInv, HeapInv', [Next]_vars
             PROVE  Promise!Next \/ UNCHANGED Promise!vars
  OBVIOUS
<1>1. CASE UNCHANGED vars
  BY <1>1 DEF vars, Promise!vars
<1>2. CASE Initialize
  <2>1. CASE InitializeAgain
    BY <1>1, <2>1 DEF InitializeAgain
  <2>2. ASSUME heapArena = Null,
               NEW a, NEW k, NEW b, InitializeFails(a, k, b)
        PROVE  UNCHANGED Promise!vars
    BY <2>2 DEF InitializeFails, allocVars, Promise!vars
  <2>3. ASSUME heapArena = Null,
               NEW a \in AllocatePages(ArenaBases),
               NEW k, NEW b, InitializeSucceeds(a, k, b)
        PROVE  Promise!ChooseRegion
    <3>1. a \in Nat \ {0}
      BY <2>3, PageAssumption DEF InitializeSucceeds, AllocatePages
    <3> QED BY <2>3, <3>1 DEF InitializeSucceeds, allocVars, Promise!ChooseRegion
  <2> QED BY <1>2, <2>1, <2>2, <2>3 DEF Initialize, Promise!Next
<1>3. ASSUME NEW c \in Contexts, NEW n \in Sizes, Alloc(c, n)
      PROVE  Promise!Next \/ UNCHANGED Promise!vars
  <2>1. CASE AllocReturnsNull(c, n)
    BY <1>1, <2>1 DEF AllocReturnsNull
  <2>2. ASSUME NEW o, objs' = objs \cup {o}, UNCHANGED heapArena, heapArena # Null
        PROVE  Promise!Next \/ UNCHANGED Promise!vars
    <3>1. CASE o \in objs
      BY <2>2, <3>1 DEF Promise!vars
    <3>2. CASE o \notin objs
      <4>1. o \in objs' /\ o \in objs' \ objs
        BY <2>2, <3>2
      <4>2. o.start \in Nat /\ o.size \in Nat /\ o.size > 0
        <5>1. objs' \subseteq [start : Nat, size : Nat \ {0}]
          BY DEF HeapInv, TypeOK
        <5>2. o \in [start : Nat, size : Nat \ {0}]
          BY <4>1, <5>1
        <5> QED BY <5>2
      <4>3. \A p \in objs : Promise!Apart(o, p)
        BY <2>2, <3>2, <4>1 DEF HeapInv, ObjectsDisjoint
      <4>4. heapArena <= o.start /\ o.start + o.size <= arenaNext'
        BY <2>2, <4>1 DEF HeapInv, BelowFrontier
      <4>5. arenaNext' <= heapArena + ArenaSize
        <5>1. arenaNext' = heapArena + Len(segments') * GrowthSize
              /\ Len(segments') * GrowthSize <= ArenaSize
          BY <2>2 DEF HeapInv, SegmentsTileArena
        <5>2. Len(segments') \in Nat /\ heapArena \in Nat
          <6>1. segments' \in Seq(Nat)
            BY DEF HeapInv, TypeOK
          <6>2. heapArena \in ArenaBases \cup {Null}
            BY DEF HeapInv, TypeOK
          <6> QED BY <6>1, <6>2, PageAssumption
        <5>3. Len(segments') * GrowthSize \in Nat
          BY <5>2, ProductStep, SizeAssumption
        <5> QED BY <5>1, <5>2, <5>3, SizeAssumption
      <4>6. Promise!Inside(o, heapArena)
        <5>1. arenaNext' \in Nat /\ heapArena \in Nat
          BY PageAssumption DEF HeapInv, TypeOK
        <5> QED BY <4>2, <4>4, <4>5, <5>1, SizeAssumption DEF Promise!Inside
      <4> QED BY <2>2, <4>1, <4>2, <4>3, <4>6 DEF Promise!Next, Promise!NewObject
    <3> QED BY <3>1, <3>2
  <2>3. CASE AllocFast(c, n)
    <3>1. heapArena # Null
      BY <2>3 DEF AllocFast, FitsWindow, HeapInv, IdleBeforeInitialize, NoContext
    <3> QED BY <2>2, <2>3, <3>1 DEF AllocFast, pageVars
  <2>4. CASE AllocSlow(c, n)
    <3>1. heapArena # Null /\ ArenaHasRoom
      BY <2>4 DEF AllocSlow, ArenaHasRoom
    <3>2. InstallSegment(c, n, arenaNext)
      BY <2>4, <3>1, RoomInSegments DEF AllocSlow
    <3> QED BY <2>2, <2>4, <3>1, <3>2 DEF AllocSlow, InstallSegment, pageVars
  <2> QED BY <1>3, <2>1, <2>3, <2>4 DEF Alloc
<1> QED BY <1>1, <1>2, <1>3 DEF Next

(* The heap implements ObjectSpace: every step chooses the region, adds one*)
(* object apart from all others inside it, or leaves both alone.           *)
THEOREM HeapImplementsObjectSpace == Spec => ImplementsObjectSpace
<1>1. Init => Promise!Init
  BY DEF Init, Promise!Init
<1> QED BY <1>1, PromiseStep, HeapInvariant, PTL
        DEF Spec, ImplementsObjectSpace, Promise!Spec

=============================================================================
