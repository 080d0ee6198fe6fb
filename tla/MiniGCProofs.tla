---------------------------- MODULE MiniGCProofs ----------------------------
(***************************************************************************)
(* Theorems about the library under any number of hosts: what carries over *)
(* from the heap, and what the parts guarantee only together.              *)
(***************************************************************************)
EXTENDS MiniGC, Sequences, TLAPS

(* The theorems of MiniGCHeapProofs about the heap that all hosts share.   *)
Shared == INSTANCE MiniGCHeapProofs WITH Contexts <- EEs

-----------------------------------------------------------------------------
(* The store, as the first half of the handle manager's state.             *)
StoreInv == store \in Stores \cup {NoStore} /\ StoreNeverDangles

LEMMA StoreStep == StoreInv /\ [Next]_vars => StoreInv'
<1> SUFFICES ASSUME StoreInv, [Next]_vars PROVE StoreInv'
  OBVIOUS
<1> USE DEF StoreInv, StoreNeverDangles
<1>1. CASE ManagerInitialize
  BY <1>1, HostAssumption DEF ManagerInitialize
<1>2. CASE ManagerShutdown
  BY <1>2 DEF ManagerShutdown
<1>3. CASE UNCHANGED <<store, liveStores>>
  BY <1>3
<1>4. ASSUME NEW e \in EEs, Load(e) PROVE UNCHANGED <<store, liveStores>>
  BY <1>4 DEF Load
<1>5. CASE Exit \/ UseHandles \/ HeapInitialize
  BY <1>5 DEF Exit, UseHandles, HeapInitialize
<1>6. ASSUME NEW n \in Sizes, Alloc(n) PROVE UNCHANGED <<store, liveStores>>
  BY <1>6 DEF Alloc
<1>7. CASE HeapShutdown \/ UNCHANGED vars
  BY <1>7 DEF HeapShutdown, vars
<1> QED BY <1>1, <1>2, <1>3, <1>4, <1>5, <1>6, <1>7 DEF Next

(* However many hosts start and shut the handle manager down, and in which *)
(* order, the store pointer never dangles and no store is lost             *)
(* (MiniGCHandleManager.cpp:8-24).                                         *)
THEOREM StoreAlwaysExists == Spec => []StoreNeverDangles
<1>1. Init => StoreInv
  BY DEF Init, StoreInv, StoreNeverDangles
<1>2. StoreInv => StoreNeverDangles
  BY DEF StoreInv
<1> QED BY <1>1, <1>2, StoreStep, PTL DEF Spec

-----------------------------------------------------------------------------
(* What each action does to the heap: a call of the heap's, or nothing.    *)
LEMMA HeapStep ==
  ASSUME [Next]_vars
  PROVE  \/ UNCHANGED <<heapVars, setUp, told>>
         \/ HeapInitialize /\ running # NoEE
         \/ running # NoEE /\ \E n \in Sizes : Alloc(n)
<1>1. ASSUME NEW e \in EEs, Load(e) PROVE UNCHANGED <<heapVars, setUp, told>>
  BY <1>1 DEF Load
<1>2. CASE Exit
  BY <1>2 DEF Exit
<1>3. CASE ManagerInitialize
  BY <1>3 DEF ManagerInitialize
<1>4. CASE ManagerShutdown
  BY <1>4 DEF ManagerShutdown
<1>5. CASE UseHandles
  BY <1>5 DEF UseHandles
<1>6. CASE HeapShutdown \/ UNCHANGED vars
  BY <1>6 DEF HeapShutdown, vars
<1> QED BY <1>1, <1>2, <1>3, <1>4, <1>5, <1>6 DEF Next

(* The running host is the one the static gcToCLR names.                   *)
HostInv ==
  /\ running \in EEs \cup {NoEE}
  /\ started \subseteq EEs
  /\ running # NoEE => gcToCLR = running /\ running \in started

LEMMA HostStep == HostInv /\ [Next]_vars => HostInv'
<1> SUFFICES ASSUME HostInv, [Next]_vars PROVE HostInv'
  OBVIOUS
<1> USE DEF HostInv
<1>1. ASSUME NEW e \in EEs, Load(e) PROVE HostInv'
  BY <1>1, HostAssumption DEF Load, GC_Initialize, ConstructHeap
<1>2. CASE Exit
  BY <1>2 DEF Exit
<1>3. CASE ManagerInitialize \/ ManagerShutdown \/ UseHandles \/ HeapInitialize
  BY <1>3 DEF ManagerInitialize, ManagerShutdown, UseHandles, HeapInitialize, hostVars
<1>4. ASSUME NEW n \in Sizes, Alloc(n) PROVE HostInv'
  BY <1>4 DEF Alloc, hostVars
<1>5. CASE HeapShutdown \/ UNCHANGED vars
  BY <1>5 DEF HeapShutdown, vars, hostVars
<1> QED BY <1>1, <1>2, <1>3, <1>4, <1>5 DEF Next

LEMMA HostInvariant == Spec => []HostInv
<1>1. Init => HostInv
  BY DEF Init, HostInv
<1> QED BY <1>1, HostStep, PTL DEF Spec

(* The hosts of a process share one heap: their calls, failed and repeated *)
(* Initialize and a host's end in between included, are a behaviour of it  *)
(* with the EEs as its contexts (MiniGCHeap.cpp:9-43, 354-364, 499-501).   *)
THEOREM HostsShareOneHeap == Spec => Heap!Spec
<1>1. Init => Heap!Init
  BY DEF Init
<1>2. HostInv /\ [Next]_vars => [Heap!Next]_(Heap!vars)
  <2> SUFFICES ASSUME HostInv, [Next]_vars PROVE [Heap!Next]_(Heap!vars)
    OBVIOUS
  <2>1. CASE UNCHANGED heapVars
    BY <2>1 DEF heapVars, Heap!vars
  <2>2. CASE HeapInitialize
    BY <2>2 DEF HeapInitialize, Heap!Next
  <2>3. ASSUME NEW n \in Sizes, Alloc(n), running # NoEE PROVE Heap!Next
    BY <2>3 DEF HostInv, Alloc, Heap!Next
  <2> QED BY <2>1, <2>2, <2>3, HeapStep
<1> QED BY <1>1, <1>2, HostInvariant, PTL DEF Spec, Heap!Spec

LEMMA SharedIsHeap == Heap!Spec => Shared!Spec
<1>1. Heap!Init => Shared!Init
  BY DEF Heap!Init, Shared!Init, Heap!NoContext, Shared!NoContext, Heap!BarrierArgs,
         Shared!BarrierArgs, Heap!Null, Shared!Null
<1>2. [Heap!Next]_(Heap!vars) => [Shared!Next]_(Shared!vars)
  BY DEF Heap!Next, Shared!Next, Heap!Initialize, Shared!Initialize,
        Heap!InitializeAgain, Shared!InitializeAgain, Heap!InitializeFails,
        Shared!InitializeFails, Heap!InitializeSucceeds, Shared!InitializeSucceeds,
        Heap!AllocatePages, Shared!AllocatePages, Heap!Obtained, Shared!Obtained,
        Heap!Released, Shared!Released, Heap!StompWriteBarrier,
        Shared!StompWriteBarrier, Heap!BarrierArgs, Shared!BarrierArgs, Heap!Alloc,
        Shared!Alloc, Heap!AllocReturnsNull, Shared!AllocReturnsNull, Heap!Refuses,
        Shared!Refuses, Heap!AllocFast, Shared!AllocFast, Heap!AllocSlow,
        Shared!AllocSlow, Heap!LegalSize, Shared!LegalSize, Heap!FitsWindow,
        Shared!FitsWindow, Heap!ArenaHasRoom, Shared!ArenaHasRoom, Heap!InstallSegment,
        Shared!InstallSegment, Heap!PublishFirstSegment, Shared!PublishFirstSegment,
        Heap!NewWindow, Shared!NewWindow, Heap!vars, Shared!vars, Heap!allocVars,
        Shared!allocVars, Heap!pageVars, Shared!pageVars, Heap!Null, Shared!Null
<1> QED BY <1>1, <1>2, PTL DEF Heap!Spec, Shared!Spec

(* What therefore holds of the heap under any hosts.                       *)
HeapFacts ==
  /\ Shared!HeapInv
  /\ heapArena # 0 => heapArena \in mapped
  /\ heapArena # 0 => barrier = GlobalsAsTold

LEMMA HeapFactsHold == Spec => []HeapFacts
<1>1. Spec => []Shared!HeapInv
  BY HostsShareOneHeap, SharedIsHeap, Shared!HeapInvariant, HeapAssumption, PTL
     DEF Shared!Null
<1>2. Spec => []Shared!NoPageLeak
  BY HostsShareOneHeap, SharedIsHeap, Shared!PagesAccounted, HeapAssumption, PTL
     DEF Shared!Null
<1>3. Spec => []Shared!BarrierMatchesGlobals
  BY HostsShareOneHeap, SharedIsHeap, Shared!BarrierInformed, HeapAssumption, PTL
     DEF Shared!Null
<1>4. Shared!HeapInv /\ Shared!NoPageLeak /\ Shared!BarrierMatchesGlobals => HeapFacts
  BY DEF HeapFacts, Shared!NoPageLeak, Shared!BarrierMatchesGlobals, Shared!Null,
         GlobalsAsTold, Shared!BarrierArgs, Heap!BarrierArgs
<1> QED BY <1>1, <1>2, <1>3, <1>4, PTL

(* Objects that different hosts were handed never overlap either.          *)
THEOREM HostsNeverShareObjects == Spec => []Heap!ObjectsDisjoint
<1>1. HeapFacts => Heap!ObjectsDisjoint
  BY DEF HeapFacts, Shared!HeapInv, Shared!ObjectsDisjoint, Heap!ObjectsDisjoint,
         Shared!Promise!Apart, Heap!Promise!Apart
<1> QED BY <1>1, HeapFactsHold, PTL

-----------------------------------------------------------------------------
(* The handles that hold something hold objects of the heap, and the heap  *)
(* keeps its objects.                                                      *)
HandlesHoldObjects ==
  /\ handlesCount \in 0..MaxHandles
  /\ DOMAIN handles = Manager!Slots
  /\ \A i \in Manager!Slots : handles[i] # 0 => \E o \in objs : o.start = handles[i]

LEMMA ObjectsStay ==
  ASSUME [Next]_vars PROVE objs \subseteq objs'
<1>1. ASSUME Heap!Initialize PROVE objs \subseteq objs'
  BY <1>1 DEF Heap!Initialize, Heap!InitializeAgain, Heap!InitializeFails,
     Heap!InitializeSucceeds, Heap!vars, Heap!allocVars
<1>2. ASSUME NEW n \in Sizes, Heap!Alloc(running, n) PROVE objs \subseteq objs'
  BY <1>2 DEF Heap!Alloc, Heap!AllocReturnsNull, Heap!AllocFast, Heap!AllocSlow,
     Heap!InstallSegment, Heap!vars, Heap!allocVars
<1> QED BY <1>1, <1>2, HeapStep DEF heapVars, HeapInitialize, Alloc

(* One slot is given an object of the heap, or null.                       *)
LEMMA OneSlot ==
  ASSUME HandlesHoldObjects, NEW i \in Manager!Slots, NEW v,
         v # 0 => \E o \in objs : o.start = v,
         handles' = [handles EXCEPT ![i] = v], objs' = objs,
         handlesCount' \in 0..MaxHandles
  PROVE  HandlesHoldObjects'
BY DEF HandlesHoldObjects, Manager!Slots

LEMMA HandlesStep == HandlesHoldObjects /\ [Next]_vars => HandlesHoldObjects'
<1> SUFFICES ASSUME HandlesHoldObjects, [Next]_vars PROVE HandlesHoldObjects'
  OBVIOUS
<1>1. CASE UNCHANGED <<handlesCount, handles>>
  BY <1>1, ObjectsStay DEF HandlesHoldObjects, Manager!Slots
<1>2. CASE UseHandles
  <2>1. objs' = objs
    BY <1>2 DEF UseHandles, heapVars
  <2>2. ASSUME NEW o \in objs, NEW type \in HandleTypes,
               Manager!CreateHandleOfType(o.start, type)
        PROVE  HandlesHoldObjects'
    <3>1. CASE UNCHANGED Manager!vars
      BY <1>1, <3>1 DEF Manager!vars, Manager!tables
    <3>2. CASE handlesCount < MaxHandles
      <4>1. /\ handles' = [handles EXCEPT ![handlesCount] = o.start]
            /\ handlesCount' = handlesCount + 1
        BY <2>2, <3>2 DEF Manager!CreateHandleOfType, Manager!NewHandle, Manager!HasRoom
      <4>2. handlesCount \in Manager!Slots /\ handlesCount' \in 0..MaxHandles
        BY <3>2, <4>1, HandleAssumption DEF HandlesHoldObjects, Manager!Slots
      <4> QED BY <2>1, <4>1, <4>2, OneSlot
    <3> QED BY <2>2, <3>1, <3>2
            DEF Manager!CreateHandleOfType, Manager!NewHandle, Manager!HasRoom
  <2>3. ASSUME NEW h \in Manager!Owned, Manager!DestroyHandle(h)
        PROVE  HandlesHoldObjects'
    <3>1. CASE UNCHANGED Manager!vars
      BY <1>1, <3>1 DEF Manager!vars, Manager!tables
    <3>2. CASE Manager!InTable(h) /\ store # NoStore
      <4>1. /\ handles' = [handles EXCEPT ![Manager!GetHandleIndex(h)] = 0]
            /\ handlesCount' = handlesCount
        BY <2>3, <3>2 DEF Manager!DestroyHandle
      <4>2. Manager!GetHandleIndex(h) \in Manager!Slots
        BY <3>2, HandleAssumption
           DEF HandlesHoldObjects, Manager!InTable, Manager!Issued, Manager!Slots
      <4> QED BY <2>1, <4>1, <4>2, OneSlot DEF HandlesHoldObjects
    <3> QED BY <2>3, <3>1, <3>2 DEF Manager!DestroyHandle
  <2>4. ASSUME NEW h \in Manager!Owned, NEW o \in objs,
               Manager!StoreObjectInHandle(h, o.start)
        PROVE  HandlesHoldObjects'
    <3>1. CASE Manager!ContainsHandle(h) /\ store # NoStore
      <4>1. /\ handles' = [handles EXCEPT ![Manager!GetHandleIndex(h)] = o.start]
            /\ handlesCount' = handlesCount
        BY <2>4, <3>1 DEF Manager!StoreObjectInHandle, Manager!otherVars
      <4>2. Manager!GetHandleIndex(h) \in Manager!Slots
        BY <3>1, HandleAssumption DEF HandlesHoldObjects, Manager!ContainsHandle,
           Manager!InTable, Manager!Issued, Manager!Slots
      <4> QED BY <2>1, <4>1, <4>2, OneSlot DEF HandlesHoldObjects
    <3>2. CASE ~(Manager!ContainsHandle(h) /\ store # NoStore)
      BY <1>1, <2>4, <3>2 DEF Manager!StoreObjectInHandle, Manager!otherVars
    <3> QED BY <3>1, <3>2
  <2> QED BY <1>2, <2>2, <2>3, <2>4 DEF UseHandles
<1>3. ASSUME NEW e \in EEs, Load(e) PROVE UNCHANGED <<handlesCount, handles>>
  BY <1>3 DEF Load, tableVars
<1>4. CASE Exit
  BY <1>1, <1>4 DEF Exit
<1>5. CASE ManagerInitialize \/ ManagerShutdown
  BY <1>1, <1>5 DEF ManagerInitialize, ManagerShutdown, Manager!Initialize,
     Manager!Shutdown, Manager!tables
<1>6. CASE HeapInitialize
  BY <1>1, <1>6 DEF HeapInitialize, tableVars
<1>7. ASSUME NEW n \in Sizes, Alloc(n) PROVE UNCHANGED <<handlesCount, handles>>
  BY <1>7 DEF Alloc, tableVars
<1>8. CASE HeapShutdown \/ UNCHANGED vars
  BY <1>1, <1>8 DEF HeapShutdown, vars, tableVars
<1> QED BY <1>1, <1>2, <1>3, <1>4, <1>5, <1>6, <1>7, <1>8 DEF Next

(* A GC of any host follows only pointers into mapped segments, also those *)
(* that earlier hosts left in the static tables                            *)
(* (MiniGCHandleStore.cpp:78-87, MiniGCHeap.cpp:499, 591).                 *)
THEOREM RootsAlwaysMapped == Spec => []RootsStayMapped
<1>1. Init => HandlesHoldObjects
  BY HandleAssumption DEF Init, HandlesHoldObjects, Manager!Slots
<1>2. HandlesHoldObjects /\ HeapFacts => RootsStayMapped
  <2> SUFFICES ASSUME HandlesHoldObjects, HeapFacts, NEW p \in MarkReachableRoot
               PROVE  heapArena \in mapped /\ Heap!IsHeapPointer(p)
    BY DEF RootsStayMapped
  <2>1. PICK i \in Manager!ScanHandles : handles[i] = p /\ p # 0
    BY DEF MarkReachableRoot
  <2>2. i \in Manager!Slots
    BY <2>1, HandleAssumption
       DEF HandlesHoldObjects, Manager!ScanHandles, Manager!Issued, Manager!Slots
  <2>3. PICK o \in objs : o.start = p
    BY <2>1, <2>2 DEF HandlesHoldObjects
  <2>4. heapArena \in mapped
    BY <2>3 DEF HeapFacts, Shared!HeapInv, Shared!IdleBeforeInitialize, Shared!Null
  <2>5. PICK k \in 1..Len(segments) :
              /\ segments[k] + BeginGap <= o.start
              /\ o.start + o.size <= segments[k] + GrowthSize
    BY DEF HeapFacts, Shared!HeapInv, Shared!ObjectsInSegments
  <2>6. o.start \in Nat /\ o.size \in Nat \ {0} /\ segments[k] \in Nat
    BY DEF HeapFacts, Shared!HeapInv, Shared!TypeOK
  <2>7. segments[k] <= p /\ p < segments[k] + GrowthSize
    BY <2>3, <2>5, <2>6, HeapAssumption
  <2> QED BY <2>4, <2>7 DEF Heap!IsHeapPointer
<1> QED BY <1>1, <1>2, HandlesStep, HeapFactsHold, PTL DEF Spec

-----------------------------------------------------------------------------
(* Who was told what.  Before the heap is set up nobody was told anything. *)
(* From then on the EE that set it up has been told what there is to tell  *)
(* for as long as it runs, and any other has been told that or nothing.    *)
ToldInv ==
  /\ told = [e \in EEs |-> told[e]]
  /\ setUp \in started \cup {NoEE}
  /\ \A e \in EEs \ started : told[e] = NotTold
  /\ heapArena = 0 =>
       barrier = NotTold /\ setUp = NoEE /\ \A e \in EEs : told[e] = NotTold
  /\ running # NoEE =>
       told[running] = barrier \/ (told[running] = NotTold /\ running # setUp)

(* The heap tells the running EE about every change, and tells it something*)
(* new when it is set up.                                                  *)
LEMMA TellStep ==
  ASSUME HostInv, ToldInv, running # NoEE, Tell, UNCHANGED hostVars,
         heapArena' = 0 => heapArena = 0 /\ UNCHANGED <<barrier, setUp>>,
         setUp' = setUp \/ (setUp' = running /\ barrier' # barrier)
  PROVE  ToldInv'
<1> USE DEF HostInv, ToldInv, hostVars
<1>1. gcToCLR = running /\ running \in EEs /\ running \in started
  OBVIOUS
<1>2. told' = [e \in EEs |-> told'[e]]
  BY Zenon DEF Tell
<1>3. \A e \in EEs \ started' : told'[e] = NotTold
  BY <1>1 DEF Tell
<1>4. heapArena' = 0 =>
        barrier' = NotTold /\ setUp' = NoEE /\ \A e \in EEs : told'[e] = NotTold
  BY DEF Tell
<1>5. told'[running] = barrier' \/ (told'[running] = NotTold /\ running # setUp')
  BY <1>1 DEF Tell
<1>6. setUp' \in started' \cup {NoEE}
  BY <1>1
<1> QED BY <1>1, <1>2, <1>3, <1>4, <1>5, <1>6 DEF NotTold, Heap!BarrierArgs

LEMMA ToldStep == HostInv /\ ToldInv /\ [Next]_vars => ToldInv'
<1> SUFFICES ASSUME HostInv, ToldInv, [Next]_vars PROVE ToldInv'
  OBVIOUS
<1>1. CASE UNCHANGED <<heapArena, barrier, hostVars, setUp, told>>
  BY <1>1 DEF ToldInv, hostVars, NotTold, Heap!BarrierArgs
<1>2. ASSUME NEW e \in EEs, Load(e) PROVE ToldInv'
  BY <1>2, HostAssumption
     DEF Load, GC_Initialize, ToldInv, HostInv, NotTold, Heap!BarrierArgs, heapVars
<1>3. CASE Exit
  BY <1>3 DEF Exit, ToldInv, NotTold, Heap!BarrierArgs, heapVars
<1>4. CASE ManagerInitialize \/ ManagerShutdown \/ UseHandles
  BY <1>1, <1>4 DEF ManagerInitialize, ManagerShutdown, UseHandles, heapVars
<1>5. CASE HeapInitialize /\ running # NoEE
  <2>1. CASE Heap!InitializeAgain
    BY <1>1, <1>5, <2>1 DEF HeapInitialize, Heap!InitializeAgain, Heap!vars, Heap!Null, Tell
  <2>2. ASSUME heapArena = 0, NEW a, NEW k, NEW b, Heap!InitializeFails(a, k, b)
        PROVE  ToldInv'
    BY <1>1, <1>5, <2>2 DEF HeapInitialize, Heap!InitializeFails, Tell
  <2>3. ASSUME heapArena = 0, NEW a \in Heap!AllocatePages(ArenaBases), NEW k, NEW b,
               Heap!InitializeSucceeds(a, k, b)
        PROVE  ToldInv'
    <3>1. a # 0 /\ heapArena' = a
      BY <2>3 DEF Heap!InitializeSucceeds, Heap!Null
    <3>2. barrier' # barrier
      BY <2>3, <3>1 DEF Heap!InitializeSucceeds, Heap!StompWriteBarrier,
                        Heap!BarrierArgs, ToldInv, NotTold
    <3> QED BY <1>5, <2>3, <3>1, <3>2, TellStep DEF HeapInitialize
  <2> QED BY <1>5, <2>1, <2>2, <2>3 DEF HeapInitialize, Heap!Initialize, Heap!Null
<1>6. ASSUME NEW n \in Sizes, Alloc(n), running # NoEE PROVE ToldInv'
  <2>1. heapArena' = heapArena
    BY <1>6 DEF Alloc, Heap!Alloc, Heap!AllocReturnsNull, Heap!AllocFast,
       Heap!AllocSlow, Heap!pageVars, Heap!vars
  <2>2. heapArena = 0 => UNCHANGED barrier
    BY <1>6 DEF Alloc, Heap!Alloc, Heap!AllocReturnsNull, Heap!AllocFast,
       Heap!AllocSlow, Heap!ArenaHasRoom, Heap!Null, Heap!vars
  <2> QED BY <1>6, <2>1, <2>2, TellStep DEF Alloc
<1>7. CASE HeapShutdown \/ UNCHANGED vars
  BY <1>1, <1>7 DEF HeapShutdown, vars, heapVars
<1> QED BY <1>2, <1>3, <1>4, <1>5, <1>6, <1>7 DEF Next

(* No running EE was ever told anything but the heap's own range and       *)
(* tables, and the EE that set the heap up was told them, whichever hosts' *)
(* attempts failed before (MiniGCHeap.h:18, MiniGCHeap.cpp:410-419,        *)
(* 558-574).                                                               *)
THEOREM RunningEEIsTold == Spec => []ToldTheRunningEE
<1>1. Init => ToldInv
  BY DEF Init, Heap!Init, ToldInv, NotTold, Heap!BarrierArgs, Heap!Null
<1>2. HostInv /\ ToldInv /\ HeapFacts => ToldTheRunningEE
  <2> SUFFICES ASSUME HostInv, ToldInv, HeapFacts, running # NoEE
               PROVE  \/ told[running] = GlobalsAsTold
                      \/ told[running] = NotTold /\ running # setUp
    BY DEF ToldTheRunningEE
  <2>1. CASE heapArena = 0
    BY <2>1 DEF HostInv, ToldInv
  <2>2. CASE heapArena # 0
    BY <2>2 DEF ToldInv, HeapFacts
  <2> QED BY <2>1, <2>2
<1> QED BY <1>1, <1>2, ToldStep, HostInvariant, HeapFactsHold, PTL DEF Spec

-----------------------------------------------------------------------------
(* The handle tables that all hosts share, with their lemmas.              *)
Table == INSTANCE MiniGCHandlesProofs WITH
           storeUp <- store # NoStore, Objects <- Nat \ {0}, Null <- 0, Infos <- {}

(* Across hosts the tables hold what the running EE wants of the handles it*)
(* owns, among handles that nobody owns and that still hold objects.       *)
TablesInv == Table!Agree

LEMMA TablesInit == Init => TablesInv
<1> SUFFICES ASSUME Init PROVE TablesInv
  OBVIOUS
<1>1. Table!Owned = {}
  BY DEF Init, Table!Owned
<1>2. wanted \in [Table!Owned -> [object : Table!Refs, type : Table!Types,
                                 secondary : Table!Refs, info : {} \cup {0}]]
  BY <1>1 DEF Init, Table!Owned
<1>3. 0 \in Table!Refs /\ "WEAK_SHORT" \in Table!Types /\ 0 \in 0..MaxHandles
  BY HandleAssumption DEF Table!Refs, Table!Types
<1> QED BY <1>1, <1>2, <1>3
        DEF Init, TablesInv, Table!Agree, Table!TypeOK, Table!TablesAgree, Manager!Slots,
            Table!Slots

(* What the EE does with handles, in the terms of the table's lemmas.      *)
LEMMA HostUsesTable ==
  ASSUME UseHandles
  PROVE  \/ \E o \in objs, type \in HandleTypes : Table!CreateHandleOfType(o.start, type)
         \/ \E h \in Table!Owned :
              \/ Table!DestroyHandle(h)
              \/ \E o \in objs : Table!StoreObjectInHandle(h, o.start)
BY DEF UseHandles, Manager!Owned, Table!Owned, Manager!CreateHandleOfType,
   Table!CreateHandleOfType, Manager!NewHandle, Table!NewHandle, Manager!HasRoom,
   Table!HasRoom, Manager!DestroyHandle, Table!DestroyHandle, Manager!InTable,
   Table!InTable, Manager!Issued, Table!Issued, Manager!GetHandleIndex,
   Table!GetHandleIndex, Manager!Slots, Table!Slots, Manager!StoreObjectInHandle,
   Table!StoreObjectInHandle, Manager!ContainsHandle, Table!ContainsHandle,
   Manager!WantObject, Table!WantObject, Manager!Want, Table!Want,
   Manager!otherVars, Table!otherVars, Manager!vars, Table!vars,
   Manager!tables, Table!tables

LEMMA TablesStep ==
  TablesInv /\ HandlesHoldObjects /\ HeapFacts /\ [Next]_vars =>
    TablesInv' /\ Table!SlotEffect
<1> SUFFICES ASSUME TablesInv, HandlesHoldObjects, HeapFacts, [Next]_vars
             PROVE  TablesInv' /\ Table!SlotEffect
  OBVIOUS
<1>1. ASSUME UNCHANGED <<handlesCount, handles, handleTypes, dependentSecondaries,
                         extraInfo>>,
             wanted' = wanted \/ wanted' = [h \in {} |-> 0]
      PROVE  TablesInv' /\ Table!SlotEffect
  BY <1>1 DEF TablesInv, Table!Agree, Table!TypeOK, Table!TablesAgree, Table!Owned,
     Table!Issued, Table!SlotEffect, Table!SlotsKept
<1>2. CASE UseHandles
  <2>1. \A o \in objs : o.start \in Nat
    BY DEF HeapFacts, Shared!HeapInv, Shared!TypeOK
  <2>2. Table!Refs = Nat
    BY DEF Table!Refs
  <2>3. Table!Owned \subseteq Table!Argument /\ Table!Owned \subseteq Table!Issued
    BY HandleAssumption, Table!IssuedAreSlots
       DEF TablesInv, Table!Agree, Table!TypeOK, Table!Argument
  <2>4. ASSUME NEW o \in objs, NEW type \in HandleTypes,
               Table!CreateHandleOfType(o.start, type)
        PROVE  TablesInv' /\ Table!SlotEffect
    <3>1. Table!NewHandle(o.start, type, 0, 0) /\ store # NoStore
      BY <2>4 DEF Table!CreateHandleOfType
    <3>2. o.start \in Table!Refs /\ 0 \in Table!Refs /\ type \in Table!Types
      BY <2>1, <2>2 DEF Table!Types
    <3>3. TablesInv'
      BY <3>1, <3>2, HandleAssumption, Table!NewHandleAgrees DEF TablesInv
    <3>4. Table!SlotEffect
      BY <3>1, <3>2 DEF Table!NewHandle, Table!SlotEffect, Table!SlotIssued,
                        Table!SlotsKept, Table!vars
    <3> QED BY <3>3, <3>4
  <2>5. ASSUME NEW h \in Table!Owned, Table!DestroyHandle(h)
        PROVE  TablesInv' /\ Table!SlotEffect
    <3>1. TablesInv'
      BY <2>3, <2>5, HandleAssumption, Table!DestroyAgrees DEF TablesInv
    <3>2. Table!SlotEffect
      BY <2>3, <2>5, HandleAssumption, Table!DestroyEffect, Table!EffectOnSlots
         DEF TablesInv, Table!Agree
    <3> QED BY <3>1, <3>2
  <2>6. ASSUME NEW h \in Table!Owned, NEW o \in objs,
               Table!StoreObjectInHandle(h, o.start)
        PROVE  TablesInv' /\ Table!SlotEffect
    <3>1. o.start \in Table!Refs
      BY <2>1, <2>2
    <3>2. CASE store # NoStore /\ Table!ContainsHandle(h)
      <4>1. TablesInv'
        BY <2>3, <2>6, <3>1, <3>2, HandleAssumption, Table!PerformedAgrees
           DEF TablesInv, Table!StoreObjectInHandle
      <4>2. Table!SlotEffect
        BY <2>3, <2>6, <3>1, <3>2, HandleAssumption, Table!PerformedEffect,
           Table!EffectOnSlots DEF TablesInv, Table!Agree, Table!StoreObjectInHandle
      <4> QED BY <4>1, <4>2
    <3>3. CASE ~(store # NoStore /\ Table!ContainsHandle(h))
      <4>1. TablesInv'
        BY <2>3, <2>6, <3>1, <3>3, HandleAssumption, Table!DroppedAgrees
           DEF TablesInv, Table!StoreObjectInHandle
      <4>2. Table!SlotsKept
        BY <2>6, <3>3 DEF Table!StoreObjectInHandle, Table!SlotsKept, Table!otherVars
      <4> QED BY <4>1, <4>2 DEF Table!SlotEffect
    <3> QED BY <3>2, <3>3
  <2> QED BY <1>2, <2>4, <2>5, <2>6, HostUsesTable
<1>3. ASSUME NEW e \in EEs, Load(e) PROVE UNCHANGED tableVars
  BY <1>3 DEF Load
<1>4. CASE Exit
  BY <1>1, <1>4 DEF Exit
<1>5. CASE ManagerInitialize \/ ManagerShutdown
  BY <1>1, <1>5 DEF ManagerInitialize, ManagerShutdown, Manager!Initialize,
     Manager!Shutdown, Manager!tables
<1>6. CASE HeapInitialize
  BY <1>1, <1>6 DEF HeapInitialize, tableVars
<1>7. ASSUME NEW n \in Sizes, Alloc(n) PROVE UNCHANGED tableVars
  BY <1>7 DEF Alloc
<1>8. CASE HeapShutdown \/ UNCHANGED vars
  BY <1>1, <1>8 DEF HeapShutdown, vars, tableVars
<1> QED BY <1>1, <1>2, <1>3, <1>4, <1>5, <1>6, <1>7, <1>8 DEF Next, tableVars

(* What holds of the tables in every reachable state.                      *)
TablesFacts == TablesInv /\ HandlesHoldObjects /\ HeapFacts

LEMMA TablesFactsHold == Spec => []TablesFacts
<1>1. Init => TablesInv /\ HandlesHoldObjects
  BY TablesInit, HandleAssumption DEF Init, HandlesHoldObjects, Manager!Slots
<1>2. TablesInv /\ HandlesHoldObjects /\ HeapFacts /\ [Next]_vars =>
        TablesInv' /\ HandlesHoldObjects'
  BY TablesStep, HandlesStep
<1> QED BY <1>1, <1>2, HeapFactsHold, PTL DEF Spec, TablesFacts

(* A host's handles read as its EE left them, in tables that keep what the *)
(* hosts before it left there and through any number of shutdowns of the   *)
(* manager (MiniGCHandleStore.cpp:5-9, 33-76; MiniGCHandleManager.cpp:8-24)*)
HostsHandlesAgree == Manager!OwnedHandlesAgree

THEOREM HostsReadTheirHandles == Spec => []HostsHandlesAgree
<1>1. TablesFacts => HostsHandlesAgree
  <2> SUFFICES ASSUME TablesFacts, NEW h \in Manager!Owned
               PROVE  /\ handles[h] \in {wanted[h].object, 0}
                      /\ store # NoStore =>
                           /\ Manager!HandleFetchType(h) = wanted[h].type
                           /\ Manager!GetDependentSecondary(h) = wanted[h].secondary
                           /\ Manager!GetExtraInfo(h) = wanted[h].info
    BY DEF HostsHandlesAgree, Manager!OwnedHandlesAgree
  <2>1. h \in Table!Owned /\ h \in Manager!Issued /\ h \in Manager!Slots
    BY HandleAssumption, Table!IssuedAreSlots
       DEF TablesFacts, TablesInv, Table!Agree, Table!TypeOK, Table!Owned, Manager!Owned,
           Table!Issued, Manager!Issued, Table!Slots, Manager!Slots
  <2>2. Manager!InTable(h) /\ Manager!GetHandleIndex(h) = h
    BY <2>1 DEF Manager!InTable, Manager!GetHandleIndex
  <2> QED BY <2>1, <2>2
          DEF TablesFacts, TablesInv, Table!Agree, Table!TablesAgree,
              Manager!HandleFetchType, Manager!GetDependentSecondary, Manager!GetExtraInfo
<1> QED BY <1>1, TablesFactsHold, PTL

(* A GC misses no strong handle of the host it runs for, however full of   *)
(* other hosts' handles the tables are (MiniGCHandleStore.cpp:78-87).      *)
HostsRootsComplete ==
  store # NoStore =>
    {h \in Manager!Owned : handles[h] # 0 /\ wanted[h].type \in Manager!StrongKinds}
      \subseteq Manager!ScanHandles

THEOREM NoHostLosesRoots == Spec => []HostsRootsComplete
<1>1. TablesFacts => HostsRootsComplete
  <2> SUFFICES ASSUME TablesFacts, store # NoStore,
                      NEW h \in Manager!Owned, handles[h] # 0,
                      wanted[h].type \in Manager!StrongKinds
               PROVE  h \in Manager!ScanHandles
    BY DEF HostsRootsComplete
  <2>1. h \in Table!Owned /\ h \in Manager!Issued
    BY DEF TablesFacts, TablesInv, Table!Agree, Table!TypeOK, Table!Owned, Manager!Owned,
           Table!Issued, Manager!Issued
  <2>2. handleTypes[h] = wanted[h].type
    BY <2>1 DEF TablesFacts, TablesInv, Table!Agree, Table!TablesAgree
  <2> QED BY <2>1, <2>2 DEF Manager!ScanHandles, Manager!IsStrongHandle, Manager!StrongKinds
<1> QED BY <1>1, TablesFactsHold, PTL

(* The hosts of a process share one table: a handle is issued once, by one *)
(* of them, and one that lost its object stays spent, through every end of *)
(* a host and every shutdown of the manager (MiniGCHandleStore.cpp:48-61). *)
HostsShareTable == Manager!Promise!Spec

THEOREM HostsNeverReissueHandles == Spec => HostsShareTable
<1>1. Init => Manager!Promise!Init
  <2> SUFFICES ASSUME Init PROVE Manager!Promise!Init
    OBVIOUS
  <2>1. Manager!Issued = {} /\ Manager!Live = {}
    BY DEF Init, Manager!Issued, Manager!Live
  <2> QED BY <2>1 DEF Manager!Promise!Init
<1>2. TablesFacts /\ [Next]_vars => [Manager!Promise!Next]_(Manager!Promise!vars)
  <2> SUFFICES ASSUME TablesFacts, [Next]_vars
               PROVE  [Manager!Promise!Next]_(Manager!Promise!vars)
    OBVIOUS
  <2>1. [Table!Promise!Next]_(Table!Promise!vars)
    BY TablesStep, HandleAssumption, Table!SlotsKeepPromise
       DEF TablesFacts, TablesInv, Table!Agree
  <2> QED BY <2>1
          DEF Table!Promise!Next, Manager!Promise!Next, Table!Promise!vars,
              Manager!Promise!vars, Table!Promise!Issue, Manager!Promise!Issue,
              Table!Promise!IssueSpent, Manager!Promise!IssueSpent,
              Table!Promise!Assign, Manager!Promise!Assign, Table!Promise!Drop,
              Manager!Promise!Drop, Table!Promise!Live, Manager!Promise!Live,
              Table!Promise!Fresh, Manager!Promise!Fresh, Table!Live, Manager!Live,
              Table!Issued, Manager!Issued, Table!Slots, Manager!Slots
<1> QED BY <1>1, <1>2, TablesFactsHold, PTL DEF Spec, HostsShareTable, Manager!Promise!Spec
=============================================================================
