------------------------------- MODULE MiniGC -------------------------------
(***************************************************************************)
(* The GC library in a process whose hosts come and go (MiniGC.cpp): the   *)
(* entry points, and MiniGCHeap and MiniGCHandles put together under them. *)
(*                                                                         *)
(* A host has an EE, which loads the library, starts the GC, works with it *)
(* and ends, in order or not; then the next host starts.  The library stays*)
(* loaded: the heap's globals, the handle tables, the handle store and the *)
(* static gcToCLR outlive the host, an EE's allocation context does not.   *)
(* Calls are serialised.  Objects are the addresses Alloc returned.        *)
(***************************************************************************)
EXTENDS Integers

CONSTANTS
  EEs, NoEE,            \* the EEs, as the addresses of their IGCToCLRs; nullptr
  Stores, NoStore,      \* addresses of MiniGCHandleStores; nullptr
  EEMajorVersion,       \* the GC_INTERFACE_MAJOR_VERSION the EEs are built with
  Sizes, GrowthSize, BeginGap, ArenaSize, MaxSegments, ArenaBases, TableBases,
  HandleTypes, MaxHandles, NoHandle     \* as in MiniGCHeap and MiniGCHandles

ASSUME HostAssumption == NoEE \notin EEs /\ NoStore \notin Stores

(* As in MiniGCHeap and MiniGCHandles.                                     *)
ASSUME HeapAssumption ==
  /\ Sizes \subseteq Nat
  /\ GrowthSize \in Nat /\ BeginGap \in Nat /\ BeginGap < GrowthSize
  /\ ArenaSize \in Nat /\ MaxSegments \in Nat /\ ArenaSize <= MaxSegments * GrowthSize
  /\ ArenaBases \subseteq Nat \ {0} /\ TableBases \subseteq Nat \ {0}
  /\ ArenaBases \cap TableBases = {}

ASSUME HandleAssumption == MaxHandles \in Nat /\ NoHandle \notin Int

VARIABLES
  heapArena, arenaNext, cardTable, bundleTable, lowest, highest, segments,
  ctx, mapped, barrier, objs,                           \* as in MiniGCHeap
  handlesCount, handles, handleTypes, dependentSecondaries, extraInfo,
  wanted,                                               \* as in MiniGCHandles
  store,        \* g_miniGCHandleStore
  liveStores,   \* stores that were created and not deleted
  gcToCLR,      \* MiniGCHeap::gcToCLR
  started,      \* EEs that have called GC_Initialize
  running,      \* the EE of the running host; its heap and its handle manager
                \* exist from GC_Initialize on, and hold no state of their own
  setUp,        \* history: the EE whose Initialize set up the heap
  told          \* history: the last barrier parameters each EE got

heapVars == <<heapArena, arenaNext, cardTable, bundleTable, lowest, highest,
              segments, ctx, mapped, barrier, objs>>
tableVars == <<handlesCount, handles, handleTypes, dependentSecondaries,
               extraInfo, wanted>>
hostVars == <<gcToCLR, started, running>>
vars == <<heapVars, tableVars, store, liveStores, hostVars, setUp, told>>

Heap == INSTANCE MiniGCHeap WITH Contexts <- EEs
Manager == INSTANCE MiniGCHandles WITH
             storeUp <- store # NoStore, Objects <- Nat \ {0}, Null <- 0, Infos <- {}

NotTold == Heap!BarrierArgs(0, 0, 0, 0)

Init ==
  /\ Heap!Init
  /\ handlesCount = 0
  /\ handles = [i \in Manager!Slots |-> 0]
  /\ handleTypes = [i \in Manager!Slots |-> "WEAK_SHORT"]
  /\ dependentSecondaries = [i \in Manager!Slots |-> 0]
  /\ extraInfo = [i \in Manager!Slots |-> 0]
  /\ wanted = [h \in {} |-> 0]
  /\ store = NoStore /\ liveStores = {}
  /\ gcToCLR = NoEE
  /\ started = {} /\ running = NoEE
  /\ setUp = NoEE
  /\ told = [e \in EEs |-> NotTold]

-----------------------------------------------------------------------------
(* The entry points.                                                       *)
GC_INTERFACE_MAJOR_VERSION == 5
GC_INTERFACE_MINOR_VERSION == 5

GC_VersionInfo == [MajorVersion |-> GC_INTERFACE_MAJOR_VERSION,
                   MinorVersion |-> GC_INTERFACE_MINOR_VERSION, BuildVersion |-> 0]

(* MiniGCHeap's constructor; the pointer is static, one for all heaps.     *)
ConstructHeapKeepingFirst(e) == gcToCLR' = IF gcToCLR = NoEE THEN e ELSE gcToCLR

ConstructHeap(e) == gcToCLR' = e

(* S_OK, with the host's heap and handle manager.  Otherwise nothing has   *)
(* happened: E_INVALIDARG for a null argument, E_FAIL for an exception of  *)
(* either new, which both come before the constructor runs.                *)
GC_Initialize(e) ==
  \/ ConstructHeap(e) /\ running' = e
  \/ UNCHANGED <<gcToCLR, running>>

(* A host starts when there is none, after it looked at the version.       *)
Load(e) ==
  /\ running = NoEE /\ e \notin started
  /\ GC_VersionInfo.MajorVersion = EEMajorVersion
  /\ started' = started \cup {e}
  /\ GC_Initialize(e)
  /\ UNCHANGED <<heapVars, tableVars, store, liveStores, setUp, told>>

(* The host ends.  What its EE wanted of its handles nobody wants any more.*)
Exit ==
  /\ running # NoEE
  /\ running' = NoEE
  /\ wanted' = [h \in {} |-> 0]
  /\ UNCHANGED <<heapVars, handlesCount, handles, handleTypes,
                 dependentSecondaries, extraInfo, store, liveStores, gcToCLR,
                 started, setUp, told>>

-----------------------------------------------------------------------------
(* The handle manager with the store it creates and deletes.               *)
ManagerInitialize ==
  /\ IF store = NoStore
       THEN \E s \in Stores \ liveStores : store' = s /\ liveStores' = liveStores \cup {s}
       ELSE UNCHANGED <<store, liveStores>>
  /\ Manager!Initialize
  /\ UNCHANGED <<heapVars, hostVars, setUp, told>>

ManagerShutdownKeepingPointer ==
  /\ store' = store /\ liveStores' = liveStores \ {store}
  /\ UNCHANGED <<tableVars, heapVars, hostVars, setUp, told>>

ManagerShutdown ==
  /\ store' = NoStore /\ liveStores' = liveStores \ {store}
  /\ Manager!Shutdown
  /\ UNCHANGED <<heapVars, hostVars, setUp, told>>

(* The EE puts objects of the heap into handles.                           *)
UseHandles ==
  /\ UNCHANGED <<heapVars, store, liveStores, hostVars, setUp, told>>
  /\ \/ \E o \in objs, type \in HandleTypes : Manager!CreateHandleOfType(o.start, type)
     \/ \E h \in Manager!Owned :
          \/ Manager!DestroyHandle(h)
          \/ \E o \in objs : Manager!StoreObjectInHandle(h, o.start)

-----------------------------------------------------------------------------
(* Whatever the heap tells the EE goes to the one gcToCLR names.           *)
Tell == told' = IF barrier' # barrier THEN [told EXCEPT ![gcToCLR] = barrier'] ELSE told

(* E_FAIL without an EE or a handle manager; the caller has both.          *)
HeapInitialize ==
  /\ gcToCLR # NoEE
  /\ Heap!Initialize
  /\ setUp' = IF heapArena = 0 /\ heapArena' # 0 THEN running ELSE setUp
  /\ Tell
  /\ UNCHANGED <<tableVars, store, liveStores, hostVars>>

Alloc(n) ==
  /\ Heap!Alloc(running, n)
  /\ Tell
  /\ UNCHANGED <<tableVars, store, liveStores, hostVars, setUp>>

(* MiniGCHeap::Shutdown keeps the heap for the next host.                  *)
HeapShutdownReleasing ==
  /\ heapArena' = 0 /\ mapped' = {}
  /\ UNCHANGED <<arenaNext, cardTable, bundleTable, lowest, highest, segments, ctx,
                 barrier, objs, tableVars, store, liveStores, hostVars, setUp, told>>

HeapShutdown == UNCHANGED vars

(* What a GC of this moment dereferences: the objects in the roots.        *)
MarkReachableRoot == {handles[i] : i \in Manager!ScanHandles} \ {0}

Next ==
  \/ \E e \in EEs : Load(e)
  \/ Exit
  \/ /\ running # NoEE
     /\ \/ ManagerInitialize
        \/ ManagerShutdown
        \/ UseHandles
        \/ HeapInitialize
        \/ HeapShutdown
        \/ \E n \in Sizes : Alloc(n)

Spec == Init /\ [][Next]_vars

-----------------------------------------------------------------------------
(* Through any number of hosts, each shutting the handle manager down once,*)
(* twice or never, the store pointer is null or points to a store that     *)
(* exists, and no other store does: what GetGlobalHandleStore returns is   *)
(* never a deleted store and none is lost (MiniGCHandleManager.cpp:8-24).  *)
StoreNeverDangles == liveStores = {store} \ {NoStore}

(* A GC of any host, whose roots include the handles that earlier hosts    *)
(* left in the static tables, follows only pointers into mapped segments   *)
(* (MiniGCHandleStore.cpp:78-87, MiniGCHeap.cpp:499, 591).                 *)
RootsStayMapped ==
  \A o \in MarkReachableRoot : heapArena \in mapped /\ Heap!IsHeapPointer(o)

(* The EE that set up the heap, after attempts of its own and of earlier   *)
(* hosts that failed, knows the heap range and the card tables the GC's    *)
(* globals name; and no running EE was ever told anything else             *)
(* (MiniGCHeap.h:18, MiniGCHeap.cpp:410-419, 558-574).                     *)
GlobalsAsTold == Heap!BarrierArgs(lowest, highest, cardTable, bundleTable)

ToldTheRunningEE ==
  running # NoEE =>
    \/ told[running] = GlobalsAsTold
    \/ told[running] = NotTold /\ running # setUp
=============================================================================
