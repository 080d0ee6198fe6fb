--------------------------- MODULE MiniGCServices ---------------------------
(***************************************************************************)
(* The services of IGCHeap beside allocation, which MiniGC answers with    *)
(* constants (MiniGCHeap.cpp:202-352, 424-516, 672-738, 793-846), under the*)
(* two threads that live on them: a program that does what GcDemo does, in *)
(* any order, and the runtime's finalizer thread.                          *)
(*                                                                         *)
(* MiniGC keeps no state for any of this.  The variables are the EE's:     *)
(* which objects the program has, which ones it asked a finalizer for,     *)
(* what its weak handles hold (in the handle table, where only the EE's own*)
(* calls change it), what it has told the collector and asked of it, and   *)
(* where the two threads are.                                              *)
(***************************************************************************)
EXTENDS Integers, TLC

CONSTANTS
  Objects, NoObject,
  SizeOf,                 \* bytes each object takes
  GrowthSize, BeginGap    \* SEGMENT_SIZE, 1 MB, and the 24 bytes of Alloc

ASSUME NoObjectAssumption == NoObject \notin Objects

VARIABLES
  heap, held, pending, weak,    \* as in Collector
  collected,      \* whether there has been a GC
  told,           \* what was last set, by the method that says so
  region,         \* the no-GC region the EE believes in, "broken" by a GC
  prog, fin       \* what program and finalizer thread do

objectVars == <<heap, held, pending, weak>>
gcVars == <<collected, told, region>>
vars == <<objectVars, gcVars, prog, fin>>

-----------------------------------------------------------------------------
(* The answers.  There is no concurrent GC, and waiting for one succeeds at*)
(* once.                                                                   *)
ConcurrentGC ==
  [IsConcurrentGCInProgress |-> FALSE, IsConcurrentGCEnabled |-> FALSE,
   WaitUntilConcurrentGCCompleteAsync |-> "S_OK"]

(* Finalization; neither SetFinalizationRun nor the flag of Alloc is kept. *)
GetNextFinalizableAgain == IF pending = {} THEN NoObject ELSE CHOOSE o \in pending : TRUE

GetNextFinalizable == NoObject
RegisteredForFinalization == FALSE

(* The routines of System.GC, up to the totals.  What a number says as a   *)
(* status is up to the enumeration the caller takes it for; GetMemoryInfo  *)
(* fills nothing in.                                                       *)
wait_full_gc_status == [n \in 0..4 |->
  CASE n = 0 -> "success" [] n = 1 -> "failed" [] n = 2 -> "cancelled"
    [] n = 3 -> "timeout" [] OTHER -> "na"]
start_no_gc_region_status == [n \in 0..3 |->
  CASE n = 0 -> "success" [] n = 1 -> "no_memory" [] n = 2 -> "too_large"
    [] OTHER -> "in_progress"]
end_no_gc_region_status == [n \in 0..3 |->
  CASE n = 0 -> "success" [] n = 1 -> "not_in_progress" [] n = 2 -> "induced"
    [] OTHER -> "alloc_exceeded"]

SystemGC ==
  [GetMemoryInfo |-> {}, GetMemoryLoad |-> 0,
   GetGcLatencyMode |-> 0, SetGcLatencyMode |-> 0, GetLOHCompactionMode |-> 0,
   RegisterForFullGCNotification |-> FALSE, CancelFullGCNotification |-> FALSE,
   WaitForFullGCApproach |-> wait_full_gc_status[0],
   WaitForFullGCComplete |-> wait_full_gc_status[0],
   WhichGeneration |-> 0, CollectionCount |-> 0,
   StartNoGCRegion |-> start_no_gc_region_status[0],
   EndNoGCRegion |-> end_no_gc_region_status[0],
   GetTotalBytesInUse |-> 0, GetTotalAllocatedBytes |-> 0]

g_max_generation == 2
GetMaxGeneration == 0

(* The state of the last GC and of the heap; FixAllocContext does nothing. *)
IsPromoted == FALSE
LastGC == [GetCondemnedGeneration |-> 0, IsGCInProgressHelper |-> FALSE, GetGcCount |-> 0]
HeapState == [IsEphemeral |-> FALSE, WaitUntilGCComplete |-> 0, GetCurrentObjSize |-> 0]
LastGCSize == [GetLastGCPercentTimeInGC |-> 0, GetLastGCGenerationSize |-> 0]
Times == [GetLastGCStartTime |-> 0, GetLastGCDuration |-> 0, GetNow |-> 0]
StressHeap == FALSE

RuntimeStructuresValidAlways == TRUE

RuntimeStructuresValid == FALSE

GetLOHThreshold == 85000
IsLargeObject == FALSE

(* What looking for objects, from any of them or any address, reports.     *)
Walks ==
  [walk \in {"NextObj", "GetContainingObject", "DiagWalkObject", "DiagWalkObject2",
             "DiagWalkHeap", "DiagWalkSurvivorsWithType", "DiagWalkFinalizeQueue",
             "DiagScanFinalizeQueue", "DiagScanHandles", "DiagScanDependentHandles",
             "DiagDescrGenerations"} |-> {}]

Tracing == [GetGenerationWithRange |-> 0, GetTotalPauseDuration |-> 0]
Extras == [RefreshMemoryLimit |-> "refresh_success",
           EnableNoGCRegionCallback |-> "not_started",
           GetExtraWorkForFinalization |-> {}]

FixedAnswers ==
  ConcurrentGC @@ SystemGC @@ LastGC @@ HeapState @@ LastGCSize @@ Times @@ Walks
    @@ Tracing @@ Extras
    @@ [GetMaxGeneration |-> GetMaxGeneration, IsPromoted |-> IsPromoted,
        StressHeap |-> StressHeap,
        RuntimeStructuresValid |-> RuntimeStructuresValid]

Answer == FixedAnswers @@ [IsLargeObject |-> {o \in heap : IsLargeObject}]

-----------------------------------------------------------------------------
(* Until something else is set, the settings are taken to be as answered.  *)
Unset ==
  [GetGcLatencyMode |-> SystemGC.GetGcLatencyMode,
   GetLOHCompactionMode |-> SystemGC.GetLOHCompactionMode,
   IsConcurrentGCEnabled |-> ConcurrentGC.IsConcurrentGCEnabled,
   IsGCInProgressHelper |-> LastGC.IsGCInProgressHelper]

TypeOK ==
  /\ heap \subseteq Objects
  /\ collected \in BOOLEAN
  /\ told \in [GetGcLatencyMode : Nat, GetLOHCompactionMode : Nat,
              IsConcurrentGCEnabled : BOOLEAN, IsGCInProgressHelper : BOOLEAN]
  /\ region \in {"none", "kept", "broken"}
  /\ prog \in {"running", "waiting", "released"}
  /\ fin \in {"sleeping", "draining"}

Init ==
  /\ heap = {} /\ held = {} /\ pending = {} /\ weak = {}
  /\ collected = FALSE /\ told = Unset /\ region = "none"
  /\ prog = "running" /\ fin = "sleeping"

(* A GC as the EE counts it.  Alloc's looks at the roots, no more.         *)
AGC ==
  /\ collected' = TRUE
  /\ region' = IF region = "kept" THEN "broken" ELSE region
  /\ UNCHANGED told

(* GarbageCollect: S_OK, and nothing else, not even the roots.             *)
CollectClearingWeak == AGC /\ weak' = {} /\ UNCHANGED <<heap, held, pending>>

Collect == AGC /\ UNCHANGED objectVars

(* What the program does with its objects, alive and dropped ones.  Alloc  *)
(* refuses what no segment holds, as GcDemo's 8 MB; else it may find the   *)
(* context full, which is a GC first, and the arena exhausted.             *)
Allocate(o) ==
  /\ o \notin heap
  /\ IF SizeOf[o] > GrowthSize - BeginGap
       THEN UNCHANGED <<objectVars, gcVars>>
       ELSE /\ AGC \/ UNCHANGED gcVars
            /\ \/ /\ heap' = heap \cup {o} /\ held' = held \cup {o}
                  /\ pending' = pending \cup {o} \/ UNCHANGED pending
                  /\ UNCHANGED weak
               \/ UNCHANGED objectVars

DropReference(o) == held' = held \ {o} /\ UNCHANGED <<heap, pending, weak>>

MakeWeakReference(o) ==
  o \in held /\ weak' = weak \cup {o} /\ UNCHANGED <<heap, held, pending>>

ReadWeakReference(o) ==
  o \in weak /\ held' = held \cup {o} /\ UNCHANGED <<heap, pending, weak>>

SuppressFinalize(o) ==
  o \in held /\ pending' = pending \ {o} /\ UNCHANGED <<heap, held, weak>>

ReRegisterForFinalize(o) ==
  /\ o \in held
  /\ pending' = IF RegisteredForFinalization THEN pending \cup {o} ELSE pending
  /\ UNCHANGED <<heap, held, weak>>

(* What the EE tells the collector, which forgets it.                      *)
Tell(method, value) ==
  told' = [told EXCEPT ![method] = value] /\ UNCHANGED <<collected, region>>

SetGcLatencyMode(mode) == Tell("GetGcLatencyMode", mode)
SetLOHCompactionMode(mode) == Tell("GetLOHCompactionMode", mode)
TemporaryConcurrentGC(enabled) == Tell("IsConcurrentGCEnabled", enabled)
SetGCInProgress(fInProgress) == Tell("IsGCInProgressHelper", fInProgress)

(* And a no-GC region as the answers let the EE believe in it.             *)
StartNoGCRegion ==
  /\ region' = IF SystemGC.StartNoGCRegion = "success" THEN "kept" ELSE region
  /\ UNCHANGED <<collected, told>>

EndNoGCRegion ==
  /\ region' = IF SystemGC.EndNoGCRegion = "success" THEN "none" ELSE region
  /\ UNCHANGED <<collected, told>>

(* BOUND: one mode beside the one that is answered.                        *)
Settings ==
  /\ \/ \E mode \in 0..1 : SetGcLatencyMode(mode) \/ SetLOHCompactionMode(mode)
     \/ \E b \in BOOLEAN : TemporaryConcurrentGC(b) \/ SetGCInProgress(b)
     \/ StartNoGCRegion
     \/ EndNoGCRegion
  /\ UNCHANGED <<objectVars, prog, fin>>

Program ==
  /\ prog = "running"
  /\ \/ Collect
     \/ \E o \in Objects : Allocate(o)
     \/ \E o \in Objects :
          /\ \/ DropReference(o)
             \/ MakeWeakReference(o) \/ ReadWeakReference(o)
             \/ SuppressFinalize(o) \/ ReRegisterForFinalize(o)
          /\ UNCHANGED gcVars
  /\ UNCHANGED <<prog, fin>>

(* GC.WaitForPendingFinalizers: wake the finalizer thread and wait for it. *)
WaitForPendingFinalizers ==
  /\ prog = "running"
  /\ prog' = "waiting" /\ fin' = "draining"
  /\ UNCHANGED <<objectVars, gcVars>>

Resume ==
  prog = "released" /\ prog' = "running" /\ UNCHANGED <<objectVars, gcVars, fin>>

(* The finalizer thread takes an object and runs its finalizer, until there*)
(* is none left; then it releases who waits.                               *)
FinalizerThread ==
  LET o == GetNextFinalizable IN
  /\ fin = "draining"
  /\ held' = held \cup ({o} \ {NoObject})
  /\ fin' = IF o = NoObject THEN "sleeping" ELSE fin
  /\ prog' = IF o = NoObject THEN "released" ELSE prog
  /\ UNCHANGED <<heap, pending, weak, gcVars>>

Next == Program \/ Settings \/ WaitForPendingFinalizers \/ Resume \/ FinalizerThread

(* Both threads are scheduled: the finalizer thread once it was woken, the *)
(* program once it was released.                                           *)
Fairness == WF_vars(FinalizerThread) /\ WF_vars(Resume)

Spec == Init /\ [][Next]_vars /\ Fairness

-----------------------------------------------------------------------------
(* A collector that never finds an unreachable object is a collector: it   *)
(* takes nothing away, and no weak handle, that the program still counts   *)
(* on, and runs no finalizer too soon or twice.                            *)
Promise == INSTANCE Collector WITH ready <- {}

ImplementsCollector == Promise!Spec

(* GC.WaitForPendingFinalizers "blocks until they run"                     *)
(* (GcDemo/Program.cs:26-27) and then returns, whatever was allocated,     *)
(* dropped and collected before.                                           *)
WaitReturns == prog = "waiting" ~> prog = "running"

(* What gcinterface.h would have methods say of what the EE has done; those*)
(* of which it says nothing that these variables decide are left out.      *)
Some(b) == IF b THEN Nat \ {0} ELSE {0}

Admissible ==
  [GetMaxGeneration |-> {g_max_generation},
   WaitForFullGCApproach |-> {"failed", "cancelled", "timeout", "na"},
   WaitForFullGCComplete |-> {"failed", "cancelled", "timeout", "na"},
   GetNow |-> Some(TRUE),

   GetTotalBytesInUse |-> Some(heap # {}), GetTotalAllocatedBytes |-> Some(heap # {}),
   GetCurrentObjSize |-> Some(heap # {}),
   GetContainingObject |-> {heap}, DiagWalkHeap |-> {heap},
   DiagWalkFinalizeQueue |-> {pending}, DiagScanHandles |-> {weak},
   RuntimeStructuresValid |-> IF Walks.DiagWalkHeap = heap THEN BOOLEAN ELSE {FALSE},
   IsLargeObject |-> {{o \in heap : SizeOf[o] >= GetLOHThreshold}},

   GetGcCount |-> Some(collected), CollectionCount |-> Some(collected),
   GetLastGCStartTime |-> Some(collected), GetLastGCDuration |-> Some(collected),

   StartNoGCRegion |-> IF region = "none" THEN {"success", "no_memory", "too_large"}
                       ELSE {"in_progress"},
   EndNoGCRegion |-> CASE region = "none" -> {"not_in_progress"}
                       [] region = "kept" -> {"success"}
                       [] region = "broken" -> {"induced", "alloc_exceeded"},
   EnableNoGCRegionCallback |->
     IF region = "none" THEN {"not_started"}
     ELSE {"succeed", "insufficient_budget", "already_registered"}]
  @@ [method \in DOMAIN told |-> {told[method]}]

WrongAnswers ==
  LET given == Answer
      allowed == Admissible
  IN  {m \in DOMAIN allowed : given[m] \notin allowed[m]}

AboutObjects ==
  {"GetTotalBytesInUse", "GetTotalAllocatedBytes", "GetCurrentObjSize",
   "GetContainingObject", "DiagWalkHeap", "IsLargeObject"}
AboutGCs == {"GetGcCount", "CollectionCount", "GetLastGCStartTime", "GetLastGCDuration"}
AboutNothing == {"GetMaxGeneration", "WaitForFullGCApproach", "WaitForFullGCComplete", "GetNow"}

(* The answers a step may make wrong, by what it did.                      *)
If(b, methods) == IF b THEN methods ELSE {}

Spoils ==
  If(heap' # heap, AboutObjects \cup {"DiagWalkFinalizeQueue"})
    \cup If(weak' # weak, {"DiagScanHandles"})
    \cup If(collected' # collected, AboutGCs)
    \cup If(told' # told, DOMAIN told)
    \cup If(region = "none", {"StartNoGCRegion", "EnableNoGCRegionCallback"})
    \cup If(region = "kept", {"EndNoGCRegion"})

(* How the answers of the stubs go wrong.  Five are from the start, one of *)
(* them only while there is no region to end.  The others are right until  *)
(* the step they should have noticed: no dropping, reading or finalizing   *)
(* spoils any, nor does a GC spoil what is said of the objects; and what an*)
(* object or a GC made wrong stays so.  RuntimeStructuresValid never is    *)
(* wrong: a heap that cannot be walked is said to be one                   *)
(* (MiniGCHeap.cpp:207-333, 443-516, 672-729, 793-846).                    *)
AnswersGoWrong ==
  /\ WrongAnswers = AboutNothing \cup {"EndNoGCRegion"}
  /\ [][LET wrong == WrongAnswers  spoilt == WrongAnswers' IN
          /\ spoilt \subseteq wrong \cup Spoils
          /\ wrong \cap (AboutNothing \cup AboutObjects \cup AboutGCs) \subseteq spoilt]_vars
=============================================================================
