------------------------ MODULE MiniGCServicesProofs ------------------------
(***************************************************************************)
(* What a Collector promises of the objects follows from its actions, and  *)
(* MiniGC's answers implement it.                                          *)
(***************************************************************************)
EXTENDS MiniGCServices, TLAPS

(* Any collector, with objects whose finalizer is due.                     *)
VARIABLE ready
Contract == INSTANCE Collector

(* With any collector the program's objects are there while it can reach   *)
(* them, also through a weak handle, and finalizers are due only once      *)
(* (gcinterface.h:409-414, 709-713, 824-828).                              *)
THEOREM CollectorIsSafe == Contract!Spec => []Contract!Safe
<1>1. Contract!Init => Contract!Safe
  BY DEF Contract!Init, Contract!Safe
<1>2. Contract!Safe /\ [Contract!Next]_(Contract!vars) => Contract!Safe'
  <2> SUFFICES ASSUME Contract!Safe, [Contract!Next]_(Contract!vars)
               PROVE  Contract!Safe'
    OBVIOUS
  <2> USE DEF Contract!Safe
  <2>1. ASSUME NEW o \in Objects, NEW b \in BOOLEAN,
               \/ Contract!Drop(o) \/ Contract!Track(o) \/ Contract!ReadWeak(o)
               \/ Contract!SetFinalizationRun(o)
               \/ Contract!Alloc(o, b) \/ Contract!RegisterForFinalization(o, b)
        PROVE  Contract!Safe'
    BY <2>1 DEF Contract!Drop, Contract!Track, Contract!ReadWeak, Contract!Alloc,
                Contract!SetFinalizationRun, Contract!RegisterForFinalization
  <2>2. ASSUME NEW o \in Objects \cup {NoObject}, Contract!GetNextFinalizable(o)
        PROVE  Contract!Safe'
    BY <2>2 DEF Contract!GetNextFinalizable, Contract!vars
  <2>3. CASE Contract!GarbageCollect
    BY <2>3 DEF Contract!GarbageCollect, Contract!Unreachable
  <2>4. CASE UNCHANGED Contract!vars
    BY <2>4 DEF Contract!vars
  <2> QED  BY <2>1, <2>2, <2>3, <2>4 DEF Contract!Next
<1> QED  BY <1>1, <1>2, PTL DEF Contract!Spec

(* The program does nothing to its objects but what Collector lets it do.  *)
LEMMA ProgramSteps ==
  ASSUME Program  PROVE  [Promise!Next]_(Promise!vars)
<1>1. CASE Collect
  BY <1>1 DEF Collect, objectVars, Promise!vars
<1>2. ASSUME NEW o \in Objects,
             \/ Allocate(o) \/ DropReference(o)
             \/ MakeWeakReference(o) \/ ReadWeakReference(o)
             \/ SuppressFinalize(o) \/ ReRegisterForFinalize(o)
      PROVE  [Promise!Next]_(Promise!vars)
  <2>1. CASE Allocate(o)
    <3>1. UNCHANGED objectVars \/ Promise!Alloc(o, TRUE) \/ Promise!Alloc(o, FALSE)
      BY <2>1 DEF Allocate, Promise!Alloc, objectVars
    <3> QED  BY <3>1 DEF Promise!Next, Promise!vars, objectVars
  <2>2. CASE DropReference(o)
    BY <2>2 DEF DropReference, Promise!Drop, Promise!Next
  <2>3. CASE MakeWeakReference(o)
    BY <2>3 DEF MakeWeakReference, Promise!Track, Promise!Next
  <2>4. CASE ReadWeakReference(o)
    BY <2>4 DEF ReadWeakReference, Promise!ReadWeak, Promise!Next
  <2>5. CASE SuppressFinalize(o)
    BY <2>5 DEF SuppressFinalize, Promise!SetFinalizationRun, Promise!Next
  <2>6. CASE ReRegisterForFinalize(o)
    <3>1. Promise!RegisterForFinalization(o, FALSE)
      BY <2>6 DEF ReRegisterForFinalize, RegisteredForFinalization,
                  Promise!RegisterForFinalization
    <3> QED  BY <3>1 DEF Promise!Next
  <2> QED  BY <1>2, <2>1, <2>2, <2>3, <2>4, <2>5, <2>6
<1> QED  BY <1>1, <1>2 DEF Program

(* The finalizer thread gets no object from MiniGC, so that draining the   *)
(* queue changes nothing of the objects.                                   *)
LEMMA DrainingChangesNothing ==
  ASSUME FinalizerThread  PROVE  UNCHANGED objectVars
BY DEF FinalizerThread, GetNextFinalizable, objectVars

(* MiniGC's services implement the collector of gcinterface.h: no call,    *)
(* and no order of calls, takes an object or a weak handle away that the   *)
(* program counts on, or runs a finalizer too soon (MiniGCHeap.cpp:237-245,*)
(* 325-342).                                                               *)
THEOREM ServicesImplementCollector == Spec => ImplementsCollector
<1>1. Init => Promise!Init
  BY DEF Init, Promise!Init
<1>2. [Next]_vars => [Promise!Next]_(Promise!vars)
  <2> SUFFICES ASSUME [Next]_vars  PROVE  [Promise!Next]_(Promise!vars)
    OBVIOUS
  <2>1. CASE Program
    BY <2>1, ProgramSteps
  <2>2. CASE Settings \/ WaitForPendingFinalizers \/ Resume \/ UNCHANGED vars
    BY <2>2 DEF Settings, WaitForPendingFinalizers, Resume, vars, objectVars, Promise!vars
  <2>3. CASE FinalizerThread
    BY <2>3, DrainingChangesNothing DEF objectVars, Promise!vars
  <2> QED  BY <2>1, <2>2, <2>3 DEF Next
<1> QED  BY <1>1, <1>2, PTL DEF Spec, ImplementsCollector, Promise!Spec

-----------------------------------------------------------------------------
(* The program waits exactly while the finalizer thread has been woken and *)
(* has not gone back to sleep, and that thread's next step lets it go, since*)
(* no object ever keeps it busy: the safety half of WaitReturns            *)
(* (MiniGCHeap.cpp:242-245).                                               *)
Handshake == TypeOK /\ (prog = "waiting" <=> fin = "draining")

NextStepReleases ==
  [][prog = "waiting" => prog' = "released" \/ UNCHANGED <<prog, fin>>]_vars

LEMMA HandshakeStep ==
  ASSUME Handshake, [Next]_vars
  PROVE  /\ Handshake'
         /\ prog = "waiting" => prog' = "released" \/ UNCHANGED <<prog, fin>>
<1> USE DEF Handshake, TypeOK
<1>1. CASE Program
  <2>1. heap' \subseteq Objects
    BY <1>1 DEF Program, Collect, objectVars, Allocate, DropReference, MakeWeakReference,
       ReadWeakReference, SuppressFinalize, ReRegisterForFinalize
  <2>2. AGC \/ UNCHANGED gcVars
    BY <1>1 DEF Program, Collect, Allocate
  <2>3. /\ collected' \in BOOLEAN
        /\ region' \in {"none", "kept", "broken"}
        /\ told' = told
    BY <2>2 DEF AGC, gcVars
  <2> QED BY <1>1, <2>1, <2>3 DEF Program
<1>2. CASE WaitForPendingFinalizers \/ Resume \/ UNCHANGED vars
  BY <1>2 DEF WaitForPendingFinalizers, Resume, vars, objectVars, gcVars
<1>3. CASE FinalizerThread
  BY <1>3 DEF FinalizerThread, GetNextFinalizable, gcVars
<1>4. CASE Settings
  <2>1. UNCHANGED <<objectVars, prog, fin>>
    BY <1>4 DEF Settings
  <2>2. ASSUME NEW method, NEW value, Tell(method, value),
               told' \in [GetGcLatencyMode : Nat, GetLOHCompactionMode : Nat,
                          IsConcurrentGCEnabled : BOOLEAN, IsGCInProgressHelper : BOOLEAN]
        PROVE  TypeOK'
    BY <2>1, <2>2 DEF Tell, objectVars
  <2>3. ASSUME NEW mode \in 0..1,
               SetGcLatencyMode(mode) \/ SetLOHCompactionMode(mode)
        PROVE  TypeOK'
    BY <2>2, <2>3 DEF SetGcLatencyMode, SetLOHCompactionMode, Tell
  <2>4. ASSUME NEW b \in BOOLEAN,
               TemporaryConcurrentGC(b) \/ SetGCInProgress(b)
        PROVE  TypeOK'
    BY <2>2, <2>4 DEF TemporaryConcurrentGC, SetGCInProgress, Tell
  <2>5. CASE StartNoGCRegion \/ EndNoGCRegion
    BY <2>1, <2>5 DEF StartNoGCRegion, EndNoGCRegion, objectVars
  <2> QED BY <1>4, <2>1, <2>3, <2>4, <2>5 DEF Settings
<1> QED BY <1>1, <1>2, <1>3, <1>4 DEF Next

THEOREM WaitersAreReleased == Spec => []Handshake /\ NextStepReleases
<1>1. Init => Handshake
  <2>1. Unset = [GetGcLatencyMode |-> 0, GetLOHCompactionMode |-> 0,
                 IsConcurrentGCEnabled |-> FALSE, IsGCInProgressHelper |-> FALSE]
    BY DEF Unset, SystemGC, ConcurrentGC, LastGC
  <2>2. Unset \in [GetGcLatencyMode : Nat, GetLOHCompactionMode : Nat,
                  IsConcurrentGCEnabled : BOOLEAN, IsGCInProgressHelper : BOOLEAN]
    BY <2>1
  <2>3. Init => TypeOK
    BY <2>2 DEF Init, TypeOK
  <2> QED BY <2>3 DEF Init, Handshake
<1>2. Handshake /\ [Next]_vars => Handshake'
  BY HandshakeStep
<1>3. Handshake /\ [Next]_vars =>
        [prog = "waiting" => prog' = "released" \/ UNCHANGED <<prog, fin>>]_vars
  BY HandshakeStep
<1> QED BY <1>1, <1>2, <1>3, PTL DEF Spec, NextStepReleases

=============================================================================
