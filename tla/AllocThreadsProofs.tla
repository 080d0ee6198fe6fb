------------------------- MODULE AllocThreadsProofs -------------------------
(***************************************************************************)
(* Theorems about AllocThreads for any number of threads: with one context *)
(* for all and its lock, and with contexts of any kind, where they race.   *)
(***************************************************************************)
EXTENDS AllocThreads, FiniteSetTheorems, TLAPS

USE DEF Null, Heap!Null

-----------------------------------------------------------------------------
(* The flag, whatever contexts the threads have.                           *)
InGC == {"suspend", "restart", "endgc"}

FlagInv == pc \in [Threads -> Labels] /\ FlagNotStuck

LEMMA FlagStep == FlagInv /\ [Next]_vars => FlagInv'
<1> SUFFICES ASSUME FlagInv, [Next]_vars PROVE FlagInv'
  OBVIOUS
<1> USE DEF FlagInv, FlagNotStuck, Pending, Labels, Carved, Goto, Return, At, Load,
            shared, gcVars, carveVars, registerVars, publishVars
<1>1. CASE UNCHANGED vars
  BY <1>1 DEF vars
<1>2. ASSUME NEW t \in Threads, NEW n \in Sizes, Call(t, n)
      PROVE  FlagInv'
  <2>1. CASE CallRefused(t, n)
    BY <2>1 DEF CallRefused, vars
  <2>2. CASE CallFast(t, n)
    BY <2>2 DEF CallFast
  <2>3. CASE CallSlow(t, n)
    BY <2>3 DEF CallSlow, RaiseFlag
  <2> QED BY <1>2, <2>1, <2>2, <2>3 DEF Call
<1>3. ASSUME NEW t \in Threads, Step(t)
      PROVE  FlagInv'
  <2>1. CASE SuspendEE(t)
    BY <2>1 DEF SuspendEE
  <2>2. CASE RestartEE(t)
    BY <2>2 DEF RestartEE
  <2>3. CASE EndGC(t)
    BY <2>3 DEF EndGC
  <2>4. CASE CheckArena(t) \/ TakePages(t) \/ LoadArena(t) \/ StoreArena(t)
    BY <2>4 DEF CheckArena, TakePages, LoadArena, StoreArena
  <2>5. CASE CheckTable(t) \/ LoadCount(t) \/ StoreCount(t) \/ StoreSlot(t)
    BY <2>5 DEF CheckTable, LoadCount, StoreCount, StoreSlot
  <2>6. CASE CheckFirst(t) \/ StoreHighest(t) \/ LoadBarrierArgs(t)
    BY <2>6 DEF CheckFirst, StoreHighest, LoadBarrierArgs
  <2>7. CASE StompWriteBarrier(t) \/ FillContext(t)
    BY <2>7 DEF StompWriteBarrier, FillContext
  <2> QED BY <1>3, <2>1, <2>2, <2>3, <2>4, <2>5, <2>6, <2>7 DEF Step
<1> QED BY <1>1, <1>2, <1>3 DEF Next

(* However the GCs of threads overlap, the flag is down when none is left. *)
THEOREM FlagComesDown == Spec => []FlagNotStuck
<1>1. Init => FlagInv
  BY DEF Init, FlagInv, FlagNotStuck, Pending, Labels
<1>2. FlagInv => FlagNotStuck
  BY DEF FlagInv
<1> QED BY <1>1, <1>2, FlagStep, PTL DEF Spec

-----------------------------------------------------------------------------
(* One context: a thread inside Alloc is there alone.                      *)
Alone(t) == \A u \in Threads \ {t} : pc[u] = "idle"

LEMMA InsideAlone ==
  ASSUME OneContext, LocksHeld, NEW t \in Threads, pc[t] # "idle"
  PROVE  Alone(t)
BY ThreadAssumption DEF OneContext, LocksHeld, Alone

LEMMA FreeLockMeansNobody ==
  ASSUME OneContext, LocksHeld, NEW t \in Threads, holder[CtxOf[t]] = NoThread
  PROVE  \A u \in Threads : pc[u] = "idle"
BY ThreadAssumption DEF OneContext, LocksHeld

(* Which threads are on the way is then a matter of the one thread's pc.   *)
LEMMA PendingAlone ==
  ASSUME NEW t \in Threads, NEW p, \A u \in Threads \ {t} : p[u] = "idle",
         NEW L, "idle" \notin L
  PROVE  /\ p[t] \in L => {u \in Threads : p[u] \in L} = {t}
         /\ p[t] \notin L => {u \in Threads : p[u] \in L} = {}
OBVIOUS

(* It is enough to look at the thread that took the step.                  *)
LEMMA OnlyOneMoves ==
  ASSUME TypeOK', LocksHeld', GCTracked', BetweenCarvings', NEW t \in Threads,
         \A u \in Threads \ {t} : pc'[u] = "idle",
         CarvingOf(t)', RegisteringOf(t)', PublishingOf(t)'
  PROVE  SharedInv'
<1>1. ASSUME NEW u \in Threads
      PROVE  (CarvingOf(u) /\ RegisteringOf(u) /\ PublishingOf(u))'
  <2>1. CASE u # t
    BY <2>1 DEF CarvingOf, RegisteringOf, PublishingOf, Carved, Counted, Raised
  <2> QED BY <2>1
<1> QED BY <1>1 DEF SharedInv

-----------------------------------------------------------------------------
(* Locals, and the updates of one of them.                                 *)
LEMMA LocalsSet ==
  ASSUME NEW f \in [Threads -> Locals], NEW t \in Threads, NEW v \in Nat
  PROVE  /\ [f EXCEPT ![t].size = v] = [f EXCEPT ![t] = [f[t] EXCEPT !.size = v]]
         /\ [f EXCEPT ![t].newPages = v] = [f EXCEPT ![t] = [f[t] EXCEPT !.newPages = v]]
         /\ [f EXCEPT ![t].load = v] = [f EXCEPT ![t] = [f[t] EXCEPT !.load = v]]
         /\ [f EXCEPT ![t].high = v] = [f EXCEPT ![t] = [f[t] EXCEPT !.high = v]]
         /\ [f[t] EXCEPT !.size = v] \in Locals
         /\ [f[t] EXCEPT !.newPages = v] \in Locals
         /\ [f[t] EXCEPT !.load = v] \in Locals
         /\ [f[t] EXCEPT !.high = v] \in Locals
BY DEF Locals

LEMMA LocalsAtRest == NoLocals \in Locals
BY DEF NoLocals, Locals

(* Type correctness.                                                       *)
LEMMA TypeStep ==
  ASSUME OneContext, SharedInv, [Next]_vars
  PROVE  TypeOK'
<1> USE DEF TypeOK, Goto, Return, At, Load, shared, gcVars, carveVars, registerVars,
            publishVars
<1>0. TypeOK
  BY DEF SharedInv
<1>1. CASE UNCHANGED vars
  BY <1>0, <1>1 DEF vars
<1>2. ASSUME NEW t \in Threads, NEW n \in Sizes, Call(t, n)
      PROVE  TypeOK'
  <2> n \in Nat /\ CtxOf[t] \in Contexts /\ ctx[CtxOf[t]] \in Windows
    BY <1>0, ThreadAssumption, SizeAssumption
  <2>1. CASE CallRefused(t, n)
    BY <1>0, <2>1 DEF CallRefused, vars
  <2>2. CASE CallFast(t, n)
    <3>1. [ctx[CtxOf[t]] EXCEPT !.ptr = ctx[CtxOf[t]].ptr + n] \in Windows
      BY DEF Windows
    <3>2. ctx' = [ctx EXCEPT ![CtxOf[t]] =
                    [ctx[CtxOf[t]] EXCEPT !.ptr = ctx[CtxOf[t]].ptr + n]]
      BY <2>2 DEF CallFast
    <3>3. ctx' \in [Contexts -> Windows]
      BY <1>0, <3>1, <3>2
    <3>4. ctx[CtxOf[t]].ptr \in Nat /\ n # 0
      BY <2>2 DEF Windows, CallFast, Heap!LegalSize
    <3>5. objs' \subseteq [start : Nat, size : Nat \ {0}]
      BY <1>0, <2>2, <3>4 DEF CallFast
    <3> QED BY <1>0, <2>2, <3>3, <3>5 DEF CallFast
  <2>3. CASE CallSlow(t, n)
    <3>1. local' \in [Threads -> Locals]
      BY <1>0, <2>3, LocalsSet DEF CallSlow
    <3>2. holder' \in [Contexts -> Threads \cup {NoThread}]
      BY <1>0, <2>3 DEF CallSlow
    <3>3. pc' \in [Threads -> Labels] /\ gcInProgress' \in BOOLEAN
      BY <1>0, <2>3 DEF CallSlow, RaiseFlag, Labels
    <3> QED BY <1>0, <2>3, <3>1, <3>2, <3>3 DEF CallSlow
  <2> QED BY <1>2, <2>1, <2>2, <2>3 DEF Call
<1>3. ASSUME NEW t \in Threads, Step(t)
      PROVE  TypeOK'
  <2>0. /\ CtxOf[t] \in Contexts
        /\ arenaNext \in Nat /\ segmentsCount \in Nat /\ highest \in Nat
        /\ GrowthSize \in Nat /\ BeginGap \in Nat /\ MaxSegments \in Nat
        /\ local[t].size \in Nat /\ local[t].newPages \in Nat
        /\ local[t].load \in Nat /\ local[t].high \in Nat
    BY <1>0, ThreadAssumption, SizeAssumption DEF Locals
  <2>1. CASE SuspendEE(t) \/ RestartEE(t) \/ EndGC(t)
    BY <1>0, <2>1 DEF SuspendEE, RestartEE, EndGC, Labels
  <2>2. CASE CheckArena(t) \/ CheckTable(t)
    <3>1. local' \in [Threads -> Locals]
      BY <1>0, <2>2, LocalsAtRest DEF CheckArena, CheckTable
    <3>2. holder' \in [Contexts -> Threads \cup {NoThread}]
      BY <1>0, <2>0, <2>2 DEF CheckArena, CheckTable
    <3>3. pc' \in [Threads -> Labels]
      BY <1>0, <2>2 DEF CheckArena, CheckTable, Labels, Carved
    <3> QED BY <1>0, <2>2, <3>1, <3>2, <3>3 DEF CheckArena, CheckTable
  <2>3. CASE TakePages(t) \/ LoadArena(t) \/ LoadCount(t) \/ LoadBarrierArgs(t)
    <3>1. local' \in [Threads -> Locals]
      <4>1. CASE TakePages(t)
        BY <1>0, <2>0, <4>1, LocalsSet DEF TakePages
      <4>2. CASE LoadArena(t)
        BY <1>0, <2>0, <4>2, LocalsSet DEF LoadArena
      <4>3. CASE LoadCount(t)
        BY <1>0, <2>0, <4>3, LocalsSet DEF LoadCount
      <4>4. CASE LoadBarrierArgs(t)
        BY <1>0, <2>0, <4>4, LocalsSet DEF LoadBarrierArgs
      <4> QED BY <2>3, <4>1, <4>2, <4>3, <4>4
    <3>2. pc' \in [Threads -> Labels]
      BY <1>0, <2>3 DEF TakePages, LoadArena, LoadCount, LoadBarrierArgs, Labels, Carved
    <3> QED BY <1>0, <2>3, <3>1, <3>2 DEF TakePages, LoadArena, LoadCount, LoadBarrierArgs
  <2>4. CASE StoreArena(t) \/ CheckFirst(t) \/ StoreHighest(t)
    <3>1. arenaNext' \in Nat /\ highest' \in Nat
      BY <1>0, <2>0, <2>4 DEF StoreArena, CheckFirst, StoreHighest
    <3>2. pc' \in [Threads -> Labels]
      BY <1>0, <2>4 DEF StoreArena, CheckFirst, StoreHighest, Labels, Carved
    <3> QED BY <1>0, <2>4, <3>1, <3>2 DEF StoreArena, CheckFirst, StoreHighest
  <2>5. CASE StoreCount(t)
    <3>1. segmentsCount' \in 0..MaxSegments
      BY <1>0, <2>0, <2>5 DEF StoreCount, SharedInv, RegisteringOf
    <3> QED BY <1>0, <2>5, <3>1 DEF StoreCount, Labels, Carved
  <2>6. CASE StoreSlot(t)
    BY <1>0, <2>0, <2>6 DEF StoreSlot, Labels, Carved
  <2>7. CASE StompWriteBarrier(t)
    <3>1. barrier' \in [low : Nat, high : Nat, cards : Nat, bundles : Nat]
      BY <2>0, <2>7, PageAssumption DEF StompWriteBarrier, Heap!BarrierArgs
    <3> QED BY <1>0, <2>7, <3>1 DEF StompWriteBarrier, Labels, Carved
  <2>8. CASE FillContext(t)
    <3>1. ctx' \in [Contexts -> Windows]
      <4>1. Heap!NewWindow(CtxOf[t], local[t].size, local[t].newPages) \in Windows
        <5>1. ctx[CtxOf[t]].bytes \in Nat
          BY <1>0, <2>0 DEF Windows
        <5> QED BY <2>0, <5>1 DEF Heap!NewWindow, Windows
      <4> QED BY <1>0, <2>8, <4>1 DEF FillContext
    <3>2. objs' \subseteq [start : Nat, size : Nat \ {0}]
      <4>1. local[t].size # 0
        BY <2>8 DEF FillContext, SharedInv, CarvingOf, Heap!LegalSize
      <4> QED BY <1>0, <2>0, <2>8, <4>1 DEF FillContext
    <3>3. /\ local' \in [Threads -> Locals]
          /\ holder' \in [Contexts -> Threads \cup {NoThread}]
          /\ pc' \in [Threads -> Labels]
      BY <1>0, <2>0, <2>8, LocalsAtRest DEF FillContext, Labels
    <3> QED BY <1>0, <2>8, <3>1, <3>2, <3>3 DEF FillContext
  <2> QED BY <1>3, <2>1, <2>2, <2>3, <2>4, <2>5, <2>6, <2>7, <2>8 DEF Step
<1> QED BY <1>1, <1>2, <1>3 DEF Next

(* Who holds the lock, and what the flag says of the GC.                   *)
LEMMA LockStep ==
  ASSUME OneContext, SharedInv, [Next]_vars
  PROVE  LocksHeld' /\ GCTracked'
<1> USE DEF LocksHeld, GCTracked, Goto, Return, At, Load, shared, gcVars, carveVars,
            registerVars, publishVars
<1>0. TypeOK /\ LocksHeld /\ GCTracked
  BY DEF SharedInv
<1>1. CASE UNCHANGED vars
  BY <1>0, <1>1 DEF vars
<1>2. ASSUME NEW t \in Threads, NEW n \in Sizes, Call(t, n)
      PROVE  LocksHeld' /\ GCTracked'
  <2>1. CASE CallRefused(t, n)
    BY <1>0, <2>1 DEF CallRefused, vars
  <2>2. CASE CallFast(t, n)
    BY <1>0, <2>2 DEF CallFast
  <2>3. CASE CallSlow(t, n)
    BY <1>0, <2>3, FreeLockMeansNobody, ThreadAssumption
       DEF CallSlow, RaiseFlag, TypeOK, OneContext
  <2> QED BY <1>2, <2>1, <2>2, <2>3 DEF Call
<1>3. ASSUME NEW t \in Threads, Step(t)
      PROVE  LocksHeld' /\ GCTracked'
  <2> pc[t] # "idle" => Alone(t)
    BY <1>0, InsideAlone
  <2> USE ThreadAssumption DEF Alone, TypeOK
  <2>1. CASE SuspendEE(t) \/ RestartEE(t) \/ EndGC(t)
    BY <1>0, <2>1 DEF SuspendEE, RestartEE, EndGC, Runs
  <2>2. CASE CheckArena(t) \/ TakePages(t) \/ LoadArena(t) \/ StoreArena(t)
    BY <1>0, <2>2 DEF CheckArena, TakePages, LoadArena, StoreArena
  <2>3. CASE CheckTable(t) \/ LoadCount(t) \/ StoreCount(t) \/ StoreSlot(t)
    BY <1>0, <2>3 DEF CheckTable, LoadCount, StoreCount, StoreSlot
  <2>4. CASE CheckFirst(t) \/ StoreHighest(t) \/ LoadBarrierArgs(t)
    BY <1>0, <2>4 DEF CheckFirst, StoreHighest, LoadBarrierArgs
  <2>5. CASE StompWriteBarrier(t) \/ FillContext(t)
    BY <1>0, <2>5 DEF StompWriteBarrier, FillContext
  <2> QED BY <1>3, <2>1, <2>2, <2>3, <2>4, <2>5 DEF Step
<1> QED BY <1>1, <1>2, <1>3 DEF Next

-----------------------------------------------------------------------------
(* The rest of SharedInv, at each step of the thread that is inside.       *)
LEMMA CallStep ==
  ASSUME OneContext, SharedInv, NEW t \in Threads, NEW n \in Sizes, Call(t, n)
  PROVE  SharedInv'
<1>0. /\ TypeOK /\ LocksHeld /\ GCTracked /\ BetweenCarvings
      /\ TypeOK' /\ LocksHeld' /\ GCTracked'
  <2>1. [Next]_vars
    BY DEF Next
  <2> QED BY <2>1, TypeStep, LockStep DEF SharedInv
<1>1. CASE CallRefused(t, n)
  BY <1>1 DEF CallRefused, vars, SharedInv, TypeOK, LocksHeld, GCTracked, BetweenCarvings,
              CarvingOf, RegisteringOf, PublishingOf, Pending, Heap!FitsWindow,
                  Heap!LegalSize
<1>2. CASE CallFast(t, n) \/ CallSlow(t, n)
  <2>1. \A u \in Threads : pc[u] = "idle"
    BY <1>0, <1>2, FreeLockMeansNobody DEF CallFast, CallSlow
  <2>2. /\ UNCHANGED <<arenaNext, highest, barrier, segmentsCount>>
        /\ \A u \in Threads \ {t} : pc'[u] = "idle"
        /\ pc'[t] \in {"idle", "suspend", "check"}
    BY <1>0, <1>2, <2>1 DEF CallFast, CallSlow, shared, Goto, TypeOK
  <2>3. Pending(Carved) = {} /\ Pending(Carved)' = {}
    BY <2>1, <2>2 DEF Pending, Carved
  <2>4. BetweenCarvings'
    BY <1>0, <2>2, <2>3 DEF BetweenCarvings, Published, Heap!BarrierArgs
  <2>5. RegisteringOf(t)' /\ PublishingOf(t)'
    BY <2>2 DEF RegisteringOf, PublishingOf, Carved, Counted, Raised
  <2>6. CarvingOf(t)'
    <3>1. CASE CallFast(t, n)
      BY <2>1, <3>1 DEF CallFast, CarvingOf, Carved
    <3>2. CASE CallSlow(t, n)
      <4>1. local'[t].size = n /\ ctx' = ctx
        BY <1>0, <3>2 DEF CallSlow, TypeOK, Locals
      <4>2. Heap!LegalSize(n) /\ ~Heap!FitsWindow(CtxOf[t], n)
        BY <3>2 DEF CallSlow
      <4> QED BY <2>2, <4>1, <4>2 DEF CarvingOf, Carved, Heap!FitsWindow, Heap!LegalSize
    <3> QED BY <1>2, <3>1, <3>2
  <2> QED BY <1>0, <2>2, <2>4, <2>5, <2>6, OnlyOneMoves
<1> QED BY <1>1, <1>2 DEF Call

(* What a step of the thread inside leaves as it was.                      *)
LEMMA StepAlone ==
  ASSUME OneContext, SharedInv, NEW t \in Threads, Step(t)
  PROVE  /\ pc[t] # "idle" /\ Alone(t)
         /\ \A u \in Threads \ {t} : pc'[u] = "idle"
         /\ pc[t] \notin Carved => Pending(Carved) = {}
         /\ pc[t] \in Carved => Pending(Carved) = {t}
         /\ pc'[t] \notin Carved => Pending(Carved)' = {}
         /\ pc'[t] \in Carved => Pending(Carved)' = {t}
<1> USE DEF At, Goto, Return
<1>1. pc[t] # "idle" /\ \E label : pc' = [pc EXCEPT ![t] = label]
  <2>1. CASE SuspendEE(t) \/ RestartEE(t) \/ EndGC(t)
    BY <2>1 DEF SuspendEE, RestartEE, EndGC
  <2>2. CASE CheckArena(t) \/ TakePages(t) \/ LoadArena(t) \/ StoreArena(t)
    BY <2>2 DEF CheckArena, TakePages, LoadArena, StoreArena
  <2>3. CASE CheckTable(t) \/ LoadCount(t) \/ StoreCount(t) \/ StoreSlot(t)
    BY <2>3 DEF CheckTable, LoadCount, StoreCount, StoreSlot
  <2>4. CASE CheckFirst(t) \/ StoreHighest(t) \/ LoadBarrierArgs(t)
    BY <2>4 DEF CheckFirst, StoreHighest, LoadBarrierArgs
  <2>5. CASE StompWriteBarrier(t) \/ FillContext(t)
    BY <2>5 DEF StompWriteBarrier, FillContext
  <2> QED BY <2>1, <2>2, <2>3, <2>4, <2>5 DEF Step
<1>2. Alone(t)
  BY <1>1, InsideAlone DEF SharedInv
<1>3. \A u \in Threads \ {t} : pc[u] = "idle" /\ pc'[u] = "idle"
  BY <1>1, <1>2 DEF Alone, SharedInv, TypeOK
<1>4. "idle" \notin Carved
  BY DEF Carved
<1> QED BY <1>1, <1>2, <1>3, <1>4, PendingAlone DEF Pending

(* The whole of it, one action after the other.                            *)
Held(t) == BetweenCarvings /\ CarvingOf(t) /\ RegisteringOf(t) /\ PublishingOf(t)

LEMMA HeldStep ==
  ASSUME OneContext, SharedInv, NEW t \in Threads, Step(t)
  PROVE  Held(t)'
<1>0. /\ TypeOK /\ Held(t)
      /\ local[t] \in Locals /\ local \in [Threads -> Locals] /\ pc \in [Threads -> Labels]
      /\ arenaNext \in Nat /\ highest \in Nat /\ segmentsCount \in Nat
      /\ ArenaBase \in Nat /\ GrowthSize \in Nat /\ GrowthSize > 0
      /\ ArenaSize \in Nat /\ MaxSegments \in Nat /\ MaxSegments > 0
  BY SizeAssumption, PageAssumption DEF SharedInv, Held, TypeOK
<1>a. /\ pc[t] \notin Carved => Pending(Carved) = {}
      /\ pc[t] \in Carved => Pending(Carved) # {}
      /\ pc'[t] \notin Carved => Pending(Carved)' = {}
      /\ pc'[t] \in Carved => Pending(Carved)' # {}
  BY StepAlone
<1> USE DEF Held, BetweenCarvings, CarvingOf, RegisteringOf, PublishingOf, Published,
            Heap!BarrierArgs, Heap!FitsWindow, Heap!LegalSize,
            Carved, Counted, Raised, At, Goto, Return, Load, shared
<1>1. CASE SuspendEE(t) \/ RestartEE(t) \/ EndGC(t)
  BY <1>0, <1>a, <1>1 DEF SuspendEE, RestartEE, EndGC, gcVars
<1>2. CASE CheckArena(t)
  BY <1>0, <1>a, <1>2 DEF CheckArena, carveVars
<1>3. CASE TakePages(t)
  BY <1>0, <1>a, <1>3 DEF TakePages, carveVars, Locals
<1>4. CASE LoadArena(t)
  BY <1>0, <1>a, <1>4 DEF LoadArena, carveVars, Locals
<1>5. CASE StoreArena(t)
  BY <1>0, <1>a, <1>5 DEF StoreArena, carveVars, Locals
<1>6. CASE CheckTable(t)
  <2>1. CASE segmentsCount < MaxSegments
    BY <1>0, <1>a, <1>6, <2>1 DEF CheckTable, registerVars
  <2>2. CASE ~(segmentsCount < MaxSegments)
    <3>1. pc[t] = "table" /\ pc'[t] = "idle"
      BY <1>0, <1>6, <2>2 DEF CheckTable
    <3>2. highest # ArenaBase /\ arenaNext # ArenaBase
      BY <1>0, <2>2, <3>1 DEF Locals
    <3> QED BY <1>0, <1>a, <1>6, <2>2, <3>1, <3>2 DEF CheckTable, registerVars
  <2> QED BY <2>1, <2>2
<1>7. CASE LoadCount(t)
  BY <1>0, <1>a, <1>7 DEF LoadCount, registerVars, Locals
<1>8. CASE StoreCount(t)
  BY <1>0, <1>a, <1>8 DEF StoreCount, registerVars, Locals
<1>9. CASE StoreSlot(t)
  <2>1. local[t].load \in 0..(MaxSegments - 1) /\ segmentsCount - 1 = local[t].load
    <3>1. segmentsCount \in 0..MaxSegments /\ local[t].load \in Nat
      BY <1>0 DEF TypeOK, Locals
    <3>2. segmentsCount = local[t].load + 1
      BY <1>0, <1>9 DEF StoreSlot
    <3> QED BY <1>0, <3>1, <3>2
  <2>2. segments'[segmentsCount - 1] = local[t].newPages
    BY <1>0, <1>9, <2>1 DEF StoreSlot, TypeOK
  <2> QED BY <1>0, <1>a, <1>9, <2>2 DEF StoreSlot, registerVars
<1>10. CASE CheckFirst(t)
  BY <1>0, <1>a, <1>10 DEF CheckFirst, publishVars
<1>11. CASE StoreHighest(t)
  BY <1>0, <1>a, <1>11 DEF StoreHighest, publishVars, Locals
<1>12. CASE LoadBarrierArgs(t)
  BY <1>0, <1>a, <1>12 DEF LoadBarrierArgs, publishVars, Locals
<1>13. CASE StompWriteBarrier(t)
  BY <1>0, <1>a, <1>13 DEF StompWriteBarrier, publishVars, Locals
<1>14. CASE FillContext(t)
  BY <1>0, <1>a, <1>14 DEF FillContext, Locals
<1> QED
  BY <1>1, <1>2, <1>3, <1>4, <1>5, <1>6, <1>7, <1>8, <1>9, <1>10, <1>11, <1>12, <1>13,
     <1>14 DEF Step

LEMMA SharedStep ==
  ASSUME OneContext, SharedInv, [Next]_vars
  PROVE  SharedInv'
<1>0. TypeOK' /\ LocksHeld' /\ GCTracked'
  BY TypeStep, LockStep
<1>1. CASE UNCHANGED vars
  BY <1>1 DEF vars, SharedInv, TypeOK, LocksHeld, GCTracked, BetweenCarvings, CarvingOf,
              RegisteringOf, PublishingOf, Pending, Heap!FitsWindow, Heap!LegalSize
<1>2. ASSUME NEW t \in Threads, NEW n \in Sizes, Call(t, n)
      PROVE  SharedInv'
  BY <1>2, CallStep
<1>3. ASSUME NEW t \in Threads, Step(t)
      PROVE  SharedInv'
  <2>1. Held(t)' /\ \A u \in Threads \ {t} : pc'[u] = "idle"
    BY <1>3, HeldStep, StepAlone
  <2> QED BY <1>0, <2>1, OnlyOneMoves DEF Held
<1> QED BY <1>1, <1>2, <1>3 DEF Next

LEMMA SharedStart == Init => SharedInv
<1> SUFFICES ASSUME Init PROVE SharedInv
  OBVIOUS
<1>1. Pending(Carved) = {}
  BY DEF Init, Pending, Carved
<1>2. TypeOK
  <2>1. Heap!NoContext \in Windows /\ NoLocals \in Locals
    BY DEF Heap!NoContext, Windows, NoLocals, Locals
  <2>2. barrier \in [low : Nat, high : Nat, cards : Nat, bundles : Nat]
    BY PageAssumption DEF Init, Heap!BarrierArgs
  <2>3. /\ ctx \in [Contexts -> Windows]
        /\ local \in [Threads -> Locals]
        /\ pc \in [Threads -> Labels]
        /\ holder \in [Contexts -> Threads \cup {NoThread}]
        /\ segments \in [0..(MaxSegments - 1) -> Nat]
    BY <2>1 DEF Init, Labels
  <2>4. /\ arenaNext \in Nat /\ highest \in Nat /\ segmentsCount \in 0..MaxSegments
    BY SizeAssumption, PageAssumption DEF Init
  <2>5. gcInProgress = FALSE /\ suspender = NoThread /\ objs = {}
    BY DEF Init
  <2> QED BY <2>2, <2>3, <2>4, <2>5 DEF TypeOK
<1>3. LocksHeld /\ GCTracked
  BY DEF Init, LocksHeld, GCTracked
<1>4. BetweenCarvings
  BY <1>1, PageAssumption DEF Init, BetweenCarvings, Published
<1>5. \A t \in Threads : CarvingOf(t) /\ RegisteringOf(t) /\ PublishingOf(t)
  BY DEF Init, CarvingOf, RegisteringOf, PublishingOf, Carved, Counted, Raised
<1> QED BY <1>2, <1>3, <1>4, <1>5 DEF SharedInv

(* With one context and its lock, the variables stay related as SharedInv  *)
(* says through every interleaving of the loads and stores of Alloc.       *)
THEOREM SharedInvariant ==
  ASSUME OneContext  PROVE  Spec => []SharedInv
BY SharedStart, SharedStep, PTL DEF Spec

(* Every variable keeps its type; in particular the table is never overrun *)
(* (MiniGCHeap.cpp:653).                                                   *)
THEOREM TypeCorrect ==
  ASSUME OneContext  PROVE  Spec => []TypeOK
<1>1. SharedInv => TypeOK
  BY DEF SharedInv
<1> QED BY <1>1, SharedInvariant, PTL

(* The EE is suspended only while gcInProgress says so                     *)
(* (MiniGCHeap.cpp:536-544).                                               *)
THEOREM FlagCoversSuspension ==
  ASSUME OneContext  PROVE  Spec => []FlagTracksSuspension
<1>1. SharedInv => FlagTracksSuspension
  BY DEF SharedInv, TypeOK, GCTracked, FlagTracksSuspension
<1> QED BY <1>1, SharedInvariant, PTL

-----------------------------------------------------------------------------
(* How the serialised heap looks while only t may be inside.               *)
View(t) ==
  /\ SerialArena = IF pc[t] \in Carved THEN local[t].newPages ELSE arenaNext
  /\ SerialHighest = IF pc[t] \in Raised /\ local[t].newPages = ArenaBase
                     THEN ArenaBase ELSE highest
  /\ SerialBarrier = IF pc[t] = "fill" /\ local[t].newPages = ArenaBase
                     THEN [barrier EXCEPT !.high = ArenaBase] ELSE barrier
  /\ Registered = [i \in 1..(segmentsCount - IF pc[t] \in Counted THEN 1 ELSE 0) |->
                     segments[i - 1]]

LEMMA ViewBefore ==
  ASSUME NEW t \in Threads, \A u \in Threads \ {t} : pc[u] = "idle"
  PROVE  View(t)
<1>1. ASSUME NEW L, "idle" \notin L
      PROVE  Pending(L) = IF pc[t] \in L THEN {t} ELSE {}
  BY <1>1, PendingAlone DEF Pending
<1>2. "idle" \notin Carved /\ "idle" \notin Counted /\ "idle" \notin Raised
      /\ "idle" \notin {"fill"}
  BY DEF Carved, Counted, Raised
<1>3. Cardinality(Pending(Counted)) = IF pc[t] \in Counted THEN 1 ELSE 0
  BY <1>1, <1>2, FS_EmptySet, FS_Singleton
<1>4. (CHOOSE u \in {t} : TRUE) = t
  OBVIOUS
<1>5. SerialArena = IF pc[t] \in Carved THEN local[t].newPages ELSE arenaNext
  BY <1>1, <1>2, <1>4 DEF SerialArena
<1>6. SerialHighest = IF pc[t] \in Raised /\ local[t].newPages = ArenaBase
                      THEN ArenaBase ELSE highest
  BY <1>1, <1>2 DEF SerialHighest, PendingFirst
<1>7. SerialBarrier = IF pc[t] = "fill" /\ local[t].newPages = ArenaBase
                      THEN [barrier EXCEPT !.high = ArenaBase] ELSE barrier
  BY <1>1, <1>2 DEF SerialBarrier, PendingFirst
<1> QED BY <1>3, <1>5, <1>6, <1>7 DEF View, Registered

LEMMA ViewAfter ==
  ASSUME NEW t \in Threads, \A u \in Threads \ {t} : pc'[u] = "idle"
  PROVE  View(t)'
<1>1. ASSUME NEW CONSTANT L, "idle" \notin L
      PROVE  Pending(L)' = IF pc'[t] \in L THEN {t} ELSE {}
  BY <1>1, PendingAlone DEF Pending
<1>2. "idle" \notin Carved /\ "idle" \notin Counted /\ "idle" \notin Raised
      /\ "idle" \notin {"fill"}
  BY DEF Carved, Counted, Raised
<1>3. Cardinality(Pending(Counted)') = IF pc'[t] \in Counted THEN 1 ELSE 0
  BY <1>1, <1>2, FS_EmptySet, FS_Singleton
<1>4. (CHOOSE u \in {t} : TRUE) = t
  OBVIOUS
<1>5. SerialArena' = IF pc'[t] \in Carved THEN local'[t].newPages ELSE arenaNext'
  BY <1>1, <1>2, <1>4 DEF SerialArena
<1>6. SerialHighest' = IF pc'[t] \in Raised /\ local'[t].newPages = ArenaBase
                       THEN ArenaBase ELSE highest'
  BY <1>1, <1>2 DEF SerialHighest, PendingFirst
<1>7. SerialBarrier' = IF pc'[t] = "fill" /\ local'[t].newPages = ArenaBase
                       THEN [barrier' EXCEPT !.high = ArenaBase] ELSE barrier'
  BY <1>1, <1>2 DEF SerialBarrier, PendingFirst
<1> QED BY <1>3, <1>5, <1>6, <1>7 DEF View, Registered

-----------------------------------------------------------------------------
(* What the serialised heap makes of each step.                            *)
LEMMA CallRefines ==
  ASSUME OneContext, SharedInv, NEW t \in Threads, NEW n \in Sizes, Call(t, n)
  PROVE  [Heap!Next]_(Heap!vars)
<1>0. TypeOK /\ LocksHeld
  BY DEF SharedInv
<1>1. CASE CallRefused(t, n)
  BY <1>1 DEF CallRefused, vars, Heap!vars, SerialArena, SerialHighest, SerialBarrier,
              Registered, Pending, PendingFirst
<1>2. CASE CallFast(t, n) \/ CallSlow(t, n)
  <2>1. \A u \in Threads : pc[u] = "idle"
    BY <1>0, <1>2, FreeLockMeansNobody DEF CallFast, CallSlow
  <2>2. /\ UNCHANGED shared /\ UNCHANGED barrier
        /\ \A u \in Threads \ {t} : pc'[u] = "idle"
        /\ pc'[t] \in {"idle", "suspend", "check"}
    BY <1>0, <1>2, <2>1 DEF CallFast, CallSlow, shared, Goto, TypeOK
  <2>3. View(t) /\ View(t)'
    BY <2>1, <2>2, ViewBefore, ViewAfter
  <2>4. UNCHANGED <<SerialArena, SerialHighest, SerialBarrier, Registered>>
    BY <2>1, <2>2, <2>3 DEF View, Carved, Counted, Raised, shared
  <2>5. CASE CallFast(t, n)
    <3>1. Heap!AllocFast(CtxOf[t], n)
      BY <2>4, <2>5 DEF CallFast, Heap!AllocFast, Heap!pageVars
    <3>2. Heap!Alloc(CtxOf[t], n) /\ CtxOf[t] \in Contexts
      BY <3>1, ThreadAssumption DEF Heap!Alloc
    <3> QED BY <3>2 DEF Heap!Next
  <2>6. CASE CallSlow(t, n)
    BY <2>4, <2>6 DEF CallSlow, Heap!vars
  <2> QED BY <1>2, <2>5, <2>6
<1> QED BY <1>1, <1>2 DEF Call

(* Only the end of a slow path is a step of the serialised heap.           *)
LEMMA QuietStep ==
  ASSUME OneContext, SharedInv, NEW t \in Threads, Step(t), ~FillContext(t), ~CheckTable(t)
  PROVE  UNCHANGED Heap!vars
<1>a. View(t) /\ View(t)'
  BY StepAlone, ViewBefore, ViewAfter DEF Alone
<1>b. Held(t) /\ Held(t)'
  BY HeldStep DEF SharedInv, Held
<1>c. /\ TypeOK
      /\ local[t] \in Locals /\ local \in [Threads -> Locals] /\ pc \in [Threads -> Labels]
      /\ arenaNext \in Nat /\ highest \in Nat /\ segmentsCount \in Nat
      /\ ArenaBase \in Nat /\ GrowthSize \in Nat /\ GrowthSize > 0
  BY SizeAssumption, PageAssumption DEF SharedInv, TypeOK
<1>1. UNCHANGED <<ctx, objs>>
  BY DEF Step, SuspendEE, RestartEE, EndGC, CheckArena, TakePages, LoadArena, StoreArena,
         LoadCount, StoreCount, StoreSlot, CheckFirst, StoreHighest, LoadBarrierArgs,
         StompWriteBarrier, gcVars, carveVars, registerVars, publishVars
<1>2. SUFFICES UNCHANGED <<SerialArena, SerialHighest, SerialBarrier, Registered>>
  BY <1>1 DEF Heap!vars
<1> USE DEF View, Held, BetweenCarvings, CarvingOf, RegisteringOf, PublishingOf, Published,
            Heap!BarrierArgs, Carved, Counted, Raised, At, Goto, Return, Load, shared
<1>3. CASE SuspendEE(t) \/ RestartEE(t) \/ EndGC(t)
  BY <1>a, <1>b, <1>c, <1>3 DEF SuspendEE, RestartEE, EndGC, gcVars
<1>4. CASE CheckArena(t)
  BY <1>a, <1>b, <1>c, <1>4 DEF CheckArena, carveVars
<1>5. CASE TakePages(t)
  BY <1>a, <1>b, <1>c, <1>5 DEF TakePages, carveVars, Locals
<1>6. CASE LoadArena(t)
  BY <1>a, <1>b, <1>c, <1>6 DEF LoadArena, carveVars, Locals
<1>7. CASE StoreArena(t)
  BY <1>a, <1>b, <1>c, <1>7 DEF StoreArena, carveVars, Locals
<1>8. CASE LoadCount(t)
  BY <1>a, <1>b, <1>c, <1>8 DEF LoadCount, registerVars, Locals
<1>9. CASE StoreCount(t)
  BY <1>a, <1>b, <1>c, <1>9 DEF StoreCount, registerVars, Locals
<1>10. CASE StoreSlot(t)
  BY <1>a, <1>b, <1>c, <1>10 DEF StoreSlot, registerVars, Locals, TypeOK
<1>11. CASE CheckFirst(t)
  BY <1>a, <1>b, <1>c, <1>11 DEF CheckFirst, publishVars
<1>12. CASE StoreHighest(t)
  BY <1>a, <1>b, <1>c, <1>12 DEF StoreHighest, publishVars, Locals
<1>13. CASE LoadBarrierArgs(t)
  BY <1>a, <1>b, <1>c, <1>13 DEF LoadBarrierArgs, publishVars, Locals
<1>14. CASE StompWriteBarrier(t)
  BY <1>a, <1>b, <1>c, <1>14 DEF StompWriteBarrier, publishVars, Locals
<1> QED
  BY <1>3, <1>4, <1>5, <1>6, <1>7, <1>8, <1>9, <1>10, <1>11, <1>12, <1>13, <1>14 DEF Step

(* The pages a slow path has carved were free, for the request it was for. *)
LEMMA SlowEnabled ==
  ASSUME SharedInv, NEW t \in Threads, pc[t] \in Carved, View(t)
  PROVE  /\ CtxOf[t] \in Contexts /\ local[t].size \in Sizes
         /\ Heap!LegalSize(local[t].size) /\ ~Heap!FitsWindow(CtxOf[t], local[t].size)
         /\ Heap!ArenaHasRoom
         /\ SerialArena = local[t].newPages /\ arenaNext = local[t].newPages + GrowthSize
<1>1. CarvingOf(t) /\ pc[t] # "idle"
  BY DEF SharedInv, Carved
<1>2. SerialArena = local[t].newPages
  BY DEF View
<1>3. Heap!ArenaHasRoom
  BY <1>1, <1>2, PageAssumption DEF CarvingOf, Heap!ArenaHasRoom
<1> QED BY <1>1, <1>2, <1>3, ThreadAssumption DEF CarvingOf

LEMMA FillRefines ==
  ASSUME OneContext, SharedInv, NEW t \in Threads, FillContext(t)
  PROVE  Heap!Next
<1>1. Step(t) /\ pc[t] = "fill" /\ pc'[t] = "idle"
  BY DEF FillContext, Step, At, Return, Goto, SharedInv, TypeOK
<1>2. View(t) /\ View(t)'
  BY <1>1, StepAlone, ViewBefore, ViewAfter DEF Alone
<1>3. /\ RegisteringOf(t) /\ PublishingOf(t)
      /\ segmentsCount \in 1..MaxSegments
  BY <1>1 DEF SharedInv, TypeOK, RegisteringOf, Counted
<1> DEFINE c == CtxOf[t]  n == local[t].size  p == local[t].newPages  k == segmentsCount - 1
<1>4. /\ c \in Contexts /\ n \in Sizes
      /\ Heap!LegalSize(n) /\ ~Heap!FitsWindow(c, n) /\ Heap!ArenaHasRoom
      /\ SerialArena = p /\ arenaNext = p + GrowthSize
  BY <1>1, <1>2, SlowEnabled DEF Carved
<1>5. UNCHANGED <<arenaNext, segments, segmentsCount, highest, barrier>>
  BY DEF FillContext, shared
<1>6. SerialArena' = SerialArena + GrowthSize
  BY <1>1, <1>2, <1>4, <1>5 DEF View, Carved
<1>7. Len(Registered) < MaxSegments /\ Registered' = Append(Registered, SerialArena)
  <2>1. k \in Nat /\ segmentsCount = k + 1 /\ k < MaxSegments
    BY <1>3, SizeAssumption
  <2>2. Registered = [i \in 1..k |-> segments[i - 1]]
        /\ Registered' = [i \in 1..(k + 1) |-> segments[i - 1]]
    BY <1>1, <1>2, <1>5, <2>1 DEF View, Counted
  <2>3. segments[k] = p /\ segments \in [0..(MaxSegments - 1) -> Nat]
    BY <1>1, <1>3, <2>1 DEF RegisteringOf, Counted, SharedInv, TypeOK
  <2> HIDE DEF k, p
  <2>4. \A i \in 1..(k + 1) : segments[i - 1] \in Nat
    BY <2>1, <2>3, SizeAssumption
  <2>5. Registered \in Seq(Nat) /\ Len(Registered) = k
    BY <2>1, <2>2, <2>4
  <2>6. Registered' = Append(Registered, p)
    BY <2>1, <2>2, <2>3, <2>4, <2>5
  <2> QED BY <1>4, <2>1, <2>5, <2>6 DEF p
<1>8. Heap!PublishFirstSegment(SerialArena)
  <2>1. CASE p = ArenaBase
    <3>1. SerialHighest = ArenaBase /\ SerialHighest' = SerialArena + GrowthSize
      BY <1>1, <1>2, <1>3, <1>4, <1>5, <2>1 DEF View, Raised, PublishingOf
    <3>2. SerialBarrier' = Published(SerialHighest')
      BY <1>1, <1>2, <1>3, <1>5, <2>1 DEF View, Raised, PublishingOf, Published,
          Heap!BarrierArgs
    <3> QED BY <3>1, <3>2 DEF Heap!PublishFirstSegment, Heap!StompWriteBarrier, Published
  <2>2. CASE p # ArenaBase
    <3>1. SerialHighest # ArenaBase /\ UNCHANGED <<SerialHighest, SerialBarrier>>
      BY <1>1, <1>2, <1>3, <1>5, <2>2, SizeAssumption, PageAssumption
         DEF View, Raised, PublishingOf
    <3> QED BY <3>1 DEF Heap!PublishFirstSegment
  <2> QED BY <2>1, <2>2
<1>9. Heap!InstallSegment(c, n, SerialArena)
  BY <1>4, <1>7, <1>8 DEF Heap!InstallSegment, FillContext
<1>10. Heap!AllocSlow(c, n)
  BY <1>4, <1>6, <1>7, <1>9 DEF Heap!AllocSlow, Heap!pageVars
<1> QED BY <1>4, <1>10 DEF Heap!Next, Heap!Alloc

LEMMA TableRefines ==
  ASSUME OneContext, SharedInv, NEW t \in Threads, CheckTable(t)
  PROVE  [Heap!Next]_(Heap!vars)
<1>1. Step(t) /\ pc[t] = "table" /\ segmentsCount \in Nat
  BY SizeAssumption DEF CheckTable, Step, At, SharedInv, TypeOK
<1>2. View(t) /\ View(t)'
  BY <1>1, StepAlone, ViewBefore, ViewAfter DEF Alone
<1>3. UNCHANGED <<arenaNext, segments, segmentsCount, highest, barrier, ctx, objs>>
  BY DEF CheckTable, registerVars
<1>4. CASE segmentsCount < MaxSegments
  <2>1. pc'[t] = "index" /\ UNCHANGED local
    BY <1>1, <1>4 DEF CheckTable, Goto, SharedInv, TypeOK
  <2>2. UNCHANGED <<SerialArena, SerialHighest, SerialBarrier, Registered>>
    BY <1>1, <1>2, <1>3, <2>1 DEF View, Carved, Counted, Raised
  <2> QED BY <1>3, <2>2 DEF Heap!vars
<1>5. CASE ~(segmentsCount < MaxSegments)
  <2>1. pc'[t] = "idle"
    BY <1>1, <1>5 DEF CheckTable, Return, Goto, SharedInv, TypeOK
  <2>2. UNCHANGED <<SerialHighest, SerialBarrier, Registered>>
    BY <1>1, <1>2, <1>3, <2>1 DEF View, Carved, Counted, Raised
  <2>3. /\ CtxOf[t] \in Contexts /\ local[t].size \in Sizes
        /\ Heap!LegalSize(local[t].size) /\ ~Heap!FitsWindow(CtxOf[t], local[t].size)
        /\ Heap!ArenaHasRoom /\ SerialArena + GrowthSize = arenaNext
    BY <1>1, <1>2, SlowEnabled DEF Carved
  <2>4. SerialArena' = SerialArena + GrowthSize
    BY <1>2, <1>3, <2>1, <2>3 DEF View, Carved
  <2>5. ~(Len(Registered) < MaxSegments)
    BY <1>1, <1>2, <1>5 DEF View, Counted
  <2>6. Heap!AllocSlow(CtxOf[t], local[t].size)
    BY <1>3, <2>2, <2>3, <2>4, <2>5 DEF Heap!AllocSlow, Heap!pageVars, Heap!allocVars
  <2> QED BY <2>3, <2>6 DEF Heap!Next, Heap!Alloc
<1> QED BY <1>4, <1>5

(* With one context and the lock that gcinterface.h:919-922 asks for, the  *)
(* loads and stores of any number of threads take effect like calls of the *)
(* serialised heap (MiniGCHeap.cpp:521-584), for which MiniGCHeapProofs    *)
(* shows what a heap must do.                                              *)
THEOREM LockedThreadsImplementHeap ==
  ASSUME OneContext  PROVE  Spec => ImplementsHeap
<1>1. SharedInv /\ [Next]_vars => [Heap!Next]_(Heap!vars)
  <2> SUFFICES ASSUME SharedInv, [Next]_vars
               PROVE  [Heap!Next]_(Heap!vars)
    OBVIOUS
  <2>1. CASE UNCHANGED vars
    BY <2>1 DEF vars, Heap!vars, SerialArena, SerialHighest, SerialBarrier, Registered,
                Pending, PendingFirst
  <2>2. ASSUME NEW t \in Threads, NEW n \in Sizes, Call(t, n)
        PROVE  [Heap!Next]_(Heap!vars)
    BY <2>2, CallRefines
  <2>3. ASSUME NEW t \in Threads, Step(t)
        PROVE  [Heap!Next]_(Heap!vars)
    BY <2>3, QuietStep, FillRefines, TableRefines
  <2> QED BY <2>1, <2>2, <2>3 DEF Next
<1> QED BY <1>1, SharedInvariant, PTL DEF Spec, ImplementsHeap

-----------------------------------------------------------------------------
(* The theorems of MiniGCHeapProofs about the serialised heap.             *)
Serial == INSTANCE MiniGCHeapProofs WITH
  ArenaBases  <- {ArenaBase},
  TableBases  <- {CardTable, BundleTable},
  heapArena   <- ArenaBase,
  cardTable   <- CardTable,
  bundleTable <- BundleTable,
  lowest      <- ArenaBase,
  mapped      <- {ArenaBase, CardTable, BundleTable},
  arenaNext   <- SerialArena,
  segments    <- Registered,
  highest     <- SerialHighest,
  barrier     <- SerialBarrier

(* A heap that Initialize has just set up satisfies its invariant.         *)
LEMMA SerialStart == Init => Serial!HeapInv
<1> SUFFICES ASSUME Init PROVE Serial!HeapInv
  OBVIOUS
<1> USE DEF Serial!Null
<1>1. /\ SerialArena = ArenaBase /\ SerialHighest = ArenaBase
      /\ SerialBarrier = Heap!BarrierArgs(ArenaBase, ArenaBase, CardTable, BundleTable)
      /\ Registered = <<>>
  <2>1. \A L : "idle" \notin L => Pending(L) = {}
    BY DEF Init, Pending
  <2>2. Pending(Carved) = {} /\ Pending(Counted) = {} /\ Pending(Raised) = {}
        /\ Pending({"fill"}) = {}
    BY <2>1 DEF Carved, Counted, Raised
  <2>3. Cardinality(Pending(Counted)) = 0
    BY <2>2, FS_EmptySet
  <2>4. Registered = <<>>
    BY <2>3 DEF Init, Registered
  <2> QED BY <2>2, <2>4 DEF Init, SerialArena, SerialHighest, SerialBarrier, PendingFirst
<1>2. ctx = [c \in Contexts |-> [ptr |-> 0, limit |-> 0, bytes |-> 0]] /\ objs = {}
  BY DEF Init, Heap!NoContext
<1>3. Serial!TypeOK
  BY <1>1, <1>2, SizeAssumption, PageAssumption DEF Serial!TypeOK, Heap!BarrierArgs
<1>4. Serial!IdleBeforeInitialize
  BY PageAssumption DEF Serial!IdleBeforeInitialize
<1>5. Serial!BelowFrontier /\ Serial!WindowsInSegments /\ Serial!WindowsPrivate
  BY <1>1, <1>2, PageAssumption
     DEF Serial!BelowFrontier, Serial!WindowsInSegments, Serial!WindowsPrivate
<1>6. Serial!SegmentsTileArena
  BY <1>1, SizeAssumption, PageAssumption DEF Serial!SegmentsTileArena
<1>7. Serial!ObjectsDisjoint /\ Serial!ObjectsInSegments
  BY <1>2 DEF Serial!ObjectsDisjoint, Serial!ObjectsInSegments
<1> QED BY <1>3, <1>4, <1>5, <1>6, <1>7 DEF Serial!HeapInv

(* Hence, with the lock, no two objects that threads were handed overlap,  *)
(* which is what Threads_overlap shows to fail without it                  *)
(* (MiniGCHeap.cpp:550-556).                                               *)
THEOREM LockedObjectsNeverOverlap ==
  ASSUME OneContext  PROVE  Spec => []ObjectsDisjoint
<1>1. [Heap!Next]_(Heap!vars) /\ Serial!HeapInv => Serial!HeapInv'
  <2>1. [Heap!Next]_(Heap!vars) => [Serial!Next]_(Serial!vars)
    BY DEF Heap!Next, Serial!Next, Heap!Initialize, Serial!Initialize,
        Heap!InitializeAgain, Serial!InitializeAgain, Heap!InitializeFails,
        Serial!InitializeFails, Heap!InitializeSucceeds, Serial!InitializeSucceeds,
        Heap!AllocatePages, Serial!AllocatePages, Heap!Obtained, Serial!Obtained,
        Heap!Released, Serial!Released, Heap!StompWriteBarrier,
        Serial!StompWriteBarrier, Heap!BarrierArgs, Serial!BarrierArgs, Heap!Alloc,
        Serial!Alloc, Heap!AllocReturnsNull, Serial!AllocReturnsNull, Heap!Refuses,
        Serial!Refuses, Heap!AllocFast, Serial!AllocFast, Heap!AllocSlow,
        Serial!AllocSlow, Heap!LegalSize, Serial!LegalSize, Heap!FitsWindow,
        Serial!FitsWindow, Heap!ArenaHasRoom, Serial!ArenaHasRoom, Heap!InstallSegment,
        Serial!InstallSegment, Heap!PublishFirstSegment, Serial!PublishFirstSegment,
        Heap!NewWindow, Serial!NewWindow, Heap!vars, Serial!vars, Heap!allocVars,
        Serial!allocVars, Heap!pageVars, Serial!pageVars, Heap!Null, Serial!Null
  <2>2. Serial!HeapInv /\ [Serial!Next]_(Serial!vars) => Serial!HeapInv'
    BY Serial!HeapInvStep, SizeAssumption, PageAssumption DEF Serial!Null
  <2> QED BY <2>1, <2>2
<1>2. Serial!HeapInv => ObjectsDisjoint
  BY DEF Serial!HeapInv, Serial!ObjectsDisjoint, ObjectsDisjoint, Heap!ObjectsDisjoint,
         Serial!Promise!Apart, Heap!Promise!Apart
<1> QED BY <1>1, <1>2, SerialStart, LockedThreadsImplementHeap, PTL
      DEF ImplementsHeap, Spec

-----------------------------------------------------------------------------
(* Threads on contexts of any kind.  What each variable holds whatever the *)
(* races, the tables of segments aside.                                    *)
RaceTypes ==
  /\ arenaNext \in Nat /\ highest \in Nat /\ segmentsCount \in Nat
  /\ ctx \in [Contexts -> Windows]
  /\ objs \subseteq [start : Nat, size : Nat \ {0}]
  /\ suspender \in Threads \cup {NoThread}
  /\ holder \in [Contexts -> Threads \cup {NoThread}]
  /\ pc \in [Threads -> Labels]
  /\ local \in [Threads -> Locals]
  /\ \A t \in Threads : pc[t] # "idle" => Heap!LegalSize(local[t].size)

(* A thread's context is locked for it, and its locals are its own: every  *)
(* step moves one thread and leaves the locals of the others alone.        *)
LEMMA RaceTypesStep ==
  ASSUME RaceTypes, [Next]_vars
  PROVE  RaceTypes'
<1> USE DEF RaceTypes, Goto, Return, At, Load, shared, gcVars, carveVars, registerVars,
            publishVars
<1>1. CASE UNCHANGED vars
  BY <1>1 DEF vars, Heap!LegalSize
<1>2. ASSUME NEW t \in Threads, NEW n \in Sizes, Call(t, n)
      PROVE  RaceTypes'
  <2> n \in Nat /\ CtxOf[t] \in Contexts /\ ctx[CtxOf[t]] \in Windows
    BY ThreadAssumption, SizeAssumption
  <2>1. CASE CallRefused(t, n)
    BY <2>1 DEF CallRefused, vars, Heap!LegalSize
  <2>2. CASE CallFast(t, n)
    <3>1. [ctx[CtxOf[t]] EXCEPT !.ptr = ctx[CtxOf[t]].ptr + n] \in Windows
      BY DEF Windows
    <3>2. ctx' = [ctx EXCEPT ![CtxOf[t]] =
                    [ctx[CtxOf[t]] EXCEPT !.ptr = ctx[CtxOf[t]].ptr + n]]
      BY <2>2 DEF CallFast
    <3>3. ctx' \in [Contexts -> Windows]
      BY <3>1, <3>2
    <3>4. ctx[CtxOf[t]].ptr \in Nat /\ n # 0
      BY <2>2 DEF Windows, CallFast, Heap!LegalSize
    <3>5. objs' \subseteq [start : Nat, size : Nat \ {0}]
      BY <2>2, <3>4 DEF CallFast
    <3> QED BY <2>2, <3>3, <3>5 DEF CallFast, Heap!LegalSize
  <2>3. CASE CallSlow(t, n)
    <3>1. local' \in [Threads -> Locals]
      BY <2>3, LocalsSet DEF CallSlow
    <3>2. holder' \in [Contexts -> Threads \cup {NoThread}]
      BY <2>3 DEF CallSlow
    <3>3. pc' \in [Threads -> Labels]
      BY <2>3 DEF CallSlow, RaiseFlag, Labels
    <3>4. \A u \in Threads : pc'[u] # "idle" => Heap!LegalSize(local'[u].size)
      <4>1. local'[t].size = n /\ Heap!LegalSize(n)
        BY <2>3 DEF CallSlow, Locals
      <4>2. \A u \in Threads \ {t} : local'[u] = local[u] /\ pc'[u] = pc[u]
        BY <2>3 DEF CallSlow, RaiseFlag
      <4> QED BY <4>1, <4>2
    <3> QED BY <2>3, <3>1, <3>2, <3>3, <3>4 DEF CallSlow, Heap!LegalSize
  <2> QED BY <1>2, <2>1, <2>2, <2>3 DEF Call
<1>3. ASSUME NEW t \in Threads, Step(t)
      PROVE  RaceTypes'
  <2>0. /\ CtxOf[t] \in Contexts
        /\ GrowthSize \in Nat /\ BeginGap \in Nat
        /\ local[t].size \in Nat /\ local[t].newPages \in Nat
        /\ local[t].load \in Nat /\ local[t].high \in Nat
    BY ThreadAssumption, SizeAssumption DEF Locals
  <2>S. ASSUME \A u \in Threads : pc'[u] # "idle" =>
                  pc[u] # "idle" /\ local'[u].size = local[u].size
        PROVE  \A u \in Threads : pc'[u] # "idle" => Heap!LegalSize(local'[u].size)
    BY <2>S
  <2>1. CASE SuspendEE(t) \/ RestartEE(t) \/ EndGC(t)
    BY <2>1 DEF SuspendEE, RestartEE, EndGC, Labels, Heap!LegalSize
  <2>2. CASE CheckArena(t) \/ CheckTable(t)
    <3>1. local' \in [Threads -> Locals]
      BY <2>2, LocalsAtRest DEF CheckArena, CheckTable
    <3>2. holder' \in [Contexts -> Threads \cup {NoThread}]
      BY <2>0, <2>2 DEF CheckArena, CheckTable
    <3>3. pc' \in [Threads -> Labels]
      BY <2>2 DEF CheckArena, CheckTable, Labels, Carved
    <3>4. \A u \in Threads : pc'[u] # "idle" =>
             pc[u] # "idle" /\ local'[u].size = local[u].size
      BY <2>2 DEF CheckArena, CheckTable
    <3> QED BY <2>2, <2>S, <3>1, <3>2, <3>3, <3>4 DEF CheckArena, CheckTable
  <2>3. CASE TakePages(t) \/ LoadArena(t) \/ LoadCount(t) \/ LoadBarrierArgs(t)
    <3>1. local' \in [Threads -> Locals]
      <4>1. CASE TakePages(t)
        BY <2>0, <4>1, LocalsSet DEF TakePages
      <4>2. CASE LoadArena(t)
        BY <2>0, <4>2, LocalsSet DEF LoadArena
      <4>3. CASE LoadCount(t)
        BY <2>0, <4>3, LocalsSet DEF LoadCount
      <4>4. CASE LoadBarrierArgs(t)
        BY <2>0, <4>4, LocalsSet DEF LoadBarrierArgs
      <4> QED BY <2>3, <4>1, <4>2, <4>3, <4>4
    <3>2. pc' \in [Threads -> Labels]
      BY <2>3 DEF TakePages, LoadArena, LoadCount, LoadBarrierArgs, Labels, Carved
    <3>3. \A u \in Threads : pc'[u] # "idle" =>
             pc[u] # "idle" /\ local'[u].size = local[u].size
      BY <2>3 DEF TakePages, LoadArena, LoadCount, LoadBarrierArgs, Locals
    <3> QED BY <2>3, <2>S, <3>1, <3>2, <3>3
            DEF TakePages, LoadArena, LoadCount, LoadBarrierArgs
  <2>4. CASE StoreArena(t) \/ CheckFirst(t) \/ StoreHighest(t)
    <3>1. arenaNext' \in Nat /\ highest' \in Nat
      BY <2>0, <2>4 DEF StoreArena, CheckFirst, StoreHighest
    <3>2. pc' \in [Threads -> Labels]
      BY <2>4 DEF StoreArena, CheckFirst, StoreHighest, Labels, Carved
    <3>3. \A u \in Threads : pc'[u] # "idle" =>
             pc[u] # "idle" /\ local'[u].size = local[u].size
      BY <2>4 DEF StoreArena, CheckFirst, StoreHighest
    <3> QED BY <2>4, <2>S, <3>1, <3>2, <3>3 DEF StoreArena, CheckFirst, StoreHighest
  <2>5. CASE StoreCount(t) \/ StoreSlot(t) \/ StompWriteBarrier(t)
    <3>1. segmentsCount' \in Nat
      BY <2>0, <2>5 DEF StoreCount, StoreSlot, StompWriteBarrier
    <3>2. pc' \in [Threads -> Labels]
      BY <2>5 DEF StoreCount, StoreSlot, StompWriteBarrier, Labels, Carved
    <3>3. \A u \in Threads : pc'[u] # "idle" =>
             pc[u] # "idle" /\ local'[u].size = local[u].size
      BY <2>5 DEF StoreCount, StoreSlot, StompWriteBarrier
    <3> QED BY <2>5, <2>S, <3>1, <3>2, <3>3 DEF StoreCount, StoreSlot, StompWriteBarrier
  <2>6. CASE FillContext(t)
    <3>1. ctx' \in [Contexts -> Windows]
      <4>1. Heap!NewWindow(CtxOf[t], local[t].size, local[t].newPages) \in Windows
        <5>1. ctx[CtxOf[t]].bytes \in Nat
          BY <2>0 DEF Windows
        <5> QED BY <2>0, <5>1 DEF Heap!NewWindow, Windows
      <4> QED BY <2>6, <4>1 DEF FillContext
    <3>2. objs' \subseteq [start : Nat, size : Nat \ {0}]
      <4>1. local[t].size # 0
        BY <2>6 DEF FillContext, Heap!LegalSize
      <4> QED BY <2>0, <2>6, <4>1 DEF FillContext
    <3>3. /\ local' \in [Threads -> Locals]
          /\ holder' \in [Contexts -> Threads \cup {NoThread}]
          /\ pc' \in [Threads -> Labels]
      BY <2>0, <2>6, LocalsAtRest DEF FillContext, Labels
    <3>4. \A u \in Threads : pc'[u] # "idle" =>
             pc[u] # "idle" /\ local'[u].size = local[u].size
      BY <2>6 DEF FillContext
    <3> QED BY <2>6, <2>S, <3>1, <3>2, <3>3, <3>4 DEF FillContext
  <2> QED BY <1>3, <2>1, <2>2, <2>3, <2>4, <2>5, <2>6 DEF Step
<1> QED BY <1>1, <1>2, <1>3 DEF Next

(* No two threads are inside Alloc with the same context.                  *)
ContextsExclusive == \A t, u \in Threads :
  pc[t] # "idle" /\ pc[u] # "idle" /\ CtxOf[t] = CtxOf[u] => t = u

LEMMA LocksExclude ==
  ASSUME LocksHeld  PROVE  ContextsExclusive
BY DEF LocksHeld, ContextsExclusive

LEMMA LocksHeldStep ==
  ASSUME RaceTypes, LocksHeld, [Next]_vars
  PROVE  LocksHeld'
<1> USE DEF LocksHeld, Goto, Return, At, Load, shared, gcVars, carveVars, registerVars,
            publishVars, RaceTypes
<1>1. CASE UNCHANGED vars
  BY <1>1 DEF vars
<1>2. ASSUME NEW t \in Threads, NEW n \in Sizes, Call(t, n)
      PROVE  LocksHeld'
  <2>1. CASE CallRefused(t, n)
    BY <2>1 DEF CallRefused, vars
  <2>2. CASE CallFast(t, n)
    BY <2>2 DEF CallFast
  <2>3. CASE CallSlow(t, n)
    BY <2>3, ThreadAssumption DEF CallSlow, RaiseFlag
  <2> QED BY <1>2, <2>1, <2>2, <2>3 DEF Call
<1>3. ASSUME NEW t \in Threads, Step(t)
      PROVE  LocksHeld'
  <2> USE ThreadAssumption
  <2>1. CASE SuspendEE(t) \/ RestartEE(t) \/ EndGC(t)
    BY <2>1 DEF SuspendEE, RestartEE, EndGC
  <2>2. CASE CheckArena(t) \/ TakePages(t) \/ LoadArena(t) \/ StoreArena(t)
    BY <2>2 DEF CheckArena, TakePages, LoadArena, StoreArena
  <2>3. CASE CheckTable(t) \/ LoadCount(t) \/ StoreCount(t) \/ StoreSlot(t)
    BY <2>3 DEF CheckTable, LoadCount, StoreCount, StoreSlot
  <2>4. CASE CheckFirst(t) \/ StoreHighest(t) \/ LoadBarrierArgs(t)
    BY <2>4 DEF CheckFirst, StoreHighest, LoadBarrierArgs
  <2>5. CASE StompWriteBarrier(t) \/ FillContext(t)
    BY <2>5 DEF StompWriteBarrier, FillContext
  <2> QED BY <1>3, <2>1, <2>2, <2>3, <2>4, <2>5 DEF Step
<1> QED BY <1>1, <1>2, <1>3 DEF Next

-----------------------------------------------------------------------------
(* As long as no two threads carve at once, what has been handed out lies  *)
(* below g_arena_next, each piece of it with one owner: an object, a       *)
(* context's window, or a thread that carved it and has not filled its     *)
(* context yet.                                                            *)
Frontier ==
  /\ ArenaBase <= arenaNext /\ arenaNext <= ArenaBase + ArenaSize
  /\ \A o \in objs : ArenaBase <= o.start /\ o.start + o.size <= arenaNext
  /\ \A c \in Contexts :
       ctx[c].limit <= arenaNext /\ (ctx[c].ptr # Null => ArenaBase <= ctx[c].ptr)

SegmentPrivate(t) ==
  LET first == local[t].newPages  last == local[t].newPages + GrowthSize IN
  /\ ArenaBase <= first /\ last <= arenaNext
  /\ \A o \in objs : o.start + o.size <= first \/ last <= o.start
  /\ \A c \in Contexts : ctx[c].limit <= first \/ last <= ctx[c].ptr
  /\ \A u \in Threads \ {t} : pc[u] \in Carved =>
       local[u].newPages + GrowthSize <= first \/ last <= local[u].newPages

(* What a thread that carves alone has read of g_arena_next is current.    *)
CheckedOf(t) ==
  /\ pc[t] \in Carving => arenaNext + GrowthSize <= ArenaBase + ArenaSize
  /\ pc[t] \in {"load", "store"} => local[t].newPages = arenaNext
  /\ pc[t] = "store" => local[t].load = arenaNext

CarvingInv ==
  /\ RaceTypes
  /\ LocksHeld
  /\ Frontier
  /\ Heap!ObjectsDisjoint
  /\ Heap!WindowsPrivate
  /\ \A t \in Threads : CheckedOf(t) /\ (pc[t] \in Carved => SegmentPrivate(t))

(* A step that hands nothing out.                                          *)
LEMMA NothingHandedOut ==
  ASSUME CarvingInv, RaceTypes', LocksHeld', UNCHANGED <<arenaNext, ctx, objs>>,
         \A u \in Threads :
           /\ CheckedOf(u)'
           /\ pc'[u] \in Carved =>
                pc[u] \in Carved /\ local'[u].newPages = local[u].newPages
  PROVE  CarvingInv'
<1>1. Frontier'
  BY DEF CarvingInv, Frontier
<1>2. Heap!ObjectsDisjoint' /\ Heap!WindowsPrivate'
  BY DEF CarvingInv, Heap!ObjectsDisjoint, Heap!WindowsPrivate, Heap!Promise!Apart
<1>3. ASSUME NEW u \in Threads, pc'[u] \in Carved PROVE SegmentPrivate(u)'
  BY <1>3 DEF CarvingInv, SegmentPrivate
<1> QED BY <1>1, <1>2, <1>3 DEF CarvingInv

(* The thread that took the step is the only one whose locals moved.       *)
LEMMA OthersStay ==
  ASSUME CarvingInv, NEW t \in Threads, UNCHANGED arenaNext,
         \A u \in Threads \ {t} : pc'[u] = pc[u] /\ local'[u] = local[u],
         CheckedOf(t)',
         pc'[t] \in Carved => pc[t] \in Carved /\ local'[t].newPages = local[t].newPages
  PROVE  \A u \in Threads :
           /\ CheckedOf(u)'
           /\ pc'[u] \in Carved =>
                pc[u] \in Carved /\ local'[u].newPages = local[u].newPages
<1> TAKE u \in Threads
<1>1. CASE u = t
  BY <1>1
<1>2. CASE u # t
  BY <1>2 DEF CarvingInv, CheckedOf
<1> QED BY <1>1, <1>2

(* The fast path takes an object from the front of its context's window.   *)
LEMMA FastKeepsApart ==
  ASSUME CarvingInv, RaceTypes', LocksHeld', NEW t \in Threads, NEW n \in Sizes,
         CallFast(t, n)
  PROVE  CarvingInv'
<1> DEFINE c == CtxOf[t]
           o == [start |-> ctx[c].ptr, size |-> n]
<1>0. /\ c \in Contexts /\ n \in Nat /\ n # 0
      /\ ctx[c].ptr \in Nat /\ ctx[c].limit \in Nat /\ ctx[c].ptr # 0
      /\ ctx[c].ptr + n <= ctx[c].limit
  BY ThreadAssumption, SizeAssumption
     DEF CarvingInv, RaceTypes, CallFast, Windows, Heap!LegalSize, Heap!FitsWindow
<1>1. /\ objs' = objs \cup {o}
      /\ ctx'[c].ptr = ctx[c].ptr + n /\ ctx'[c].limit = ctx[c].limit
      /\ \A d \in Contexts \ {c} : ctx'[d] = ctx[d]
      /\ UNCHANGED <<arenaNext, pc, local>>
  BY <1>0 DEF CallFast, shared, CarvingInv, RaceTypes, Windows
<1>2. o.start = ctx[c].ptr /\ o.size = n
  OBVIOUS
<1> HIDE DEF c, o
<1>3. /\ \A p \in objs : p.start \in Nat /\ p.size \in Nat
      /\ \A d \in Contexts : ctx[d].ptr \in Nat /\ ctx[d].limit \in Nat
      /\ \A u \in Threads : local[u].newPages \in Nat
      /\ arenaNext \in Nat /\ GrowthSize \in Nat /\ ArenaBase \in Nat
  BY SizeAssumption, PageAssumption DEF CarvingInv, RaceTypes, Windows, Locals
<1>4. \A p \in objs : p.start + p.size <= ctx[c].ptr \/ ctx[c].limit <= p.start
  BY <1>0 DEF CarvingInv, Heap!WindowsPrivate
<1>5. Frontier'
  <2>1. ctx[c].limit <= arenaNext /\ ArenaBase <= ctx[c].ptr
    BY <1>0 DEF CarvingInv, Frontier
  <2>2. \A p \in objs' : ArenaBase <= p.start /\ p.start + p.size <= arenaNext
    BY <1>0, <1>1, <1>2, <1>3, <2>1 DEF CarvingInv, Frontier
  <2>3. ASSUME NEW d \in Contexts
        PROVE  ctx'[d].limit <= arenaNext /\ (ctx'[d].ptr # 0 => ArenaBase <= ctx'[d].ptr)
    <3>1. CASE d = c
      BY <1>0, <1>1, <1>3, <2>1, <3>1
    <3>2. CASE d # c
      BY <1>1, <3>2 DEF CarvingInv, Frontier
    <3> QED BY <3>1, <3>2
  <2> QED BY <1>1, <2>2, <2>3 DEF CarvingInv, Frontier
<1>6. Heap!ObjectsDisjoint'
  <2>1. \A p \in objs : Heap!Promise!Apart(o, p) /\ Heap!Promise!Apart(p, o)
    BY <1>0, <1>2, <1>3, <1>4 DEF Heap!Promise!Apart
  <2> QED BY <1>1, <2>1 DEF CarvingInv, Heap!ObjectsDisjoint, Heap!Promise!Apart
<1>7. Heap!WindowsPrivate'
  <2> SUFFICES ASSUME NEW d \in Contexts
               PROVE  /\ ctx'[d].ptr <= ctx'[d].limit
                      /\ \A p \in objs' : \/ p.start + p.size <= ctx'[d].ptr
                                          \/ ctx'[d].limit <= p.start
                      /\ \A e \in Contexts \ {d} : \/ ctx'[d].limit <= ctx'[e].ptr
                                                   \/ ctx'[e].limit <= ctx'[d].ptr
    BY DEF Heap!WindowsPrivate
  <2>1. /\ ctx[d].ptr <= ctx[d].limit
        /\ \A p \in objs : p.start + p.size <= ctx[d].ptr \/ ctx[d].limit <= p.start
        /\ \A e \in Contexts \ {d} : \/ ctx[d].limit <= ctx[e].ptr
                                     \/ ctx[e].limit <= ctx[d].ptr
    BY DEF CarvingInv, Heap!WindowsPrivate
  <2>2. CASE d = c
    BY <1>0, <1>1, <1>2, <1>3, <2>1, <2>2
  <2>3. CASE d # c
    BY <1>0, <1>1, <1>2, <1>3, <2>1, <2>3
  <2> QED BY <2>2, <2>3
<1>8. ASSUME NEW u \in Threads
      PROVE  CheckedOf(u)' /\ (pc'[u] \in Carved => SegmentPrivate(u)')
  <2>1. CheckedOf(u)'
    BY <1>1 DEF CarvingInv, CheckedOf
  <2>2. ASSUME pc'[u] \in Carved PROVE SegmentPrivate(u)'
    <3>1. SegmentPrivate(u)
      BY <1>1, <2>2 DEF CarvingInv
    <3>2. ctx[c].limit <= local[u].newPages \/ local[u].newPages + GrowthSize <= ctx[c].ptr
      BY <1>0, <3>1 DEF SegmentPrivate
    <3>3. \A p \in objs' : \/ p.start + p.size <= local[u].newPages
                           \/ local[u].newPages + GrowthSize <= p.start
      BY <1>0, <1>1, <1>2, <1>3, <3>1, <3>2 DEF SegmentPrivate
    <3>4. \A d \in Contexts : \/ ctx'[d].limit <= local[u].newPages
                              \/ local[u].newPages + GrowthSize <= ctx'[d].ptr
      BY <1>0, <1>1, <1>3, <3>1, <3>2 DEF SegmentPrivate
    <3> QED BY <1>1, <3>1, <3>3, <3>4 DEF SegmentPrivate
  <2> QED BY <2>1, <2>2
<1> QED BY <1>5, <1>6, <1>7, <1>8 DEF CarvingInv

(* The store that carves: everything so far lies below the new segment.    *)
LEMMA CarveKeepsApart ==
  ASSUME CarvingInv, CarvedAlone, RaceTypes', LocksHeld', NEW t \in Threads,
         StoreArena(t)
  PROVE  CarvingInv'
<1>1. /\ pc[t] = "store" /\ pc' = [pc EXCEPT ![t] = "table"]
      /\ arenaNext' = local[t].load + GrowthSize
      /\ UNCHANGED <<ctx, objs, local>>
  BY DEF StoreArena, carveVars, At, Goto
<1>2. /\ local[t].newPages = arenaNext /\ local[t].load = arenaNext
      /\ arenaNext + GrowthSize <= ArenaBase + ArenaSize
  BY <1>1 DEF CarvingInv, CheckedOf, Carving
<1>3. /\ \A p \in objs : p.start \in Nat /\ p.size \in Nat
      /\ \A d \in Contexts : ctx[d].ptr \in Nat /\ ctx[d].limit \in Nat
      /\ \A u \in Threads : local[u].newPages \in Nat
      /\ arenaNext \in Nat /\ GrowthSize \in Nat /\ ArenaBase \in Nat /\ ArenaSize \in Nat
  BY SizeAssumption, PageAssumption DEF CarvingInv, RaceTypes, Windows, Locals
<1>4. pc'[t] = "table" /\ \A u \in Threads \ {t} : pc'[u] = pc[u]
  BY <1>1 DEF CarvingInv, RaceTypes
<1>5. Frontier'
  BY <1>1, <1>2, <1>3 DEF CarvingInv, Frontier
<1>6. Heap!ObjectsDisjoint' /\ Heap!WindowsPrivate'
  BY <1>1 DEF CarvingInv, Heap!ObjectsDisjoint, Heap!WindowsPrivate, Heap!Promise!Apart
<1>7. ASSUME NEW u \in Threads PROVE CheckedOf(u)'
  <2>1. CASE u = t
    BY <1>4, <2>1 DEF CheckedOf, Carving
  <2>2. CASE u # t
    <3>1. pc[u] \notin Carving
      BY <1>1, <2>2 DEF CarvedAlone, Carving, Pending
    <3> QED BY <1>4, <2>2, <3>1 DEF CheckedOf, Carving
  <2> QED BY <2>1, <2>2
<1>8. ASSUME NEW u \in Threads, u # t, pc[u] \in Carved
      PROVE  local[u].newPages + GrowthSize <= arenaNext
  BY <1>8 DEF CarvingInv, SegmentPrivate
<1>9. SegmentPrivate(t)'
  BY <1>1, <1>2, <1>3, <1>4, <1>8 DEF CarvingInv, Frontier, SegmentPrivate
<1>10. ASSUME NEW u \in Threads, u # t, pc'[u] \in Carved
       PROVE  SegmentPrivate(u)'
  <2>1. pc[u] \in Carved /\ SegmentPrivate(u)
    BY <1>4, <1>10 DEF CarvingInv
  <2>2. local[u].newPages + GrowthSize <= local[t].newPages
    BY <1>2, <1>8, <1>10, <2>1
  <2>3. local[u].newPages + GrowthSize <= arenaNext'
    BY <1>1, <1>2, <1>3, <1>8, <1>10, <2>1
  <2>4. ASSUME NEW v \in Threads \ {u}, pc'[v] \in Carved
        PROVE  \/ local[v].newPages + GrowthSize <= local[u].newPages
               \/ local[u].newPages + GrowthSize <= local[v].newPages
    <3>1. CASE v = t
      BY <2>2, <3>1
    <3>2. CASE v # t
      BY <1>4, <2>1, <2>4, <3>2 DEF SegmentPrivate
    <3> QED BY <3>1, <3>2
  <2> QED BY <1>1, <2>1, <2>3, <2>4 DEF SegmentPrivate
<1> QED BY <1>5, <1>6, <1>7, <1>9, <1>10 DEF CarvingInv

(* The object and the window that a filled context gets are the segment's. *)
LEMMA FillKeepsApart ==
  ASSUME CarvingInv, RaceTypes', LocksHeld', NEW t \in Threads, FillContext(t)
  PROVE  CarvingInv'
<1> DEFINE c == CtxOf[t]
           first == local[t].newPages
           n == local[t].size
           o == [start |-> first + BeginGap, size |-> n]
<1>0. /\ c \in Contexts /\ n \in Nat /\ n # 0 /\ first \in Nat
      /\ GrowthSize \in Nat /\ BeginGap \in Nat /\ BeginGap + n <= GrowthSize
      /\ ArenaBase \in Nat /\ arenaNext \in Nat
      /\ ArenaBase # 0
  <2>1. Heap!LegalSize(local[t].size)
    BY DEF CarvingInv, RaceTypes, FillContext, At
  <2> QED BY <2>1, ThreadAssumption, SizeAssumption, PageAssumption
          DEF CarvingInv, RaceTypes, Locals, Heap!LegalSize
<1>1. /\ objs' = objs \cup {o}
      /\ ctx'[c].ptr = first + BeginGap + n /\ ctx'[c].limit = first + GrowthSize
      /\ \A d \in Contexts \ {c} : ctx'[d] = ctx[d]
      /\ UNCHANGED arenaNext
      /\ pc[t] \in Carved
      /\ \A u \in Threads : pc'[u] \in Carving \cup Carved =>
            u # t /\ pc'[u] = pc[u] /\ local'[u] = local[u]
  BY <1>0 DEF FillContext, shared, CarvingInv, RaceTypes, Heap!NewWindow, At, Return, Goto,
              Carved, Carving
<1>2. o.start = first + BeginGap /\ o.size = n
  OBVIOUS
<1>3. /\ \A p \in objs : p.start \in Nat /\ p.size \in Nat
      /\ \A d \in Contexts : ctx[d].ptr \in Nat /\ ctx[d].limit \in Nat
      /\ \A u \in Threads : local[u].newPages \in Nat
  BY DEF CarvingInv, RaceTypes, Windows, Locals
<1>4. /\ ArenaBase <= first /\ first + GrowthSize <= arenaNext
      /\ \A p \in objs : p.start + p.size <= first \/ first + GrowthSize <= p.start
      /\ \A d \in Contexts : ctx[d].limit <= first \/ first + GrowthSize <= ctx[d].ptr
      /\ \A u \in Threads \ {t} : pc[u] \in Carved =>
           \/ local[u].newPages + GrowthSize <= first
           \/ first + GrowthSize <= local[u].newPages
  BY <1>1 DEF CarvingInv, SegmentPrivate
<1> HIDE DEF c, first, n, o
<1>5. Frontier'
  <2>1. \A p \in objs' : ArenaBase <= p.start /\ p.start + p.size <= arenaNext
    BY <1>0, <1>1, <1>2, <1>3, <1>4 DEF CarvingInv, Frontier
  <2>2. ASSUME NEW d \in Contexts
        PROVE  ctx'[d].limit <= arenaNext /\ (ctx'[d].ptr # 0 => ArenaBase <= ctx'[d].ptr)
    <3>1. CASE d = c
      BY <1>0, <1>1, <1>4, <3>1
    <3>2. CASE d # c
      BY <1>1, <3>2 DEF CarvingInv, Frontier
    <3> QED BY <3>1, <3>2
  <2> QED BY <1>1, <2>1, <2>2 DEF CarvingInv, Frontier
<1>6. Heap!ObjectsDisjoint'
  <2>1. \A p \in objs : Heap!Promise!Apart(o, p) /\ Heap!Promise!Apart(p, o)
    BY <1>0, <1>2, <1>3, <1>4 DEF Heap!Promise!Apart
  <2> QED BY <1>1, <2>1 DEF CarvingInv, Heap!ObjectsDisjoint, Heap!Promise!Apart
<1>7. Heap!WindowsPrivate'
  <2> SUFFICES ASSUME NEW d \in Contexts
               PROVE  /\ ctx'[d].ptr <= ctx'[d].limit
                      /\ \A p \in objs' : \/ p.start + p.size <= ctx'[d].ptr
                                          \/ ctx'[d].limit <= p.start
                      /\ \A e \in Contexts \ {d} : \/ ctx'[d].limit <= ctx'[e].ptr
                                                   \/ ctx'[e].limit <= ctx'[d].ptr
    BY DEF Heap!WindowsPrivate
  <2>1. /\ ctx[d].ptr <= ctx[d].limit
        /\ \A p \in objs : p.start + p.size <= ctx[d].ptr \/ ctx[d].limit <= p.start
        /\ \A e \in Contexts \ {d} : \/ ctx[d].limit <= ctx[e].ptr
                                     \/ ctx[e].limit <= ctx[d].ptr
    BY DEF CarvingInv, Heap!WindowsPrivate
  <2>2. CASE d = c
    BY <1>0, <1>1, <1>2, <1>3, <1>4, <2>2
  <2>3. CASE d # c
    BY <1>0, <1>1, <1>2, <1>3, <1>4, <2>1, <2>3
  <2> QED BY <2>2, <2>3
<1>8. ASSUME NEW u \in Threads
      PROVE  CheckedOf(u)' /\ (pc'[u] \in Carved => SegmentPrivate(u)')
  <2>1. CheckedOf(u)'
    BY <1>1 DEF CarvingInv, CheckedOf, Carving
  <2>2. ASSUME pc'[u] \in Carved PROVE SegmentPrivate(u)'
    <3>1. SegmentPrivate(u) /\ u # t /\ local'[u] = local[u] /\ pc[u] \in Carved
      BY <1>1, <2>2 DEF CarvingInv
    <3>2. \/ local[u].newPages + GrowthSize <= first
          \/ first + GrowthSize <= local[u].newPages
      BY <1>4, <3>1
    <3>3. \A p \in objs' : \/ p.start + p.size <= local[u].newPages
                           \/ local[u].newPages + GrowthSize <= p.start
      BY <1>0, <1>1, <1>2, <1>3, <3>1, <3>2 DEF SegmentPrivate
    <3>4. \A d \in Contexts : \/ ctx'[d].limit <= local[u].newPages
                              \/ local[u].newPages + GrowthSize <= ctx'[d].ptr
      BY <1>0, <1>1, <1>3, <3>1, <3>2 DEF SegmentPrivate
    <3>5. \A v \in Threads \ {u} : pc'[v] \in Carved =>
            \/ local'[v].newPages + GrowthSize <= local[u].newPages
            \/ local[u].newPages + GrowthSize <= local'[v].newPages
      BY <1>1, <3>1 DEF SegmentPrivate
    <3> QED BY <1>1, <3>1, <3>3, <3>4, <3>5 DEF SegmentPrivate
  <2> QED BY <2>1, <2>2
<1> QED BY <1>5, <1>6, <1>7, <1>8 DEF CarvingInv

LEMMA CarvingStep == CarvingInv /\ CarvedAlone /\ [Next]_vars => CarvingInv'
<1> SUFFICES ASSUME CarvingInv, CarvedAlone, [Next]_vars PROVE CarvingInv'
  OBVIOUS
<1>0. RaceTypes' /\ LocksHeld'
  BY RaceTypesStep, LocksHeldStep DEF CarvingInv
<1> USE <1>0
<1>1. CASE UNCHANGED vars
  BY <1>1, NothingHandedOut DEF vars, CarvingInv, CheckedOf
<1>2. ASSUME NEW t \in Threads, NEW n \in Sizes, Call(t, n)
      PROVE  CarvingInv'
  <2>1. CASE CallRefused(t, n)
    BY <1>1, <2>1 DEF CallRefused
  <2>2. CASE CallFast(t, n)
    BY <2>2, FastKeepsApart
  <2>3. CASE CallSlow(t, n)
    <3>1. /\ UNCHANGED <<arenaNext, ctx, objs>>
          /\ \A u \in Threads \ {t} : pc'[u] = pc[u] /\ local'[u] = local[u]
          /\ pc'[t] \in {"suspend", "check"}
      BY <2>3 DEF CallSlow, shared, Goto, CarvingInv, RaceTypes
    <3>2. CheckedOf(t)' /\ pc'[t] \notin Carved
      BY <3>1 DEF CheckedOf, Carving, Carved
    <3> QED BY <3>1, <3>2, OthersStay, NothingHandedOut
  <2> QED BY <1>2, <2>1, <2>2, <2>3 DEF Call
<1>3. ASSUME NEW t \in Threads, Step(t)
      PROVE  CarvingInv'
  <2> USE DEF At, Goto, Return, Load
  <2>0. pc \in [Threads -> Labels] /\ local \in [Threads -> Locals] /\ CheckedOf(t)
    BY DEF CarvingInv, RaceTypes
  <2>1. CASE StoreArena(t)
    BY <2>1, CarveKeepsApart
  <2>2. CASE FillContext(t)
    BY <2>2, FillKeepsApart
  <2>3. ASSUME UNCHANGED <<arenaNext, ctx, objs>>,
               \A u \in Threads \ {t} : pc'[u] = pc[u] /\ local'[u] = local[u],
               CheckedOf(t)',
               pc'[t] \in Carved =>
                 pc[t] \in Carved /\ local'[t].newPages = local[t].newPages
        PROVE  CarvingInv'
    BY <2>3, OthersStay, NothingHandedOut
  <2>4. CASE SuspendEE(t) \/ RestartEE(t) \/ EndGC(t)
    BY <2>0, <2>3, <2>4
       DEF SuspendEE, RestartEE, EndGC, gcVars, shared, CheckedOf, Carving, Carved
  <2>5. CASE CheckArena(t)
    BY <2>0, <2>3, <2>5 DEF CheckArena, carveVars, CheckedOf, Carving, Carved
  <2>6. CASE TakePages(t)
    BY <2>0, <2>3, <2>6 DEF TakePages, carveVars, CheckedOf, Carving, Carved, Locals
  <2>7. CASE LoadArena(t)
    BY <2>0, <2>3, <2>7 DEF LoadArena, carveVars, CheckedOf, Carving, Carved, Locals
  <2>8. CASE CheckTable(t)
    BY <2>0, <2>3, <2>8 DEF CheckTable, registerVars, CheckedOf, Carving, Carved
  <2>9. CASE LoadCount(t)
    BY <2>0, <2>3, <2>9 DEF LoadCount, registerVars, CheckedOf, Carving, Carved, Locals
  <2>10. CASE StoreCount(t) \/ StoreSlot(t)
    BY <2>0, <2>3, <2>10 DEF StoreCount, StoreSlot, registerVars, CheckedOf, Carving, Carved
  <2>11. CASE CheckFirst(t)
    BY <2>0, <2>3, <2>11 DEF CheckFirst, publishVars, CheckedOf, Carving, Carved
  <2>12. CASE StoreHighest(t) \/ StompWriteBarrier(t)
    BY <2>0, <2>3, <2>12
       DEF StoreHighest, StompWriteBarrier, publishVars, CheckedOf, Carving, Carved
  <2>13. CASE LoadBarrierArgs(t)
    BY <2>0, <2>3, <2>13
    DEF LoadBarrierArgs, publishVars, CheckedOf, Carving, Carved, Locals
  <2> QED BY <1>3, <2>1, <2>2, <2>4, <2>5, <2>6, <2>7, <2>8, <2>9, <2>10, <2>11, <2>12,
             <2>13 DEF Step
<1> QED BY <1>1, <1>2, <1>3 DEF Next

LEMMA CarvingStart == Init => CarvingInv
<1> SUFFICES ASSUME Init PROVE CarvingInv
  OBVIOUS
<1>1. RaceTypes
  BY LocalsAtRest, PageAssumption
     DEF Init, RaceTypes, Labels, Windows, Heap!NoContext
<1>2. Frontier
  BY SizeAssumption, PageAssumption DEF Init, Frontier, Heap!NoContext
<1>3. Heap!ObjectsDisjoint /\ Heap!WindowsPrivate
  BY DEF Init, Heap!ObjectsDisjoint, Heap!WindowsPrivate, Heap!NoContext
<1>4. \A t \in Threads : CheckedOf(t) /\ (pc[t] \in Carved => SegmentPrivate(t))
  BY DEF Init, CheckedOf, Carving, Carved
<1> QED BY <1>1, <1>2, <1>3, <1>4 DEF Init, CarvingInv, LocksHeld

(* Objects of any threads on any contexts never overlap as long as no two  *)
(* threads carve at once, whatever else of Alloc they race on              *)
(* (MiniGCHeap.cpp:550-556).                                               *)
THEOREM UnracedCarvingKeepsApart == Spec => UnracedCarvingIsSafe
<1>1. CarvingInv => Heap!ObjectsDisjoint
  BY DEF CarvingInv
<1> QED BY <1>1, CarvingStart, CarvingStep, PTL DEF Spec, UnracedCarvingIsSafe

(* Towards the EE the threads then are one heap: each step of theirs either*)
(* hands out one more object, inside the arena and apart from all others,  *)
(* or nothing.                                                             *)
KeepsPromise == [][Heap!Promise!Next]_(Heap!Promise!vars)

LEMMA PromiseStep ==
  ASSUME CarvingInv, CarvingInv', [Next]_vars
  PROVE  [Heap!Promise!Next]_(Heap!Promise!vars)
<1>1. objs' = objs \/ \E o : objs' = objs \cup {o}
  <2>1. ASSUME NEW t \in Threads, NEW n \in Sizes, Call(t, n)
        PROVE  objs' = objs \/ \E o : objs' = objs \cup {o}
    BY <2>1 DEF Call, CallRefused, CallFast, CallSlow, vars
  <2>2. ASSUME NEW t \in Threads, Step(t)
        PROVE  objs' = objs \/ \E o : objs' = objs \cup {o}
    BY <2>2 DEF Step, SuspendEE, RestartEE, EndGC, CheckArena, TakePages, LoadArena,
       StoreArena, CheckTable, LoadCount, StoreCount, StoreSlot, CheckFirst, StoreHighest,
       LoadBarrierArgs, StompWriteBarrier, FillContext, gcVars, carveVars, registerVars,
       publishVars
  <2> QED BY <2>1, <2>2 DEF Next, vars
<1>2. CASE objs' = objs
  BY <1>2 DEF Heap!Promise!vars
<1>3. ASSUME NEW o, objs' = objs \cup {o}, o \notin objs
      PROVE  Heap!Promise!NewObject
  <2>1. o.size > 0
    BY <1>3 DEF CarvingInv, RaceTypes
  <2>2. Heap!Promise!Inside(o, ArenaBase)
    <3>1. /\ ArenaBase <= o.start /\ o.start + o.size <= arenaNext'
          /\ arenaNext' <= ArenaBase + ArenaSize
      BY <1>3 DEF CarvingInv, Frontier
    <3>2. /\ o.start \in Nat /\ o.size \in Nat /\ arenaNext' \in Nat
          /\ ArenaBase \in Nat /\ ArenaSize \in Nat
      BY <1>3, PageAssumption, SizeAssumption DEF CarvingInv, RaceTypes
    <3> QED BY <3>1, <3>2 DEF Heap!Promise!Inside
  <2>3. \A p \in objs : Heap!Promise!Apart(o, p)
    BY <1>3 DEF CarvingInv, Heap!ObjectsDisjoint, Heap!Promise!Apart
  <2>4. o \in objs' \ objs /\ ArenaBase # 0
    BY <1>3, PageAssumption
  <2> QED BY <1>3, <2>1, <2>2, <2>3, <2>4 DEF Heap!Promise!NewObject
<1> QED BY <1>1, <1>2, <1>3 DEF Heap!Promise!Next

(* As long as no two threads carve at once, Alloc on any contexts keeps the*)
(* promise of ObjectSpace (MiniGCHeap.cpp:519-586).                        *)
THEOREM UnracedThreadsKeepPromise == Spec => ([]CarvedAlone => KeepsPromise)
<1>1. CarvingInv /\ CarvingInv' /\ [Next]_vars => [Heap!Promise!Next]_(Heap!Promise!vars)
  BY PromiseStep
<1> QED BY <1>1, CarvingStart, CarvingStep, PTL DEF Spec, KeepsPromise

(* With one locked context nobody ever carves beside another, so there the *)
(* promise is kept for good.                                               *)
THEOREM LockedThreadsKeepPromise ==
  ASSUME OneContext  PROVE  Spec => KeepsPromise
<1>1. CarvingInv => CarvedAlone
  BY DEF CarvingInv, LocksHeld, OneContext, CarvedAlone, Carving, Pending
<1>2. CarvingInv /\ CarvingInv' /\ [Next]_vars => [Heap!Promise!Next]_(Heap!Promise!vars)
  BY PromiseStep
<1> QED BY <1>1, <1>2, CarvingStart, CarvingStep, PTL DEF Spec, KeepsPromise

-----------------------------------------------------------------------------
(* The segments table.  That every object is found in it takes more: the   *)
(* lines of registerSegment alone as well.                                 *)

(* A slot counts once it is written, not when segmentsCount covers it.     *)
Written(i) ==
  /\ i \in 0..(segmentsCount - 1)
  /\ \A t \in Threads : pc[t] = "slot" => local[t].load # i

Listed(p) == \E i \in 0..(MaxSegments - 1) : Written(i) /\ segments[i] = p

CountedOf(t) ==
  /\ pc[t] \in {"index", "count"} => segmentsCount < MaxSegments
  /\ pc[t] = "count" => local[t].load = segmentsCount
  /\ pc[t] = "slot" => segmentsCount = local[t].load + 1

ListingInv ==
  /\ segments \in [0..(MaxSegments - 1) -> Nat] /\ segmentsCount \in 0..MaxSegments
  /\ \A t \in Threads :
       CountedOf(t) /\ (pc[t] \in Counted \ {"slot"} => Listed(local[t].newPages))
  /\ \A c \in Contexts : ctx[c].ptr # Null =>
       \E p \in Nat :
         Listed(p) /\ p + BeginGap <= ctx[c].ptr /\ ctx[c].limit = p + GrowthSize
  /\ \A o \in objs : \E p \in Nat :
       Listed(p) /\ p + BeginGap <= o.start /\ o.start + o.size <= p + GrowthSize

(* A segment that is listed stays listed.                                  *)
LEMMA ListedStays ==
  ASSUME RaceTypes, ListingInv, InstalledAlone, [Next]_vars, NEW p, Listed(p)
  PROVE  Listed(p)'
<1> USE DEF Goto, Return, At, Load, shared, gcVars, carveVars, registerVars, publishVars
<1>1. PICK i \in 0..(MaxSegments - 1) : Written(i) /\ segments[i] = p
  BY DEF Listed
<1>2. /\ pc \in [Threads -> Labels] /\ local \in [Threads -> Locals]
      /\ segmentsCount \in Nat /\ MaxSegments \in Nat
  BY SizeAssumption DEF RaceTypes
<1>3. ASSUME UNCHANGED <<segments, segmentsCount>>,
             \A u \in Threads : pc'[u] = "slot" => pc[u] = "slot" /\ local'[u] = local[u]
      PROVE  Listed(p)'
  BY <1>1, <1>3 DEF Listed, Written
<1>4. CASE UNCHANGED vars
  BY <1>3, <1>4 DEF vars
<1>5. ASSUME NEW t \in Threads, NEW n \in Sizes, Call(t, n)
      PROVE  Listed(p)'
  <2>1. CASE CallRefused(t, n)
    BY <1>4, <2>1 DEF CallRefused
  <2>2. CASE CallFast(t, n)
    BY <1>3, <2>2 DEF CallFast
  <2>3. CASE CallSlow(t, n)
    BY <1>2, <1>3, <2>3 DEF CallSlow, RaiseFlag
  <2> QED BY <1>5, <2>1, <2>2, <2>3 DEF Call
<1>6. ASSUME NEW t \in Threads, Step(t)
      PROVE  Listed(p)'
  <2>1. CASE SuspendEE(t) \/ RestartEE(t) \/ EndGC(t)
    BY <1>2, <1>3, <2>1 DEF SuspendEE, RestartEE, EndGC
  <2>2. CASE CheckArena(t) \/ TakePages(t) \/ LoadArena(t) \/ StoreArena(t)
    BY <1>2, <1>3, <2>2 DEF CheckArena, TakePages, LoadArena, StoreArena
  <2>3. CASE CheckTable(t) \/ LoadCount(t)
    BY <1>2, <1>3, <2>3 DEF CheckTable, LoadCount
  <2>4. CASE CheckFirst(t) \/ StoreHighest(t) \/ LoadBarrierArgs(t)
    BY <1>2, <1>3, <2>4 DEF CheckFirst, StoreHighest, LoadBarrierArgs
  <2>5. CASE StompWriteBarrier(t) \/ FillContext(t)
    BY <1>2, <1>3, <2>5 DEF StompWriteBarrier, FillContext
  <2>6. CASE StoreCount(t)
    <3>1. /\ segmentsCount' = segmentsCount + 1 /\ local[t].load = segmentsCount
          /\ UNCHANGED <<segments, local>>
          /\ \A u \in Threads \ {t} : pc'[u] = pc[u]
      BY <1>2, <2>6 DEF StoreCount, ListingInv, CountedOf
    <3>2. Written(i)'
      BY <1>1, <1>2, <3>1 DEF Written
    <3> QED BY <1>1, <3>1, <3>2 DEF Listed
  <2>7. CASE StoreSlot(t)
    <3>1. /\ UNCHANGED <<segmentsCount, local>>
          /\ segments' = [segments EXCEPT ![local[t].load] = local[t].newPages]
          /\ \A u \in Threads \ {t} : pc'[u] = pc[u]
          /\ pc[t] = "slot" /\ pc'[t] # "slot"
      BY <1>2, <2>7 DEF StoreSlot
    <3>2. Written(i)' /\ local[t].load # i
      BY <1>1, <1>2, <3>1 DEF Written
    <3> QED BY <1>1, <3>1, <3>2 DEF Listed, ListingInv
  <2> QED BY <1>6, <2>1, <2>2, <2>3, <2>4, <2>5, <2>6, <2>7 DEF Step
<1> QED BY <1>4, <1>5, <1>6 DEF Next

(* The counter is current for the one thread that registers.               *)
LEMMA CountedStep ==
  ASSUME RaceTypes, ListingInv, InstalledAlone, [Next]_vars
  PROVE  /\ segments' \in [0..(MaxSegments - 1) -> Nat] /\ segmentsCount' \in 0..MaxSegments
         /\ \A u \in Threads : CountedOf(u)'
<1> USE DEF Goto, Return, At, Load, shared, gcVars, carveVars, registerVars, publishVars,
            ListingInv
<1>1. /\ pc \in [Threads -> Labels] /\ local \in [Threads -> Locals]
      /\ segmentsCount \in Nat /\ MaxSegments \in Nat
      /\ \A u \in Threads : local[u].load \in Nat /\ local[u].newPages \in Nat
  BY SizeAssumption DEF RaceTypes, Locals
<1>2. ASSUME UNCHANGED <<segments, segmentsCount>>,
             \A u \in Threads :
               \/ pc'[u] \notin {"index", "count", "slot"}
               \/ pc'[u] = pc[u] /\ local'[u].load = local[u].load
      PROVE  /\ segments' \in [0..(MaxSegments - 1) -> Nat]
             /\ segmentsCount' \in 0..MaxSegments
             /\ \A u \in Threads : CountedOf(u)'
  BY <1>2 DEF CountedOf
<1>3. CASE UNCHANGED vars
  BY <1>2, <1>3 DEF vars
<1>4. ASSUME NEW t \in Threads, NEW n \in Sizes, Call(t, n)
      PROVE  /\ segments' \in [0..(MaxSegments - 1) -> Nat]
             /\ segmentsCount' \in 0..MaxSegments
             /\ \A u \in Threads : CountedOf(u)'
  <2>1. CASE CallRefused(t, n)
    BY <1>3, <2>1 DEF CallRefused
  <2>2. CASE CallFast(t, n)
    BY <1>2, <2>2 DEF CallFast
  <2>3. CASE CallSlow(t, n)
    BY <1>1, <1>2, <2>3 DEF CallSlow, RaiseFlag
  <2> QED BY <1>4, <2>1, <2>2, <2>3 DEF Call
<1>5. ASSUME NEW t \in Threads, Step(t)
      PROVE  /\ segments' \in [0..(MaxSegments - 1) -> Nat]
             /\ segmentsCount' \in 0..MaxSegments
             /\ \A u \in Threads : CountedOf(u)'
  <2>1. CASE SuspendEE(t) \/ RestartEE(t) \/ EndGC(t)
    BY <1>1, <1>2, <2>1 DEF SuspendEE, RestartEE, EndGC
  <2>2. CASE CheckArena(t) \/ TakePages(t) \/ LoadArena(t) \/ StoreArena(t)
    BY <1>1, <1>2, <2>2 DEF CheckArena, TakePages, LoadArena, StoreArena
  <2>3. CASE CheckFirst(t) \/ StoreHighest(t) \/ LoadBarrierArgs(t)
    BY <1>1, <1>2, <2>3 DEF CheckFirst, StoreHighest, LoadBarrierArgs
  <2>4. CASE StompWriteBarrier(t) \/ FillContext(t)
    BY <1>1, <1>2, <2>4 DEF StompWriteBarrier, FillContext
  <2>5. ASSUME pc[t] \in Installing, NEW u \in Threads, u # t
        PROVE  pc[u] \notin {"index", "count", "slot"}
    BY <2>5 DEF InstalledAlone, Installing, Pending
  <2>6. CASE CheckTable(t)
    <3>1. ASSUME NEW u \in Threads PROVE CountedOf(u)'
      <4>1. CASE u = t
        BY <1>1, <2>6, <4>1 DEF CheckTable, CountedOf
      <4>2. CASE u # t
        BY <1>1, <2>5, <2>6, <4>2 DEF CheckTable, CountedOf, Installing
      <4> QED BY <4>1, <4>2
    <3> QED BY <2>6, <3>1 DEF CheckTable
  <2>7. CASE LoadCount(t)
    <3>1. ASSUME NEW u \in Threads PROVE CountedOf(u)'
      <4>1. CASE u = t
        BY <1>1, <2>7, <4>1 DEF LoadCount, CountedOf, Locals
      <4>2. CASE u # t
        BY <1>1, <2>5, <2>7, <4>2 DEF LoadCount, CountedOf, Installing
      <4> QED BY <4>1, <4>2
    <3> QED BY <2>7, <3>1 DEF LoadCount
  <2>8. CASE StoreCount(t)
    <3>1. ASSUME NEW u \in Threads PROVE CountedOf(u)'
      <4>1. CASE u = t
        BY <1>1, <2>8, <4>1 DEF StoreCount, CountedOf
      <4>2. CASE u # t
        BY <1>1, <2>5, <2>8, <4>2 DEF StoreCount, CountedOf, Installing
      <4> QED BY <4>1, <4>2
    <3>2. segmentsCount' \in 0..MaxSegments
      BY <1>1, <2>8 DEF StoreCount, CountedOf
    <3> QED BY <2>8, <3>1, <3>2 DEF StoreCount
  <2>9. CASE StoreSlot(t)
    <3>1. ASSUME NEW u \in Threads PROVE CountedOf(u)'
      <4>1. CASE u = t
        BY <1>1, <2>9, <4>1 DEF StoreSlot, CountedOf
      <4>2. CASE u # t
        BY <1>1, <2>5, <2>9, <4>2 DEF StoreSlot, CountedOf, Installing
      <4> QED BY <4>1, <4>2
    <3>2. segments' \in [0..(MaxSegments - 1) -> Nat]
      BY <1>1, <2>9 DEF StoreSlot
    <3> QED BY <2>9, <3>1, <3>2 DEF StoreSlot
  <2> QED BY <1>5, <2>1, <2>2, <2>3, <2>4, <2>6, <2>7, <2>8, <2>9 DEF Step
<1> QED BY <1>3, <1>4, <1>5 DEF Next

(* A thread past the store of its slot has its segment listed.             *)
LEMMA ListedWhenStored ==
  ASSUME RaceTypes, ListingInv, InstalledAlone, [Next]_vars,
         NEW u \in Threads, pc'[u] \in Counted \ {"slot"}
  PROVE  Listed(local[u].newPages)'
<1> USE DEF Goto, Return, At, Load, shared, gcVars, carveVars, registerVars, publishVars
<1>1. /\ pc \in [Threads -> Labels] /\ local \in [Threads -> Locals]
  BY DEF RaceTypes
<1>2. ASSUME pc[u] \in Counted \ {"slot"}, local'[u].newPages = local[u].newPages
      PROVE  Listed(local[u].newPages)'
  <2>1. Listed(local[u].newPages)
    BY <1>2 DEF ListingInv
  <2>2. ASSUME NEW q, Listed(q) PROVE Listed(q)'
    BY <2>2, ListedStays
  <2>3. PICK q : q = local[u].newPages
    OBVIOUS
  <2>4. Listed(q)'
    BY <2>1, <2>2, <2>3
  <2> QED BY <1>2, <2>3, <2>4 DEF Listed
<1>3. CASE pc'[u] = pc[u] /\ local'[u] = local[u]
  BY <1>2, <1>3
<1>4. ASSUME NEW t \in Threads, t # u,
             \A v \in Threads \ {t} : pc'[v] = pc[v] /\ local'[v] = local[v]
      PROVE  Listed(local[u].newPages)'
  BY <1>3, <1>4
<1>5. ASSUME NEW t \in Threads, NEW n \in Sizes, Call(t, n)
      PROVE  Listed(local[u].newPages)'
  <2>1. CASE CallRefused(t, n) \/ CallFast(t, n)
    BY <1>3, <2>1 DEF CallRefused, CallFast, vars
  <2>2. CASE CallSlow(t, n)
    <3>1. u # t
      BY <1>1, <2>2 DEF CallSlow, RaiseFlag, Counted
    <3> QED BY <1>1, <1>4, <2>2, <3>1 DEF CallSlow, RaiseFlag
  <2> QED BY <1>5, <2>1, <2>2 DEF Call
<1>6. ASSUME NEW t \in Threads, Step(t)
      PROVE  Listed(local[u].newPages)'
  <2>1. \A v \in Threads \ {t} : pc'[v] = pc[v] /\ local'[v] = local[v]
    <3>1. CASE SuspendEE(t) \/ RestartEE(t) \/ EndGC(t)
      BY <1>1, <3>1 DEF SuspendEE, RestartEE, EndGC
    <3>2. CASE CheckArena(t) \/ TakePages(t) \/ LoadArena(t) \/ StoreArena(t)
      BY <1>1, <3>2 DEF CheckArena, TakePages, LoadArena, StoreArena
    <3>3. CASE CheckTable(t) \/ LoadCount(t) \/ StoreCount(t) \/ StoreSlot(t)
      BY <1>1, <3>3 DEF CheckTable, LoadCount, StoreCount, StoreSlot
    <3>4. CASE CheckFirst(t) \/ StoreHighest(t) \/ LoadBarrierArgs(t)
      BY <1>1, <3>4 DEF CheckFirst, StoreHighest, LoadBarrierArgs
    <3>5. CASE StompWriteBarrier(t) \/ FillContext(t)
      BY <1>1, <3>5 DEF StompWriteBarrier, FillContext
    <3> QED BY <1>6, <3>1, <3>2, <3>3, <3>4, <3>5 DEF Step
  <2>2. CASE u # t
    BY <1>4, <2>1, <2>2
  <2>3. CASE u = t
    <3>1. CASE StoreSlot(t)
      <4>0. PICK i \in Nat : i = local[t].load
        BY <1>1 DEF Locals
      <4>1. /\ pc[t] = "slot" /\ segmentsCount = i + 1 /\ segmentsCount' = segmentsCount
            /\ segments' = [segments EXCEPT ![i] = local[t].newPages] /\ local' = local
            /\ pc'[t] = "first"
            /\ segmentsCount \in 0..MaxSegments /\ MaxSegments \in Nat
            /\ segments \in [0..(MaxSegments - 1) -> Nat]
        BY <1>1, <3>1, <4>0, SizeAssumption DEF StoreSlot, ListingInv, CountedOf
      <4>2. \A v \in Threads : pc'[v] # "slot"
        BY <2>1, <4>1 DEF InstalledAlone, Installing, Pending
      <4>3. i \in 0..(MaxSegments - 1) /\ i \in 0..(segmentsCount' - 1)
        BY <4>1
      <4>4. Written(i)'
        BY <4>2, <4>3 DEF Written
      <4>5. segments'[i] = local[t].newPages
        BY <4>1, <4>3
      <4>6. local'[u].newPages = local[t].newPages
        BY <2>3, <4>1
      <4> QED BY <4>3, <4>4, <4>5, <4>6 DEF Listed
    <3>2. CASE CheckFirst(t) \/ StoreHighest(t) \/ StompWriteBarrier(t)
      BY <1>1, <1>2, <2>3, <3>2 DEF CheckFirst, StoreHighest, StompWriteBarrier, Counted
    <3>3. CASE LoadBarrierArgs(t)
      BY <1>1, <1>2, <2>3, <3>3 DEF LoadBarrierArgs, Counted, Locals
    <3>4. CASE SuspendEE(t) \/ RestartEE(t) \/ EndGC(t)
      BY <1>1, <2>3, <3>4 DEF SuspendEE, RestartEE, EndGC, Counted
    <3>5. CASE CheckArena(t) \/ TakePages(t) \/ LoadArena(t) \/ StoreArena(t)
      BY <1>1, <2>3, <3>5 DEF CheckArena, TakePages, LoadArena, StoreArena, Counted
    <3>6. CASE CheckTable(t) \/ LoadCount(t) \/ StoreCount(t) \/ FillContext(t)
      BY <1>1, <2>3, <3>6 DEF CheckTable, LoadCount, StoreCount, FillContext, Counted
    <3> QED BY <1>6, <3>1, <3>2, <3>3, <3>4, <3>5, <3>6 DEF Step
  <2> QED BY <2>2, <2>3
<1> QED BY <1>3, <1>5, <1>6 DEF Next, vars

(* What a context may hand out, and what it handed out, is listed.         *)
LEMMA ListingStep ==
  ASSUME RaceTypes, ListingInv, InstalledAlone, [Next]_vars
  PROVE  ListingInv'
<1>0. \A p : Listed(p) => Listed(p)'
  BY ListedStays
<1>1. /\ segments' \in [0..(MaxSegments - 1) -> Nat] /\ segmentsCount' \in 0..MaxSegments
      /\ \A u \in Threads : CountedOf(u)'
  BY CountedStep
<1>2. \A u \in Threads : pc'[u] \in Counted \ {"slot"} => Listed(local[u].newPages)'
  BY ListedWhenStored
<1> DEFINE
  InWindow(p, w) == p + BeginGap <= w.ptr /\ w.limit = p + GrowthSize
  InSegment(p, o) == p + BeginGap <= o.start /\ o.start + o.size <= p + GrowthSize
<1>3. /\ \A c \in Contexts :
           ctx[c].ptr # 0 => \E p \in Nat : Listed(p) /\ InWindow(p, ctx[c])
      /\ \A o \in objs : \E p \in Nat : Listed(p) /\ InSegment(p, o)
  BY DEF ListingInv
<1> HIDE DEF InWindow, InSegment
<1>4. ASSUME /\ \A c \in Contexts : ctx'[c].ptr # 0 =>
                  \/ ctx'[c] = ctx[c]
                  \/ \E p \in Nat : Listed(p) /\ InWindow(p, ctx'[c])
             /\ \A o \in objs' : o \in objs \/ \E p \in Nat : Listed(p) /\ InSegment(p, o)
      PROVE  ListingInv'
  <2>1. \A c \in Contexts :
          ctx'[c].ptr # 0 => \E p \in Nat : Listed(p)' /\ InWindow(p, ctx'[c])
    BY <1>0, <1>3, <1>4
  <2>2. \A o \in objs' : \E p \in Nat : Listed(p)' /\ InSegment(p, o)
    BY <1>0, <1>3, <1>4
  <2> QED BY <1>1, <1>2, <2>1, <2>2 DEF ListingInv, InWindow, InSegment
<1>5. CASE UNCHANGED <<ctx, objs>>
  BY <1>4, <1>5
<1>6. ASSUME NEW t \in Threads, NEW n \in Sizes, CallFast(t, n)
      PROVE  ListingInv'
  <2> DEFINE c == CtxOf[t]
             o == [start |-> ctx[c].ptr, size |-> n]
  <2>1. /\ c \in Contexts /\ n \in Nat /\ ctx[c].ptr # 0 /\ ctx[c].ptr \in Nat
        /\ ctx[c].limit \in Nat /\ ctx[c].ptr + n <= ctx[c].limit
    BY <1>6, ThreadAssumption, SizeAssumption
       DEF RaceTypes, CallFast, Windows, Heap!LegalSize, Heap!FitsWindow
  <2>2. /\ objs' = objs \cup {o}
        /\ ctx'[c].ptr = ctx[c].ptr + n /\ ctx'[c].limit = ctx[c].limit
        /\ \A d \in Contexts \ {c} : ctx'[d] = ctx[d]
    BY <1>6, <2>1 DEF CallFast, RaceTypes, Windows
  <2>3. PICK p \in Nat : Listed(p) /\ InWindow(p, ctx[c])
    BY <1>3, <2>1
  <2>4. GrowthSize \in Nat /\ BeginGap \in Nat
    BY SizeAssumption
  <2>5. InWindow(p, ctx'[c]) /\ InSegment(p, o)
    BY <2>1, <2>2, <2>3, <2>4 DEF InWindow, InSegment
  <2> HIDE DEF c, o
  <2> QED BY <1>4, <2>2, <2>3, <2>5
<1>7. ASSUME NEW t \in Threads, FillContext(t)
      PROVE  ListingInv'
  <2> DEFINE c == CtxOf[t]
             q == local[t].newPages
             n == local[t].size
             o == [start |-> q + BeginGap, size |-> n]
  <2>1. /\ c \in Contexts /\ n \in Nat /\ q \in Nat
        /\ GrowthSize \in Nat /\ BeginGap \in Nat /\ BeginGap + n <= GrowthSize
        /\ pc[t] = "fill"
    BY <1>7, ThreadAssumption, SizeAssumption
       DEF RaceTypes, FillContext, At, Locals, Heap!LegalSize
  <2>2. /\ objs' = objs \cup {o}
        /\ ctx'[c].ptr = q + BeginGap + n /\ ctx'[c].limit = q + GrowthSize
        /\ \A d \in Contexts \ {c} : ctx'[d] = ctx[d]
    BY <1>7, <2>1 DEF FillContext, RaceTypes, Heap!NewWindow
  <2>3. Listed(q)
    BY <2>1 DEF ListingInv, Counted
  <2>4. InWindow(q, ctx'[c]) /\ InSegment(q, o)
    BY <2>1, <2>2 DEF InWindow, InSegment
  <2>5. q \in Nat
    BY <2>1
  <2>6. PICK p \in Nat : Listed(p) /\ InWindow(p, ctx'[c]) /\ InSegment(p, o)
    BY <2>3, <2>4, <2>5
  <2> HIDE DEF c, q, n, o
  <2> QED BY <1>4, <2>2, <2>6
<1>8. UNCHANGED <<ctx, objs>> \/ (\E t \in Threads, n \in Sizes : CallFast(t, n))
        \/ (\E t \in Threads : FillContext(t))
  <2>1. ASSUME NEW t \in Threads, Step(t)
        PROVE  UNCHANGED <<ctx, objs>> \/ FillContext(t)
    BY <2>1 DEF Step, SuspendEE, RestartEE, EndGC, CheckArena, TakePages, LoadArena,
       StoreArena, CheckTable, LoadCount, StoreCount, StoreSlot, CheckFirst, StoreHighest,
       LoadBarrierArgs, StompWriteBarrier, gcVars, carveVars, registerVars, publishVars
  <2>2. ASSUME NEW t \in Threads, NEW n \in Sizes, Call(t, n)
        PROVE  UNCHANGED <<ctx, objs>> \/ CallFast(t, n)
    BY <2>2 DEF Call, CallRefused, CallSlow, vars
  <2> QED BY <2>1, <2>2 DEF Next, vars
<1> QED BY <1>5, <1>6, <1>7, <1>8

LEMMA RaceTypesStart == Init => RaceTypes
BY CarvingStart DEF CarvingInv

LEMMA ListingStart == Init => ListingInv
<1> SUFFICES ASSUME Init PROVE ListingInv
  OBVIOUS
<1>1. segments \in [0..(MaxSegments - 1) -> Nat] /\ segmentsCount \in 0..MaxSegments
  BY SizeAssumption DEF Init
<1>2. \A t \in Threads : pc[t] = "idle"
  BY DEF Init
<1>3. \A c \in Contexts : ctx[c].ptr = 0
  BY DEF Init, Heap!NoContext
<1> QED BY <1>1, <1>2, <1>3 DEF Init, ListingInv, CountedOf, Counted

(* If no two threads install a segment at once, every object that was ever *)
(* returned is in the table.                                               *)
LEMMA UnracedObjectsAreListed == Spec => ([]InstalledAlone => []ObjectsListed)
<1>1. ListingInv => ObjectsListed
  BY SizeAssumption DEF ListingInv, ObjectsListed, Listed, Written
<1>2. RaceTypes /\ ListingInv /\ InstalledAlone /\ [Next]_vars => RaceTypes' /\ ListingInv'
  BY RaceTypesStep, ListingStep
<1> QED BY <1>1, <1>2, RaceTypesStart, ListingStart, PTL DEF Spec

(* What the EE was told: a thread about to pass the highest address on has *)
(* loaded the current one.                                                 *)
PublishInv ==
  /\ BarrierCurrent
  /\ \A t \in Threads : pc[t] = "stomp" => local[t].high = highest

LEMMA PublishStep ==
  ASSUME RaceTypes, PublishInv, PublishedAlone, [Next]_vars
  PROVE  PublishInv'
<1> USE DEF Goto, Return, At, Load, shared, gcVars, carveVars, registerVars, publishVars
<1>1. pc \in [Threads -> Labels] /\ local \in [Threads -> Locals]
  BY DEF RaceTypes
<1>2. ASSUME UNCHANGED <<highest, barrier>>,
             \A u \in Threads :
               /\ pc'[u] \in {"args", "stomp"} <=> pc[u] \in {"args", "stomp"}
               /\ pc'[u] = "stomp" => pc[u] = "stomp" /\ local'[u].high = local[u].high
      PROVE  PublishInv'
  BY <1>2 DEF PublishInv, BarrierCurrent, Pending, Published, Heap!BarrierArgs
<1>3. CASE UNCHANGED vars
  BY <1>2, <1>3 DEF vars
<1>4. ASSUME NEW t \in Threads, NEW n \in Sizes, Call(t, n)
      PROVE  PublishInv'
  <2>1. CASE CallRefused(t, n)
    BY <1>3, <2>1 DEF CallRefused
  <2>2. CASE CallFast(t, n)
    BY <1>2, <2>2 DEF CallFast
  <2>3. CASE CallSlow(t, n)
    BY <1>1, <1>2, <2>3 DEF CallSlow, RaiseFlag
  <2> QED BY <1>4, <2>1, <2>2, <2>3 DEF Call
<1>5. ASSUME NEW t \in Threads, Step(t)
      PROVE  PublishInv'
  <2>1. CASE SuspendEE(t) \/ RestartEE(t) \/ EndGC(t)
    BY <1>1, <1>2, <2>1 DEF SuspendEE, RestartEE, EndGC
  <2>2. CASE CheckArena(t) \/ TakePages(t) \/ LoadArena(t) \/ StoreArena(t)
    BY <1>1, <1>2, <2>2 DEF CheckArena, TakePages, LoadArena, StoreArena
  <2>3. CASE CheckTable(t) \/ LoadCount(t) \/ StoreCount(t) \/ StoreSlot(t)
    BY <1>1, <1>2, <2>3 DEF CheckTable, LoadCount, StoreCount, StoreSlot
  <2>4. CASE CheckFirst(t) \/ FillContext(t)
    BY <1>1, <1>2, <2>4 DEF CheckFirst, FillContext
  <2>5. ASSUME pc[t] \in Publishing, NEW u \in Threads, u # t
        PROVE  pc[u] \notin {"publish", "args", "stomp"}
    BY <2>5 DEF PublishedAlone, Publishing, Pending
  <2>6. CASE StoreHighest(t) \/ LoadBarrierArgs(t)
    <3>1. /\ pc'[t] \in {"args", "stomp"}
          /\ pc'[t] = "stomp" => local'[t].high = highest'
          /\ pc[t] \in Publishing
          /\ \A u \in Threads \ {t} : pc'[u] = pc[u]
      BY <1>1, <2>6 DEF StoreHighest, LoadBarrierArgs, Publishing, Locals
    <3> QED BY <2>5, <3>1 DEF PublishInv, BarrierCurrent, Pending
  <2>7. CASE StompWriteBarrier(t)
    <3>1. /\ barrier' = Published(local[t].high) /\ pc[t] = "stomp" /\ pc'[t] = "fill"
          /\ UNCHANGED highest
          /\ \A u \in Threads \ {t} : pc'[u] = pc[u]
      BY <1>1, <2>7 DEF StompWriteBarrier, Published
    <3>2. barrier' = Published(highest)
      BY <3>1 DEF PublishInv
    <3>3. \A u \in Threads : pc'[u] # "stomp"
      BY <2>5, <3>1 DEF Publishing
    <3> QED BY <3>1, <3>2, <3>3
            DEF PublishInv, BarrierCurrent, Published, Heap!BarrierArgs
  <2> QED BY <1>5, <2>1, <2>2, <2>3, <2>4, <2>6, <2>7 DEF Step
<1> QED BY <1>3, <1>4, <1>5 DEF Next

(* If no two threads install a segment at once, every object that was ever *)
(* returned is found by IsHeapPointer's search of the table                *)
(* (MiniGCHeap.cpp:429-441, 550-556, 651-657), and if no two publish the   *)
(* first segment at once, the EE works with the range the globals hold     *)
(* (562-574).                                                              *)
THEOREM UnracedInstallingKeepsCurrent == Spec => UnracedInstallingIsSafe
<1>1. Init => PublishInv
  BY DEF Init, PublishInv, BarrierCurrent, Published
<1>2. RaceTypes /\ PublishInv /\ PublishedAlone /\ [Next]_vars => RaceTypes' /\ PublishInv'
  BY RaceTypesStep, PublishStep
<1>3. PublishInv => BarrierCurrent
  BY DEF PublishInv
<1>4. Spec => ([]PublishedAlone => []BarrierCurrent)
  BY <1>1, <1>2, <1>3, RaceTypesStart, PTL DEF Spec
<1> QED BY <1>4, UnracedObjectsAreListed DEF UnracedInstallingIsSafe

-----------------------------------------------------------------------------
(* Why Alloc returns, the part that needs no fairness.  A thread is between*)
(* SuspendEE and RestartEE exactly while it holds the EE suspended.        *)
SuspenderInv ==
  /\ pc \in [Threads -> Labels]
  /\ suspender # NoThread => suspender \in Threads /\ pc[suspender] = "restart"
  /\ \A t \in Threads : pc[t] = "restart" => suspender = t

(* How many steps a call has before it at most, at each label.             *)
StepsLeft ==
  [suspend |-> 16, restart |-> 15, endgc |-> 14, check |-> 13, take |-> 12, load |-> 11,
   store |-> 10, table |-> 9, index |-> 8, count |-> 7, slot |-> 6, first |-> 5,
   publish |-> 4, args |-> 3, stomp |-> 2, fill |-> 1, idle |-> 0]

(* A step of a thread inside Alloc takes it forward, no step of another    *)
(* thread moves it, and a call that begins has 16 steps at most.           *)
CallsAdvance ==
  [][\A t \in Threads :
       /\ pc'[t] = pc[t] \/ pc[t] = "idle" \/ StepsLeft[pc'[t]] < StepsLeft[pc[t]]
       /\ Step(t) => /\ StepsLeft[pc'[t]] < StepsLeft[pc[t]]
                     /\ \A u \in Threads \ {t} : pc'[u] = pc[u]]_vars

(* A thread can take its next step: where Step(t) is enabled.              *)
Ready(t) ==
  /\ Runs(t) /\ pc[t] # "idle"
  /\ pc[t] \in {"suspend", "stomp"} => suspender = NoThread

SomeoneReady == (\E t \in Threads : pc[t] # "idle") => \E t \in Threads : Ready(t)

LEMMA StepMoves ==
  ASSUME pc \in [Threads -> Labels], NEW t \in Threads, Step(t)
  PROVE  /\ StepsLeft[pc'[t]] < StepsLeft[pc[t]]
         /\ \A u \in Threads \ {t} : pc'[u] = pc[u]
         /\ pc' \in [Threads -> Labels]
<1> USE DEF At, Goto, Return, Labels, Carved
<1>1. CASE SuspendEE(t) \/ RestartEE(t) \/ EndGC(t)
  BY <1>1 DEF SuspendEE, RestartEE, EndGC, StepsLeft
<1>2. CASE CheckArena(t) \/ TakePages(t) \/ LoadArena(t) \/ StoreArena(t)
  BY <1>2 DEF CheckArena, TakePages, LoadArena, StoreArena, StepsLeft
<1>3. CASE CheckTable(t) \/ LoadCount(t) \/ StoreCount(t) \/ StoreSlot(t)
  BY <1>3 DEF CheckTable, LoadCount, StoreCount, StoreSlot, StepsLeft
<1>4. CASE CheckFirst(t) \/ StoreHighest(t) \/ LoadBarrierArgs(t)
  BY <1>4 DEF CheckFirst, StoreHighest, LoadBarrierArgs, StepsLeft
<1>5. CASE StompWriteBarrier(t) \/ FillContext(t)
  BY <1>5 DEF StompWriteBarrier, FillContext, StepsLeft
<1> QED BY <1>1, <1>2, <1>3, <1>4, <1>5 DEF Step

LEMMA CallEnters ==
  ASSUME pc \in [Threads -> Labels], NEW t \in Threads, NEW n \in Sizes, Call(t, n)
  PROVE  /\ pc' = pc \/ (pc[t] = "idle" /\ pc'[t] \in {"suspend", "check"})
         /\ \A u \in Threads \ {t} : pc'[u] = pc[u]
         /\ pc' \in [Threads -> Labels]
         /\ UNCHANGED suspender
BY DEF Call, CallRefused, CallFast, CallSlow, RaiseFlag, At, Goto, Labels, vars

LEMMA SuspenderStep == SuspenderInv /\ [Next]_vars => SuspenderInv'
<1> SUFFICES ASSUME SuspenderInv, [Next]_vars PROVE SuspenderInv'
  OBVIOUS
<1>1. CASE UNCHANGED vars
  BY <1>1 DEF vars, SuspenderInv
<1>2. ASSUME NEW t \in Threads, NEW n \in Sizes, Call(t, n)
      PROVE  SuspenderInv'
  BY <1>2, CallEnters DEF SuspenderInv
<1>3. ASSUME NEW t \in Threads, Step(t)
      PROVE  SuspenderInv'
  <2>0. pc' \in [Threads -> Labels] /\ \A u \in Threads \ {t} : pc'[u] = pc[u]
    BY <1>3, StepMoves DEF SuspenderInv
  <2> USE DEF At, Goto, Runs
  <2>1. CASE SuspendEE(t)
    BY <2>0, <2>1, ThreadAssumption DEF SuspendEE, SuspenderInv
  <2>2. CASE RestartEE(t)
    BY <2>0, <2>2, ThreadAssumption DEF RestartEE, SuspenderInv
  <2>3. CASE suspender' = suspender /\ pc[t] # "restart" /\ pc'[t] # "restart"
    BY <2>0, <2>3 DEF SuspenderInv
  <2>4. CASE EndGC(t)
    BY <2>3, <2>4 DEF EndGC, SuspenderInv
  <2>5. CASE CheckArena(t) \/ TakePages(t) \/ LoadArena(t) \/ StoreArena(t)
    BY <2>3, <2>5 DEF CheckArena, TakePages, LoadArena, StoreArena, carveVars, Return,
                      SuspenderInv
  <2>6. CASE CheckTable(t) \/ LoadCount(t) \/ StoreCount(t) \/ StoreSlot(t)
    BY <2>3, <2>6 DEF CheckTable, LoadCount, StoreCount, StoreSlot, registerVars, Return,
                      SuspenderInv
  <2>7. CASE CheckFirst(t) \/ StoreHighest(t) \/ LoadBarrierArgs(t)
    BY <2>3, <2>7 DEF CheckFirst, StoreHighest, LoadBarrierArgs, publishVars, SuspenderInv
  <2>8. CASE StompWriteBarrier(t) \/ FillContext(t)
    BY <2>3, <2>8 DEF StompWriteBarrier, FillContext, publishVars, Return, SuspenderInv
  <2> QED BY <1>3, <2>1, <2>2, <2>4, <2>5, <2>6, <2>7, <2>8 DEF Step
<1> QED BY <1>1, <1>2, <1>3 DEF Next

LEMMA SuspenderInvariant == Spec => []SuspenderInv
<1>1. Init => SuspenderInv
  BY DEF Init, SuspenderInv, Labels
<1> QED BY <1>1, SuspenderStep, PTL DEF Spec

(* The flag is up for every thread whose GC has not restarted the EE.      *)
RaisedInv == \A t \in Threads : pc[t] \in {"suspend", "restart"} => gcInProgress

LEMMA RaisedStep ==
  ASSUME SuspenderInv, RaisedInv, LoweredAlone, [Next]_vars
  PROVE  RaisedInv'
<1> USE DEF Goto, Return, At, Load, shared, gcVars, carveVars, registerVars, publishVars
<1>1. pc \in [Threads -> Labels]
  BY DEF SuspenderInv
<1>2. CASE UNCHANGED vars
  BY <1>2 DEF RaisedInv, vars
<1>3. ASSUME NEW t \in Threads, NEW n \in Sizes, Call(t, n)
      PROVE  RaisedInv'
  <2>1. CASE CallRefused(t, n) \/ CallFast(t, n)
    BY <2>1 DEF CallRefused, CallFast, RaisedInv, vars
  <2>2. CASE CallSlow(t, n)
    BY <1>1, <2>2 DEF CallSlow, RaiseFlag, RaisedInv
  <2> QED BY <1>3, <2>1, <2>2 DEF Call
<1>4. ASSUME NEW t \in Threads, Step(t)
      PROVE  RaisedInv'
  <2>1. CASE SuspendEE(t) \/ RestartEE(t)
    BY <1>1, <2>1 DEF SuspendEE, RestartEE, RaisedInv
  <2>2. CASE EndGC(t)
    <3>1. /\ pc[t] = "endgc" /\ pc'[t] = "check"
          /\ \A u \in Threads \ {t} : pc'[u] = pc[u]
      BY <1>1, <2>2 DEF EndGC
    <3>2. \A u \in Threads : pc[u] \notin {"suspend", "restart"}
      BY <3>1 DEF LoweredAlone, Pending
    <3> QED BY <3>1, <3>2 DEF RaisedInv
  <2>3. CASE CheckArena(t) \/ TakePages(t) \/ LoadArena(t) \/ StoreArena(t)
    BY <1>1, <2>3 DEF CheckArena, TakePages, LoadArena, StoreArena, RaisedInv
  <2>4. CASE CheckTable(t) \/ LoadCount(t) \/ StoreCount(t) \/ StoreSlot(t)
    BY <1>1, <2>4 DEF CheckTable, LoadCount, StoreCount, StoreSlot, RaisedInv
  <2>5. CASE CheckFirst(t) \/ StoreHighest(t) \/ LoadBarrierArgs(t)
    BY <1>1, <2>5 DEF CheckFirst, StoreHighest, LoadBarrierArgs, RaisedInv
  <2>6. CASE StompWriteBarrier(t) \/ FillContext(t)
    BY <1>1, <2>6 DEF StompWriteBarrier, FillContext, RaisedInv
  <2> QED BY <1>4, <2>1, <2>2, <2>3, <2>4, <2>5, <2>6 DEF Step
<1> QED BY <1>2, <1>3, <1>4 DEF Next

(* The flag covers every suspension as long as no thread lowers it beside  *)
(* another's GC (MiniGCHeap.cpp:536-544).                                  *)
THEOREM FlagAlwaysHonest == Spec => FlagIsHonest
<1>1. Init => RaisedInv
  BY DEF Init, RaisedInv
<1>2. SuspenderInv /\ RaisedInv /\ LoweredAlone /\ [Next]_vars => RaisedInv'
  BY RaisedStep
<1>3. SuspenderInv /\ RaisedInv => FlagTracksSuspension
  BY DEF SuspenderInv, RaisedInv, FlagTracksSuspension
<1> QED BY <1>1, <1>2, <1>3, SuspenderInvariant, PTL DEF Spec, FlagIsHonest

(* However the calls of any threads on any contexts are interleaved, while *)
(* one is inside Alloc one of those inside can go on: they never all wait  *)
(* for the EE (MiniGCHeap.cpp:538-543, 570).                               *)
THEOREM AllocNeverDeadlocks == Spec => []SomeoneReady
<1>1. SuspenderInv => SomeoneReady
  <2> SUFFICES ASSUME SuspenderInv, NEW t \in Threads, pc[t] # "idle"
               PROVE  \E u \in Threads : Ready(u)
    BY DEF SomeoneReady
  <2>1. CASE suspender = NoThread
    BY <2>1 DEF Ready, Runs
  <2>2. CASE suspender # NoThread
    <3>1. suspender \in Threads /\ pc[suspender] = "restart"
      BY <2>2 DEF SuspenderInv
    <3>2. Ready(suspender)
      BY <3>1 DEF Ready, Runs
    <3> QED BY <3>1, <3>2
  <2> QED BY <2>1, <2>2
<1> QED BY <1>1, SuspenderInvariant, PTL

(* And no call goes back: each has a bounded number of steps to take.  With*)
(* the fairness of FairSpec the two leave Alloc no way not to return.      *)
THEOREM AllocAlwaysAdvances == Spec => CallsAdvance
<1>1. SuspenderInv /\ [Next]_vars =>
        [\A t \in Threads :
           /\ pc'[t] = pc[t] \/ pc[t] = "idle" \/ StepsLeft[pc'[t]] < StepsLeft[pc[t]]
           /\ Step(t) => /\ StepsLeft[pc'[t]] < StepsLeft[pc[t]]
                         /\ \A u \in Threads \ {t} : pc'[u] = pc[u]]_vars
  <2> SUFFICES ASSUME SuspenderInv, [Next]_vars, ~UNCHANGED vars, NEW t \in Threads
               PROVE  /\ \/ pc'[t] = pc[t] \/ pc[t] = "idle"
                         \/ StepsLeft[pc'[t]] < StepsLeft[pc[t]]
                      /\ Step(t) => /\ StepsLeft[pc'[t]] < StepsLeft[pc[t]]
                                    /\ \A u \in Threads \ {t} : pc'[u] = pc[u]
    OBVIOUS
  <2>1. pc \in [Threads -> Labels]
    BY DEF SuspenderInv
  <2>2. Step(t) => /\ StepsLeft[pc'[t]] < StepsLeft[pc[t]]
                   /\ \A u \in Threads \ {t} : pc'[u] = pc[u]
    BY <2>1, StepMoves
  <2>3. ASSUME NEW u \in Threads, u # t, Step(u)
        PROVE  pc'[t] = pc[t]
    BY <2>1, <2>3, StepMoves
  <2>4. ASSUME NEW u \in Threads, NEW n \in Sizes, Call(u, n)
        PROVE  pc'[t] = pc[t] \/ pc[t] = "idle"
    BY <2>1, <2>4, CallEnters
  <2> QED BY <2>2, <2>3, <2>4 DEF Next
<1> QED BY <1>1, SuspenderInvariant, PTL DEF Spec, CallsAdvance

(* From SuspendEE to RestartEE the heap stands still: no call of any thread*)
(* allocates, carves, registers or publishes anything while a GC looks at  *)
(* the roots (MiniGCHeap.cpp:538-543).                                     *)
HeapStandsStill ==
  [][suspender # NoThread => UNCHANGED <<shared, barrier, ctx, objs>>]_vars

THEOREM NothingMovesInAGC == Spec => HeapStandsStill
<1>1. SuspenderInv /\ [Next]_vars =>
        [suspender # NoThread => UNCHANGED <<shared, barrier, ctx, objs>>]_vars
  <2> SUFFICES ASSUME SuspenderInv, [Next]_vars, ~UNCHANGED vars, suspender # NoThread
               PROVE  UNCHANGED <<shared, barrier, ctx, objs>>
    OBVIOUS
  <2> USE DEF At, Runs, SuspenderInv
  <2>1. ASSUME NEW t \in Threads, NEW n \in Sizes, Call(t, n)
        PROVE  UNCHANGED <<shared, barrier, ctx, objs>>
    BY <2>1 DEF Call, CallRefused, CallFast, CallSlow, vars, shared
  <2>2. ASSUME NEW t \in Threads, Step(t)
        PROVE  UNCHANGED <<shared, barrier, ctx, objs>>
    BY <2>2 DEF Step, SuspendEE, RestartEE, EndGC, CheckArena, TakePages, LoadArena,
       StoreArena, CheckTable, LoadCount, StoreCount, StoreSlot, CheckFirst, StoreHighest,
       LoadBarrierArgs, StompWriteBarrier, FillContext, gcVars, shared
  <2> QED BY <2>1, <2>2 DEF Next
<1> QED BY <1>1, SuspenderInvariant, PTL DEF Spec, HeapStandsStill
=============================================================================
