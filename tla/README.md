# A TLA+ model of MiniGC

MiniGC is a standalone garbage collector for .NET 10: a shared library that
CoreCLR (the *execution engine*, EE) loads and calls through `IGCHeap`,
`IGCHandleManager` and `IGCHandleStore`, and that calls back through `IGCToCLR`.
It allocates and never reclaims. This directory holds TLA+ modules of it, TLC
configurations that check them on small instances, and proofs, checked by TLAPS,
for every value of the constants.

    tlc -workers 2 -config Heap_safety.cfg MCMiniGCHeap
    tlapm MiniGCHeapProofs.tla

`PROJECT.json` lists runs, theorems, the source lines behind every definition,
hazards and findings.

## 1. Inventory

| Component | State | Operations | Modelled in |
|---|---|---|---|
| Heap set-up and segment allocator, `MiniGCHeap.cpp` 9-43, 354-441, 521-584, 651-657 | arena base and frontier, card tables, published range, `segments[1024]`, the EE's alloc contexts | `Initialize`, `Alloc`, `registerSegment`, `IsHeapPointer` | `MiniGCHeap` |
| Concurrent allocation and the GC cycle, same code | the same, `gcInProgress`, who has suspended the EE | `Alloc` by several threads | `AllocThreads` |
| Handle manager and store, `MiniGCHandleManager.cpp`, `MiniGCHandleStore.cpp` | four static arrays of 65535 entries, `handlesCount`, the store's pointer | create (4 forms), destroy, store, compare-exchange, getters and setters, `ScanHandles` | `MiniGCHandles`, `HandleThreads` |
| Frozen segments, `MiniGCHeap.cpp` 45-59, 740-783, 807-816 | 64 pointers to heap records | register, unregister, update, query | `FrozenSegments`, `FrozenQueries` |
| Entry points, `MiniGC.cpp`, `dllmain.cpp` | the static `gcToCLR` | `GC_Initialize`, `GC_VersionInfo` | `MiniGC` |
| Object marking, `MiniGCHeap.cpp` 61-182, 585-648, and `gcdesc.h` | mark bit; the EE's method tables and descriptors | `MarkObjectTransitively`, which nobody calls; the readers and writers of a descriptor | `GCDesc`, `ObjectMarking` |
| `IGCHeap` stubs, `MiniGCHeap.cpp` 187-353, 424-516, 658-738, 785-850 | none | about eighty methods, empty or answering with a constant | `MiniGCServices` (those that answer the EE about what it did) |
| `GcDemo`, `Program.cs` | its objects and weak handles | allocate, drop, collect, wait for finalizers, read a weak reference | `MiniGCServices` (the program) |
| Platform layer, `MiniGCPlatform.h` | none | pages from the OS, pointer compare-exchange | `AllocatePages`, `CompareExchange` |
| Write barrier and card tables | the EE's copy of range and tables | `StompWriteBarrier` | variables `barrier`, `told`; the cards are not modelled |
| Vendored headers, build files | none | | `gcdesc.h` only; the contracts of `gcinterface.h` serve as specifications and properties |

**How they interact.** The EE's threads call `Alloc` with an allocation context.
The fast path bumps the context's pointer. The slow path carves a 1 MB segment
from the 128 MB arena; if the context has had a segment already, it first
suspends the EE, scans stacks and handles (`ScanHandles`) with a root function
that only prints, and restarts the EE. The first segment makes the GC call
`StompWriteBarrier`, through the static `gcToCLR` of the last `GC_Initialize`.
Handles are addresses of slots of a static array, which the EE reads and writes
through the handle manager. The finalizer thread asks `GetNextFinalizable` and
always hears that there is nothing.

**What is hard.** Nothing in MiniGC takes a lock or, but for one
compare-exchange, uses an atomic operation: threads race on `g_arena_next`,
`segmentsCount` and `handlesCount`, and check-then-act pairs stand next to them.
`Initialize` can fail at three places and can be repeated. Handles outlive what
they point to, the store they came from and even the host that made them. The
frozen table closes holes by moving its last entry beside the query loop. Series
lengths are stored as differences modulo the word size. `PROJECT.json` lists each
hazard at its line.

**What makes each component correct.**
- Heap: objects never overlap, a context's window is its own, no segment and no
  page is lost, the EE's idea of the heap is the GC's.
- Threads: with the locking the interface asks for, concurrent calls look like
  serialised ones; a suspended EE resumes; every call returns.
- Handles: an owned handle reads as the EE left it; a GC sees exactly the strong
  handles that are alive; a handle is never issued twice; a race stays with the
  handle it is about.
- Frozen segments: slots, records and handles match; queries are exact, or miss
  only what moves under them.
- Hosts: no store dangles, roots that earlier hosts left are still mapped, the EE
  that set up the heap knows its range.
- Marking: the descriptor is read within its bounds and counts the references
  exactly; the mark never damages the method table pointer.
- Services: they amount to a collector, and each answer is wrong only from a step
  on that its stub should have noticed.

## 2. Modules

Abstract specifications: `ObjectSpace` (one region, objects in it that neither
overlap nor move), `HandleSpace` (live handles, and spent ones that stay so),
`FrozenSpace` (handle to segment), `Collector` (which objects a GC may take, when
finalizers fall due, what weak handles see).

    ObjectSpace <- MiniGCHeap    <- AllocThreads
    HandleSpace <- MiniGCHandles <- HandleThreads
    FrozenSpace <- FrozenSegments, with FrozenQueries beside it
    Collector   <- MiniGCServices
    MiniGC = MiniGCHeap + MiniGCHandles + entry points
    ObjectMarking = GCDesc + mark bit

(`A <- B`: B implements A.)

### MiniGCHeap

One action per outcome of a call, calls serialised. `Initialize` chooses
what the OS answers to each of the three page requests, 0 being failure, and is
`InitializeAgain`, `InitializeFails` (with the error path's releases) or
`InitializeSucceeds`. `Alloc` is `AllocReturnsNull`, `AllocFast` or `AllocSlow`;
`AllocSlow` includes `registerSegment`, `PublishFirstSegment` and the filling of
the context. Variables are the globals under their names without `g_`; `segments`
is the used prefix of the array. History and environment: `objs` (everything
`Alloc` returned), `mapped` (the pages MiniGC owns), `barrier` (what the EE was
told).

Abstractions: addresses are naturals; a null context is not passed; the branch
`gcToCLR == nullptr` of `Initialize` (line 357) is left out because `GC_Initialize`
refuses a null EE and always passes a handle manager; the GC cycle writes none of
these variables.

### AllocThreads

The same `Alloc` taken apart. Each thread has a `pc` and locals; every load and
store of `g_arena_next`, `segmentsCount`, `segments` and
`g_gc_highest_address` is a step, so that `g_arena_next += GrowthSize` and
`segmentsCount++` are a load and a store each. Code that touches only the
thread's own context is one step with its neighbour. While a thread has suspended
the EE no other takes steps; it may stop the others anywhere, which is also what
happens to a native thread that returns to managed code. `StompWriteBarrier` is
called with `is_runtime_suspended = false`, and by the contract of that field
(`gcinterface.h:64-67`) the EE then suspends itself, so it waits for a suspension
under way.

`CtxOf` maps threads to contexts. Threads that share a context hold its lock
around the call, which `gcinterface.h:919-922` demands of callers; a thread with
its own context never waits for the lock. `Initialize` is over at the start.

`Heap == INSTANCE MiniGCHeap WITH ...` is the refinement mapping: what a call in
progress has carved, counted and published does not exist until `FillContext`,
the linearisation point of the slow path.

### MiniGCHandles

One action per call of the manager or the store. A handle is a slot index,
`NoHandle` any other pointer. `wanted` is the history variable: for each handle
the EE owns, the object, type, secondary and extra info its own calls imply,
*given what those calls returned*. A dropped `StoreObjectInHandle` thus changes
`wanted`, since it returns nothing, and so does an
`InterlockedCompareExchangeObjectInHandle` that found no handle and returned the
null the EE expected. Calls are made on owned, destroyed, never issued and
foreign handles. The arrays are static, so `Shutdown` changes only `storeUp`.
`DestroyHandleStore`, `Uproot` and `TraceRefCountedHandles` are empty.

### HandleThreads

The calls of `MiniGCHandles` by several threads, split at the accesses to the
tables: a check (`ContainsHandle`, `HasRoom`, the range), the load of
`handlesCount`, and the writes a call has left. The compiler may order plain
stores to different tables as it likes, so `todo` is a set and any of them may
come next; a creation leaves `CreateWrites`, a destroy `DestroyWrites`. The
exchange is one atomic write, as it is in the platform layer. The history
variable `raced` collects the handles on which two calls overlapped that exclude
each other (`Excludes`): a destroy and anything that puts something in, or an
emptying and a filling store, or a set beside a destroy. Two overlapping
creations race all slots. The refinement mapping to `MiniGCHandles` hides what a
creation has written until it returns and what a destroy is about to clear.

### FrozenSegments and FrozenQueries

`records` is the part of the C++ heap that holds `FrozenSegmentRecord`s; `new` may
use the address of a deleted one again. `RemoveSlot` is the swap with the last
entry, which leaves the slot behind the new count as it was. The EE passes only
handles it holds (and null), and offsets in the order that `segment_info`
documents. A null limit is written 0. `known` is the history of what it said.

`FrozenQueries` puts one `IsInFrozenSegment` beside those calls, load by load. The
count is loaded once or before each turn and the slot once or twice per turn,
whatever the compiler makes of two plain reads (lines 776-779). A read of a deleted
record answers `undefined`. `disturbed` and `kept` are history.

### MiniGC

`MiniGCHeap` and `MiniGCHandles` instantiated under `GC_Initialize` and the hosts
of a process. A host loads the library if the version fits, may start, shut down
and restart the handle manager and the heap, and ends in order or not; the globals
of the library stay. `store` and `liveStores` refine `storeUp`: the store is an
object with an address that `Initialize` news and `Shutdown` deletes. `told` is
what each EE got through `gcToCLR`.

### GCDesc and ObjectMarking

`GCDesc` holds the operators of `gcdesc.h` on a descriptor, a function from the
words below the method table to their contents; `Wrap` and `Signed` are `size_t`
and `ptrdiff_t`. `ObjectMarking` adds the types the EE loads: a *shape* says where
the references are, `Desc` lays out the descriptor with the functions the header
has for it, and `Shapes` are compared with what the readers make of that. A method
table is an aligned address, an object's first word that address with the mark in
bit 0, and `FlagsAt` reads through an address that may carry the mark, which is
what line 603 does: the flags of lines 604 and 613 are the type's shifted by a
byte. Behind the test of line 613 the code would go through the references, which
writes nothing; but the bit it tests is then the lowest of `m_baseSize`, which is
even, so that it never does, and the walk is not modelled. `asked` counts calls of
`GetLoaderAllocatorObjectForGC`.

### MiniGCServices

The answers of the stubs are constants, grouped by the part of `IGCHeap` they
belong to; the state is the EE's: its objects and weak handles, whether there was
a GC (`collected`), what it set by calls that the collector forgets (`told`), and
the no-GC region that the answers let it believe in (`region`). A program does the
operations of `GcDemo` in any order on any of its objects, the EE changes settings
beside it, and the finalizer thread drains the queue when
`WaitForPendingFinalizers` wakes it. `Allocate` is the whole of `Alloc` as far as
the program sees it: refused at line 523, as the 8 MB of `Program.cs:38` are, or
after a GC or none successful or out of memory.

`Admissible` gives for each method of which `gcinterface.h` says something in terms
of this state the answers it allows, `WrongAnswers` the methods whose stub answers
otherwise. The module implements `Collector` with `ready <- {}`: no object is ever
found to be unreachable, which the contract allows.

## 3. Runs

Addresses are scaled down: a segment of 4 bytes, its gap 1 byte. A request of 3
fills a segment, 2 leaves a tail no other 2 fits into, 0 and 4 are refused.

| Run | Instance | Shows |
|---|---|---|
| `Heap_safety` | 3 contexts, 3 segments, sizes 0-4, two places for the arena and two for the tables | the invariants of any mix of failing and repeated `Initialize` and `Alloc`, and that the heap implements `ObjectSpace` |
| `Threads_shared` | 3 threads, one locked context, 3 segments | the concurrent code implements the serialised one |
| `Threads_own` | 2 threads with a context each, 2 segments | the flag comes down with the last GC and misses a suspension only when a GC starts before another has lowered it; objects overlap only by a race on `g_arena_next`, segments are lost only by one on the lines to `segments[]`, the EE is left with an old boundary only by two first segments at once; every call returns |
| `Handles_calls` | 2 slots, 2 objects, 3 types and dependent handles | handles read as the EE left them, exact roots, no lost object, `HandleSpace` |
| `Handle_threads` | 2 threads, 2 slots, 2 objects | a race stays with its handle, roots are exact wherever a GC stops the threads, unraced calls implement `MiniGCHandles` |
| `Frozen_queries` | 3 slots, 4 record addresses, 2 adjacent ranges | slots match handles, queries are exact, `FrozenSpace`; a concurrent query is exact if undisturbed and otherwise misses only what moved |
| `Marking` | all layouts of up to 4 fields, of arrays and of value classes of up to 3 words; 2 objects, lengths 0-2 | descriptors are read within bounds and counted exactly; marks keep method tables and an object is visited once per mark |
| `Hosts` | 3 hosts, 2 stores, 2 segments, 2 handles | stores, roots and barrier parameters across hosts |
| `Services` | a small object, a large one and the 8 MB of `GcDemo`; two modes | which answers are wrong from the start and which step makes which other wrong; the stubs implement `Collector`, and `WaitForPendingFinalizers` returns |

Violations, each a disagreement between a sentence in the repository and the code:

| Run | The sentence | What the code does |
|---|---|---|
| `Heap_barrier` | `gcinterface.h:92` "The heap's new high boundary" | line 562 publishes the end of the first segment only; objects of the second lie outside |
| `Threads_overlap` | `gcinterface.h:920` "If using per-thread alloc contexts, no lock is needed" | two threads take the same segment (lines 552-553) and their objects overlap |
| `Handles_strong` | `gcinterface.h:433` "function like a normal object reference" | a handle that holds null is taken for no handle (`MiniGCHandleStore.cpp:43`) and every later store into it is dropped |

**Why the bounds are enough.** In the heap each of the cases (fast, slow with and
without a former segment, first and later segment, exact fit, tail too small,
arena full, failure at each page request, a second `Initialize`) occurs within
three segments, and three contexts are one more than two that could share
something. A race on a plain variable needs two threads; the shared run has a
third that waits for the lock. Two handle slots give a handle under use, another
that must not be touched and a full table. Three frozen slots give a swap with
the last, a removal of the last and a full table. A third host is the first that
comes after both a host that set up the heap and one that found it set up. Four
fields and three words give no run, one, two separated, adjacent to either end
and all. `ArenaSize <= MaxSegments * GrowthSize` is an assumption and true of the
code (128 segments, 1024 slots). `size_t` is 16 bits wide in `Marking`
(`SizeMax`), with all sizes far below it as they are below 2^64. In `Services` one
object each of the three kinds that `Alloc` and `GetLOHThreshold` tell apart.

Bounds of the models, beside the constants: `TableBound` in `AllocThreads`, since
lost updates of `g_arena_next` let the real program register any number of
segments; it stops new slow paths when the instance's array could overflow, and
`Threads_shared` never reaches it. `Next` of `HandleThreads` stops when all slots
have raced, from where nothing is promised. `Handle_threads` has one handle type,
since whether a type is strong matters to scans only, and sets the extra info to
null only.

`Hosts` sets `CHECK_DEADLOCK FALSE`: when every host has ended the process is over.

**Symmetry** is used for safety runs only, over contexts, threads, objects,
records, hosts and stores.

**Fairness.** `FairSpec` of `AllocThreads` asks `SF_vars(Step(t))` for every thread
inside `Alloc`: the scheduler runs it again and again, and where it must suspend
the EE it is not overtaken for ever. Weak fairness would not do: `SuspendEE` is
disabled whenever another thread has the EE suspended, and a thread that calls
`Alloc` on an exhausted arena in a loop suspends the EE in each call, which starves
a waiter unless the EE's suspension lock is fair. That it is is assumed, not shown:
`AllocReturns` says nothing of a lock that lets others overtake. Nothing says that a thread ever
calls `Alloc`. `MiniGCServices` asks weak fairness of the finalizer thread once it
was woken and of the program once it was released; nothing says that the program
ever waits.

**Further divergences** that the modelling met, each plain from the lines named:
- The race of `Threads_overlap` also lets two threads pass the check of line 550
  together and one carve behind the arena, and lets `segments[segmentsCount++]`
  (line 655) lose a segment, whose objects `IsHeapPointer` then denies.
- Line 523 refuses what is larger than a segment however empty the arena is,
  although `gcinterface.h:912` gives only "out of memory" as a reason for null;
  `Program.cs:38` asks for 8 MB.
- `MarkObjectTransitively` sets the mark and then reads the method table through
  the marked pointer (603), so that its flags come one byte off, and it never goes
  through an object's references (613); if it did, it would add series offsets to
  an `Object*` (628-630), which scales them by `sizeof(Object)`.
- A second EE finds the heap set up and is never told its range (360-364).
- `README.md` ticks finalization and weak references, and `Program.cs:25-26, 36-37`
  expects finalizers to run and a weak target to die: no finalizer ever runs
  (237-245, 335-342) and nothing severs a weak handle.
- Answers that are wrong (`AnswersGoWrong`, checked by `Services`). From the start:
  `GetMaxGeneration` is 0 while `g_max_generation` tells the EE 2;
  `WaitForFullGCApproach` and `WaitForFullGCComplete` succeed for who could not
  register; `GetNow` is 0; `EndNoGCRegion` succeeds without a region. From an
  allocation on: the totals stay 0, no object is found in the heap, and
  `IsLargeObject` is false at any size while `GetLOHThreshold` is 85000. From a GC on:
  `GetGcCount`, `CollectionCount` and its times stay 0, and `EndNoGCRegion` succeeds
  although the region was broken. From another setting on: latency and compaction
  mode, concurrent GC and `IsGCInProgressHelper` stay what they were; the last is
  false also during the GC of `Alloc` (`gcinterface.h:853`). Walks report no
  finalizable object and no weak handle there is. In a region: `StartNoGCRegion` succeeds again and `EnableNoGCRegionCallback`
  answers that none was started. `RuntimeStructuresValid` is honest: it says of a
  heap that cannot be walked that it cannot.
- `MiniGCHeapConstants.h:7` indexes cards by absolute address, the table of line 376
  has entries for the arena only.

## 4. Proofs

| Module | Theorems |
|---|---|
| `MiniGCHeapProofs` | `TypeCorrect`, `HeapInvariant`, `ObjectsNeverOverlap`, `WindowsStayPrivate`, `ObjectsStayInSegments`, `NoSegmentLost`, `PagesAccounted`, `BarrierInformed`, `HeapImplementsObjectSpace`, `HeapPointersAlwaysExact` |
| `AllocThreadsProofs` | `FlagComesDown`, `SharedInvariant`, `FlagCoversSuspension`, `LockedThreadsImplementHeap`, `LockedObjectsNeverOverlap`, `UnracedCarvingKeepsApart`, `UnracedThreadsKeepPromise`, `FlagAlwaysHonest`, `UnracedInstallingKeepsCurrent`, `LockedThreadsKeepPromise`, `AllocNeverDeadlocks`, `AllocAlwaysAdvances`, `NothingMovesInAGC` |
| `MiniGCHandlesProofs` | `HandleInvariant`, `HandlesReadAsWanted`, `RootsAreExact`, `NoObjectIsLost`, `HandlesImplementPromise` |
| `HandleThreadsProofs` | `RacesStayWithTheirHandle`, `RootsAlwaysExact`, `ThreadsImplementTheTable`, `UnracedHandlesKeepPromise` |
| `FrozenSegmentsProofs` | `SlotsAlwaysMatch`, `QueriesAreExact`, `LimitsStayCurrent`, `FrozenImplementsPromise`, `UndisturbedQueriesExact`, `QueriesMissOnlyMoved` |
| `ObjectMarkingProofs` | `ObjectsMarkedOnce`, `MethodTablesSurviveMarks`, `SlotMapsAlwaysFit`, `PointersAlwaysExact` |
| `MiniGCProofs` | `StoreAlwaysExists`, `HostsShareOneHeap`, `HostsNeverShareObjects`, `RootsAlwaysMapped`, `RunningEEIsTold`, `HostsReadTheirHandles`, `NoHostLosesRoots`, `HostsNeverReissueHandles` |
| `MiniGCServicesProofs` | `CollectorIsSafe`, `ServicesImplementCollector`, `WaitersAreReleased` |

The assumptions are the ASSUMEs of the modules: sizes are naturals, the gap is
shorter than a segment, the `segments` array is as long as the arena has segments,
page addresses are not null, and the like. TLC evaluates them in every run.

**Heap.** That a new segment is free does not follow from `ObjectsDisjoint`: one
must know that everything handed out lies below `g_arena_next` (`BelowFrontier`),
that windows end where segments end (`WindowsInSegments`), and that nothing exists
before `Initialize` succeeded (`IdleBeforeInitialize`), or a failed `Initialize`
that leaves `g_arena_next` behind would break it. `registerSegment` has room
because segments tile the arena, and `(k + 1) * g <= m * g` gives `k < m`
(`ProductBound`). `HeapInv` is the conjunction, with type correctness; `FastStep`,
`SlowStep` and `InitializeStep` preserve it. The refinement takes a fast or slow
`Alloc` to `NewObject`, a successful `Initialize` to `ChooseRegion`, all else to a
stutter.

**Handles.** `HandleInv` says that the tables hold what `wanted` says whether or
not the store is up (or a later `Initialize` would bring wrong entries back), and
that a destroyed handle holds no object. The latter is what makes a store
performed by the code a store into a handle the EE owns (`PerformedStore`), and it
is `ContainsHandle` that keeps it inductive; the price is the violation
`Handles_strong`. For the refinement every step is reduced to one of three effects
on the slots (`StepEffect`): none, the next slot issued, a store into a live slot.

**Frozen segments.** `FrozenInv` is type correctness, the one-to-one match of
slots, records and handles, and `records = known`. That no two slots in use are
equal is what lets a removal delete a record and drop exactly its slot.

**Services.** `Safe` is inductive for `Collector` on its own, whatever it finds
unreachable (`CollectorIsSafe`). Each of the program's operations is an action of
`Collector` with `ready` empty; the finalizer thread is told of no object, so that
it changes none; settings touch no object.

**Threads.** `OneContext` says that all threads share a context, whose lock then
keeps at most one of them inside `Alloc`. `SharedInv` gives, for each place where
that thread can be, how the plain variables differ from those of the serialised
heap: what it has carved and not counted, counted and not stored, stored and not
published. Every step but the linearisation point then leaves the mapped
variables alone, which is `LockedThreadsImplementHeap`, and objects are disjoint
because they are in `MiniGCHeap`, and the threads keep the promise of `ObjectSpace`
(`LockedThreadsKeepPromise`).

**Racing threads.** With contexts of their own nothing keeps threads apart, and
`Threads_overlap` shows what comes of it. The theorems say how much of `Alloc` is to
blame. `CarvedAlone` says of a state that no two threads are between the check for
room (line 550) and the store of `g_arena_next` (line 553); all other accesses may
race, and contexts may be shared or not. In a behaviour with `[]CarvedAlone` objects
stay disjoint (`UnracedCarvingKeepsApart`, the property `UnracedCarvingIsSafe`), and each
object returned is new and apart from all before it (`UnracedThreadsKeepPromise`): one
lock or one atomic addition there would repair the overlap. The invariant,
`CarvingInv`, has beside `Frontier` (what is handed out lies below `g_arena_next`), private
windows and disjoint objects what each thread inside holds: a checked size still fits as long as it carves alone
(`CheckedOf`), and its fresh segment belongs to no window, object or other thread
(`SegmentPrivate`). It would not repair `segments[]`: an object is sure to lie in a
listed segment only if the lines to the write of the slot (656) are left alone too
(`InstalledAlone`; TLC refutes it for `CarvedAlone`), and the range the EE was told is the
globals' only if no two threads take theirs for the first segment
(`PublishedAlone`). Both are `UnracedInstallingIsSafe`, proved by
`UnracedInstallingKeepsCurrent`. `FlagAlwaysHonest` says the same of the GC flag: the EE
is suspended with the flag down only after a GC was started between another's
`RestartEE` and its lowering of the flag (543-544). That it comes down with the last GC
needs no condition (`FlagComesDown`), and one locked context fulfils that of
`FlagAlwaysHonest` (`FlagCoversSuspension`). The types are
the weakened `RaceTypes`: with races `segmentsCount` is a natural, not bounded by the
array, which `TableBound` restricts at the entry of calls only.

**Progress.** What makes `AllocReturns` hold is proved up to fairness.
`AllocNeverDeadlocks`: whenever a thread is inside `Alloc`, some thread's next step is
possible, since the one that suspended the EE is always about to restart it.
`AllocAlwaysAdvances`: each step of a thread decreases `StepsLeft`, which starts at 16 at
most, and no step of another thread sets it back. `NothingMovesInAGC`: between
`SuspendEE` and `RestartEE` the heap stands still. `WaitersAreReleased` is the same for
`WaitReturns`: a program waits exactly while the finalizer thread is awake, and that
thread's next step lets it go.

**Concurrent handles.** `HandlesInv` promises nothing once all slots have raced, and
until then `TableInv`: at most one call creates a handle (`OneCreator`), its slot
holds what it has written (`CreationOf`), slots behind the count are as they were
at the start (`Fresh`), and a handle that was destroyed without a race is empty or
about to be, with no call left that would fill it (`Emptied`). The last part is
what keeps a late store from making a destroyed handle a root again. Most steps
are about one handle the EE was given; `HandleStep` says once what such a step must
not do.

`ThreadsImplementTheTable` is the refinement. A creation takes effect with its last
write, a destroy with its check, a set, a store and an exchange with their one
write; every other step is a stutter of `MiniGCHandles`. Beside `TableInv` this needs
`Serial`: while nothing has raced no two calls under way exclude each other
(`CallsApart`), what a destroy emptied stays empty and what a store found stays an
object until they return (`Reliance`), and what a call is about to write comes
from its arguments (`Origin`). `Excludes` is thus not only what the history
variable records: it is strong enough for calls that never meet it to be atomic.
Hence `UnracedHandlesKeepPromise`: the invariant `HandleInv` holds of the shown table
while nothing has raced (`ShownInv`), so that the step lemmas of
`MiniGCHandlesProofs` apply to it, and raced calls aside the threads implement
`HandleSpace`.

**Frozen queries.** `QueryInv` extends `FrozenInv` to a query under way. A segment
that kept its slot while the query ran is in the query's count and is either
ahead of it, in its hands, or does not hold the address (`KeptPassed`). If nothing
disturbed the query, it kept every segment and counted them all (`Calm`), so that
both properties are statements about the same invariant.

**Hosts.** What a process does to the heap is a behaviour of `MiniGCHeap` with the EEs
as contexts (`HostsShareOneHeap`), so that every theorem of `MiniGCHeapProofs`
holds across hosts: the module instantiates that one and carries `HeapInv` over.
`RootsAlwaysMapped` adds that handles hold null or a heap object
(`HandlesHoldObjects`), which no host's end undoes, and that the heap never drops
an object; the segment of an object is mapped by `HeapInv`. `RunningEEIsTold` needs
`ToldInv`: before the heap is set up nobody was told anything, afterwards a
running EE was told what the heap told last or nothing, and the EE that set the
heap up was told. The static `gcToCLR` is what could go wrong there, so that
`HostInv` says whose it is.

The handle table is shared as well, and there the single-host invariant fails:
`DestroyedHoldNothing` is wrong for handles that a host left behind. What survives is
`Agree` (types, and that owned handles read as wanted), which the step lemmas of
`MiniGCHandlesProofs` preserve on its own; the conclusion `DestroyedHoldNothing` is an
extra there. From it follow `HostsReadTheirHandles`, `NoHostLosesRoots` (the leftovers
add roots and never hide one) and `HostsNeverReissueHandles`: all hosts together
implement `HandleSpace`.

**Marking.** `MarkInv` says that loaded types are what the EE lays out for some shape,
and that an object's first word is one of their addresses but for bit 0. The
descriptor's readers and writers compute on runs of references, which are
numbered by counting how many start below (`Numbered`, `RunNumbers`).
`WordsLaidOut`, `SeriesRead` and `ItemsRead` then say what each reader finds in each of
the descriptor's two forms, and `SizeAdjusted` that adding the object's size
undoes the subtraction of the base size whether or not either wraps around.
`PointersAlwaysExact` is about loops that add up: `SumCounts` shows that a sum over
disjoint parts' sizes is the size of their union. There is no induction in it: the
union's size *is* a function with the recursive equation of the sum, and two
such functions cannot differ, since there would be a smallest set where they do.
Assumed are words of 4 or 8 bytes and sizes that the 32, 16 and 32 bits of
`m_baseSize`, `m_componentSize` and `m_dwLength` can express.

**Addresses.** `HeapPointersAlwaysExact` follows from `HeapInv` because segments tile the
arena: an address between base and frontier lies in the segment of its quotient by
`GrowthSize`.


**Only model-checked:** `AnswersGoWrong`, whose steps compare the answers one method
at a time, which says more by enumeration than by proof; the liveness properties `AllocReturns` and
`WaitReturns`, of which the safety halves above are theorems, since liveness under
fairness is beyond the prover. All other properties of the passing runs are theorems.
The three violations are TLC's.

## 5. Not modelled, and why

- Cards: written by code the runtime generates, read by nothing in MiniGC.
- The contents of objects and the root scan: the root function prints. What the
  roots are is `ScanHandles`; stack roots are the EE's.
- `IsValidSegmentSize`, `IsValidGen0MaxSize`, `GetValidSegmentSize`,
  `GetGenerationBudget`, `GetNumberOfFinalizable`, `IsThreadUsingAllocationContextHeap`
  and the stubs that neither answer nor are told anything the EE can ask for again:
  there is nothing their answers could disagree with.
- The walk of `MarkObjectTransitively` over an object's references: the code never
  enters it (section 2).
- A failing `MiniGCFreePages`: every caller ignores its result.
- Hosts that run at the same time in one process: the runtime allows one.
- Handle calls racing with `Shutdown` of the store: the EE shuts down when its
  threads have stopped.
- The vendored headers beside `gcdesc.h` and the interface: types, macros and
  platform shims. `gcinterface.dac.h` describes structures for a debugger that
  MiniGC does not fill.

## 6. What is left

Every component that keeps state is modelled, and of the stubs those listed above are
not. What a further effort
could add: which races on `segments[]` and the published
range leave `IsHeapPointer` exact, and a model of the marking that walks several
objects (`MarkObjectTransitively` is not called today).
