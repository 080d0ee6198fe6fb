--------------------------- MODULE ObjectMarking ---------------------------
(***************************************************************************)
(* Objects, their MethodTables and the mark bit in between                 *)
(* (MiniGCHeap.cpp:61-182, 585-648).  The EE loads types, with the         *)
(* descriptor gcdesc.h defines, and allocates objects; MiniGC marks them.  *)
(*                                                                         *)
(* A type's MethodTable and an object's first word are addresses, for the  *)
(* mark is bit 0 of the one stored in the other.  The names of the flags   *)
(* are those of MTFlag_.  asked is history: how often                      *)
(* MarkObjectTransitively asked the EE for an object's loader allocator    *)
(* since its mark was last cleared.                                        *)
(***************************************************************************)
EXTENDS GCDesc, FiniteSets

CONSTANTS
  MethodTables,     \* addresses where the EE may put one
  Objects,
  Shapes,           \* layouts of the types the EE loads, see below
  Lengths           \* numbers of components of the arrays it allocates

(* Shapes have a base size, how many words a component has (0 for no       *)
(* array), and the offsets of references, in words: in the object, behind  *)
(* its MethodTable, or for an array in each component.                     *)
IsArray(s) == s.words > 0

DataStart == 2 * WordSize      \* behind the MethodTable and the length
HeaderSize == WordSize         \* ahead of the MethodTable, part of the size

(* A MethodTable is aligned, and objects are so many words long.  The      *)
(* widths of m_baseSize, m_componentSize and m_dwLength (32, 16 and 32     *)
(* bits) leave room to count an object's bytes in Objects.                 *)
ASSUME TableAssumption ==
  /\ \A mt \in MethodTables : mt \in Nat /\ mt % WordSize = 0
  /\ Lengths \subseteq Nat

ASSUME ShapeAssumption ==
  \A s \in Shapes :
    /\ s.baseSize \in Nat /\ s.baseSize % WordSize = 0 /\ s.words \in Nat
    /\ s.refs \subseteq IF IsArray(s) THEN 0..(s.words - 1)
                       ELSE 1..((s.baseSize - HeaderSize) \div WordSize - 1)
    /\ IsArray(s) => DataStart <= s.baseSize
    /\ \A n \in Lengths \cup {1} :
         s.baseSize + n * (s.words * WordSize) < SizeMax

VARIABLES
  type,       \* the types loaded so far, by the address of their MethodTable
  object,     \* the objects allocated: m_pMethTab and m_dwLength
  asked

vars == <<type, object, asked>>

-----------------------------------------------------------------------------
(* The EE's side.                                                          *)
RefsOf(s, n) ==
  IF IsArray(s)
    THEN {DataStart + (i * s.words + w) * WordSize : i \in 0..(n - 1), w \in s.refs}
    ELSE {w * WordSize : w \in s.refs}

(* Maximal runs of neighbouring references: where they start, the k-th of  *)
(* them, how long one is, and what follows it up to the next run or to that*)
(* of the next component.                                                  *)
RunStarts(words) == {w \in words : w - 1 \notin words}
NumRuns(words) == Cardinality(RunStarts(words))
Run(words, k) == CHOOSE w \in RunStarts(words) :
                   Cardinality({v \in RunStarts(words) : v < w}) = k - 1
RunLength(words, w) == Cardinality({v \in words : w <= v /\ w..v \subseteq words})

Skip(s, k) ==
  LET next == IF k = NumRuns(s.refs) THEN Run(s.refs, 1) + s.words
                                     ELSE Run(s.refs, k + 1)
  IN  next - Run(s.refs, k) - RunLength(s.refs, Run(s.refs, k))

(* Only a descriptor that a run of references alone cannot give is coded.  *)
IsCoded(s) == IsArray(s) /\ Cardinality(s.refs) < s.words

(* The words of a descriptor, from the MethodTable down.                   *)
Layout(size, words) ==
  [a \in {-WordSize * m : m \in 1..(size \div WordSize)} |-> words[(-a) \div WordSize]]

(* Init and SetSeriesSize: the first run comes highest.  Each series has a *)
(* start and a size.                                                       *)
SeriesDesc(n, series) ==
  Layout(ComputeSize(n),
         [m \in 1..(2 * n + 1) |->
            CASE m = 1 -> n
              [] m % 2 = 0 -> series[m \div 2].start
              [] OTHER -> series[m \div 2].stored])

(* InitValueClassSeries and SetSeriesValItem.                              *)
CodedDesc(s) ==
  LET n == NumRuns(s.refs) IN
  Layout(ComputeSizeRepeating(n),
         [m \in 1..(n + 2) |->
            CASE m = 1 -> Wrap(-n)
              [] m = 2 -> DataStart + Run(s.refs, 1) * WordSize
              [] OTHER -> [nptrs |-> RunLength(s.refs, Run(s.refs, m - 2)),
                           skip  |-> Skip(s, m - 2) * WordSize]])

(* An array of references has one series, with nothing beyond the base.    *)
Series(start, length, s) == [start |-> start, stored |-> StoredSize(length, s.baseSize)]

Desc(s) ==
  CASE s.refs = {} -> Layout(0, <<>>)
    [] s.refs # {} /\ IsCoded(s) -> CodedDesc(s)
    [] s.refs # {} /\ ~IsCoded(s) /\ IsArray(s) ->
         SeriesDesc(1, [k \in {1} |-> Series(DataStart, 0, s)])
    [] s.refs # {} /\ ~IsCoded(s) /\ ~IsArray(s) ->
         SeriesDesc(NumRuns(s.refs),
           [k \in 1..NumRuns(s.refs) |->
              LET w == Run(s.refs, k) IN
              Series(w * WordSize, RunLength(s.refs, w) * WordSize, s)])

-----------------------------------------------------------------------------
(* Object and MethodTable, read through a pointer to each.                 *)
GC_MARKED == 1
ContainsPointersFlag == 256
CollectibleFlag == 4096
HasComponentSizeFlag == 32768

Has(flags, flag) == (flags \div flag) % 2 = 1

RawGetMethodTable(o) == object[o].raw
GetNumComponents(o) == object[o].length

GetMethodTableUnmasked(o) == RawGetMethodTable(o)

GetMethodTable(o) == RawGetMethodTable(o) - (RawGetMethodTable(o) % 2)

IsMarked(o) == RawGetMethodTable(o) % 2 = GC_MARKED

(* m_flags read through a MethodTable*: one that carries the mark reads one*)
(* byte too far, the high byte of m_flags and the low byte of m_baseSize.  *)
FlagsAt(p) ==
  LET t == type[p - (p % 2)] IN
  IF p % 2 = 0 THEN t.flags ELSE t.flags \div 256 + (t.baseSize % 256) * 256

ContainsPointers(p) == Has(FlagsAt(p), ContainsPointersFlag)
Collectible(p) == Has(FlagsAt(p), CollectibleFlag)
HasComponentSize(p) == Has(FlagsAt(p), HasComponentSizeFlag)

(* The descriptor ends where the MethodTable begins.                       *)
GetCGCDescFromMT(mt) == type[mt].desc

GetTotalSize(o) ==
  LET mt == GetMethodTable(o) IN
  type[mt].baseSize +
    (IF HasComponentSize(mt) THEN GetNumComponents(o) * type[mt].componentSize ELSE 0)

(* CGCDesc::GetNumPointers, a loader allocator counted.                    *)
GetNumPointers(mt, objectSize, numComponents) ==
  (IF ContainsPointers(mt)
     THEN NumPointers(GetCGCDescFromMT(mt), objectSize, numComponents) ELSE 0)
    + (IF Collectible(mt) THEN 1 ELSE 0)

-----------------------------------------------------------------------------
Init ==
  /\ type = [mt \in {} |-> {}]
  /\ object = [o \in {} |-> {}]
  /\ asked = [o \in Objects |-> 0]

(* The EE loads a type and allocates an object of it.                      *)
TypeOf(s, collectible) ==
  [shape |-> s, baseSize |-> s.baseSize, desc |-> Desc(s),
   collectible |-> collectible, componentSize |-> s.words * WordSize,
   flags |-> (IF s.refs = {} THEN 0 ELSE ContainsPointersFlag)
             + (IF collectible THEN CollectibleFlag ELSE 0)
             + (IF IsArray(s) THEN HasComponentSizeFlag ELSE 0)]

LoadType(mt, s, collectible) ==
  /\ mt \notin DOMAIN type
  /\ type' = [m \in DOMAIN type \cup {mt} |->
               IF m = mt THEN TypeOf(s, collectible) ELSE type[m]]
  /\ UNCHANGED <<object, asked>>

AllocObject(o, mt, n) ==
  /\ o \notin DOMAIN object /\ mt \in DOMAIN type
  /\ IF IsArray(type[mt].shape) THEN n \in Lengths ELSE n = 0
  /\ object' = [p \in DOMAIN object \cup {o} |->
                 IF p = o THEN [raw |-> mt, length |-> n] ELSE object[p]]
  /\ UNCHANGED <<type, asked>>

SetMarkedNot(o) == UNCHANGED object

SetMarked(o) ==
  object' = [object EXCEPT ![o].raw = @ - (@ % 2) + GC_MARKED]

ClearMarked(o) ==
  /\ o \in DOMAIN object
  /\ object' = [object EXCEPT ![o].raw = GetMethodTable(o)]
  /\ asked' = [asked EXCEPT ![o] = 0]
  /\ UNCHANGED type

GetLoaderAllocatorObjectForGC(o) == asked' = [asked EXCEPT ![o] = @ + 1]

(* The MethodTable is read after the mark is set, through the raw pointer: *)
(* its flags are not the type's but what lies one byte further.  Behind    *)
(* ContainsPointers, read there too, the code would go through the object, *)
(* which writes nothing; it does not, for that bit is the lowest of an even*)
(* m_baseSize.                                                             *)
MarkObjectTransitively(o) ==
  /\ o \in DOMAIN object
  /\ IF IsMarked(o) THEN UNCHANGED vars
     ELSE /\ SetMarked(o)
          /\ IF Collectible(RawGetMethodTable(o)')
               THEN GetLoaderAllocatorObjectForGC(o) ELSE UNCHANGED asked
          /\ UNCHANGED type

Next ==
  \/ \E mt \in MethodTables, s \in Shapes, collectible \in BOOLEAN :
       LoadType(mt, s, collectible)
  \/ \E o \in Objects :
       \/ \E mt \in MethodTables, n \in Lengths \cup {0} : AllocObject(o, mt, n)
       \/ MarkObjectTransitively(o)
       \/ ClearMarked(o)

Spec == Init /\ [][Next]_vars

-----------------------------------------------------------------------------
(* The readers of a descriptor stay in the slot map that was reserved for  *)
(* it, down to its very start, and leave no word of it out                 *)
(* (gcdesc.h:133-148, 189-201, 246-257).                                   *)
WordsRead(desc) ==
  {-WordSize} \cup
  IF IsValueClassSeries(desc)
    THEN {GetHighestSeries + WordSize} \cup ItemsWalked(desc)
    ELSE UNION {{cur, cur + WordSize} : cur \in SeriesWalked(desc)}

SlotMapFits ==
  \A mt \in DOMAIN type : ContainsPointers(mt) =>
    LET desc == GetCGCDescFromMT(mt) IN
    /\ WordsRead(desc) = DOMAIN desc
    /\ GetStartOfGCData(desc) \in DOMAIN desc
    /\ \A a \in DOMAIN desc : GetStartOfGCData(desc) <= a

(* "Returns number of immediate pointers this object has" (gcdesc.h:203):  *)
(* of fields, of arrays of any length and of arrays of value classes, the  *)
(* loader allocator of a collectible type included.                        *)
NumPointersExact ==
  \A o \in DOMAIN object : LET t == type[GetMethodTable(o)] IN
    GetNumPointers(GetMethodTable(o), GetTotalSize(o), GetNumComponents(o)) =
      Cardinality(RefsOf(t.shape, GetNumComponents(o))) + (IF t.collectible THEN 1 ELSE 0)

(* Through any marking and clearing an object's MethodTable stays the same *)
(* (MiniGCHeap.cpp:80-109).                                                *)
MarksKeepMethodTable ==
  [][\A o \in DOMAIN object : GetMethodTable(o)' = GetMethodTable(o)]_vars

(* A marked object is done with: however often it is reached before its    *)
(* mark is cleared, the EE is asked about it once at most, and only objects*)
(* with the mark have been asked about (MiniGCHeap.cpp:597-611).           *)
MarkedOnce ==
  \A o \in Objects :
    asked[o] <= IF o \in DOMAIN object /\ IsMarked(o) THEN 1 ELSE 0
=============================================================================
