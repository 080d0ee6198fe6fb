------------------------ MODULE ObjectMarkingProofs ------------------------
(***************************************************************************)
(* Theorems about the marking of objects and the descriptors of types of   *)
(* every shape, by the addresses of their words.                           *)
(***************************************************************************)
EXTENDS ObjectMarking, FiniteSetTheorems, TLAPS

(* What was loaded and allocated.  The mark is all that is ever added to an*)
(* object's MethodTable, and only a marked object has been asked about.    *)
TypesLoaded ==
  /\ DOMAIN type \subseteq MethodTables
  /\ \A mt \in DOMAIN type : \E s \in Shapes, collectible \in BOOLEAN :
       type[mt] = TypeOf(s, collectible)

ObjectsAllocated ==
  /\ DOMAIN object \subseteq Objects
  /\ \A o \in DOMAIN object :
       /\ object[o] = [raw |-> object[o].raw, length |-> object[o].length]
       /\ object[o].raw \in Int /\ GetMethodTable(o) \in DOMAIN type
       /\ IF IsArray(type[GetMethodTable(o)].shape)
            THEN GetNumComponents(o) \in Lengths ELSE GetNumComponents(o) = 0

Asked ==
  /\ asked \in [Objects -> Nat]
  /\ MarkedOnce

MarkInv == TypesLoaded /\ ObjectsAllocated /\ Asked

(* A MethodTable's address has room for the mark.                          *)
LEMMA Aligned ==
  \A mt \in MethodTables : mt \in Int /\ mt % 2 = 0
<1> SUFFICES ASSUME NEW mt \in MethodTables PROVE mt \in Int /\ mt % 2 = 0
  OBVIOUS
<1>1. mt \in Nat /\ mt % WordSize = 0
  BY TableAssumption
<1>2. CASE WordSize = 4
  BY <1>1, <1>2
<1>3. CASE WordSize = 8
  BY <1>1, <1>3
<1> QED BY <1>2, <1>3, WordAssumption

LEMMA LoadTypeStep ==
  ASSUME MarkInv, NEW mt \in MethodTables, NEW s \in Shapes, NEW collectible \in BOOLEAN,
         LoadType(mt, s, collectible)
  PROVE  MarkInv' /\ \A o \in DOMAIN object : GetMethodTable(o)' = GetMethodTable(o)
<1>1. /\ mt \notin DOMAIN type /\ UNCHANGED <<object, asked>>
      /\ DOMAIN type' = DOMAIN type \cup {mt}
      /\ type'[mt] = TypeOf(s, collectible)
      /\ \A m \in DOMAIN type : type'[m] = type[m]
  BY DEF LoadType
<1>2. TypesLoaded'
  BY <1>1 DEF MarkInv, TypesLoaded, TypeOf
<1>3. ObjectsAllocated'
  BY <1>1 DEF MarkInv, ObjectsAllocated, GetMethodTable, RawGetMethodTable,
     GetNumComponents
<1>4. Asked'
  BY <1>1 DEF MarkInv, Asked, MarkedOnce, IsMarked, RawGetMethodTable
<1> QED BY <1>1, <1>2, <1>3, <1>4 DEF MarkInv, GetMethodTable, RawGetMethodTable

LEMMA AllocObjectStep ==
  ASSUME MarkInv, NEW o \in Objects, NEW mt \in MethodTables, NEW n \in Lengths \cup {0},
         AllocObject(o, mt, n)
  PROVE  MarkInv' /\ \A p \in DOMAIN object : GetMethodTable(p)' = GetMethodTable(p)
<1>1. /\ o \notin DOMAIN object /\ mt \in DOMAIN type
      /\ IF IsArray(type[mt].shape) THEN n \in Lengths ELSE n = 0
      /\ DOMAIN object' = DOMAIN object \cup {o}
      /\ object'[o] = [raw |-> mt, length |-> n]
      /\ \A p \in DOMAIN object : object'[p] = object[p]
      /\ UNCHANGED <<type, asked>>
  BY DEF AllocObject
<1>2. mt \in Int /\ mt % 2 = 0 /\ mt - (mt % 2) = mt
  BY Aligned
<1>3. \A p \in DOMAIN object : GetMethodTable(p)' = GetMethodTable(p)
  BY <1>1 DEF GetMethodTable, RawGetMethodTable
<1>4. GetMethodTable(o)' = mt /\ GetNumComponents(o)' = n
  BY <1>1, <1>2 DEF GetMethodTable, RawGetMethodTable, GetNumComponents
<1>5. TypesLoaded'
  BY <1>1 DEF MarkInv, TypesLoaded, TypeOf
<1>6. ObjectsAllocated'
  BY <1>1, <1>2, <1>3, <1>4
     DEF MarkInv, ObjectsAllocated, GetNumComponents
<1>7. Asked'
  BY <1>1, <1>2 DEF MarkInv, Asked, MarkedOnce, IsMarked, RawGetMethodTable, GC_MARKED
<1> QED BY <1>3, <1>5, <1>6, <1>7 DEF MarkInv

(* Setting and clearing the mark gives and takes the one bit.              *)
LEMMA MarkBit ==
  ASSUME NEW n \in Int
  PROVE  LET m == n - (n % 2) + GC_MARKED IN
         /\ m \in Int /\ m % 2 = 1 /\ m - (m % 2) = n - (n % 2)
         /\ n - (n % 2) \in Int /\ (n - (n % 2)) % 2 = 0
  BY DEF GC_MARKED

(* A step that only changes an object's mark.                              *)
LEMMA Remarked ==
  ASSUME MarkInv, NEW o \in DOMAIN object, NEW raw \in Int,
         raw - (raw % 2) = object[o].raw - (object[o].raw % 2),
         object' = [object EXCEPT ![o].raw = raw], UNCHANGED type
  PROVE  /\ TypesLoaded' /\ ObjectsAllocated' /\ object'[o].raw = raw
         /\ DOMAIN object' = DOMAIN object
         /\ \A p \in DOMAIN object : /\ GetMethodTable(p)' = GetMethodTable(p)
                                     /\ p # o => object'[p] = object[p]
<1>1. object[o] = [raw |-> object[o].raw, length |-> object[o].length]
  BY DEF MarkInv, ObjectsAllocated
<1>2. /\ DOMAIN object' = DOMAIN object
      /\ object'[o] = [raw |-> raw, length |-> object[o].length]
      /\ \A p \in DOMAIN object : p # o => object'[p] = object[p]
  BY <1>1
<1>3. \A p \in DOMAIN object : GetMethodTable(p)' = GetMethodTable(p)
  BY <1>2 DEF GetMethodTable, RawGetMethodTable
<1>4. TypesLoaded'
  BY DEF MarkInv, TypesLoaded, TypeOf
<1>5. ObjectsAllocated'
  BY <1>2, <1>3 DEF MarkInv, ObjectsAllocated, GetNumComponents
<1> QED BY <1>2, <1>3, <1>4, <1>5

LEMMA MarkStep ==
  ASSUME MarkInv, NEW o \in Objects, MarkObjectTransitively(o)
  PROVE  MarkInv' /\ \A p \in DOMAIN object : GetMethodTable(p)' = GetMethodTable(p)
<1>1. CASE IsMarked(o)
  <2>1. UNCHANGED vars
    BY <1>1 DEF MarkObjectTransitively
  <2> QED BY <2>1 DEF vars, MarkInv, TypesLoaded, TypeOf, ObjectsAllocated, Asked,
          MarkedOnce, GetMethodTable, RawGetMethodTable, GetNumComponents, IsMarked
<1>2. CASE ~IsMarked(o)
  <2> DEFINE raw == object[o].raw - (object[o].raw % 2) + GC_MARKED
  <2>1. /\ o \in DOMAIN object /\ UNCHANGED type
        /\ object' = [object EXCEPT ![o].raw = raw]
        /\ asked' = [asked EXCEPT ![o] = @ + 1] \/ UNCHANGED asked
    BY <1>2 DEF MarkObjectTransitively, SetMarked, GetLoaderAllocatorObjectForGC
  <2>2. object[o].raw \in Int
    BY <2>1 DEF MarkInv, ObjectsAllocated
  <2>3. /\ raw % 2 = 1 /\ raw \in Int
        /\ raw - (raw % 2) = object[o].raw - (object[o].raw % 2)
    BY <2>2, MarkBit
  <2> HIDE DEF raw
  <2>4. /\ TypesLoaded' /\ ObjectsAllocated' /\ object'[o].raw = raw
        /\ DOMAIN object' = DOMAIN object
        /\ \A p \in DOMAIN object : /\ GetMethodTable(p)' = GetMethodTable(p)
                                    /\ p # o => object'[p] = object[p]
    BY <2>1, <2>3, Remarked
  <2>5. asked[o] = 0
    BY <1>2, <2>1 DEF MarkInv, Asked, MarkedOnce
  <2>6. Asked'
    BY <2>1, <2>3, <2>4, <2>5
       DEF MarkInv, Asked, MarkedOnce, IsMarked, RawGetMethodTable, GC_MARKED
  <2> QED BY <2>4, <2>6 DEF MarkInv
<1> QED BY <1>1, <1>2

LEMMA ClearStep ==
  ASSUME MarkInv, NEW o \in Objects, ClearMarked(o)
  PROVE  MarkInv' /\ \A p \in DOMAIN object : GetMethodTable(p)' = GetMethodTable(p)
<1> DEFINE raw == object[o].raw - (object[o].raw % 2)
<1>1. /\ o \in DOMAIN object /\ UNCHANGED type
      /\ object' = [object EXCEPT ![o].raw = raw]
      /\ asked' = [asked EXCEPT ![o] = 0]
  BY DEF ClearMarked, GetMethodTable, RawGetMethodTable
<1>2. object[o].raw \in Int
  BY <1>1 DEF MarkInv, ObjectsAllocated
<1>3. raw \in Int /\ raw - (raw % 2) = object[o].raw - (object[o].raw % 2)
  BY <1>2, MarkBit
<1> HIDE DEF raw
<1>4. /\ TypesLoaded' /\ ObjectsAllocated' /\ DOMAIN object' = DOMAIN object
      /\ \A p \in DOMAIN object : /\ GetMethodTable(p)' = GetMethodTable(p)
                                  /\ p # o => object'[p] = object[p]
  BY <1>1, <1>3, Remarked
<1>5. Asked'
  BY <1>1, <1>4 DEF MarkInv, Asked, MarkedOnce, IsMarked, RawGetMethodTable
<1> QED BY <1>4, <1>5 DEF MarkInv

LEMMA MarkingStep ==
  MarkInv /\ [Next]_vars =>
    MarkInv' /\ \A o \in DOMAIN object : GetMethodTable(o)' = GetMethodTable(o)
<1> SUFFICES ASSUME MarkInv, [Next]_vars
             PROVE  /\ MarkInv'
                    /\ \A o \in DOMAIN object : GetMethodTable(o)' = GetMethodTable(o)
  OBVIOUS
<1>1. CASE UNCHANGED vars
  BY <1>1 DEF vars, MarkInv, TypesLoaded, TypeOf, ObjectsAllocated, Asked, MarkedOnce,
     GetMethodTable, RawGetMethodTable, GetNumComponents, IsMarked
<1> QED BY <1>1, LoadTypeStep, AllocObjectStep, MarkStep, ClearStep DEF Next

LEMMA Marking == Spec => []MarkInv
<1>1. Init => MarkInv
  BY DEF Init, MarkInv, TypesLoaded, ObjectsAllocated, Asked, MarkedOnce
<1> QED BY <1>1, MarkingStep, PTL DEF Spec

(* However objects are allocated, marked, reached again and cleared, the EE*)
(* is asked about one at most once per mark, and about none without        *)
(* (MiniGCHeap.cpp:597-611).                                               *)
THEOREM ObjectsMarkedOnce == Spec => []MarkedOnce
<1>1. MarkInv => MarkedOnce
  BY DEF MarkInv, Asked
<1> QED BY <1>1, Marking, PTL

(* The mark never gets into what the program takes for the MethodTable, at *)
(* whatever even address the EE put that (MiniGCHeap.cpp:80-109).          *)
THEOREM MethodTablesSurviveMarks == Spec => MarksKeepMethodTable
<1>1. MarkInv /\ [Next]_vars =>
        [\A o \in DOMAIN object : GetMethodTable(o)' = GetMethodTable(o)]_vars
  BY MarkingStep
<1> QED BY <1>1, Marking, PTL DEF Spec, MarksKeepMethodTable

-----------------------------------------------------------------------------
(* The runs of references.  In a finite set of numbers those below one are *)
(* fewer than those below a larger one.                                    *)
LEMMA Ranked ==
  ASSUME NEW S, S \subseteq Nat, IsFiniteSet(S), NEW v \in S, NEW w \in S, v < w
  PROVE  Cardinality({u \in S : u < v}) < Cardinality({u \in S : u < w})
<1> DEFINE below(x) == {u \in S : u < x}
<1>1. \A x \in S : IsFiniteSet(below(x)) /\ Cardinality(below(x)) \in Nat
  BY FS_Subset, FS_CardinalityType
<1>2. IsFiniteSet(below(v) \cup {v})
      /\ Cardinality(below(v) \cup {v}) = Cardinality(below(v)) + 1
  <2>1. v \notin below(v)
    OBVIOUS
  <2> QED BY <1>1, <2>1, FS_AddElement
<1>3. below(v) \cup {v} \in SUBSET below(w)
  <2>1. \A u \in S : u \in Nat
    OBVIOUS
  <2>2. \A u \in S : u < v => u < w
    BY <2>1
  <2> QED BY <2>2
<1>4. Cardinality(below(v)) + 1 <= Cardinality(below(w))
  BY <1>1, <1>2, <1>3, FS_Subset
<1> QED BY <1>1, <1>4

(* The k-th element of a finite set of numbers has k - 1 below it: to count*)
(* what is below is to number the set.                                     *)
LEMMA Numbered ==
  ASSUME NEW S, S \subseteq Nat, IsFiniteSet(S), NEW k \in 1..Cardinality(S)
  PROVE  \E w \in S : Cardinality({v \in S : v < w}) = k - 1
<1> DEFINE n == Cardinality(S)
           below(w) == {v \in S : v < w}
           rank == [w \in S |-> Cardinality(below(w)) + 1]
<1>1. n \in Nat
  BY FS_CardinalityType
<1>2. \A w \in S : IsFiniteSet(below(w)) /\ Cardinality(below(w)) \in Nat
  BY FS_Subset, FS_CardinalityType
<1>3. \A w \in S : Cardinality(below(w)) <= n - 1
  <2> SUFFICES ASSUME NEW w \in S PROVE Cardinality(below(w)) <= n - 1
    OBVIOUS
  <2>1. IsFiniteSet(S \ {w}) /\ Cardinality(S \ {w}) = n - 1
    BY FS_RemoveElement
  <2>2. below(w) \in SUBSET (S \ {w})
    OBVIOUS
  <2> QED BY <2>1, <2>2, FS_Subset
<1>4. ASSUME NEW v \in S, NEW w \in S, v < w PROVE rank[v] < rank[w]
  <2>1. Cardinality(below(v)) < Cardinality(below(w))
    BY <1>4, Ranked
  <2> QED BY <1>2, <2>1
<1>5. rank \in Injection(S, 1..n)
  <2>1. rank \in [S -> 1..n]
    BY <1>1, <1>2, <1>3
  <2>2. ASSUME NEW v \in S, NEW w \in S, rank[v] = rank[w] PROVE v = w
    <3>1. rank[v] \in Int /\ rank[w] \in Int /\ v \in Int /\ w \in Int
      BY <1>2
    <3>2. (v < w => rank[v] < rank[w]) /\ (w < v => rank[w] < rank[v])
      BY <1>4
    <3> HIDE DEF rank
    <3> QED BY <2>2, <3>1, <3>2
  <2> HIDE DEF rank
  <2> QED BY <2>1, <2>2 DEF Injection, IsInjective
<1>6. IsFiniteSet(1..n) /\ Cardinality(1..n) = n
  BY <1>1, FS_Interval
<1>7. rank \in Surjection(S, 1..n)
  <2> HIDE DEF rank
  <2> QED BY <1>5, <1>6, FS_Injection
<1>8. PICK w \in S : rank[w] = k
  <2> HIDE DEF rank
  <2> QED BY <1>7 DEF Surjection
<1>9. Cardinality(below(w)) = k - 1
  <2>1. Cardinality(below(w)) + 1 = k
    BY <1>8
  <2> QED BY <1>2, <2>1
<1> HIDE DEF rank
<1> QED BY <1>9

(* Hence a smallest one, which has none below.                             *)
LEMMA Least ==
  ASSUME NEW S, S \subseteq Nat, IsFiniteSet(S), S # {}
  PROVE  \E w \in S : \A v \in S : w <= v
<1>1. 1 \in 1..Cardinality(S)
  BY FS_EmptySet, FS_CardinalityType
<1>2. PICK w \in S : Cardinality({v \in S : v < w}) = 1 - 1
  BY <1>1, Numbered
<1>3. {v \in S : v < w} \in SUBSET S
  OBVIOUS
<1>4. {v \in S : v < w} = {}
  <2>1. IsFiniteSet({v \in S : v < w}) /\ Cardinality({v \in S : v < w}) = 0
    BY <1>2, <1>3, FS_Subset
  <2> QED BY <2>1, FS_EmptySet
<1>5. ASSUME NEW v \in S PROVE w <= v
  <2>1. ~(v < w)
    BY <1>4
  <2> QED BY <2>1
<1> QED BY <1>5

(* Runs are numbered in their order, and each run has a number.            *)
LEMMA RunNumbers ==
  ASSUME NEW words, words \subseteq Nat, IsFiniteSet(words), words # {}
  PROVE  /\ NumRuns(words) \in Nat /\ 1 <= NumRuns(words)
         /\ NumRuns(words) <= Cardinality(words)
         /\ \A k \in 1..NumRuns(words) :
              /\ Run(words, k) \in RunStarts(words) /\ Run(words, k) \in words
              /\ Run(words, k) \in Nat
         /\ \A j, k \in 1..NumRuns(words) : j < k => Run(words, j) < Run(words, k)
         /\ \A w \in RunStarts(words) : \E k \in 1..NumRuns(words) : Run(words, k) = w
<1> DEFINE starts == RunStarts(words)
           below(w) == {v \in starts : v < w}
<1>1. /\ IsFiniteSet(starts) /\ starts \subseteq words
      /\ NumRuns(words) \in Nat /\ NumRuns(words) <= Cardinality(words)
  <2>1. starts \in SUBSET words
    BY DEF RunStarts
  <2> QED BY <2>1, FS_Subset, FS_CardinalityType DEF NumRuns
<1>2. starts # {}
  <2>1. PICK w \in words : \A v \in words : w <= v
    BY Least
  <2>2. w - 1 \notin words
    BY <2>1
  <2> QED BY <2>2 DEF RunStarts
<1>3. 1 <= NumRuns(words)
  BY <1>1, <1>2, FS_EmptySet DEF NumRuns
<1>4. ASSUME NEW k \in 1..NumRuns(words)
      PROVE  Run(words, k) \in starts /\ Cardinality(below(Run(words, k))) = k - 1
  <2>1. \E w \in starts : Cardinality(below(w)) = k - 1
    BY <1>1, <1>4, Numbered DEF NumRuns
  <2> QED BY <2>1 DEF Run
<1>5. ASSUME NEW j \in 1..NumRuns(words), NEW k \in 1..NumRuns(words), j < k
      PROVE  Run(words, j) < Run(words, k)
  <2>1. /\ Run(words, j) \in Nat /\ Run(words, k) \in Nat
        /\ Cardinality(below(Run(words, j))) = j - 1
        /\ Cardinality(below(Run(words, k))) = k - 1
    BY <1>1, <1>4
  <2> SUFFICES ASSUME Run(words, k) <= Run(words, j) PROVE FALSE
    BY <2>1
  <2>2. below(Run(words, k)) \in SUBSET below(Run(words, j))
    <3>1. \A v \in starts : v \in Nat
      BY <1>1
    <3> QED BY <2>1, <3>1
  <2>3. IsFiniteSet(below(Run(words, j)))
    BY <1>1, FS_Subset
  <2>4. k - 1 <= j - 1
    BY <2>1, <2>2, <2>3, FS_Subset
  <2> QED BY <1>1, <1>5, <2>4
<1>6. \A k \in 1..NumRuns(words) : Run(words, k) \in starts
  BY <1>4
<1>7. \A j, k \in 1..NumRuns(words) : j < k => Run(words, j) < Run(words, k)
  BY <1>5
<1>8. ASSUME NEW w \in starts
      PROVE  \E k \in 1..NumRuns(words) : Run(words, k) = w
  <2> DEFINE k == Cardinality(below(w)) + 1
  <2>1. k \in 1..NumRuns(words)
    <3>1. IsFiniteSet(starts \ {w}) /\ Cardinality(starts \ {w}) = NumRuns(words) - 1
      BY <1>1, FS_RemoveElement DEF NumRuns
    <3>2. below(w) \in SUBSET (starts \ {w})
      <4>1. w \in Nat
        BY <1>1
      <4>2. ~(w < w)
        BY <4>1
      <4> QED BY <4>2
    <3>3. /\ IsFiniteSet(below(w)) /\ Cardinality(below(w)) \in Nat
          /\ Cardinality(below(w)) <= NumRuns(words) - 1
      BY <3>1, <3>2, FS_Subset, FS_CardinalityType
    <3> QED BY <1>1, <3>3
  <2>2. Run(words, k) \in starts /\ Cardinality(below(Run(words, k))) = k - 1
    BY <1>4, <2>1
  <2>3. ~(Run(words, k) < w) /\ ~(w < Run(words, k))
    <3>1. \A x, y \in starts : x < y => Cardinality(below(x)) < Cardinality(below(y))
      BY <1>1, Ranked
    <3>2. Cardinality(below(w)) = k - 1
      <4>1. below(w) \in SUBSET starts
        OBVIOUS
      <4>2. Cardinality(below(w)) \in Nat
        BY <1>1, <4>1, FS_Subset, FS_CardinalityType
      <4> QED BY <4>2
    <3> HIDE DEF k, below, starts
    <3>3. Cardinality(below(w)) = Cardinality(below(Run(words, k)))
      BY <2>2, <3>2
    <3> QED BY <2>1, <2>2, <3>1, <3>2, <3>3
  <2>4. Run(words, k) \in Nat /\ w \in Nat
    BY <1>1, <2>2
  <2> HIDE DEF k
  <2> QED BY <2>1, <2>3, <2>4
<1> HIDE DEF starts
<1> QED BY <1>1, <1>3, <1>6, <1>7, <1>8 DEF starts

(* A run goes on up to the first word that is no reference, and no further.*)
LEMMA RunEnds ==
  ASSUME NEW words, words \subseteq Nat, IsFiniteSet(words), NEW w \in words
  PROVE  /\ RunLength(words, w) \in Nat
         /\ \A v \in Nat : v > w /\ v \notin words => w + RunLength(words, w) <= v
<1> DEFINE run == {v \in words : w <= v /\ w..v \subseteq words}
<1>1. RunLength(words, w) \in Nat
  <2>1. run \in SUBSET words
    OBVIOUS
  <2> QED BY <2>1, FS_Subset, FS_CardinalityType DEF RunLength
<1>2. ASSUME NEW v \in Nat, v > w, v \notin words PROVE w + RunLength(words, w) <= v
  <2>1. run \in SUBSET (w..(v - 1))
    <3>1. \A x \in run : x \in Nat /\ w \in Nat /\ w <= x /\ ~(v \in w..x)
      BY <1>2
    <3>2. \A x \in run : x \in w..(v - 1)
      BY <1>2, <3>1
    <3> QED BY <3>2
  <2>2. IsFiniteSet(w..(v - 1)) /\ Cardinality(w..(v - 1)) = v - w
    <3>1. w \in Int /\ v - 1 \in Int /\ ~(w > v - 1) /\ (v - 1) - w + 1 = v - w
      BY <1>2
    <3> QED BY <3>1, FS_Interval
  <2>3. RunLength(words, w) <= v - w
    BY <2>1, <2>2, FS_Subset DEF RunLength
  <2> QED BY <1>1, <2>3
<1> QED BY <1>1, <1>2

(* Sums.  SumFunction is the value of a function on the subsets of its     *)
(* domain that takes some element off at a time.  That there is one needs  *)
(* no induction when it can be named: of disjoint sets' cardinalities it is*)
(* the cardinality of the union.  That there is no other follows from the  *)
(* smallest subset where one would differ.                                 *)
IsSum(f, S, sum) ==
  sum = [s \in SUBSET S |->
           IF s = {} THEN 0
           ELSE LET x == CHOOSE x \in s : TRUE IN f[x] + sum[s \ {x}]]

LEMMA SumDefined ==
  ASSUME NEW f, NEW total, IsSum(f, DOMAIN f, total)
  PROVE  \E sum : IsSum(f, DOMAIN f, sum) /\ SumFunction(f) = sum[DOMAIN f]
<1> DEFINE S == DOMAIN f
<1>1. PICK sum : sum = CHOOSE g : IsSum(f, S, g)
  OBVIOUS
<1>2. IsSum(f, S, sum)
  BY <1>1
<1>3. SumFunction(f) = sum[S]
  BY <1>1 DEF SumFunction, SumFunctionOnSet, FoldFunctionOnSet, MapThenFoldSet, IsSum
<1> QED BY <1>2, <1>3

(* Sizes of disjoint parts of a finite set add up to that of their union.  *)
LEMMA SumCounts ==
  ASSUME NEW words, IsFiniteSet(words), NEW f, IsFiniteSet(DOMAIN f), NEW part,
         \A x \in DOMAIN f : part[x] \subseteq words /\ f[x] = Cardinality(part[x]),
         \A x, y \in DOMAIN f : x # y => part[x] \cap part[y] = {}
  PROVE  SumFunction(f) = Cardinality(UNION {part[x] : x \in DOMAIN f})
<1> DEFINE S == DOMAIN f
           all(s) == UNION {part[x] : x \in s}
           total == [s \in SUBSET S |-> Cardinality(all(s))]
<1>1. \A s \in SUBSET S : IsFiniteSet(all(s)) /\ Cardinality(all(s)) \in Nat
  <2> SUFFICES ASSUME NEW s \in SUBSET S
               PROVE  IsFiniteSet(all(s)) /\ Cardinality(all(s)) \in Nat
    OBVIOUS
  <2>1. all(s) \in SUBSET words
    OBVIOUS
  <2> QED BY <2>1, FS_Subset, FS_CardinalityType
<1>2. total[{}] = 0
  <2>1. all({}) = {}
    OBVIOUS
  <2> QED BY <2>1, FS_EmptySet
<1>3. ASSUME NEW s \in SUBSET S, NEW x \in s
      PROVE  total[s] = f[x] + total[s \ {x}]
  <2>1. s \ {x} \in SUBSET S /\ all(s) = part[x] \cup all(s \ {x})
    OBVIOUS
  <2>2. part[x] \cap all(s \ {x}) = {}
    OBVIOUS
  <2>3. IsFiniteSet(part[x]) /\ f[x] = Cardinality(part[x])
    BY FS_Subset
  <2>4. IsFiniteSet(all(s \ {x}))
    BY <1>1, <2>1
  <2>5. Cardinality(part[x] \cup all(s \ {x}))
          = Cardinality(part[x]) + Cardinality(all(s \ {x})) - Cardinality({})
    BY <2>2, <2>3, <2>4, FS_Union
  <2>6. Cardinality({}) = 0 /\ Cardinality(part[x]) \in Nat
        /\ Cardinality(all(s \ {x})) \in Nat
    BY <2>3, <2>4, FS_EmptySet, FS_CardinalityType
  <2>7. total[s] = Cardinality(all(s)) /\ total[s \ {x}] = Cardinality(all(s \ {x}))
    BY <2>1
  <2> HIDE DEF total, all
  <2> QED BY <2>1, <2>3, <2>5, <2>6, <2>7
<1>4. \A s \in SUBSET S : total[s] \in Nat
  BY <1>1
<1>5. DOMAIN total = SUBSET S /\ total = [s \in SUBSET S |-> total[s]]
  OBVIOUS
<1>6. total[S] = Cardinality(UNION {part[x] : x \in DOMAIN f})
  OBVIOUS
<1> HIDE DEF total, all
<1>7. IsSum(f, S, total)
  <2>1. ASSUME NEW s \in SUBSET S, s # {}
        PROVE  total[s] = f[CHOOSE x \in s : TRUE] + total[s \ {CHOOSE x \in s : TRUE}]
    <3>1. (CHOOSE x \in s : TRUE) \in s
      BY <2>1
    <3> QED BY <1>3, <3>1
  <2>2. \A s \in SUBSET S :
          total[s] = IF s = {} THEN 0
                     ELSE f[CHOOSE x \in s : TRUE] + total[s \ {CHOOSE x \in s : TRUE}]
    BY <1>2, <2>1
  <2> QED BY <1>5, <2>2 DEF IsSum
<1>8. PICK sum : IsSum(f, S, sum) /\ SumFunction(f) = sum[S]
  BY <1>7, SumDefined
<1>9. \A s \in SUBSET S : sum[s] = total[s]
  <2> DEFINE wrong == {s \in SUBSET S : sum[s] # total[s]}
             sizes == {n \in 0..Cardinality(S) : \E s \in wrong : Cardinality(s) = n}
  <2>1. \A s \in SUBSET S : IsFiniteSet(s) /\ Cardinality(s) \in 0..Cardinality(S)
    <3> SUFFICES ASSUME NEW s \in SUBSET S
                 PROVE  IsFiniteSet(s) /\ Cardinality(s) \in 0..Cardinality(S)
      OBVIOUS
    <3>1. /\ IsFiniteSet(s) /\ Cardinality(s) <= Cardinality(S)
          /\ Cardinality(s) \in Nat /\ Cardinality(S) \in Nat
      BY FS_Subset, FS_CardinalityType
    <3> QED BY <3>1
  <2> SUFFICES ASSUME wrong # {} PROVE FALSE
    OBVIOUS
  <2>2. sizes # {} /\ sizes \subseteq Nat
    BY <2>1
  <2>3. IsFiniteSet(sizes)
    <3>1. Cardinality(S) \in Nat
      BY FS_CardinalityType
    <3>2. sizes \in SUBSET (0..Cardinality(S)) /\ IsFiniteSet(0..Cardinality(S))
      BY <3>1, FS_Interval
    <3> QED BY <3>2, FS_Subset
  <2>4. PICK n \in sizes : \A m \in sizes : n <= m
    BY <2>2, <2>3, Least
  <2>5. PICK s \in wrong : Cardinality(s) = n
    OBVIOUS
  <2>6. s # {}
    BY <1>2, <1>8 DEF IsSum
  <2>7. PICK x \in s : x = CHOOSE y \in s : TRUE
    BY <2>6
  <2>8. sum[s] = f[x] + sum[s \ {x}]
    BY <1>8, <2>5, <2>6, <2>7 DEF IsSum
  <2>9. s \ {x} \in SUBSET S /\ s \ {x} \notin wrong
    <3>1. Cardinality(s \ {x}) = n - 1 /\ n \in Nat
      BY <2>1, <2>5, FS_RemoveElement
    <3>2. n - 1 \notin sizes
      BY <2>2, <2>4, <3>1
    <3>3. s \ {x} \in SUBSET S
      OBVIOUS
    <3> QED BY <2>1, <3>1, <3>2, <3>3
  <2> QED BY <1>3, <2>5, <2>8, <2>9
<1> QED BY <1>6, <1>8, <1>9
(* The run that starts with a word.  Each reference is in one of them.     *)
RunFrom(words, w) == {v \in words : w <= v /\ w..v \subseteq words}

LEMMA RunsCover ==
  ASSUME NEW words, words \subseteq Nat, IsFiniteSet(words)
  PROVE  /\ \A v \in words : \E w \in RunStarts(words) : v \in RunFrom(words, w)
         /\ \A w, x \in RunStarts(words) :
              w # x => RunFrom(words, w) \cap RunFrom(words, x) = {}
<1>1. ASSUME NEW v \in words PROVE \E w \in RunStarts(words) : v \in RunFrom(words, w)
  <2> DEFINE back == {w \in words : w <= v /\ w..v \subseteq words}
  <2>1. v \in back
    <3>1. v \in Nat /\ \A x \in v..v : x = v
      OBVIOUS
    <3> QED BY <3>1
  <2>2. IsFiniteSet(back) /\ back \subseteq Nat
    <3>1. back \in SUBSET words
      OBVIOUS
    <3> QED BY <3>1, FS_Subset
  <2>3. PICK w \in back : \A x \in back : w <= x
    BY <2>1, <2>2, Least
  <2>4. w \in words /\ w \in Nat /\ v \in Nat /\ w <= v /\ w..v \subseteq words
    OBVIOUS
  <2>5. w - 1 \notin words
    <3> SUFFICES ASSUME w - 1 \in words PROVE FALSE
      OBVIOUS
    <3>1. \A x \in (w - 1)..v : x = w - 1 \/ x \in w..v
      BY <2>4
    <3>2. w - 1 \in Nat /\ w - 1 <= v /\ (w - 1)..v \subseteq words
      BY <2>4, <3>1
    <3>3. w - 1 \in back
      BY <3>2
    <3> QED BY <2>3, <2>4, <3>2, <3>3
  <2> QED BY <2>4, <2>5 DEF RunStarts, RunFrom
<1>2. ASSUME NEW w \in RunStarts(words), NEW x \in RunStarts(words), w < x,
             NEW v \in RunFrom(words, w) \cap RunFrom(words, x)
      PROVE  FALSE
  <2>1. /\ w \in Nat /\ x \in Nat /\ v \in Nat /\ x - 1 \notin words
        /\ x <= v /\ w..v \subseteq words
    BY DEF RunStarts, RunFrom
  <2>2. x - 1 \in w..v
    BY <1>2, <2>1
  <2> QED BY <2>1, <2>2
<1>3. \A w, x \in RunStarts(words) : w # x => w < x \/ x < w
  BY DEF RunStarts
<1> QED BY <1>1, <1>2, <1>3

(* What is stored with each run counts all references together.            *)
LEMMA RunsCounted ==
  ASSUME NEW words, words \subseteq Nat, IsFiniteSet(words), words # {},
         NEW at, NEW f, at \in Bijection(1..NumRuns(words), DOMAIN f),
         \A k \in 1..NumRuns(words) : f[at[k]] = RunLength(words, Run(words, k))
  PROVE  SumFunction(f) = Cardinality(words)
<1> DEFINE n == NumRuns(words)
           number == [x \in DOMAIN f |-> CHOOSE k \in 1..n : at[k] = x]
           part == [x \in DOMAIN f |-> RunFrom(words, Run(words, number[x]))]
<1>1. /\ n \in Nat /\ \A k \in 1..n : Run(words, k) \in RunStarts(words)
      /\ \A j, k \in 1..n : j < k => Run(words, j) < Run(words, k)
      /\ \A k \in 1..n : Run(words, k) \in Nat
  BY RunNumbers
<1>2. \A x \in DOMAIN f : number[x] \in 1..n /\ at[number[x]] = x
  BY DEF Bijection, Surjection
<1>3. IsFiniteSet(DOMAIN f)
  BY <1>1, FS_Interval, FS_Surjection DEF Bijection
<1>4. ASSUME NEW x \in DOMAIN f
      PROVE  part[x] \subseteq words /\ f[x] = Cardinality(part[x])
  <2>1. f[x] = RunLength(words, Run(words, number[x]))
    BY <1>2
  <2> QED BY <2>1 DEF RunFrom, RunLength
<1>5. ASSUME NEW x \in DOMAIN f, NEW y \in DOMAIN f, x # y
      PROVE  part[x] \cap part[y] = {}
  <2>1. number[x] \in 1..n /\ number[y] \in 1..n /\ number[x] # number[y]
    BY <1>2, <1>5
  <2>2. number[x] < number[y] \/ number[y] < number[x]
    <3> HIDE DEF number
    <3> QED BY <1>1, <2>1
  <2>3. Run(words, number[x]) # Run(words, number[y])
    <3> HIDE DEF number
    <3> QED BY <1>1, <2>1, <2>2
  <2> QED BY <1>1, <2>1, <2>3, RunsCover
<1>6. UNION {part[x] : x \in DOMAIN f} = words
  <2>1. ASSUME NEW v \in words PROVE \E x \in DOMAIN f : v \in part[x]
    <3>1. PICK w \in RunStarts(words) : v \in RunFrom(words, w)
      BY RunsCover
    <3>2. PICK k \in 1..n : Run(words, k) = w
      BY RunNumbers
    <3>3. at[k] \in DOMAIN f
      BY DEF Bijection, Surjection
    <3>4. number[at[k]] = k
      BY <1>2, <3>3 DEF Bijection, Injection, IsInjective
    <3>5. part[at[k]] = RunFrom(words, w)
      BY <3>2, <3>3, <3>4
    <3> HIDE DEF part
    <3> QED BY <3>1, <3>3, <3>5
  <2> HIDE DEF part
  <2> QED BY <1>4, <2>1
<1> HIDE DEF part
<1> QED BY <1>3, <1>4, <1>5, <1>6, SumCounts

(* The words of a descriptor, counted from the MethodTable down.           *)
LEMMA WordsLaidOut ==
  ASSUME NEW n \in Nat, NEW words
  PROVE  LET desc == Layout(WordSize * n, words) IN
         /\ DOMAIN desc = {-WordSize * m : m \in 1..n}
         /\ \A m \in 1..n : desc[-WordSize * m] = words[m]
<1>1. (WordSize * n) \div WordSize = n
  BY WordAssumption
<1>2. \A m \in 1..n : (-(-WordSize * m)) \div WordSize = m
  BY WordAssumption
<1> QED BY <1>1, <1>2 DEF Layout

(* A shape's references are numbers small enough to be counted in a size_t.*)
LEMMA RefsOfShape ==
  ASSUME NEW s \in Shapes
  PROVE  /\ s.baseSize \in Nat /\ s.words \in Nat /\ s.refs \subseteq Nat
         /\ s.baseSize < SizeMax
         /\ IsFiniteSet(s.refs) /\ Cardinality(s.refs) \in Nat
         /\ 2 * Cardinality(s.refs) < SizeMax
         /\ ~IsArray(s) =>
              \E last \in Nat : /\ last * WordSize <= s.baseSize /\ last \notin s.refs
                                /\ \A w \in s.refs : 0 < w /\ w < last
<1>1. /\ s.baseSize \in Nat /\ s.words \in Nat
      /\ s.refs \subseteq IF IsArray(s) THEN 0..(s.words - 1)
                          ELSE 1..((s.baseSize - HeaderSize) \div WordSize - 1)
      /\ s.baseSize + 1 * (s.words * WordSize) < SizeMax
  BY ShapeAssumption
<1>2. s.baseSize < SizeMax /\ 2 * s.words < SizeMax /\ SizeMax \in Nat
  BY <1>1, WordAssumption
<1>3. CASE IsArray(s)
  <2>1. s.refs \in SUBSET (0..(s.words - 1))
    BY <1>1, <1>3
  <2>2. IsFiniteSet(0..(s.words - 1)) /\ Cardinality(0..(s.words - 1)) <= s.words
    <3> DEFINE b == s.words - 1
    <3>1. 0 \in Int /\ b \in Int /\ b - 0 + 1 = s.words
      BY <1>1
    <3>2. IsFiniteSet(0..b) /\ Cardinality(0..b) = IF 0 > b THEN 0 ELSE b - 0 + 1
      BY <3>1, FS_Interval
    <3> QED BY <1>1, <3>1, <3>2
  <2>3. /\ IsFiniteSet(s.refs) /\ Cardinality(s.refs) \in Nat
        /\ Cardinality(s.refs) <= s.words
    BY <1>1, <2>1, <2>2, FS_Subset, FS_CardinalityType
  <2> QED BY <1>1, <1>2, <1>3, <2>1, <2>3
<1>4. CASE ~IsArray(s)
  <2> DEFINE last == (s.baseSize - WordSize) \div WordSize
  <2>1. s.refs \in SUBSET (1..(last - 1))
    BY <1>1, <1>4 DEF HeaderSize
  <2>2. last \in Int /\ last * WordSize <= s.baseSize
    BY <1>1, WordAssumption
  <2> HIDE DEF last
  <2>3. last \notin s.refs /\ \A w \in s.refs : 0 < w /\ w < last /\ w \in Nat
    BY <2>1, <2>2
  <2>4. IsFiniteSet(1..(last - 1))
        /\ Cardinality(1..(last - 1)) = IF 1 > last - 1 THEN 0 ELSE last - 1
    <3>1. 1 \in Int /\ last - 1 \in Int /\ (last - 1) - 1 + 1 = last - 1
      BY <2>2
    <3> QED BY <3>1, FS_Interval
  <2>5. /\ IsFiniteSet(s.refs) /\ Cardinality(s.refs) \in Nat
        /\ Cardinality(s.refs) <= Cardinality(1..(last - 1))
    BY <2>1, <2>4, FS_Subset, FS_CardinalityType
  <2>6. 2 * Cardinality(s.refs) < SizeMax
    BY <1>1, <1>2, <2>2, <2>4, <2>5, WordAssumption
  <2>7. last \in Nat \/ s.refs = {}
    BY <2>2, <2>3
  <2>8. \E m \in Nat : /\ m * WordSize <= s.baseSize /\ m \notin s.refs
                       /\ \A w \in s.refs : 0 < w /\ w < m
    <3>1. CASE last \in Nat
      BY <2>2, <2>3, <3>1
    <3>2. CASE s.refs = {}
      <4>1. 0 \in Nat /\ 0 * WordSize <= s.baseSize
        BY <1>1, WordAssumption
      <4> QED BY <3>2, <4>1
    <3> QED BY <2>7, <3>1, <3>2
  <2> QED BY <1>1, <1>2, <1>4, <2>3, <2>5, <2>6, <2>8
<1> QED BY <1>3, <1>4

(* A descriptor of n series, and one of an array of value classes with n   *)
(* runs, as their readers find it.                                         *)
LEMMA SeriesRead ==
  ASSUME NEW n \in Nat, 1 <= n, 2 * n < SizeMax, NEW series
  PROVE  LET desc == SeriesDesc(n, series) IN
         /\ DOMAIN desc = {-WordSize * m : m \in 1..(2 * n + 1)}
         /\ GetNumSeries(desc) = n /\ ~IsValueClassSeries(desc)
         /\ GetStartOfGCData(desc) = -WordSize * (2 * n + 1)
         /\ SeriesWalked(desc) = {-WordSize * (2 * k + 1) : k \in 1..n}
         /\ \A k \in 1..n : /\ desc[-WordSize * (2 * k + 1)] = series[k].stored
                            /\ desc[-WordSize * (2 * k + 1) + WordSize] = series[k].start
<1> DEFINE words == [m \in 1..(2 * n + 1) |->
                       CASE m = 1 -> n
                         [] m % 2 = 0 -> series[m \div 2].start
                         [] OTHER -> series[m \div 2].stored]
<1>1. PICK desc : desc = SeriesDesc(n, series)
  OBVIOUS
<1>2. ComputeSize(n) = WordSize * (2 * n + 1)
  BY WordAssumption DEF ComputeSize, SeriesBytes
<1>3. desc = Layout(WordSize * (2 * n + 1), words)
  BY <1>1, <1>2 DEF SeriesDesc
<1>4. /\ DOMAIN desc = {-WordSize * m : m \in 1..(2 * n + 1)}
      /\ \A m \in 1..(2 * n + 1) : desc[-WordSize * m] = words[m]
  <2>1. 2 * n + 1 \in Nat
    OBVIOUS
  <2> HIDE DEF words
  <2> QED BY <1>3, <2>1, WordsLaidOut
<1>5. desc[-WordSize] = n
  <2>1. desc[-WordSize * 1] = n /\ -WordSize * 1 = -WordSize
    BY <1>4, WordAssumption
  <2> QED BY <2>1
<1>6. GetNumSeries(desc) = n /\ ~IsValueClassSeries(desc)
  BY <1>5 DEF GetNumSeries, IsValueClassSeries, Signed
<1>7. GetStartOfGCData(desc) = -WordSize * (2 * n + 1)
  BY <1>2, <1>6, WordAssumption DEF GetStartOfGCData, GetSize
<1>8. ASSUME NEW k \in 1..n
      PROVE  /\ desc[-WordSize * (2 * k + 1)] = series[k].stored
             /\ desc[-WordSize * (2 * k + 1) + WordSize] = series[k].start
  <2>1. /\ 2 * k \in 1..(2 * n + 1) /\ 2 * k + 1 \in 1..(2 * n + 1)
        /\ (2 * k) % 2 = 0 /\ (2 * k) \div 2 = k /\ 2 * k # 1
        /\ (2 * k + 1) % 2 # 0 /\ (2 * k + 1) \div 2 = k /\ 2 * k + 1 # 1
        /\ -WordSize * (2 * k + 1) + WordSize = -WordSize * (2 * k)
    BY WordAssumption
  <2>2. words[2 * k] = series[k].start
    BY <2>1
  <2>3. words[2 * k + 1] = series[k].stored
    BY <2>1
  <2> HIDE DEF words
  <2> QED BY <1>4, <2>1, <2>2, <2>3
<1>9. SeriesWalked(desc) = {-WordSize * (2 * k + 1) : k \in 1..n}
  <2>1. ((GetHighestSeries - GetLowestSeries(desc)) \div SeriesBytes) = n - 1
    BY <1>2, <1>6, WordAssumption DEF GetHighestSeries, GetLowestSeries, SeriesBytes
  <2>2. \A k \in Int : GetHighestSeries - k * SeriesBytes = -WordSize * (2 * (k + 1) + 1)
    BY WordAssumption DEF GetHighestSeries, SeriesBytes
  <2>3. GetHighestSeries = -WordSize * (2 * 1 + 1)
    BY WordAssumption DEF GetHighestSeries, SeriesBytes
  <2>4. ASSUME NEW a \in SeriesWalked(desc)
        PROVE  \E k \in 1..n : a = -WordSize * (2 * k + 1)
    <3>1. CASE a = GetHighestSeries
      BY <2>3, <3>1
    <3>2. ASSUME NEW k \in 1..(n - 1), a = GetHighestSeries - k * SeriesBytes
          PROVE  \E j \in 1..n : a = -WordSize * (2 * j + 1)
      <4>1. k + 1 \in 1..n /\ a = -WordSize * (2 * (k + 1) + 1)
        BY <2>2, <3>2
      <4> QED BY <4>1
    <3> QED BY <2>1, <2>4, <3>1, <3>2 DEF SeriesWalked
  <2>5. ASSUME NEW k \in 1..n
        PROVE  -WordSize * (2 * k + 1) \in SeriesWalked(desc)
    <3>1. CASE k = 1
      BY <2>3, <3>1 DEF SeriesWalked
    <3>2. CASE k # 1
      <4>1. k - 1 \in 1..(n - 1) /\ (k - 1) + 1 = k
        BY <3>2
      <4>2. GetHighestSeries - (k - 1) * SeriesBytes = -WordSize * (2 * k + 1)
        BY <2>2, <4>1
      <4> QED BY <2>1, <4>1, <4>2 DEF SeriesWalked
    <3> QED BY <3>1, <3>2
  <2> QED BY <2>4, <2>5
<1> HIDE DEF words
<1> QED BY <1>1, <1>4, <1>6, <1>7, <1>8, <1>9

LEMMA ItemsRead ==
  ASSUME NEW s, NumRuns(s.refs) \in Nat, 1 <= NumRuns(s.refs),
         2 * NumRuns(s.refs) < SizeMax
  PROVE  LET desc == CodedDesc(s)  n == NumRuns(s.refs) IN
         /\ DOMAIN desc = {-WordSize * m : m \in 1..(n + 2)}
         /\ GetNumSeries(desc) = -n /\ IsValueClassSeries(desc)
         /\ GetStartOfGCData(desc) = -WordSize * (n + 2)
         /\ ItemsWalked(desc) = {-WordSize * m : m \in 3..(n + 2)}
         /\ \A k \in 1..n : desc[-WordSize * (k + 2)].nptrs =
                             RunLength(s.refs, Run(s.refs, k))
<1> DEFINE n == NumRuns(s.refs)
           words == [m \in 1..(n + 2) |->
                       CASE m = 1 -> Wrap(-n)
                         [] m = 2 -> DataStart + Run(s.refs, 1) * WordSize
                         [] OTHER -> [nptrs |-> RunLength(s.refs, Run(s.refs, m - 2)),
                                      skip  |-> Skip(s, m - 2) * WordSize]]
<1>1. PICK desc : desc = CodedDesc(s)
  OBVIOUS
<1>2. ComputeSizeRepeating(n) = WordSize * (n + 2)
  BY WordAssumption DEF ComputeSizeRepeating, SeriesBytes
<1>3. desc = Layout(WordSize * (n + 2), words)
  BY <1>1, <1>2 DEF CodedDesc
<1>4. /\ DOMAIN desc = {-WordSize * m : m \in 1..(n + 2)}
      /\ \A m \in 1..(n + 2) : desc[-WordSize * m] = words[m]
  <2>1. n + 2 \in Nat
    OBVIOUS
  <2> HIDE DEF words, n
  <2> QED BY <1>3, <2>1, WordsLaidOut
<1>5. desc[-WordSize] = SizeMax - n
  <2>1. 1 \in 1..(n + 2) /\ words[1] = Wrap(-n)
    OBVIOUS
  <2>2. Wrap(-n) = SizeMax - n
    BY WordAssumption DEF Wrap
  <2>3. -WordSize * 1 = -WordSize
    BY WordAssumption
  <2> HIDE DEF words, n
  <2> QED BY <1>4, <2>1, <2>2, <2>3
<1>6. GetNumSeries(desc) = -n /\ IsValueClassSeries(desc)
  BY <1>5, WordAssumption DEF GetNumSeries, IsValueClassSeries, Signed
<1>7. GetStartOfGCData(desc) = -WordSize * (n + 2)
  BY <1>2, <1>6, WordAssumption DEF GetStartOfGCData, GetSize
<1>8. ItemsWalked(desc) = {-WordSize * m : m \in 3..(n + 2)}
  <2>1. \A i \in Int : GetHighestSeries + i * WordSize = -WordSize * (3 - i)
    BY WordAssumption DEF GetHighestSeries, SeriesBytes
  <2>2. ItemsWalked(desc) = {-WordSize * (3 - i) : i \in (-n + 1)..0}
    BY <1>6, <2>1 DEF ItemsWalked
  <2>3. \A m \in 3..(n + 2) : 3 - m \in (-n + 1)..0 /\ 3 - (3 - m) = m
    OBVIOUS
  <2>4. \A i \in (-n + 1)..0 : 3 - i \in 3..(n + 2)
    OBVIOUS
  <2> HIDE DEF n
  <2> QED BY <2>2, <2>3, <2>4
<1>9. ASSUME NEW k \in 1..n
      PROVE  desc[-WordSize * (k + 2)].nptrs = RunLength(s.refs, Run(s.refs, k))
  <2>1. k + 2 \in 1..(n + 2) /\ k + 2 # 1 /\ k + 2 # 2 /\ (k + 2) - 2 = k
    OBVIOUS
  <2>2. words[k + 2].nptrs = RunLength(s.refs, Run(s.refs, k))
    BY <2>1
  <2> HIDE DEF words, n
  <2> QED BY <1>4, <2>1, <2>2
<1> HIDE DEF words
<1> QED BY <1>1, <1>4, <1>6, <1>7, <1>8, <1>9

(* What the loaded types read as.                                          *)
LEMMA TypeRead ==
  ASSUME MarkInv, NEW mt \in DOMAIN type
  PROVE  \E s \in Shapes, collectible \in BOOLEAN :
           /\ type[mt].shape = s /\ type[mt].baseSize = s.baseSize
           /\ type[mt].componentSize = s.words * WordSize
           /\ type[mt].collectible = collectible
           /\ GetCGCDescFromMT(mt) = Desc(s)
           /\ ContainsPointers(mt) <=> s.refs # {}
           /\ HasComponentSize(mt) <=> IsArray(s)
           /\ Collectible(mt) <=> collectible
<1>1. PICK s \in Shapes, collectible \in BOOLEAN : type[mt] = TypeOf(s, collectible)
  BY DEF MarkInv, TypesLoaded
<1>2. FlagsAt(mt) = type[mt].flags
  BY Aligned DEF MarkInv, TypesLoaded, FlagsAt
<1>3. type[mt].flags = (IF s.refs = {} THEN 0 ELSE 256)
                       + (IF collectible THEN 4096 ELSE 0)
                       + (IF IsArray(s) THEN 32768 ELSE 0)
  BY <1>1 DEF TypeOf, ContainsPointersFlag, CollectibleFlag, HasComponentSizeFlag
<1>4. ContainsPointers(mt) <=> s.refs # {}
  BY <1>2, <1>3 DEF ContainsPointers, Has, ContainsPointersFlag
<1>5. HasComponentSize(mt) <=> IsArray(s)
  BY <1>2, <1>3 DEF HasComponentSize, Has, HasComponentSizeFlag
<1>6. Collectible(mt) <=> collectible
  BY <1>2, <1>3 DEF Collectible, Has, CollectibleFlag
<1> QED BY <1>1, <1>4, <1>5, <1>6 DEF TypeOf, GetCGCDescFromMT

LEMMA DescOfShape ==
  ASSUME NEW s \in Shapes, s.refs # {}
  PROVE  /\ NumRuns(s.refs) \in Nat /\ 1 <= NumRuns(s.refs)
         /\ 2 * NumRuns(s.refs) < SizeMax
         /\ IF IsCoded(s) THEN Desc(s) = CodedDesc(s)
            ELSE LET n == IF IsArray(s) THEN 1 ELSE NumRuns(s.refs) IN
                 \E series :
                   /\ Desc(s) = SeriesDesc(n, series)
                   /\ \A k \in 1..n : LET w == Run(s.refs, k) IN
                        series[k] = IF IsArray(s) THEN Series(DataStart, 0, s)
                                    ELSE Series(w * WordSize,
                                                RunLength(s.refs, w) * WordSize, s)
<1> DEFINE n == NumRuns(s.refs)
           fields == [k \in 1..n |->
                        LET w == Run(s.refs, k) IN
                        Series(w * WordSize, RunLength(s.refs, w) * WordSize, s)]
           elements == [k \in {1} |-> Series(DataStart, 0, s)]
<1>1. n \in Nat /\ 1 <= n /\ 2 * n < SizeMax
  BY RefsOfShape, RunNumbers, WordAssumption
<1>2. CASE IsCoded(s)
  BY <1>1, <1>2 DEF Desc
<1>3. CASE ~IsCoded(s) /\ IsArray(s)
  <2>1. Desc(s) = SeriesDesc(1, elements)
    BY <1>3 DEF Desc
  <2>2. \A k \in 1..1 : elements[k] = Series(DataStart, 0, s)
    OBVIOUS
  <2> HIDE DEF elements
  <2> QED BY <1>1, <1>3, <2>1, <2>2
<1>4. CASE ~IsCoded(s) /\ ~IsArray(s)
  <2>1. Desc(s) = SeriesDesc(n, fields)
    BY <1>4 DEF Desc
  <2>2. \A k \in 1..n : LET w == Run(s.refs, k) IN
          fields[k] = Series(w * WordSize, RunLength(s.refs, w) * WordSize, s)
    OBVIOUS
  <2> HIDE DEF fields
  <2> QED BY <1>1, <1>4, <2>1, <2>2
<1> QED BY <1>2, <1>3, <1>4

LEMMA WordsAllRead ==
  ASSUME NEW s \in Shapes, s.refs # {}
  PROVE  LET desc == Desc(s) IN
         /\ WordsRead(desc) = DOMAIN desc
         /\ GetStartOfGCData(desc) \in DOMAIN desc
         /\ \A a \in DOMAIN desc : GetStartOfGCData(desc) <= a
<1>1. PICK desc : desc = Desc(s)
  OBVIOUS
<1>2. CASE IsCoded(s)
  <2> DEFINE n == NumRuns(s.refs)
  <2>1. n \in Nat /\ 1 <= n /\ desc = CodedDesc(s) /\ 2 * n < SizeMax
    BY <1>1, <1>2, DescOfShape
  <2>2. /\ DOMAIN desc = {-WordSize * m : m \in 1..(n + 2)}
        /\ IsValueClassSeries(desc)
        /\ GetStartOfGCData(desc) = -WordSize * (n + 2)
        /\ ItemsWalked(desc) = {-WordSize * m : m \in 3..(n + 2)}
    BY <2>1, ItemsRead
  <2> HIDE DEF n
  <2>3. WordsRead(desc) = {-WordSize * m : m \in 1..(n + 2)}
    <3>1. WordsRead(desc) = {-WordSize * 1} \cup {-WordSize * 2}
                            \cup {-WordSize * m : m \in 3..(n + 2)}
      BY <2>2, WordAssumption DEF WordsRead, GetHighestSeries, SeriesBytes
    <3>2. \A m : m \in 1..(n + 2) <=> m = 1 \/ m = 2 \/ m \in 3..(n + 2)
      BY <2>1
    <3> QED BY <3>1, <3>2
  <2>4. n + 2 \in 1..(n + 2)
    BY <2>1
  <2>5. \A m \in 1..(n + 2) : -WordSize * (n + 2) <= -WordSize * m
    BY <2>1, WordAssumption
  <2> QED BY <1>1, <2>2, <2>3, <2>4, <2>5
<1>3. CASE ~IsCoded(s)
  <2> DEFINE n == IF IsArray(s) THEN 1 ELSE NumRuns(s.refs)
  <2>1. PICK series : desc = SeriesDesc(n, series)
    BY <1>1, <1>3, DescOfShape
  <2>2. n \in Nat /\ 1 <= n /\ 2 * n < SizeMax
    <3>1. /\ NumRuns(s.refs) \in Nat /\ 1 <= NumRuns(s.refs)
          /\ 2 * NumRuns(s.refs) < SizeMax /\ SizeMax \in Nat
      BY DescOfShape, WordAssumption
    <3> QED BY <3>1
  <2> HIDE DEF n
  <2>3. /\ DOMAIN desc = {-WordSize * m : m \in 1..(2 * n + 1)}
        /\ ~IsValueClassSeries(desc)
        /\ GetStartOfGCData(desc) = -WordSize * (2 * n + 1)
        /\ SeriesWalked(desc) = {-WordSize * (2 * k + 1) : k \in 1..n}
    BY <2>1, <2>2, SeriesRead
  <2>4. WordsRead(desc) = {-WordSize * m : m \in 1..(2 * n + 1)}
    <3>1. WordsRead(desc) = {-WordSize} \cup
            UNION {{cur, cur + WordSize} : cur \in SeriesWalked(desc)}
      BY <2>3 DEF WordsRead
    <3>2. \A k \in Int : -WordSize * (2 * k + 1) + WordSize = -WordSize * (2 * k)
      BY WordAssumption
    <3>3. ASSUME NEW a \in WordsRead(desc)
          PROVE  \E m \in 1..(2 * n + 1) : a = -WordSize * m
      <4>1. CASE a = -WordSize
        <5>1. 1 \in 1..(2 * n + 1) /\ a = -WordSize * 1
          BY <2>2, <4>1, WordAssumption
        <5> QED BY <5>1
      <4>2. ASSUME NEW k \in 1..n,
                   a \in {-WordSize * (2 * k + 1), -WordSize * (2 * k + 1) + WordSize}
            PROVE  \E m \in 1..(2 * n + 1) : a = -WordSize * m
        <5>1. 2 * k \in 1..(2 * n + 1) /\ 2 * k + 1 \in 1..(2 * n + 1)
          BY <2>2
        <5>2. a = -WordSize * (2 * k) \/ a = -WordSize * (2 * k + 1)
          BY <3>2, <4>2
        <5> QED BY <5>1, <5>2
      <4> QED BY <2>3, <3>1, <3>3, <4>1, <4>2
    <3>4. ASSUME NEW m \in 1..(2 * n + 1) PROVE -WordSize * m \in WordsRead(desc)
      <4>1. CASE m = 1
        <5>1. -WordSize * m = -WordSize
          BY <4>1, WordAssumption
        <5> QED BY <3>1, <5>1
      <4>2. CASE m # 1
        <5>1. m \div 2 \in 1..n /\ (m = 2 * (m \div 2) \/ m = 2 * (m \div 2) + 1)
          BY <2>2, <4>2
        <5>2. PICK k \in 1..n : m = 2 * k \/ m = 2 * k + 1
          BY <5>1
        <5>3. \/ -WordSize * m = -WordSize * (2 * k + 1)
              \/ -WordSize * m = -WordSize * (2 * k + 1) + WordSize
          BY <3>2, <5>2
        <5>4. -WordSize * (2 * k + 1) \in SeriesWalked(desc)
          BY <2>3
        <5> QED BY <3>1, <5>3, <5>4
      <4> QED BY <4>1, <4>2
    <3> QED BY <3>3, <3>4
  <2>5. 2 * n + 1 \in 1..(2 * n + 1)
    BY <2>2
  <2>6. \A m \in 1..(2 * n + 1) : -WordSize * (2 * n + 1) <= -WordSize * m
    BY <2>2, WordAssumption
  <2> QED BY <1>1, <2>3, <2>4, <2>5, <2>6
<1> QED BY <1>2, <1>3

(* The readers of a descriptor stay in the slot map reserved for it and    *)
(* leave none of it out, for types of any shape (gcdesc.h:133-148, 189-201,*)
(* 246-257).                                                               *)
THEOREM SlotMapsAlwaysFit == Spec => []SlotMapFits
<1>1. MarkInv => SlotMapFits
  BY TypeRead, WordsAllRead DEF SlotMapFits
<1> QED BY <1>1, Marking, PTL

-----------------------------------------------------------------------------
(* Reading a length back with an object's size undoes the adjustment to the*)
(* base size and leaves what the object is beyond it, whichever of the two *)
(* wraps around (gcdesc.h:31-40).                                          *)
LEMMA SizeAdjusted ==
  ASSUME NEW length \in Nat, NEW base \in Nat, NEW size \in Nat,
         base <= size, base < SizeMax, length < SizeMax, length + (size - base) < SizeMax,
         NEW desc, NEW cur, desc[cur] = StoredSize(length, base)
  PROVE  LengthIn(desc, cur, size) = length + (size - base)
<1>1. SizeMax \in Nat
  BY WordAssumption
<1> QED BY <1>1 DEF LengthIn, StoredSize, Wrap

(* What the series of an object, and that of an array, cover.              *)
LEMMA FieldsRead ==
  ASSUME NEW s \in Shapes, s.refs # {}, ~IsCoded(s), ~IsArray(s)
  PROVE  LET desc == Desc(s) IN
         /\ SeriesWalked(desc) = {-WordSize * (2 * k + 1) : k \in 1..NumRuns(s.refs)}
         /\ \A k \in 1..NumRuns(s.refs) :
              LengthIn(desc, -WordSize * (2 * k + 1), s.baseSize)
                = RunLength(s.refs, Run(s.refs, k)) * WordSize
<1> DEFINE n == NumRuns(s.refs)
           length(k) == RunLength(s.refs, Run(s.refs, k)) * WordSize
           at(k) == -WordSize * (2 * k + 1)
<1>1. PICK desc : desc = Desc(s)
  OBVIOUS
<1>2. PICK series :
        /\ desc = SeriesDesc(n, series)
        /\ \A k \in 1..n :
             series[k] = Series(Run(s.refs, k) * WordSize, length(k), s)
  BY <1>1, DescOfShape
<1>3. /\ n \in Nat /\ 1 <= n /\ 2 * n < SizeMax
      /\ s.baseSize \in Nat /\ s.baseSize < SizeMax
      /\ s.refs \subseteq Nat /\ IsFiniteSet(s.refs) /\ SizeMax \in Nat
  BY DescOfShape, RefsOfShape, WordAssumption
<1>4. PICK last \in Nat : /\ last * WordSize <= s.baseSize /\ last \notin s.refs
                          /\ \A w \in s.refs : 0 < w /\ w < last
  BY RefsOfShape
<1>5. /\ SeriesWalked(desc) = {at(k) : k \in 1..n}
      /\ \A k \in 1..n : desc[at(k)] = StoredSize(length(k), s.baseSize)
  <2>1. \A k \in 1..n : series[k].stored = StoredSize(length(k), s.baseSize)
    <3>1. \A a, b : Series(a, b, s).stored = StoredSize(b, s.baseSize)
      BY DEF Series
    <3> HIDE DEF n, length
    <3> QED BY <1>2, <3>1
  <2> HIDE DEF n, length
  <2> QED BY <1>2, <1>3, <2>1, SeriesRead
<1>6. ASSUME NEW k \in 1..n
      PROVE  LengthIn(desc, at(k), s.baseSize) = length(k)
  <2>1. /\ Run(s.refs, k) \in s.refs /\ Run(s.refs, k) \in Nat
        /\ RunLength(s.refs, Run(s.refs, k)) \in Nat
        /\ Run(s.refs, k) + RunLength(s.refs, Run(s.refs, k)) <= last
    BY <1>3, <1>4, RunNumbers, RunEnds
  <2>2. length(k) \in Nat /\ length(k) <= s.baseSize
    BY <1>3, <1>4, <2>1, WordAssumption
  <2>3. PICK stored, base : stored = length(k) /\ base = s.baseSize
    OBVIOUS
  <2> HIDE DEF length, at, n
  <2>4. /\ stored \in Nat /\ base \in Nat /\ stored < SizeMax /\ base < SizeMax
        /\ desc[at(k)] = StoredSize(stored, base)
    BY <1>3, <1>5, <2>2, <2>3
  <2>5. base <= base /\ stored + (base - base) = stored
    BY <2>4
  <2> QED BY <2>3, <2>4, <2>5, SizeAdjusted
<1> QED BY <1>1, <1>5, <1>6

LEMMA ElementsRead ==
  ASSUME NEW s \in Shapes, s.refs # {}, ~IsCoded(s), IsArray(s), NEW n \in Lengths
  PROVE  LET desc == Desc(s)  size == s.baseSize + n * (s.words * WordSize) IN
         \E cur : /\ SeriesWalked(desc) = {cur}
                  /\ LengthIn(desc, cur, size) = n * (s.words * WordSize)
<1> DEFINE data == n * (s.words * WordSize)
           cur == -WordSize * (2 * 1 + 1)
<1>1. PICK desc : desc = Desc(s)
  OBVIOUS
<1>2. PICK series : desc = SeriesDesc(1, series) /\ series[1] = Series(DataStart, 0, s)
  BY <1>1, DescOfShape
<1>3. /\ s.baseSize \in Nat /\ DataStart <= s.baseSize /\ data \in Nat
      /\ s.baseSize + data < SizeMax /\ SizeMax \in Nat
  <2>1. n \in Nat /\ s.words \in Nat
    BY ShapeAssumption, TableAssumption
  <2>2. s.words * WordSize \in Nat
    BY <2>1, WordAssumption
  <2>3. n * (s.words * WordSize) \in Nat
    BY <2>1, <2>2
  <2> QED BY <2>3, ShapeAssumption, WordAssumption
<1> HIDE DEF data
<1>4. 2 * 1 < SizeMax
  BY <1>3, WordAssumption DEF DataStart
<1>5. SeriesWalked(desc) = {cur} /\ desc[cur] = StoredSize(0, s.baseSize)
  <2>1. \A k : k \in 1..1 <=> k = 1
    OBVIOUS
  <2>2. /\ SeriesWalked(desc) = {-WordSize * (2 * k + 1) : k \in 1..1}
        /\ desc[-WordSize * (2 * 1 + 1)] = series[1].stored
    <3>1. PICK m : m = 1
      OBVIOUS
    <3>2. desc = SeriesDesc(m, series) /\ m \in Nat /\ 1 <= m /\ 2 * m < SizeMax
      BY <1>2, <1>4, <3>1
    <3>3. /\ SeriesWalked(desc) = {-WordSize * (2 * k + 1) : k \in 1..m}
          /\ \A k \in 1..m : desc[-WordSize * (2 * k + 1)] = series[k].stored
      BY <3>2, SeriesRead
    <3> QED BY <3>1, <3>3
  <2> QED BY <1>2, <2>1, <2>2 DEF Series
<1> HIDE DEF cur
<1>6. LengthIn(desc, cur, s.baseSize + data) = data
  <2>1. /\ s.baseSize + data \in Nat /\ s.baseSize <= s.baseSize + data
        /\ s.baseSize < SizeMax /\ 0 < SizeMax /\ 0 \in Nat
        /\ 0 + ((s.baseSize + data) - s.baseSize) = data /\ data < SizeMax
    BY <1>3, WordAssumption
  <2> QED BY <1>3, <1>5, <2>1, SizeAdjusted
<1> QED BY <1>1, <1>5, <1>6 DEF data

-----------------------------------------------------------------------------
(* The references of one object.  Those of a non-array and those of each   *)
(* component are the shape's, moved.                                       *)
LEMMA FieldsCounted ==
  ASSUME NEW s \in Shapes, ~IsArray(s), NEW n
  PROVE  Cardinality(RefsOf(s, n)) = Cardinality(s.refs)
<1> DEFINE move == [w \in s.refs |-> w * WordSize]
<1>1. s.refs \subseteq Nat /\ IsFiniteSet(s.refs)
  BY RefsOfShape
<1>2. RefsOf(s, n) = {w * WordSize : w \in s.refs}
  BY DEF RefsOf
<1>3. move \in Bijection(s.refs, RefsOf(s, n))
  <2>1. \A v, w \in s.refs : v * WordSize = w * WordSize => v = w
    BY <1>1, WordAssumption
  <2> QED BY <1>2, <2>1 DEF Bijection, Injection, IsInjective, Surjection
<1> HIDE DEF move
<1> QED BY <1>1, <1>3, FS_Bijection DEF ExistsBijection

(* Components do not reach into one another.                               *)
LEMMA ComponentsApart ==
  ASSUME NEW words \in Nat, NEW i \in Nat, NEW j \in Nat,
         NEW v \in 0..(words - 1), NEW w \in 0..(words - 1),
         i * words + v = j * words + w
  PROVE  i = j /\ v = w
<1>1. ASSUME NEW a \in Nat, NEW b \in Nat, a < b PROVE a * words + words <= b * words
  <2>1. PICK d \in Nat : b = a + 1 + d
    <3>1. b - a - 1 \in Nat /\ b = a + 1 + (b - a - 1)
      BY <1>1
    <3> QED BY <3>1
  <2>2. b * words = a * words + words + d * words
    BY <2>1
  <2>3. a * words \in Nat /\ d * words \in Nat
    OBVIOUS
  <2> QED BY <2>2, <2>3
<1>2. i * words \in Nat /\ j * words \in Nat
  OBVIOUS
<1>3. ~(i < j) /\ ~(j < i)
  <2>1. i < j => i * words + words <= j * words
    BY <1>1
  <2>2. j < i => j * words + words <= i * words
    BY <1>1
  <2> QED BY <1>2, <2>1, <2>2
<1> QED BY <1>2, <1>3

LEMMA ElementsCounted ==
  ASSUME NEW s \in Shapes, IsArray(s), NEW n \in Lengths
  PROVE  /\ Cardinality(RefsOf(s, n)) = n * Cardinality(s.refs)
         /\ IsFiniteSet(s.refs) /\ s.refs \subseteq 0..(s.words - 1)
         /\ n \in Nat /\ s.words \in Nat /\ Cardinality(s.refs) \in Nat
<1> DEFINE pairs == (0..(n - 1)) \X s.refs
           at(i, w) == DataStart + (i * s.words + w) * WordSize
           move == [p \in pairs |-> at(p[1], p[2])]
<1>1. /\ s.words \in Nat /\ s.refs \subseteq 0..(s.words - 1) /\ n \in Nat
      /\ IsFiniteSet(s.refs) /\ Cardinality(s.refs) \in Nat
  BY RefsOfShape, ShapeAssumption, TableAssumption
<1>2. IsFiniteSet(0..(n - 1)) /\ Cardinality(0..(n - 1)) = n
  <2>1. /\ 0 \in Int /\ n - 1 \in Int
        /\ n = IF 0 > n - 1 THEN 0 ELSE (n - 1) - 0 + 1
    BY <1>1
  <2> QED BY <2>1, FS_Interval
<1>3. IsFiniteSet(pairs) /\ Cardinality(pairs) = n * Cardinality(s.refs)
  BY <1>1, <1>2, FS_Product
<1>4. RefsOf(s, n) = {at(i, w) : i \in 0..(n - 1), w \in s.refs}
  BY DEF RefsOf
<1>5. ASSUME NEW i \in 0..(n - 1), NEW j \in 0..(n - 1), NEW v \in s.refs, NEW w \in s.refs,
             at(i, v) = at(j, w)
      PROVE  i = j /\ v = w
  <2>1. i \in Nat /\ j \in Nat /\ v \in 0..(s.words - 1) /\ w \in 0..(s.words - 1)
    BY <1>1
  <2>2. i * s.words \in Nat /\ j * s.words \in Nat
    BY <1>1, <2>1
  <2>3. i * s.words + v = j * s.words + w
    <3>1. PICK x \in Nat, y \in Nat : x = i * s.words + v /\ y = j * s.words + w
      BY <2>1, <2>2
    <3>2. DataStart \in Nat /\ DataStart + x * WordSize = DataStart + y * WordSize
      BY <1>5, <3>1, WordAssumption DEF DataStart
    <3>3. x = y
      BY <3>2, WordAssumption
    <3> QED BY <3>1, <3>3
  <2> QED BY <1>1, <2>1, <2>3, ComponentsApart
<1> HIDE DEF at
<1>6. move \in Bijection(pairs, RefsOf(s, n))
  <2>1. move \in [pairs -> RefsOf(s, n)]
    BY <1>4
  <2>2. \A p, q \in pairs : move[p] = move[q] => p = q
    BY <1>5
  <2>3. \A r \in RefsOf(s, n) : \E p \in pairs : move[p] = r
    <3>1. ASSUME NEW i \in 0..(n - 1), NEW w \in s.refs
          PROVE  <<i, w>> \in pairs /\ move[<<i, w>>] = at(i, w)
      OBVIOUS
    <3> HIDE DEF move, pairs
    <3> SUFFICES ASSUME NEW r \in RefsOf(s, n) PROVE \E p \in pairs : move[p] = r
      OBVIOUS
    <3>2. PICK i \in 0..(n - 1), w \in s.refs : r = at(i, w)
      BY <1>4
    <3> QED BY <3>1, <3>2
  <2> HIDE DEF move, pairs
  <2> QED BY <2>1, <2>2, <2>3 DEF Bijection, Injection, IsInjective, Surjection
<1> HIDE DEF move, pairs
<1> QED BY <1>1, <1>3, <1>6, FS_Bijection DEF ExistsBijection

(* The loops of GetNumPointers, for each form of descriptor.               *)
LEMMA FieldPointers ==
  ASSUME NEW s \in Shapes, s.refs # {}, ~IsCoded(s), ~IsArray(s), NEW n
  PROVE  NumPointers(Desc(s), s.baseSize, n) = Cardinality(s.refs)
<1> DEFINE desc == Desc(s)
           runs == NumRuns(s.refs)
           found == [cur \in SeriesWalked(desc) |->
                       LengthIn(desc, cur, s.baseSize) \div WordSize]
           at == [k \in 1..runs |-> -WordSize * (2 * k + 1)]
<1>1. s.refs \subseteq Nat /\ IsFiniteSet(s.refs) /\ runs \in Nat
  BY RefsOfShape, DescOfShape
<1>2. /\ SeriesWalked(desc) = {at[k] : k \in 1..runs}
      /\ \A k \in 1..runs :
           LengthIn(desc, at[k], s.baseSize) = RunLength(s.refs, Run(s.refs, k)) * WordSize
  BY FieldsRead
<1>3. at \in Bijection(1..runs, DOMAIN found)
  <2>1. \A j, k \in 1..runs : at[j] = at[k] => j = k
    BY <1>1, WordAssumption
  <2>2. DOMAIN found = {at[k] : k \in 1..runs} /\ at \in [1..runs -> DOMAIN found]
    BY <1>2
  <2> HIDE DEF at, found
  <2> QED BY <2>1, <2>2 DEF Bijection, Injection, IsInjective, Surjection
<1>4. \A k \in 1..runs : found[at[k]] = RunLength(s.refs, Run(s.refs, k))
  <2>1. \A k \in 1..runs : RunLength(s.refs, Run(s.refs, k)) \in Nat
    BY <1>1, RunNumbers, RunEnds
  <2>2. \A m \in Nat : (m * WordSize) \div WordSize = m
    BY WordAssumption
  <2>3. \A k \in 1..runs :
          found[at[k]] = (RunLength(s.refs, Run(s.refs, k)) * WordSize) \div WordSize
    BY <1>2
  <2> QED BY <2>1, <2>2, <2>3
<1>5. SumFunction(found) = Cardinality(s.refs)
  <2> HIDE DEF at, found
  <2> QED BY <1>1, <1>3, <1>4, RunsCounted
<1>6. ~IsValueClassSeries(desc)
  BY DescOfShape, SeriesRead
<1> QED BY <1>5, <1>6 DEF NumPointers

LEMMA ArrayPointers ==
  ASSUME NEW s \in Shapes, s.refs # {}, ~IsCoded(s), IsArray(s), NEW n \in Lengths
  PROVE  NumPointers(Desc(s), s.baseSize + n * (s.words * WordSize), n)
           = n * Cardinality(s.refs)
<1> DEFINE desc == Desc(s)
           size == s.baseSize + n * (s.words * WordSize)
           found == [cur \in SeriesWalked(desc) |-> LengthIn(desc, cur, size) \div WordSize]
<1>1. /\ n \in Nat /\ s.words \in Nat /\ Cardinality(s.refs) = s.words
  <2>1. /\ IsFiniteSet(s.refs) /\ s.refs \in SUBSET (0..(s.words - 1)) /\ n \in Nat
        /\ s.words \in Nat /\ Cardinality(s.refs) \in Nat
    BY ElementsCounted
  <2>2. IsFiniteSet(0..(s.words - 1)) /\ Cardinality(0..(s.words - 1)) = s.words
    <3>1. /\ 0 \in Int /\ s.words - 1 \in Int
          /\ s.words = IF 0 > s.words - 1 THEN 0 ELSE (s.words - 1) - 0 + 1
      BY <2>1
    <3> QED BY <3>1, FS_Interval
  <2>3. Cardinality(s.refs) <= s.words
    BY <2>1, <2>2, FS_Subset
  <2> QED BY <2>1, <2>3 DEF IsCoded
<1>2. PICK cur : /\ SeriesWalked(desc) = {cur}
                 /\ LengthIn(desc, cur, size) = n * (s.words * WordSize)
  BY ElementsRead
<1>3. LengthIn(desc, cur, size) \div WordSize = n * s.words
  <2>1. PICK m \in Nat : m = n * s.words
    BY <1>1
  <2>2. n * (s.words * WordSize) = m * WordSize
    BY <1>1, <2>1, WordAssumption
  <2>3. (m * WordSize) \div WordSize = m
    BY <2>1, WordAssumption
  <2> QED BY <1>2, <2>1, <2>2, <2>3
<1>4. SumFunction(found) = n * s.words
  <2> DEFINE numbers == 1..(n * s.words)
             part == [x \in {cur} |-> numbers]
  <2>1. PICK m \in Nat : m = n * s.words
    BY <1>1
  <2>2. IsFiniteSet(numbers) /\ Cardinality(numbers) = n * s.words
    <3>1. IsFiniteSet(1..m) /\ Cardinality(1..m) = m
      BY FS_Interval
    <3> QED BY <2>1, <3>1
  <2>3. DOMAIN found = {cur} /\ found[cur] = n * s.words
    BY <1>2, <1>3
  <2>4. IsFiniteSet({cur})
    BY FS_Singleton
  <2>5. UNION {part[x] : x \in {cur}} = numbers
    OBVIOUS
  <2>6. \A x \in {cur} : part[x] \subseteq numbers /\ found[x] = Cardinality(part[x])
    BY <2>2, <2>3
  <2> HIDE DEF found, numbers, part
  <2> QED BY <2>2, <2>3, <2>4, <2>5, <2>6, SumCounts
<1>5. ~IsValueClassSeries(desc)
  <2>1. PICK m, series : m = 1 /\ desc = SeriesDesc(m, series)
    BY DescOfShape
  <2>2. m \in Nat /\ 1 <= m /\ 2 * m < SizeMax
    BY <2>1, DescOfShape, WordAssumption
  <2> QED BY <2>1, <2>2, SeriesRead
<1> QED BY <1>1, <1>4, <1>5 DEF NumPointers

LEMMA CodedPointers ==
  ASSUME NEW s \in Shapes, s.refs # {}, IsCoded(s), NEW n, NEW size
  PROVE  NumPointers(Desc(s), size, n) = n * Cardinality(s.refs)
<1> DEFINE desc == CodedDesc(s)
           runs == NumRuns(s.refs)
           found == [cur \in ItemsWalked(desc) |-> desc[cur].nptrs]
           at == [k \in 1..runs |-> -WordSize * (k + 2)]
<1>1. /\ s.refs \subseteq Nat /\ IsFiniteSet(s.refs)
      /\ runs \in Nat /\ 1 <= runs /\ 2 * runs < SizeMax /\ Desc(s) = desc
  BY RefsOfShape, DescOfShape
<1>2. /\ IsValueClassSeries(desc)
      /\ ItemsWalked(desc) = {-WordSize * m : m \in 3..(runs + 2)}
      /\ \A k \in 1..runs : desc[at[k]].nptrs = RunLength(s.refs, Run(s.refs, k))
  BY <1>1, ItemsRead
<1>3. at \in Bijection(1..runs, DOMAIN found)
  <2>1. \A j, k \in 1..runs : at[j] = at[k] => j = k
    BY <1>1, WordAssumption
  <2>2. \A k \in 1..runs : at[k] \in ItemsWalked(desc)
    <3>1. \A k \in 1..runs : k + 2 \in 3..(runs + 2)
      BY <1>1
    <3> QED BY <1>2, <3>1
  <2>3. \A x \in ItemsWalked(desc) : \E k \in 1..runs : at[k] = x
    <3>1. \A m \in 3..(runs + 2) : m - 2 \in 1..runs /\ (m - 2) + 2 = m
      BY <1>1
    <3>2. \A m \in 3..(runs + 2) : m - 2 \in 1..runs /\ at[m - 2] = -WordSize * m
      BY <3>1
    <3> HIDE DEF at
    <3> QED BY <1>2, <3>2
  <2>4. DOMAIN found = ItemsWalked(desc) /\ at \in [1..runs -> DOMAIN found]
    BY <2>2
  <2> HIDE DEF at, found
  <2> QED BY <2>1, <2>3, <2>4 DEF Bijection, Injection, IsInjective, Surjection
<1>4. \A k \in 1..runs : found[at[k]] = RunLength(s.refs, Run(s.refs, k))
  <2>1. \A k \in 1..runs : at[k] \in DOMAIN found
    <3> HIDE DEF at, found
    <3> QED BY <1>3 DEF Bijection, Surjection
  <2> QED BY <1>2, <2>1
<1>5. SumFunction(found) = Cardinality(s.refs)
  <2> HIDE DEF at, found
  <2> QED BY <1>1, <1>3, <1>4, RunsCounted
<1> QED BY <1>1, <1>2, <1>5 DEF NumPointers

(* The number of pointers that the descriptor of any type gives for an     *)
(* object of any length is the number of references the object has, the    *)
(* loader allocator included (gcdesc.h:194-234).                           *)
THEOREM PointersAlwaysExact == Spec => []NumPointersExact
<1>1. ASSUME MarkInv, NEW o \in DOMAIN object
      PROVE  LET t == type[GetMethodTable(o)] IN
             GetNumPointers(GetMethodTable(o), GetTotalSize(o), GetNumComponents(o)) =
               Cardinality(RefsOf(t.shape, GetNumComponents(o)))
                 + (IF t.collectible THEN 1 ELSE 0)
  <2> DEFINE m == GetMethodTable(o)
             n == GetNumComponents(o)
  <2>1. /\ m \in DOMAIN type
        /\ IF IsArray(type[m].shape) THEN n \in Lengths ELSE n = 0
    BY <1>1 DEF MarkInv, ObjectsAllocated
  <2>2. PICK s \in Shapes, collectible \in BOOLEAN :
          /\ type[m].shape = s /\ type[m].baseSize = s.baseSize
          /\ type[m].componentSize = s.words * WordSize
          /\ type[m].collectible = collectible
          /\ GetCGCDescFromMT(m) = Desc(s)
          /\ ContainsPointers(m) <=> s.refs # {}
          /\ HasComponentSize(m) <=> IsArray(s)
          /\ Collectible(m) <=> collectible
    BY <1>1, <2>1, TypeRead
  <2>3. s.baseSize \in Nat /\ s.words \in Nat /\ Cardinality(s.refs) \in Nat
    BY RefsOfShape
  <2>4. GetTotalSize(o) = IF IsArray(s) THEN s.baseSize + n * (s.words * WordSize)
                                        ELSE s.baseSize
    BY <2>2, <2>3 DEF GetTotalSize
  <2>5. Cardinality(RefsOf(s, n)) =
          IF IsArray(s) THEN n * Cardinality(s.refs) ELSE Cardinality(s.refs)
    BY <2>1, <2>2, FieldsCounted, ElementsCounted
  <2>6. (IF ContainsPointers(m) THEN NumPointers(GetCGCDescFromMT(m), GetTotalSize(o), n)
                                 ELSE 0)
          = Cardinality(RefsOf(s, n))
    <3>1. CASE s.refs = {}
      <4>1. n \in Nat
        <5>1. n \in Lengths \/ n = 0
          BY <2>1
        <5>2. Lengths \subseteq Nat
          BY TableAssumption
        <5>3. CASE n \in Lengths
          BY <5>2, <5>3
        <5> QED BY <5>1, <5>3
      <4>2. Cardinality(s.refs) = 0
        BY <3>1, FS_EmptySet
      <4>3. n * 0 = 0
        BY <4>1
      <4> HIDE DEF n
      <4> QED BY <2>2, <2>5, <3>1, <4>2, <4>3
    <3>2. CASE s.refs # {} /\ IsCoded(s)
      BY <2>2, <2>5, <3>2, CodedPointers DEF IsCoded
    <3>3. CASE s.refs # {} /\ ~IsCoded(s) /\ IsArray(s)
      BY <2>1, <2>2, <2>4, <2>5, <3>3, ArrayPointers
    <3>4. CASE s.refs # {} /\ ~IsCoded(s) /\ ~IsArray(s)
      BY <2>2, <2>4, <2>5, <3>4, FieldPointers
    <3> QED BY <3>1, <3>2, <3>3, <3>4
  <2> QED BY <2>2, <2>6 DEF GetNumPointers
<1>2. MarkInv => NumPointersExact
  BY <1>1 DEF NumPointersExact
<1> QED BY <1>2, Marking, PTL
=============================================================================
