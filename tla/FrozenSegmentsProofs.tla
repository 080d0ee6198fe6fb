----------------------- MODULE FrozenSegmentsProofs -----------------------
(***************************************************************************)
(* Theorems about FrozenSegments, and about FrozenQueries beside its calls,*)
(* for every length of the table, every set of records and every set of    *)
(* segments.                                                               *)
(***************************************************************************)
EXTENDS FrozenQueries, TLAPS

(* The inductive invariant: its parts are checked by TLC one by one.  A    *)
(* removal deletes exactly the record its slot pointed to only because no  *)
(* two slots in use point to the same record.                              *)
FrozenInv == TypeOK /\ SlotsMatchHandles /\ LimitsCurrent

LEMMA InvInit == Init => FrozenInv
<1> SUFFICES ASSUME Init PROVE FrozenInv
  OBVIOUS
<1>1. InUse = {} /\ Live = {} /\ Held = {}
  BY DEF Init, InUse, Live, Held
<1>2. records \in [Live -> Segments] /\ known \in [Held -> Segments]
  BY <1>1 DEF Init
<1>3. TypeOK
  BY <1>1, <1>2, FrozenAssumption DEF Init, TypeOK
<1>4. records = known
  BY DEF Init
<1> QED BY <1>1, <1>3, <1>4 DEF FrozenInv, SlotsMatchHandles, LimitsCurrent

LEMMA Unchanged == FrozenInv /\ UNCHANGED vars => FrozenInv'
<1> SUFFICES ASSUME FrozenInv, UNCHANGED vars PROVE FrozenInv'
  OBVIOUS
<1>1. Live' = Live /\ Held' = Held /\ InUse' = InUse
  BY DEF vars, Live, Held, InUse
<1>2. TypeOK'
  BY <1>1 DEF vars, FrozenInv, TypeOK
<1>3. SlotsMatchHandles'
  BY <1>1 DEF vars, FrozenInv, SlotsMatchHandles
<1> QED BY <1>2, <1>3 DEF vars, FrozenInv, LimitsCurrent

LEMMA SegmentInSegments ==
  ASSUME NEW base \in Bases, NEW l \in Limits
  PROVE  Segment(base, l) \in Segments
  BY DEF Segments

LEMMA RegisterStep ==
  ASSUME FrozenInv, NEW base \in Bases \cup {0}, NEW l \in Limits,
         RegisterFrozenSegment(base, l)
  PROVE  FrozenInv'
<1>1. CASE ~(base # 0 /\ HasRoom)
  BY <1>1, Unchanged DEF RegisterFrozenSegment
<1>2. CASE base # 0 /\ HasRoom
  <2> DEFINE n == frozenSegmentsCount
             s == Segment(base, l)
  <2>1. PICK rec \in Records \ Live :
          /\ records' = With(records, rec, s)
          /\ frozenSegments' = [frozenSegments EXCEPT ![n] = rec]
          /\ frozenSegmentsCount' = n + 1
          /\ known' = With(known, rec, s)
    BY <1>2 DEF RegisterFrozenSegment
  <2>2. s \in Segments
    BY <1>2, SegmentInSegments
  <2> HIDE DEF s
  <2>3. /\ n \in 0..(MaxSegments - 1) /\ n + 1 \in 0..MaxSegments
        /\ n \notin InUse /\ InUse' = InUse \cup {n}
        /\ InUse \subseteq 0..(MaxSegments - 1)
    BY <1>2, <2>1, FrozenAssumption DEF HasRoom, InUse, FrozenInv, TypeOK
  <2>4. /\ Live = Held /\ Live' = Live \cup {rec} /\ Held' = Held \cup {rec}
        /\ records' = known'
    BY <2>1 DEF FrozenInv, SlotsMatchHandles, LimitsCurrent, Live, Held, With
  <2>5. records' \in [Live' -> Segments]
    BY <2>1, <2>2, <2>4 DEF With, FrozenInv, TypeOK, Live
  <2>6. TypeOK'
    BY <2>1, <2>3, <2>4, <2>5 DEF FrozenInv, TypeOK
  <2>7. /\ frozenSegments'[n] = rec
        /\ \A i \in InUse : frozenSegments'[i] = frozenSegments[i]
    BY <2>1, <2>3 DEF FrozenInv, TypeOK
  <2>8. \A i \in InUse : frozenSegments[i] # rec
    BY <2>1, <2>4 DEF FrozenInv, SlotsMatchHandles
  <2>9. SlotsMatchHandles'
    <3>1. {frozenSegments'[i] : i \in InUse'} = Held'
      BY <2>3, <2>4, <2>7 DEF FrozenInv, SlotsMatchHandles
    <3>2. \A i, j \in InUse' : frozenSegments'[i] = frozenSegments'[j] => i = j
      BY <2>3, <2>7, <2>8 DEF FrozenInv, SlotsMatchHandles
    <3> QED BY <2>4, <3>1, <3>2 DEF SlotsMatchHandles
  <2> QED BY <2>4, <2>6, <2>9 DEF FrozenInv, LimitsCurrent
<1> QED BY <1>1, <1>2

(* The slot of a handle that is out.                                       *)
LEMMA SlotOfHandle ==
  ASSUME FrozenInv, NEW seg \in Held
  PROVE  \E i \in InUse : frozenSegments[i] = seg /\ SlotsOf(seg) = {i}
<1>1. PICK i \in InUse : frozenSegments[i] = seg
  BY DEF FrozenInv, SlotsMatchHandles
<1>2. SlotsOf(seg) = {i}
  BY <1>1 DEF SlotsOf, FrozenInv, SlotsMatchHandles
<1> QED BY <1>1, <1>2

LEMMA UnregisterStep ==
  ASSUME FrozenInv, NEW seg \in Held \cup {Null}, UnregisterFrozenSegment(seg)
  PROVE  FrozenInv'
<1>1. CASE seg = Null
  BY <1>1, Unchanged DEF UnregisterFrozenSegment
<1>2. CASE seg # Null
  <2> DEFINE n == frozenSegmentsCount
  <2>1. PICK i \in InUse : frozenSegments[i] = seg /\ SlotsOf(seg) = {i}
    BY <1>2, SlotOfHandle
  <2>2. i \in Int
    BY DEF InUse
  <2>3. (CHOOSE k \in {i} : \A j \in {i} : k <= j) = i
    BY <2>2
  <2>4. RemoveSlot(i) /\ records' = Without(records, seg) /\ known' = Without(known, seg)
    BY <1>2, <2>1, <2>3 DEF UnregisterFrozenSegment
  <2>5. /\ n - 1 \in InUse /\ n - 1 \in 0..MaxSegments
        /\ InUse' = InUse \ {n - 1} /\ InUse \subseteq 0..(MaxSegments - 1)
        /\ frozenSegmentsCount' = n - 1
    BY <2>4, FrozenAssumption DEF RemoveSlot, InUse, FrozenInv, TypeOK
  <2>6. frozenSegments' = [frozenSegments EXCEPT ![i] = frozenSegments[n - 1]]
    BY <2>4 DEF RemoveSlot
  <2>7. /\ frozenSegments'[i] = frozenSegments[n - 1]
        /\ \A j \in InUse \ {i} : frozenSegments'[j] = frozenSegments[j]
    BY <2>5, <2>6 DEF FrozenInv, TypeOK
  <2>8. /\ Live = Held /\ Live' = Live \ {seg} /\ Held' = Held \ {seg}
        /\ records' = known'
    BY <2>4 DEF FrozenInv, SlotsMatchHandles, LimitsCurrent, Live, Held, Without
  <2>9. records' \in [Live' -> Segments]
    BY <2>4, <2>8 DEF Without, FrozenInv, TypeOK, Live
  <2>10. TypeOK'
    BY <2>5, <2>6, <2>8, <2>9 DEF FrozenInv, TypeOK
  <2>11. SlotsMatchHandles'
    <3>1. \A j, k \in InUse : frozenSegments[j] = frozenSegments[k] => j = k
      BY DEF FrozenInv, SlotsMatchHandles
    <3>2. \A j \in InUse' : frozenSegments'[j] \in Held'
      BY <2>1, <2>5, <2>7, <2>8, <3>1 DEF FrozenInv, SlotsMatchHandles
    <3>3. \A r \in Held' : \E j \in InUse' : frozenSegments'[j] = r
      <4> SUFFICES ASSUME NEW r \in Held' PROVE \E j \in InUse' : frozenSegments'[j] = r
        OBVIOUS
      <4>1. PICK j \in InUse : frozenSegments[j] = r
        BY <2>8 DEF FrozenInv, SlotsMatchHandles
      <4>2. j # i
        BY <2>1, <2>8, <4>1
      <4>3. CASE j = n - 1
        BY <2>5, <2>7, <4>1, <4>2, <4>3
      <4>4. CASE j # n - 1
        BY <2>5, <2>7, <4>1, <4>2, <4>4
      <4> QED BY <4>3, <4>4
    <3>4. \A j, k \in InUse' : frozenSegments'[j] = frozenSegments'[k] => j = k
      BY <2>5, <2>7, <3>1
    <3> QED BY <2>8, <3>2, <3>3, <3>4 DEF SlotsMatchHandles
  <2> QED BY <2>8, <2>10, <2>11 DEF FrozenInv, LimitsCurrent
<1> QED BY <1>1, <1>2

(* An update leaves the table alone and moves a segment's limits only.     *)
LEMMA UpdateEffect ==
  ASSUME FrozenInv, NEW seg \in Held, NEW a \in 0..Size, NEW c \in 0..Size,
         seg # Null, UpdateFrozenSegment(seg, a, c)
  PROVE  \E said \in Segments :
           /\ said.base = known[seg].base /\ said.reserved = known[seg].reserved
           /\ known' = [known EXCEPT ![seg] = said]
           /\ records' = [records EXCEPT ![seg] = said]
           /\ UNCHANGED <<frozenSegments, frozenSegmentsCount>>
<1> DEFINE limit(n) == IF n = 0 THEN 0 ELSE known[seg].base + n
           said == [known[seg] EXCEPT !.allocated = IF a = 0 THEN @ ELSE limit(a),
                                      !.committed = IF c = 0 THEN @ ELSE limit(c)]
<1>1. /\ said \in Segments
      /\ known' = [known EXCEPT ![seg] = said]
      /\ records' = [records EXCEPT ![seg] = MoveLimits(records[seg], limit(a), limit(c))]
      /\ UNCHANGED <<frozenSegments, frozenSegmentsCount>>
  BY DEF UpdateFrozenSegment
<1>2. known[seg] \in Segments /\ records[seg] = known[seg]
  BY DEF FrozenInv, TypeOK, LimitsCurrent
<1>3. PICK b \in Bases, l \in Limits : known[seg] = Segment(b, l)
  BY <1>2 DEF Segments
<1>4. known[seg].base \in Nat \ {0}
  BY <1>3, FrozenAssumption DEF Segment
<1>5. (limit(a) = 0 <=> a = 0) /\ (limit(c) = 0 <=> c = 0)
  BY <1>4, FrozenAssumption
<1>6. MoveLimits(records[seg], limit(a), limit(c)) = said
  BY <1>2, <1>3, <1>5 DEF MoveLimits, Segment
<1>7. said.base = known[seg].base /\ said.reserved = known[seg].reserved
  BY <1>3 DEF Segment
<1> QED BY <1>1, <1>6, <1>7

LEMMA UpdateStep ==
  ASSUME FrozenInv, NEW seg \in Held \cup {Null}, NEW a \in 0..Size, NEW c \in 0..Size,
         UpdateFrozenSegment(seg, a, c)
  PROVE  FrozenInv'
<1>1. CASE seg = Null
  BY <1>1, Unchanged DEF UpdateFrozenSegment
<1>2. CASE seg # Null
  <2>1. PICK said \in Segments :
          /\ known' = [known EXCEPT ![seg] = said]
          /\ records' = [records EXCEPT ![seg] = said]
          /\ UNCHANGED <<frozenSegments, frozenSegmentsCount>>
    BY <1>2, UpdateEffect
  <2>2. Live' = Live /\ Held' = Held /\ InUse' = InUse
    BY <2>1 DEF Live, Held, InUse
  <2>3. TypeOK'
    BY <2>1, <2>2 DEF FrozenInv, TypeOK
  <2>4. SlotsMatchHandles'
    BY <2>1, <2>2 DEF FrozenInv, SlotsMatchHandles
  <2> QED BY <2>1, <2>3, <2>4 DEF FrozenInv, LimitsCurrent
<1> QED BY <1>1, <1>2

LEMMA InvStep == FrozenInv /\ [Next]_vars => FrozenInv'
<1> SUFFICES ASSUME FrozenInv, [Next]_vars PROVE FrozenInv'
  OBVIOUS
<1>1. ASSUME NEW base \in Bases \cup {0}, NEW l \in Limits, RegisterFrozenSegment(base, l)
      PROVE  FrozenInv'
  BY <1>1, RegisterStep
<1>2. ASSUME NEW seg \in Held \cup {Null}, UnregisterFrozenSegment(seg)
      PROVE  FrozenInv'
  BY <1>2, UnregisterStep
<1>3. ASSUME NEW seg \in Held \cup {Null}, NEW a \in 0..Size, NEW c \in 0..Size,
             UpdateFrozenSegment(seg, a, c)
      PROVE  FrozenInv'
  BY <1>3, UpdateStep
<1> QED BY <1>1, <1>2, <1>3, Unchanged DEF Next

LEMMA Invariant == Spec => []FrozenInv
<1>1. Init => FrozenInv
  BY InvInit
<1>2. FrozenInv /\ [Next]_vars => FrozenInv'
  BY InvStep
<1> QED BY <1>1, <1>2, PTL DEF Spec

(* Every variable holds a value of its type; the count stays in the table. *)
THEOREM TypeCorrect == Spec => []TypeOK
<1>1. FrozenInv => TypeOK
  BY DEF FrozenInv
<1> QED BY <1>1, Invariant, PTL

(* The slots in use and the handles that are out match one to one, whatever*)
(* the order of registrations and removals.                                *)
THEOREM SlotsAlwaysMatch == Spec => []SlotsMatchHandles
<1>1. FrozenInv => SlotsMatchHandles
  BY DEF FrozenInv
<1> QED BY <1>1, Invariant, PTL

(* A record's limits are the ones the EE gave last.                        *)
THEOREM LimitsStayCurrent == Spec => []LimitsCurrent
<1>1. FrozenInv => LimitsCurrent
  BY DEF FrozenInv
<1> QED BY <1>1, Invariant, PTL

(* A membership query answers for exactly the registered ranges.           *)
THEOREM QueriesAreExact == Spec => []QueriesExact
<1>1. FrozenInv => QueriesExact
  <2> SUFFICES ASSUME FrozenInv, NEW p \in UNION {b..(b + Size) : b \in Bases}
               PROVE  IsInFrozenSegment(p) <=>
                        \E h \in Held : known[h].base <= p /\ p < known[h].reserved
    BY DEF QueriesExact
  <2>1. records = known
    BY DEF FrozenInv, LimitsCurrent
  <2>2. /\ \A i \in InUse : frozenSegments[i] \in Held
        /\ \A h \in Held : \E i \in InUse : frozenSegments[i] = h
    BY DEF FrozenInv, SlotsMatchHandles
  <2> QED BY <2>1, <2>2 DEF IsInFrozenSegment
<1> QED BY <1>1, Invariant, PTL

-----------------------------------------------------------------------------
LEMMA PromiseInit == Init => Promise!Init
  BY DEF Init, Promise!Init

LEMMA PromiseStep == FrozenInv /\ [Next]_vars => [Promise!Next]_records
<1> SUFFICES ASSUME FrozenInv, [Next]_vars PROVE [Promise!Next]_records
  OBVIOUS
<1>1. ASSUME NEW base \in Bases \cup {0}, NEW l \in Limits, RegisterFrozenSegment(base, l)
      PROVE  [Promise!Next]_records
  <2>1. CASE ~(base # 0 /\ HasRoom)
    BY <1>1, <2>1 DEF RegisterFrozenSegment, vars
  <2>2. CASE base # 0 /\ HasRoom
    <3>1. PICK rec \in Records \ Live : records' = With(records, rec, Segment(base, l))
      BY <1>1, <2>2 DEF RegisterFrozenSegment
    <3>2. Segment(base, l) \in Segments
      BY <2>2, SegmentInSegments
    <3> QED BY <3>1, <3>2 DEF Promise!Next, Promise!Register, Promise!Held, With, Live
  <2> QED BY <2>1, <2>2
<1>2. ASSUME NEW seg \in Held \cup {Null}, UnregisterFrozenSegment(seg)
      PROVE  [Promise!Next]_records
  <2>1. CASE seg = Null
    BY <1>2, <2>1 DEF UnregisterFrozenSegment, vars
  <2>2. CASE seg # Null
    <3>1. seg \in DOMAIN records
      BY <2>2 DEF FrozenInv, LimitsCurrent, Held
    <3>2. records' = Without(records, seg)
      BY <1>2, <2>2 DEF UnregisterFrozenSegment
    <3> QED BY <3>1, <3>2 DEF Promise!Next, Promise!Unregister, Promise!Held, Without
  <2> QED BY <2>1, <2>2
<1>3. ASSUME NEW seg \in Held \cup {Null}, NEW a \in 0..Size, NEW c \in 0..Size,
             UpdateFrozenSegment(seg, a, c)
      PROVE  [Promise!Next]_records
  <2>1. CASE seg = Null
    BY <1>3, <2>1 DEF UpdateFrozenSegment, vars
  <2>2. CASE seg # Null
    <3>1. seg \in DOMAIN records /\ known[seg] = records[seg]
      BY <2>2 DEF FrozenInv, LimitsCurrent, Held
    <3>2. PICK said \in Segments :
            /\ said.base = known[seg].base /\ said.reserved = known[seg].reserved
            /\ records' = [records EXCEPT ![seg] = said]
      BY <1>3, <2>2, UpdateEffect
    <3> QED BY <3>1, <3>2 DEF Promise!Next, Promise!Update, Promise!Held
  <2> QED BY <2>1, <2>2
<1>4. CASE UNCHANGED vars
  BY <1>4 DEF vars
<1> QED BY <1>1, <1>2, <1>3, <1>4 DEF Next

(* The table of frozen segments implements FrozenSpace.                    *)
THEOREM FrozenImplementsPromise == Spec => ImplementsFrozenSpace
<1>1. Init => Promise!Init
  BY PromiseInit
<1>2. FrozenInv /\ [Next]_vars => [Promise!Next]_records
  BY PromiseStep
<1> QED BY <1>1, <1>2, Invariant, PTL DEF Spec, ImplementsFrozenSpace, Promise!Spec

-----------------------------------------------------------------------------
(* A membership query beside registrations, removals and updates.          *)
Queries == [at : {"none", "loop", "base", "reserved", "done"}, p : Nat, i : Nat,
            count : 0..MaxSegments, rec : Records \cup {Null},
            answer : {"none", "TRUE", "FALSE", "undefined"},
            disturbed : BOOLEAN, kept : SUBSET Records]

Reading == {"base", "reserved"}

(* What a query knows of the slot i when a record it keeps is in there: it *)
(* has the slot before it, holds the record, or has found it not to match. *)
Passed(i) ==
  /\ i < query.count
  /\ i < query.i => ~Spans(frozenSegments[i], query.p)
  /\ query.at \in Reading /\ i = query.i => query.rec = frozenSegments[i]
  /\ query.at = "reserved" /\ i = query.i => known[frozenSegments[i]].base <= query.p

KeptPassed == \A i \in InUse : frozenSegments[i] \in query.kept => Passed(i)

(* As long as the table has not changed nothing is missed and the slot the *)
(* query reads is in use.                                                  *)
Calm ==
  query.at # "none" /\ ~query.disturbed =>
    /\ query.kept = Held /\ query.count = frozenSegmentsCount
    /\ query.at \in Reading => query.i \in InUse

QueryInv ==
  /\ FrozenInv
  /\ query \in Queries
  /\ query.at # "done" => query.answer = "none"
  /\ query.kept \subseteq Held
  /\ query.at = "none" => query.kept = {}
  /\ KeptPassed
  /\ Calm
  /\ MissesOnlyMoved
  /\ UndisturbedExact

-----------------------------------------------------------------------------
(* What the serialised calls leave alone: the range of a segment that      *)
(* stays registered, and the table as long as no segment comes or goes.    *)
LEMMA CallEffect ==
  ASSUME FrozenInv, Next
  PROVE  /\ \A rec \in Held : rec \in Held' =>
              /\ known'[rec].base = known[rec].base
              /\ known'[rec].reserved = known[rec].reserved
         /\ Held' = Held => UNCHANGED <<frozenSegments, frozenSegmentsCount>>
<1> DEFINE Goal ==
      /\ \A rec \in Held : rec \in Held' =>
           /\ known'[rec].base = known[rec].base
           /\ known'[rec].reserved = known[rec].reserved
      /\ Held' = Held => UNCHANGED <<frozenSegments, frozenSegmentsCount>>
<1> SUFFICES Goal
  OBVIOUS
<1>1. CASE UNCHANGED vars
  BY <1>1 DEF vars
<1>2. ASSUME NEW base \in Bases \cup {0}, NEW l \in Limits,
             RegisterFrozenSegment(base, l), ~UNCHANGED vars
      PROVE  Goal
  <2>1. PICK rec \in Records \ Live : known' = With(known, rec, Segment(base, l))
    BY <1>2 DEF RegisterFrozenSegment
  <2>2. rec \notin Held /\ Held' = Held \cup {rec}
    BY <2>1 DEF FrozenInv, SlotsMatchHandles, Held, With
  <2>3. \A q \in Held : known'[q] = known[q]
    BY <2>1, <2>2 DEF With, Held
  <2> QED BY <2>2, <2>3
<1>3. ASSUME NEW seg \in Held, UnregisterFrozenSegment(seg), seg # Null
      PROVE  Goal
  <2>1. known' = Without(known, seg)
    BY <1>3 DEF UnregisterFrozenSegment
  <2>2. Held' = Held \ {seg} /\ \A q \in Held' : known'[q] = known[q]
    BY <2>1 DEF Without, Held
  <2> QED BY <2>2
<1>4. ASSUME NEW seg \in Held, NEW a \in 0..Size, NEW c \in 0..Size,
             UpdateFrozenSegment(seg, a, c), seg # Null
      PROVE  Goal
  <2>1. PICK said \in Segments :
           /\ said.base = known[seg].base /\ said.reserved = known[seg].reserved
           /\ known' = [known EXCEPT ![seg] = said]
           /\ UNCHANGED <<frozenSegments, frozenSegmentsCount>>
    BY <1>4, UpdateEffect
  <2> QED BY <2>1 DEF Held
<1> QED
  BY <1>1, <1>2, <1>3, <1>4 DEF Next, UnregisterFrozenSegment, UpdateFrozenSegment

LEMMA QueryStart == QueryInit => QueryInv
<1> SUFFICES ASSUME QueryInit PROVE QueryInv
  OBVIOUS
<1>1. FrozenInv /\ InUse = {}
  BY InvInit DEF QueryInit, Init, InUse
<1>2. query \in Queries /\ query.at = "none" /\ query.answer = "none" /\ query.kept = {}
  BY FrozenAssumption DEF QueryInit, NoQuery, Queries
<1> QED BY <1>1, <1>2 DEF QueryInv, KeptPassed, Calm, MissesOnlyMoved, UndisturbedExact

(* A call beside the query.                                                *)
LEMMA CallStep ==
  ASSUME QueryInv, Serialised, query.at # "none"
  PROVE  QueryInv'
<1> DEFINE kept == {rec \in query.kept : Keeps(rec)}
           disturbed == query.disturbed \/ Held' # Held
<1>1. query' = [query EXCEPT !.kept = kept, !.disturbed = disturbed]
  BY DEF Serialised
<1>2. FrozenInv /\ Next /\ FrozenInv'
  BY InvStep DEF QueryInv, Serialised
<1>3. /\ query \in Queries /\ query.kept \subseteq Held
      /\ query.at # "done" => query.answer = "none"
  BY DEF QueryInv
<1>4. /\ query' \in Queries
      /\ query'.at = query.at /\ query'.p = query.p /\ query'.i = query.i
      /\ query'.count = query.count /\ query'.rec = query.rec
      /\ query'.answer = query.answer /\ query'.kept = kept
      /\ query'.disturbed = disturbed
  <2> HIDE DEF disturbed, kept
  <2>1. kept \subseteq query.kept /\ disturbed \in BOOLEAN
    BY <1>3 DEF kept, disturbed, Queries
  <2> QED BY <1>1, <1>3, <2>1 DEF Queries
<1>5. kept \subseteq query.kept /\ kept \subseteq Held /\ kept \subseteq Held'
  BY <1>3 DEF Keeps
<1>6. /\ \A rec \in Held : rec \in Held' =>
            /\ known'[rec].base = known[rec].base
            /\ known'[rec].reserved = known[rec].reserved
      /\ Held' = Held => UNCHANGED <<frozenSegments, frozenSegmentsCount>>
  BY <1>2, CallEffect
<1>7. \A rec \in kept : Spans(rec, query.p)' <=> Spans(rec, query.p)
  BY <1>4, <1>5, <1>6 DEF Spans
<1>8. KeptPassed'
  <2> SUFFICES ASSUME NEW i \in InUse', frozenSegments'[i] \in kept
               PROVE  Passed(i)'
    BY <1>4 DEF KeptPassed
  <2>1. PICK j \in InUse : frozenSegments[j] = frozenSegments'[i]
    BY <1>2, <1>5 DEF FrozenInv, SlotsMatchHandles
  <2>2. j \in InUse' /\ frozenSegments'[j] = frozenSegments'[i]
    BY <2>1 DEF Keeps
  <2>3. i = j
    BY <1>2, <2>2 DEF FrozenInv, SlotsMatchHandles
  <2>4. Passed(i)
    BY <1>5, <2>1, <2>3 DEF QueryInv, KeptPassed
  <2> QED BY <1>4, <1>5, <1>6, <1>7, <2>1, <2>3, <2>4 DEF Passed, Spans
<1>9. Calm'
  <2> SUFFICES ASSUME ~disturbed
               PROVE  /\ kept = Held' /\ query.count = frozenSegmentsCount'
                      /\ query.at \in Reading => query.i \in InUse'
    BY <1>4 DEF Calm
  <2>1. Held' = Held /\ UNCHANGED <<frozenSegments, frozenSegmentsCount>>
    BY <1>6
  <2>2. InUse' = InUse
    BY <2>1 DEF InUse
  <2>3. query.kept = Held /\ query.count = frozenSegmentsCount
        /\ (query.at \in Reading => query.i \in InUse)
    BY DEF QueryInv, Calm
  <2> QED BY <2>1, <2>2, <2>3 DEF Keeps
<1>10. MissesOnlyMoved'
  BY <1>4, <1>5, <1>7 DEF QueryInv, MissesOnlyMoved
<1>11. UndisturbedExact'
  <2> SUFFICES ASSUME query.at = "done", ~disturbed
               PROVE  query.answer = IF \E h \in Held' : Spans(h, query.p)' THEN "TRUE"
                                     ELSE "FALSE"
    BY <1>4 DEF UndisturbedExact, Spans
  <2>1. Held' = Held /\ kept = Held
    BY <1>4, <1>9 DEF Calm
  <2> QED BY <1>7, <2>1 DEF QueryInv, UndisturbedExact
<1> QED BY <1>2, <1>3, <1>4, <1>5, <1>8, <1>9, <1>10, <1>11 DEF QueryInv

(* The steps of the query.                                                 *)
LEMMA Still ==
  ASSUME QueryInv, UNCHANGED vars
  PROVE  /\ FrozenInv' /\ Held' = Held /\ InUse' = InUse
         /\ \A rec, p : Spans(rec, p)' <=> Spans(rec, p)
  BY Unchanged DEF QueryInv, vars, Held, InUse, Spans

(* What holds of every record in use.                                      *)
LEMMA RecordInUse ==
  ASSUME FrozenInv
  PROVE  /\ \A i \in InUse : frozenSegments[i] \in Held
         /\ \A h \in Held : \E i \in InUse : frozenSegments[i] = h
         /\ Live = Held /\ records = known
         /\ InUse \subseteq 0..(MaxSegments - 1)
         /\ \A h \in Held : known[h].base \in Nat /\ known[h].reserved \in Nat
<1>1. /\ \A i \in InUse : frozenSegments[i] \in Held
      /\ \A h \in Held : \E i \in InUse : frozenSegments[i] = h
      /\ Live = Held /\ records = known
  BY DEF FrozenInv, SlotsMatchHandles, LimitsCurrent
<1>2. InUse \subseteq 0..(MaxSegments - 1)
  BY FrozenAssumption DEF FrozenInv, TypeOK, InUse
<1>3. ASSUME NEW h \in Held
      PROVE  known[h].base \in Nat /\ known[h].reserved \in Nat
  <2>1. PICK b \in Bases, l \in Limits : known[h] = Segment(b, l)
    BY DEF FrozenInv, TypeOK, Segments
  <2> QED BY <2>1, FrozenAssumption DEF Segment
<1> QED BY <1>1, <1>2, <1>3

LEMMA BeginStep ==
  ASSUME QueryInv, NEW p \in Nat, Begin(p)
  PROVE  QueryInv'
<1>1. /\ FrozenInv' /\ Held' = Held /\ InUse' = InUse
      /\ \A rec, q : Spans(rec, q)' <=> Spans(rec, q)
  BY Still DEF Begin
<1>2. query' = [NoQuery EXCEPT !.at = "loop", !.p = p, !.count = frozenSegmentsCount,
                               !.kept = Held]
  BY DEF Begin
<1>3. frozenSegmentsCount \in 0..MaxSegments /\ Held \subseteq Records
  BY DEF QueryInv, FrozenInv, TypeOK
<1>4. /\ query' \in Queries /\ query'.at = "loop" /\ query'.answer = "none"
      /\ query'.i = 0 /\ query'.count = frozenSegmentsCount /\ query'.kept = Held
  BY <1>2, <1>3 DEF NoQuery, Queries
<1>5. KeptPassed'
  <2>1. frozenSegmentsCount \in Nat
    BY <1>3, FrozenAssumption
  <2> SUFFICES ASSUME NEW i \in InUse PROVE Passed(i)'
    BY <1>1 DEF KeptPassed
  <2>2. i < frozenSegmentsCount /\ ~(i < 0)
    BY <2>1 DEF InUse
  <2> QED BY <1>4, <2>2 DEF Passed, Reading
<1>6. Calm'
  BY <1>1, <1>4 DEF Calm, Reading, Begin, vars
<1> QED BY <1>1, <1>4, <1>5, <1>6 DEF QueryInv, MissesOnlyMoved, UndisturbedExact

(* A query that gives its answer.                                          *)
LEMMA DoneStep ==
  ASSUME QueryInv, UNCHANGED vars, query.at \notin {"none", "done"},
         NEW answer \in {"TRUE", "FALSE", "undefined"}, Done(answer),
         answer = "FALSE" => \A rec \in query.kept : ~Spans(rec, query.p),
         ~query.disturbed /\ answer = "TRUE" => \E h \in Held : Spans(h, query.p),
         answer = "undefined" => query.disturbed
  PROVE  QueryInv'
<1>1. /\ FrozenInv' /\ Held' = Held /\ InUse' = InUse
      /\ \A rec, q : Spans(rec, q)' <=> Spans(rec, q)
  BY Still
<1>2. query \in Queries
  BY DEF QueryInv
<1>3. /\ query' \in Queries /\ query'.at = "done" /\ query'.answer = answer
      /\ query'.i = query.i /\ query'.p = query.p /\ query'.count = query.count
      /\ query'.kept = query.kept /\ query'.disturbed = query.disturbed
  BY <1>2 DEF Done, Queries
<1>4. KeptPassed'
  BY <1>1, <1>3 DEF QueryInv, KeptPassed, Passed, Reading, vars
<1>5. Calm'
  BY <1>1, <1>3 DEF QueryInv, Calm, Reading, vars
<1>6. MissesOnlyMoved'
  BY <1>1, <1>3 DEF MissesOnlyMoved
<1>7. UndisturbedExact'
  BY <1>1, <1>3 DEF UndisturbedExact, QueryInv, Calm
<1> QED BY <1>1, <1>3, <1>4, <1>5, <1>6, <1>7 DEF QueryInv

(* A query that goes on to the next slot.                                  *)
LEMMA TurnStep ==
  ASSUME QueryInv, UNCHANGED vars, query.at \in Reading, Turn,
         query.i \in InUse /\ frozenSegments[query.i] \in query.kept
           => ~Spans(frozenSegments[query.i], query.p)
  PROVE  QueryInv'
<1>1. /\ FrozenInv' /\ Held' = Held /\ InUse' = InUse
      /\ \A rec, q : Spans(rec, q)' <=> Spans(rec, q)
  BY Still
<1>2. query \in Queries /\ query.answer = "none"
  BY DEF QueryInv, Reading
<1>3. /\ query' \in Queries /\ query'.at = "loop" /\ query'.answer = "none"
      /\ query'.i = query.i + 1 /\ query'.p = query.p /\ query'.count = query.count
      /\ query'.kept = query.kept /\ query'.disturbed = query.disturbed
  <2>1. query.i \in Nat /\ query.i + 1 \in Nat
    BY <1>2 DEF Queries
  <2> QED BY <1>2, <2>1 DEF Turn, Queries
<1>4. KeptPassed'
  <2> SUFFICES ASSUME NEW i \in InUse, frozenSegments[i] \in query.kept
               PROVE  Passed(i)'
    BY <1>1, <1>3 DEF KeptPassed, vars
  <2>1. Passed(i) /\ i \in Nat /\ query.i \in Nat
    BY <1>2 DEF QueryInv, KeptPassed, Queries, InUse
  <2> QED BY <1>1, <1>3, <2>1 DEF Passed, Reading, vars
<1>5. Calm'
  BY <1>1, <1>3 DEF QueryInv, Calm, Reading, vars
<1> QED BY <1>1, <1>3, <1>4, <1>5 DEF QueryInv, MissesOnlyMoved, UndisturbedExact

LEMMA LoopStep ==
  ASSUME QueryInv, Loop
  PROVE  QueryInv'
<1>1. PICK bound \in {query.count, frozenSegmentsCount} :
        IF query.i < bound
          THEN query' = [query EXCEPT !.at = "base", !.rec = frozenSegments[query.i]]
          ELSE Done("FALSE")
  BY DEF Loop
<1>2. query \in Queries /\ query.at = "loop" /\ UNCHANGED vars /\ query.answer = "none"
  BY DEF QueryInv, Loop
<1>3. CASE query.i < bound
  <2>1. /\ FrozenInv' /\ Held' = Held /\ InUse' = InUse
        /\ \A rec, q : Spans(rec, q)' <=> Spans(rec, q)
    BY <1>2, Still
  <2>2. query.i \in 0..(MaxSegments - 1)
    BY <1>2, <1>3, FrozenAssumption DEF Queries, QueryInv, FrozenInv, TypeOK
  <2>3. frozenSegments[query.i] \in Records \cup {Null}
    BY <2>2 DEF QueryInv, FrozenInv, TypeOK
  <2>4. /\ query' \in Queries /\ query'.at = "base" /\ query'.rec = frozenSegments[query.i]
        /\ query'.i = query.i /\ query'.p = query.p /\ query'.count = query.count
        /\ query'.kept = query.kept /\ query'.disturbed = query.disturbed
        /\ query'.answer = query.answer
    BY <1>1, <1>2, <1>3, <2>3 DEF Queries
  <2>5. KeptPassed'
    BY <1>2, <2>1, <2>4 DEF QueryInv, KeptPassed, Passed, Reading, vars
  <2>6. Calm'
    <3>1. frozenSegmentsCount \in Nat
      BY FrozenAssumption DEF QueryInv, FrozenInv, TypeOK
    <3>2. ~query.disturbed => query.kept = Held /\ query.count = frozenSegmentsCount
      BY <1>2 DEF QueryInv, Calm
    <3>3. ~query.disturbed => query.i \in InUse
      BY <1>3, <2>2, <3>1, <3>2 DEF InUse
    <3> QED BY <1>2, <2>1, <2>4, <3>2, <3>3 DEF Calm, vars
  <2> QED BY <1>2, <2>1, <2>4, <2>5, <2>6 DEF QueryInv, MissesOnlyMoved, UndisturbedExact
<1>4. CASE ~(query.i < bound)
  <2>1. ASSUME NEW rec \in query.kept PROVE ~Spans(rec, query.p)
    <3>1. PICK i \in InUse : frozenSegments[i] = rec
      BY <2>1, RecordInUse DEF QueryInv
    <3>2. i < query.count /\ i < frozenSegmentsCount /\ i \in Nat
      <4>1. i < query.count
        BY <2>1, <3>1 DEF QueryInv, KeptPassed, Passed
      <4>2. frozenSegmentsCount \in Nat
        BY FrozenAssumption DEF QueryInv, FrozenInv, TypeOK
      <4> QED BY <4>1, <4>2 DEF InUse
    <3>3. i < query.i
      BY <1>2, <1>4, <3>2, FrozenAssumption DEF Queries, QueryInv, FrozenInv, TypeOK
    <3> QED BY <2>1, <3>1, <3>3 DEF QueryInv, KeptPassed, Passed
  <2> QED BY <1>1, <1>2, <1>4, <2>1, DoneStep
<1> QED BY <1>3, <1>4

LEMMA CheckBaseStep ==
  ASSUME QueryInv, CheckBase
  PROVE  QueryInv'
<1>1. query \in Queries /\ query.at = "base" /\ UNCHANGED vars /\ query.answer = "none"
  BY DEF QueryInv, CheckBase
<1>2. query.i \in InUse /\ frozenSegments[query.i] \in query.kept =>
        query.rec = frozenSegments[query.i] /\ query.rec \in Held
  BY <1>1, RecordInUse DEF QueryInv, KeptPassed, Passed, Reading
<1>3. ~query.disturbed => query.i \in InUse /\ frozenSegments[query.i] \in query.kept
  BY <1>1, RecordInUse DEF QueryInv, Calm, Reading
<1>4. Live = Held /\ records = known
      /\ \A h \in Held : known[h].base \in Nat /\ known[h].reserved \in Nat
  BY RecordInUse DEF QueryInv
<1>5. CASE query.rec \notin Live
  <2>1. Done("undefined")
    BY <1>5 DEF CheckBase
  <2> QED BY <1>1, <1>2, <1>3, <1>4, <1>5, <2>1, DoneStep
<1>6. CASE query.rec \in Live /\ records[query.rec].base <= query.p
  <2>1. query' = [query EXCEPT !.at = "reserved"]
    BY <1>6 DEF CheckBase
  <2>2. /\ FrozenInv' /\ Held' = Held /\ InUse' = InUse
        /\ \A rec, q : Spans(rec, q)' <=> Spans(rec, q)
    BY <1>1, Still
  <2>3. /\ query' \in Queries /\ query'.at = "reserved" /\ query'.rec = query.rec
        /\ query'.i = query.i /\ query'.p = query.p /\ query'.count = query.count
        /\ query'.kept = query.kept /\ query'.disturbed = query.disturbed
        /\ query'.answer = query.answer
    BY <1>1, <2>1 DEF Queries
  <2>4. KeptPassed'
    BY <1>1, <1>4, <1>6, <2>2, <2>3 DEF QueryInv, KeptPassed, Passed, Reading, vars
  <2>5. Calm'
    BY <1>1, <2>2, <2>3 DEF QueryInv, Calm, Reading, vars
  <2> QED BY <1>1, <2>2, <2>3, <2>4, <2>5 DEF QueryInv, MissesOnlyMoved, UndisturbedExact
<1>7. CASE query.rec \in Live /\ ~(records[query.rec].base <= query.p)
  <2>1. Turn
    BY <1>7 DEF CheckBase
  <2>2. ~Spans(query.rec, query.p)
    BY <1>4, <1>7 DEF Spans
  <2> QED BY <1>1, <1>2, <2>1, <2>2, TurnStep DEF Reading
<1> QED BY <1>5, <1>6, <1>7

LEMMA CheckReservedStep ==
  ASSUME QueryInv, CheckReserved
  PROVE  QueryInv'
<1>1. query \in Queries /\ query.at = "reserved" /\ UNCHANGED vars
  BY DEF QueryInv, CheckReserved
<1>2. PICK rec \in {query.rec, frozenSegments[query.i]} :
        CASE rec \notin Live -> Done("undefined")
          [] rec \in Live /\ query.p < records[rec].reserved -> Done("TRUE")
          [] OTHER -> Turn
  BY DEF CheckReserved
<1>3. query.i \in InUse /\ frozenSegments[query.i] \in query.kept =>
        rec = frozenSegments[query.i] /\ rec \in Held /\ known[rec].base <= query.p
  BY <1>1, RecordInUse DEF QueryInv, KeptPassed, Passed, Reading
<1>4. ~query.disturbed => query.i \in InUse /\ frozenSegments[query.i] \in query.kept
  BY <1>1, RecordInUse DEF QueryInv, Calm, Reading
<1>5. Live = Held /\ records = known
      /\ \A h \in Held : known[h].base \in Nat /\ known[h].reserved \in Nat
  BY RecordInUse DEF QueryInv
<1>6. CASE rec \notin Live
  <2>1. Done("undefined")
    BY <1>2, <1>6
  <2> QED BY <1>1, <1>3, <1>4, <1>5, <1>6, <2>1, DoneStep
<1>7. CASE rec \in Live /\ query.p < records[rec].reserved
  <2>1. Done("TRUE")
    BY <1>2, <1>7
  <2>2. ~query.disturbed => \E h \in Held : Spans(h, query.p)
    BY <1>3, <1>4, <1>5, <1>7 DEF Spans
  <2> QED BY <1>1, <2>1, <2>2, DoneStep
<1>8. CASE rec \in Live /\ ~(query.p < records[rec].reserved)
  <2>1. Turn
    BY <1>2, <1>8
  <2>2. ~Spans(rec, query.p)
    BY <1>5, <1>8 DEF Spans
  <2> QED BY <1>1, <1>3, <2>1, <2>2, TurnStep DEF Reading
<1> QED BY <1>6, <1>7, <1>8

LEMMA ReturnStep ==
  ASSUME QueryInv, Return
  PROVE  QueryInv'
<1>1. UNCHANGED vars /\ query' = NoQuery
  BY DEF Return
<1>2. /\ FrozenInv' /\ query'.at = "none" /\ query'.answer = "none" /\ query'.kept = {}
  BY <1>1, Still DEF NoQuery
<1>3. query' \in Queries
  BY <1>1, FrozenAssumption DEF NoQuery, Queries
<1> QED BY <1>2, <1>3 DEF QueryInv, KeptPassed, Calm, MissesOnlyMoved, UndisturbedExact

LEMMA QueryInvStep ==
  QueryInv /\ [Serialised \/ QueryStep]_allVars => QueryInv'
<1> SUFFICES ASSUME QueryInv, [Serialised \/ QueryStep]_allVars PROVE QueryInv'
  OBVIOUS
<1>1. CASE Serialised /\ query.at # "none"
  BY <1>1, CallStep
<1>2. CASE Serialised /\ query.at = "none"
  <2>1. query' = query /\ FrozenInv'
    BY <1>2, InvStep DEF Serialised, QueryInv
  <2>2. query \in Queries /\ query.answer = "none" /\ query.kept = {}
    BY <1>2 DEF QueryInv
  <2> QED BY <1>2, <2>1, <2>2 DEF QueryInv, KeptPassed, Calm, MissesOnlyMoved,
            UndisturbedExact
<1>3. ASSUME NEW p \in UNION {b..(b + Size) : b \in Bases}, Begin(p)
      PROVE  QueryInv'
  <2>1. p \in Nat
    BY FrozenAssumption
  <2> QED BY <1>3, <2>1, BeginStep
<1>4. CASE UNCHANGED allVars
  <2>1. UNCHANGED vars /\ query' = query
    BY <1>4 DEF allVars
  <2> QED BY <2>1, Still DEF QueryInv, KeptPassed, Passed, Calm, MissesOnlyMoved,
            UndisturbedExact, vars
<1> QED BY <1>1, <1>2, <1>3, <1>4, LoopStep, CheckBaseStep, CheckReservedStep, ReturnStep
      DEF QueryStep

LEMMA QueryInvariant == QuerySpec => []QueryInv
  BY QueryStart, QueryInvStep, PTL DEF QuerySpec

-----------------------------------------------------------------------------
(* A query that no registration and no removal overlaps is exact and reads *)
(* no deleted record (MiniGCHeap.cpp:774-783 beside 807-816).              *)
THEOREM UndisturbedQueriesExact == QuerySpec => []UndisturbedExact
<1>1. QueryInv => UndisturbedExact
  BY DEF QueryInv
<1> QED BY <1>1, QueryInvariant, PTL

(* Whatever comes and goes beside it, a query does not miss a segment that *)
(* keeps its slot (MiniGCHeap.cpp:767).                                    *)
THEOREM QueriesMissOnlyMoved == QuerySpec => []MissesOnlyMoved
<1>1. QueryInv => MissesOnlyMoved
  BY DEF QueryInv
<1> QED BY <1>1, QueryInvariant, PTL
=============================================================================
