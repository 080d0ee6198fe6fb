--------------------------- MODULE FrozenSegments ---------------------------
(***************************************************************************)
(* The frozen segments the EE registers with the GC (MiniGCHeap.cpp:45-59, *)
(* 740-783 and 807-816), calls serialised.                                 *)
(*                                                                         *)
(* The table keeps its live pointers in front: unregistering moves the last*)
(* one into the hole and leaves the slot behind the new count as it is.    *)
(* records is the C++ heap: the FrozenSegmentRecords allocated by new and  *)
(* not yet deleted, whose addresses may be used again.  The EE passes the  *)
(* handles it holds, or nullptr; known is the history of what it said.     *)
(***************************************************************************)
EXTENDS Integers

CONSTANTS
  Records, Null,      \* addresses of records, nullptr
  Bases,              \* where the EE's frozen segments may lie
  Size,               \* bytes it reserves for each
  MaxSegments         \* length of frozenSegments, 64 in the code

ASSUME FrozenAssumption ==
  /\ Null \notin Records
  /\ Bases \subseteq Nat \ {0}
  /\ Size \in Nat \ {0}
  /\ MaxSegments \in Nat

VARIABLES
  frozenSegments, frozenSegmentsCount,
  records,
  known

vars == <<frozenSegments, frozenSegmentsCount, records, known>>

(* The offsets ibAllocated <= ibCommit <= ibReserved the EE may give.      *)
Limits ==
  {l \in [allocated : 0..Size, committed : 0..Size] : l.allocated <= l.committed}

Segment(base, l) ==
  [base |-> base, allocated |-> base + l.allocated,
   committed |-> base + l.committed, reserved |-> base + Size]

Segments == {Segment(b, l) : b \in Bases, l \in Limits}

Live == DOMAIN records
Held == DOMAIN known
InUse == 0..(frozenSegmentsCount - 1)

Init ==
  /\ frozenSegments = [i \in 0..(MaxSegments - 1) |-> Null]
  /\ frozenSegmentsCount = 0
  /\ records = [r \in {} |-> {}]
  /\ known = [h \in {} |-> {}]

With(f, r, s) == [q \in DOMAIN f \cup {r} |-> IF q = r THEN s ELSE f[q]]
Without(f, r) == [q \in DOMAIN f \ {r} |-> f[q]]

-----------------------------------------------------------------------------
HasRoom == frozenSegmentsCount < MaxSegments

(* No memory to register (pvMem is nullptr) or no room: the null handle.   *)
RegisterFrozenSegment(base, l) ==
  IF base # 0 /\ HasRoom
    THEN \E rec \in Records \ Live :
           /\ records' = With(records, rec, Segment(base, l))
           /\ frozenSegments' = [frozenSegments EXCEPT ![frozenSegmentsCount] = rec]
           /\ frozenSegmentsCount' = frozenSegmentsCount + 1
           /\ known' = With(known, rec, Segment(base, l))
    ELSE UNCHANGED vars

(* Closing the hole at i: the count goes down, then the last pointer moves.*)
RemoveSlotWithoutMoving(i) ==
  /\ frozenSegmentsCount' = frozenSegmentsCount - 1
  /\ UNCHANGED frozenSegments

RemoveSlot(i) ==
  /\ frozenSegmentsCount' = frozenSegmentsCount - 1
  /\ frozenSegments' =
       [frozenSegments EXCEPT ![i] = frozenSegments[frozenSegmentsCount - 1]]

SlotsOf(rec) == {i \in InUse : frozenSegments[i] = rec}

(* The record is deleted whether or not a slot points to it.               *)
UnregisterFrozenSegment(seg) ==
  IF seg = Null THEN UNCHANGED vars
  ELSE /\ IF SlotsOf(seg) # {}
            THEN RemoveSlot(CHOOSE i \in SlotsOf(seg) : \A j \in SlotsOf(seg) : i <= j)
            ELSE UNCHANGED <<frozenSegments, frozenSegmentsCount>>
       /\ records' = Without(records, seg)
       /\ known' = Without(known, seg)

(* A null limit leaves the old one.                                        *)
MoveLimitsShrinking(s, allocated, committed) ==
  [s EXCEPT !.allocated = IF allocated # 0 THEN allocated ELSE @,
            !.reserved = IF committed # 0 THEN committed ELSE @]

MoveLimitsTogether(s, allocated, committed) ==
  [s EXCEPT !.allocated = IF allocated # 0 THEN allocated ELSE @,
            !.committed = IF allocated # 0 THEN committed ELSE @]

MoveLimits(s, allocated, committed) ==
  [s EXCEPT !.allocated = IF allocated # 0 THEN allocated ELSE @,
            !.committed = IF committed # 0 THEN committed ELSE @]

(* The EE moves either limit, or none, and keeps them in order.            *)
UpdateFrozenSegment(seg, a, c) ==
  IF seg = Null THEN UNCHANGED vars
  ELSE LET limit(n) == IF n = 0 THEN 0 ELSE known[seg].base + n
           said == [known[seg] EXCEPT !.allocated = IF a = 0 THEN @ ELSE limit(a),
                                      !.committed = IF c = 0 THEN @ ELSE limit(c)]
       IN  /\ said \in Segments
           /\ known' = [known EXCEPT ![seg] = said]
           /\ records' = [records EXCEPT ![seg] = MoveLimits(@, limit(a), limit(c))]
           /\ UNCHANGED <<frozenSegments, frozenSegmentsCount>>

(* Whether some record in use spans the address.                           *)
IsInFrozenSegmentInclusive(p) ==
  \E i \in InUse : LET rec == records[frozenSegments[i]] IN
    rec.base <= p /\ p <= rec.reserved

IsInFrozenSegment(p) ==
  \E i \in InUse : LET rec == records[frozenSegments[i]] IN
    rec.base <= p /\ p < rec.reserved

-----------------------------------------------------------------------------
Next ==
  \/ \E base \in Bases \cup {0}, l \in Limits : RegisterFrozenSegment(base, l)
  \/ \E seg \in Held \cup {Null} :
       \/ UnregisterFrozenSegment(seg)
       \/ \E a, c \in 0..Size : UpdateFrozenSegment(seg, a, c)

Spec == Init /\ [][Next]_vars

-----------------------------------------------------------------------------
(* The abstract set of segments these implement.                           *)
Promise == INSTANCE FrozenSpace WITH Handles <- Records, known <- records

(* Every variable holds a value of its type; the count stays in the table. *)
TypeOK ==
  /\ frozenSegmentsCount \in 0..MaxSegments
  /\ frozenSegments \in [0..(MaxSegments - 1) -> Records \cup {Null}]
  /\ records \in [Live -> Segments] /\ Live \subseteq Records
  /\ known \in [Held -> Segments] /\ Held \subseteq Records

(* The slots in use point to the records the EE holds handles of, each to  *)
(* another one, and no other record exists: no slot dangles when a record  *)
(* is deleted (MiniGCHeap.cpp:763-771), and no record leaks or is dropped  *)
(* while its handle is still out.                                          *)
SlotsMatchHandles ==
  /\ {frozenSegments[i] : i \in InUse} = Held
  /\ \A i, j \in InUse : frozenSegments[i] = frozenSegments[j] => i = j
  /\ Live = Held

(* After any registrations, removals and updates in any order a query says *)
(* TRUE for exactly the addresses inside what the EE has registered and not*)
(* taken back (MiniGCHeap.cpp:774-783).                                    *)
QueriesExact ==
  \A p \in UNION {b..(b + Size) : b \in Bases} :
    IsInFrozenSegment(p) <=> \E h \in Held : known[h].base <= p /\ p < known[h].reserved

(* A handle's record says what the EE last said: "keep the                 *)
(* committed/allocated limits current" (MiniGCHeap.cpp:47-49).             *)
LimitsCurrent == records = known

(* The table implements the promise of FrozenSpace.                        *)
ImplementsFrozenSpace == Promise!Spec

=============================================================================
