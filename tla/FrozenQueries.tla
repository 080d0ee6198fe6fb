--------------------------- MODULE FrozenQueries ---------------------------
(***************************************************************************)
(* IsInFrozenSegment beside registrations, removals and updates, which     *)
(* serialise among themselves.  The loop of a query reads the count before *)
(* each turn, or once (nothing tells the compiler that it may change), and *)
(* the slot once or twice, for base and for reserved.  A query writes      *)
(* nothing, so that one stands for any number of them.                     *)
(***************************************************************************)
EXTENDS FrozenSegments

VARIABLE query

allVars == <<vars, query>>

(* Where the query is, its address, turn and first count, the record it    *)
(* loaded, its answer; and as history whether the table changed since it   *)
(* began and the records that have kept their slot since then.             *)
NoQuery == [at |-> "none", p |-> 0, i |-> 0, count |-> 0, rec |-> Null,
            answer |-> "none", disturbed |-> FALSE, kept |-> {}]

QueryInit == Init /\ query = NoQuery

-----------------------------------------------------------------------------
Begin(p) ==
  /\ query.at = "none"
  /\ query' = [NoQuery EXCEPT !.at = "loop", !.p = p, !.count = frozenSegmentsCount,
                              !.kept = Held]
  /\ UNCHANGED vars

Done(answer) == query' = [query EXCEPT !.at = "done", !.answer = answer]
Turn == query' = [query EXCEPT !.at = "loop", !.i = @ + 1]

LoopStoppingShort ==
  /\ query.at = "loop"
  /\ \E bound \in {query.count, frozenSegmentsCount} :
       IF query.i < bound - 1
         THEN query' = [query EXCEPT !.at = "base", !.rec = frozenSegments[query.i]]
         ELSE Done("FALSE")
  /\ UNCHANGED vars

Loop ==
  /\ query.at = "loop"
  /\ \E bound \in {query.count, frozenSegmentsCount} :
       IF query.i < bound
         THEN query' = [query EXCEPT !.at = "base", !.rec = frozenSegments[query.i]]
         ELSE Done("FALSE")
  /\ UNCHANGED vars

(* What a deleted record, or none, gives is undefined.                     *)
CheckBase ==
  /\ query.at = "base"
  /\ CASE query.rec \notin Live -> Done("undefined")
       [] query.rec \in Live /\ records[query.rec].base <= query.p ->
            query' = [query EXCEPT !.at = "reserved"]
       [] OTHER -> Turn
  /\ UNCHANGED vars

CheckReservedInclusive ==
  /\ query.at = "reserved"
  /\ \E rec \in {query.rec, frozenSegments[query.i]} :
       CASE rec \notin Live -> Done("undefined")
         [] rec \in Live /\ query.p <= records[rec].reserved -> Done("TRUE")
         [] OTHER -> Turn
  /\ UNCHANGED vars

CheckReserved ==
  /\ query.at = "reserved"
  /\ \E rec \in {query.rec, frozenSegments[query.i]} :
       CASE rec \notin Live -> Done("undefined")
         [] rec \in Live /\ query.p < records[rec].reserved -> Done("TRUE")
         [] OTHER -> Turn
  /\ UNCHANGED vars

Return == query.at = "done" /\ query' = NoQuery /\ UNCHANGED vars

(* The serialised calls; a query notices only what they do to the table.   *)
Keeps(rec) ==
  /\ rec \in Held'
  /\ \A i \in InUse : frozenSegments[i] = rec => i \in InUse' /\ frozenSegments'[i] = rec

Serialised ==
  /\ Next
  /\ query' = IF query.at = "none" THEN query
              ELSE [query EXCEPT !.kept = {rec \in @ : Keeps(rec)},
                                 !.disturbed = @ \/ Held' # Held]

QueryStep == (\E p \in UNION {b..(b + Size) : b \in Bases} : Begin(p))
             \/ Loop \/ CheckBase \/ CheckReserved \/ Return

QuerySpec == QueryInit /\ [][Serialised \/ QueryStep]_allVars

-----------------------------------------------------------------------------
Spans(rec, p) == known[rec].base <= p /\ p < known[rec].reserved

(* A query that overlaps with no registration and no removal is exact and  *)
(* reads no deleted record, whatever limits are updated beside it          *)
(* (MiniGCHeap.cpp:774-783 beside 807-816).                                *)
UndisturbedExact ==
  query.at = "done" /\ ~query.disturbed =>
    query.answer = IF \E h \in Held : Spans(h, query.p) THEN "TRUE" ELSE "FALSE"

(* A query misses only what is registered or moved while it runs: however  *)
(* many segments come and go, an address in one that keeps its slot is not *)
(* answered FALSE (MiniGCHeap.cpp:767: a removal moves one pointer only).  *)
MissesOnlyMoved ==
  query.answer = "FALSE" => \A rec \in query.kept : ~Spans(rec, query.p)
=============================================================================
