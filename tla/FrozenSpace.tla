---------------------------- MODULE FrozenSpace ----------------------------
(***************************************************************************)
(* What the GC keeps about frozen segments for the execution engine, free  *)
(* of tables and records: for each handle it gave out and has not got back,*)
(* the segment as the engine last described it.  Room for a new one may run*)
(* out.                                                                    *)
(***************************************************************************)
CONSTANTS Handles, Segments

VARIABLE known      \* the segment behind each handle the engine holds

Init == known = [h \in {} |-> {}]

Held == DOMAIN known

Register ==
  \E h \in Handles \ Held, s \in Segments :
    known' = [g \in Held \cup {h} |-> IF g = h THEN s ELSE known[g]]

Unregister == \E h \in Held : known' = [g \in Held \ {h} |-> known[g]]

(* The limits of a segment move, its place does not.                       *)
Update ==
  \E h \in Held, s \in Segments :
    /\ s.base = known[h].base /\ s.reserved = known[h].reserved
    /\ known' = [known EXCEPT ![h] = s]

Next == Register \/ Unregister \/ Update

Spec == Init /\ [][Next]_known
=============================================================================
