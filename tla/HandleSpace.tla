---------------------------- MODULE HandleSpace ----------------------------
(***************************************************************************)
(* What the handle table keeps for the execution engine, without slots and *)
(* types: a live handle refers to an object; a handle that has lost its    *)
(* object, by a destroy or by null being put in it, is spent, and a spent  *)
(* handle neither comes back to life nor is ever issued again.             *)
(***************************************************************************)
CONSTANTS Handles, Objects

VARIABLES refs,     \* what each live handle refers to
          spent     \* handles that no longer refer to anything

vars == <<refs, spent>>

Live == DOMAIN refs
Fresh == Handles \ (Live \cup spent)

Init == refs = [h \in {} |-> {}] /\ spent = {}

Issue ==
  /\ \E h \in Fresh, o \in Objects :
       refs' = [g \in Live \cup {h} |-> IF g = h THEN o ELSE refs[g]]
  /\ UNCHANGED spent

(* Issued for null: spent from the start.                                  *)
IssueSpent == (\E h \in Fresh : spent' = spent \cup {h}) /\ UNCHANGED refs

Assign ==
  /\ \E h \in Live, o \in Objects : refs' = [refs EXCEPT ![h] = o]
  /\ UNCHANGED spent

Drop ==
  \E h \in Live :
    /\ refs' = [g \in Live \ {h} |-> refs[g]]
    /\ spent' = spent \cup {h}

Next == Issue \/ IssueSpent \/ Assign \/ Drop

Spec == Init /\ [][Next]_vars
=============================================================================
