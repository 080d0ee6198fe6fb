-------------------------- MODULE MCObjectMarking --------------------------
(***************************************************************************)
(* Instances of ObjectMarking for TLC, with the sizes of a 64-bit build:   *)
(* objects of up to four fields, byte arrays, arrays of references, and    *)
(* arrays of value classes of up to three words.                           *)
(***************************************************************************)
EXTENDS ObjectMarking

MCMethodTables == {64}
MCLengths == 0..2

Shape(baseSize, words, refs) == [baseSize |-> baseSize, words |-> words, refs |-> refs]

MCShapes ==
  UNION {{Shape(16 + 8 * fields, 0, refs) : refs \in SUBSET (1..fields)} : fields \in 1..4}
  \cup UNION {{Shape(24, words, refs) : refs \in SUBSET (0..(words - 1))} : words \in 1..3}
=============================================================================
