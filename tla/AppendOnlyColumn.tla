-------------------------- MODULE AppendOnlyColumn --------------------------
(***************************************************************************)
(* What a column of the file promises, with no blocks in sight: values are *)
(* appended one after the other, the column is sealed once, and value      *)
(* number i of a sealed column is the i-th value appended.                 *)
(***************************************************************************)
EXTENDS Naturals, Sequences

CONSTANT Value

VARIABLES items, \* the values appended, in order
          sealed \* has the column been written to the file?

Init == items = <<>> /\ sealed = FALSE

Add(v) == /\ ~ sealed
          /\ items' = Append(items, v)
          /\ UNCHANGED sealed

Seal == /\ ~ sealed
        /\ sealed' = TRUE
        /\ UNCHANGED items

Next == (\E v \in Value : Add(v)) \/ Seal

Spec == Init /\ [][Next]_<<items, sealed>>
=============================================================================
