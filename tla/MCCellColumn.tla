---------------------------- MODULE MCCellColumn ----------------------------
(* A small cell column: the ids between the stored ones let ranges start   *)
(* and end on stored ids, between them and outside all of them.  What a    *)
(* column does to its values it does without looking at them, so distinct  *)
(* ones show whatever any others would: a value lost, doubled or moved.    *)
(* The ids are above any count, so that neither passes for the other.      *)
EXTENDS CellColumn

MCValue == 11..19
=============================================================================
