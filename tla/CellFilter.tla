----------------------------- MODULE CellFilter -----------------------------
(***************************************************************************)
(* CellFilter over the SuRF trie of all stored cell ids.                   *)
(*                                                                         *)
(* SuRF itself is external.  Its trie keeps of every key only the leading  *)
(* digits that tell it from the other keys, so a key stands for the whole  *)
(* interval of ids with those digits, and the id that an iterator gives    *)
(* back (getKey) is the least id of the interval.  Units are the lengths   *)
(* these intervals can have: {1} is a filter that keeps its keys whole,    *)
(* {1, 256, 256^2, ..} one that cuts 8 bytes after any byte.               *)
(***************************************************************************)
EXTENDS Integers, FiniteSetsExt

CONSTANT Units
ASSUME UnitsAssumption ==
    Units \subseteq Nat \ {0} /\ 1 \in Units /\ IsFiniteSet(Units)

Unit(keys, k) ==
    Max({u \in Units : \A o \in keys \ {k} : o \div u # k \div u})

Lo(keys, k) == k - (k % Unit(keys, k))
Hi(keys, k) == Lo(keys, k) + Unit(keys, k) - 1

lookupKey(keys, v) == \E k \in keys : Lo(keys, k) <= v /\ v <= Hi(keys, k)

(* The key an iterator gives back; an iterator past the end or before the  *)
(* beginning gives the empty string, which stringToUint64 reads as 0.      *)
moveToKeyGreaterThan(keys, v) ==
    LET found == {k \in keys : Hi(keys, k) >= v}
    IN  IF found = {} THEN 0 ELSE Min({Lo(keys, k) : k \in found})
moveToKeyLessThan(keys, v) ==
    LET found == {k \in keys : Lo(keys, k) <= v}
    IN  IF found = {} THEN 0 ELSE Max({Lo(keys, k) : k \in found})

-----------------------------------------------------------------------------
(* CellFilter::contains and containsRange.  The pair is the range to search*)
(* the columns for.  With < a range that holds one key is "not present".   *)
filterContains(keys, cellId) == lookupKey(keys, cellId)

(* A faulty variant: the range starts at the key before it.                *)
containsRangeWide(keys, minCellId, maxCellId) ==
    LET minVal == moveToKeyLessThan(keys, minCellId)
        maxVal == moveToKeyLessThan(keys, maxCellId)
    IN  IF minVal < maxVal THEN {<<minVal, maxVal>>} ELSE {}

containsRange(keys, minCellId, maxCellId) ==
    LET minVal == moveToKeyGreaterThan(keys, minCellId)
        maxVal == moveToKeyLessThan(keys, maxCellId)
    IN  IF minVal < maxVal THEN {<<minVal, maxVal>>} ELSE {}
=============================================================================
