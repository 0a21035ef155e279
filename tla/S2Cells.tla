------------------------------ MODULE S2Cells -------------------------------
(***************************************************************************)
(* External: what the code uses of the S2 library, a hierarchy of cells    *)
(* numbered along a space-filling curve.  A cell at level l is split into  *)
(* Branch cells at level l + 1; the ids of everything below a cell form    *)
(* one interval with the cell's own id in its middle.  In S2 Branch is 4,  *)
(* MaxLevel 30 and Faces 6.                                                *)
(***************************************************************************)
EXTENDS Integers, FiniteSets

CONSTANTS Branch, MaxLevel, Faces

ASSUME HierarchyAssumption ==
    /\ Branch \in Nat \ {0, 1} /\ Branch % 2 = 0
    /\ MaxLevel \in Nat
    /\ Faces \in Nat \ {0}

(* The definition of ^ in module Naturals, for the exponents used here: the*)
(* provers have no rule for it.                                            *)
ASSUME PowersAssumption ==
    /\ Branch^0 = 1
    /\ \A n \in 0..(MaxLevel - 1) : Branch^(n + 1) = Branch * Branch^n

Level == 0..MaxLevel

(* S2CellId: a path from a face to the cell, then a one, then zeros.       *)
Lsb(l) == Branch^(MaxLevel - l)
CellsAt(l) == {(2 * k + 1) * Lsb(l) : k \in 0..(Faces * Branch^l - 1)}
Cell == UNION {CellsAt(l) : l \in Level}

level(c) == CHOOSE l \in Level : c % (2 * Lsb(l)) = Lsb(l)
range_min(c) == c - (Lsb(level(c)) - 1)
range_max(c) == c + (Lsb(level(c)) - 1)
parent(c, l) == (c - (c % (2 * Lsb(l)))) + Lsb(l)

(* Is cell d the cell c or one of its descendants?                         *)
contains(c, d) == range_min(c) <= d /\ d <= range_max(c)

(* S2CellUnion, as its constructors leave it: no cell contains another and *)
(* no group of siblings is complete.                                       *)
IsNormalized(union) ==
    /\ \A c, d \in union : contains(c, d) => c = d
    /\ \A c \in Cell : level(c) < MaxLevel =>
          ~ {d \in CellsAt(level(c) + 1) : contains(c, d)} \subseteq union

(* S2CellUnion::Denormalize: every cell is replaced by its descendants at  *)
(* the next level that is at least minLevel and a multiple of levelMod     *)
(* away from it.  A levelMod of 0 is taken for 1.                          *)
NextLevel(l, minLevel, levelMod) ==
    LET low == IF l < minLevel THEN minLevel ELSE l
        up  == low + ((MaxLevel - (low - minLevel)) % levelMod)
    IN  IF levelMod <= 1 THEN low ELSE IF up > MaxLevel THEN MaxLevel ELSE up

Denormalize(union, minLevel, levelMod) ==
    UNION {{d \in CellsAt(NextLevel(level(c), minLevel, levelMod)) :
                contains(c, d)} : c \in union}
=============================================================================
