------------------------------ MODULE MCGeoMap ------------------------------
(* Covers and queries over a binary hierarchy with one face: at MaxLevel 3 *)
(* the leaves are the odd ids 1..15 and the root is 8, at MaxLevel 4 they  *)
(* are 1..31 and 16.                                                       *)
EXTENDS GeoMap

(* Four covers that share cells, contain one another, start at the same    *)
(* cell and lie at levels 1 to 3.                                          *)
MCCovers == {{3, 6}, {4, 10}, {3, 13}, {1, 14}}
MCQueries == {{c} : c \in Cell} \cup {{4, 10}, {3, 13}, {1, 14}, {2, 11}}

(* Covers at MaxLevel 4: none, or cells on the levels 1, 2 and 4; the write*)
(* of the last may run out of memory before or behind its second cell.  Two*)
(* of them together put two or three cells below 4 and two below 12, with a*)
(* cell of the other cover right behind them, in the block or the next one.*)
MCDeepCovers == {{}, {1, 5, 12}, {7, 20}, {9, 24}}
MCStoredCovers == MCDeepCovers \ {{}}
MCUnlucky == {{9, 24}}
MCDeepQueries == {{c} : c \in {3, 4, 8, 11, 12, 16, 17, 20, 24, 28}}
                 \cup {{3, 24}, {8, 20}, {1, 10, 30}}
=============================================================================
