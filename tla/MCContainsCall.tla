--------------------------- MODULE MCContainsCall ---------------------------
(* Three covers that fill three blocks of two cells, in a binary hierarchy *)
(* with the leaves 1, 3, .. 31 and the root 16.  The index has the levels  *)
(* 0, 2 and 4; cell 6 is stored on level 3.  The filter cuts its keys to   *)
(* their first digits to base 4: 6 becomes 4, is the greatest of the three *)
(* cells below 4 and the first of its block, so its key is not returned.   *)
EXTENDS ContainsCall

MCCovers == {{1, 12}, {3}, {6, 20}}
MCUnlucky == {{3}}
MCQueries == {{}, {16}, {8}, {12}, {5, 21}, {11, 28}}
=============================================================================
