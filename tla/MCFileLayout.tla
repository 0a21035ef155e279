---------------------------- MODULE MCFileLayout ----------------------------
(* Builds of different lengths: one with a full last block and an empty    *)
(* key, one with three entries in two blocks, values of zero to two bytes. *)
EXTENDS FileLayout

MCInput ==
    {[filter |-> <<1, 2, 3>>, levelRange |-> 5,
      keys |-> <<<<>>, <<3, 1>>>>, cells |-> <<5, 260>>,
      bitmaps |-> <<<<1>>, <<2, 1>>>>],
     [filter |-> <<2>>, levelRange |-> 1,
      keys |-> <<<<1>>, <<2, 2>>, <<3>>>>, cells |-> <<7, 70, 700>>,
      bitmaps |-> <<<<1>>, <<2>>, <<3, 3>>>>]}

(* Cuts before and after the last header field (84), before and after the  *)
(* last bytes the constructor reads (221 and 293 for the two inputs), and  *)
(* inside the bitmaps, whose last bytes are number 240 and 321.            *)
MCCuts == {83, 84, 150, 220, 221, 230, 239, 240, 292, 293, 310, 320, 321}
=============================================================================
