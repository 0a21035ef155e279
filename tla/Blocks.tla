------------------------------- MODULE Blocks -------------------------------
(***************************************************************************)
(* The arithmetic of a blocked column and the searches over its blocks     *)
(* (cpp/src/Block.h, the three column readers, S2BlockIndexReader).        *)
(*                                                                         *)
(* A column stores its values in blocks of BLOCK_SIZE.  The writer cuts    *)
(* the blocks, the reader recomputes from the header's two numbers (block  *)
(* size, entries) how many blocks there are, how many values each one has  *)
(* and in which block value number i is.  Nothing in the file records      *)
(* these counts, so writer and reader must agree on them.                  *)
(*                                                                         *)
(* Block ids and positions are counted from 0, as in the code; a sequence  *)
(* s holds at s[i + 1] what the code has at offset i.                      *)
(***************************************************************************)
EXTENDS Integers, Sequences

(* Block.h, determineBlocks. *)
determineBlocks(blockSize, totalEntries) ==
    IF totalEntries % blockSize > 0
    THEN totalEntries \div blockSize + 1
    ELSE totalEntries \div blockSize

(* The number of values the cell column's reader reads from a block: the   *)
(* test is with <, so a full last block is taken for an empty one.         *)
CellBlockEntries(block, blockSize, entries) ==
    IF (block + 1) * blockSize < entries
    THEN blockSize
    ELSE entries % blockSize

(* The same for the byte and the bitmap column readers.                    *)
BlockEntries(block, blockSize, entries) ==
    IF (block + 1) * blockSize <= entries
    THEN blockSize
    ELSE entries % blockSize

(* RoaringGeoMapReader::queryBlocksByIndexes: where value number i lies.   *)
BlockOf(i, blockSize) == i \div blockSize
OffsetInBlock(i, blockSize) == i - BlockOf(i, blockSize) * blockSize

SmallerOf(a, b) == IF a <= b THEN a ELSE b

(* The blocks of a column that holds `items`: what the writers' addValue   *)
(* and writeToFile leave on disk (module BlockColumn has the steps).       *)
Split(items, blockSize) ==
    [b \in 1..determineBlocks(blockSize, Len(items)) |->
        SubSeq(items, (b - 1) * blockSize + 1,
                      SmallerOf(b * blockSize, Len(items)))]

-----------------------------------------------------------------------------
(* std::lower_bound and std::upper_bound: the offset of the first value of *)
(* s not below v, or (from offset `from` on) above v, and Len(s), the end  *)
(* iterator, when there is none.  The code searches sorted values only.    *)
LowerBound(s, v) ==
    CHOOSE i \in 0..Len(s) : /\ \A j \in 1..i : s[j] < v
                             /\ i < Len(s) => s[i + 1] >= v

UpperBound(s, from, v) ==
    CHOOSE i \in from..Len(s) : /\ \A j \in (from + 1)..i : s[j] <= v
                                /\ i < Len(s) => s[i + 1] > v

(* Faulty variants: the last block of a range taken as exclusive, a strict *)
(* search, an end that is never stepped back, and one that always is.      *)
findBlockRangeShort(maxes, range) ==
    LET lower == LowerBound(maxes, range[1])
        upper == UpperBound(maxes, lower, range[2])
    IN  lower .. ((IF upper = Len(maxes) THEN upper - 1 ELSE upper) - 1)
findBlockValueStrict(maxes, cellId) ==
    {b \in {UpperBound(maxes, 0, cellId)} : b < Len(maxes)}
rangeIndexesTooFar(values, range) ==
    LET lower == LowerBound(values, range[1])
        upper == UpperBound(values, lower, range[2])
    IN  IF lower < Len(values) /\ lower < upper THEN {<<lower, upper>>} ELSE {}
rangeIndexesExact(values, range) ==
    LET lower == LowerBound(values, range[1])
        upper == UpperBound(values, lower, range[2])
    IN  IF lower < Len(values) /\ lower < upper THEN {<<lower, upper - 1>>} ELSE {}


(* The blocks a search visits; `maxes` is the block index, the largest     *)
(* value of every block.  {} is the code's nullopt.                        *)
findBlockRange(maxes, range) ==
    LET lower == LowerBound(maxes, range[1])
        upper == UpperBound(maxes, lower, range[2])
    IN  IF lower = Len(maxes)
        THEN {}
        ELSE lower .. (IF upper = Len(maxes) THEN upper - 1 ELSE upper)

findBlockValue(maxes, cellId) ==
    {b \in {LowerBound(maxes, cellId)} : b < Len(maxes)}

(* FixedBlockReader::queryValueIndexes: the offset in the block of each    *)
(* wanted value, or of the first larger one: there is no test for equality.*)
queryValueIndexes(values, wanted) ==
    {i \in {LowerBound(values, v) : v \in wanted} : i < Len(values)}

(* FixedBlockReader::queryValueRangesIndexes for one range: {} or the one  *)
(* pair of first and last offset, which readIndexRanges reads inclusively. *)
(* The upper bound is one past the last match; it is stepped back only at  *)
(* the end of the block, so within a block one more value is taken.        *)
rangeIndexes(values, range) ==
    LET lower == LowerBound(values, range[1])
        upper == UpperBound(values, lower, range[2])
    IN  IF lower < Len(values) /\ lower < upper
        THEN {<<lower, IF upper = Len(values) THEN upper - 1 ELSE upper>>}
        ELSE {}
=============================================================================
