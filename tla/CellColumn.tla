----------------------------- MODULE CellColumn -----------------------------
(***************************************************************************)
(* The cell column: a BlockColumn whose values build() adds in ascending   *)
(* order, which makes the block index and every block searchable.  A query *)
(* searches twice, for the block in the index and for the offset in the    *)
(* block, and reads the bitmaps at the same block and offset of the bitmap *)
(* column; so the search must end at the very place the cell has.          *)
(***************************************************************************)
EXTENDS BlockColumn

ASSUME CellIdAssumption == Value \subseteq Int

(* build() walks cellToKeyMap, a std::map: ascending cells, no cell twice. *)
AddCell(v) == /\ entries > 0 => Items[entries] < v
              /\ AddValue(v)

CellNext == (\E v \in Value : AddCell(v)) \/ WriteToFile \/ WriteEmptyColumn

CellSpec == Init /\ [][CellNext]_vars

-----------------------------------------------------------------------------
(* CellIdColumnReader::ReadBlock: the values the reader takes from block b.*)
ReadBlock(b) ==
    SubSeq(blocks[b + 1], 1, CellBlockEntries(b, BlockSize, entries))

(* Blocks from which the reader takes what the writer put there.           *)
ReadInFull(b) == CellBlockEntries(b, BlockSize, entries) = Len(blocks[b + 1])

(* A stored cell that is looked up (an ancestor of a query cell) is found  *)
(* at its own block and offset, the address of its bitmap, as long as the  *)
(* reader takes the whole block: findBlockValue, then queryValueIndexes.   *)
StoredCellFound ==
    phase = "written" =>
        \A i \in 0..(entries - 1) :
            LET b == BlockOf(i, BlockSize)
            IN  /\ findBlockValue(index, Items[i + 1]) = {b}
                /\ ReadInFull(b) =>
                      queryValueIndexes(ReadBlock(b), {Items[i + 1]})
                          = {OffsetInBlock(i, BlockSize)}

(* A stored cell inside a searched range lies in a block the search visits *)
(* and, as long as the reader takes the whole block, at an offset it takes:*)
(* findBlockRange, queryValueRangesIndexes.                                *)
RangeCellsFound ==
    phase = "written" =>
        \A lo, hi \in Value, i \in 0..(entries - 1) :
            lo <= Items[i + 1] /\ Items[i + 1] <= hi =>
                LET b == BlockOf(i, BlockSize)
                IN  /\ b \in findBlockRange(index, <<lo, hi>>)
                    /\ ReadInFull(b) =>
                          \E r \in rangeIndexes(ReadBlock(b), <<lo, hi>>) :
                              OffsetInBlock(i, BlockSize) \in r[1]..r[2]

(* What a range search takes from a block never runs past the block, which *)
(* readIndexRanges would answer with std::out_of_range, and all but its    *)
(* last value is in the range.                                             *)
RangeTakesAtMostOneMore ==
    phase = "written" =>
        \A lo, hi \in Value, b \in 0..(Len(blocks) - 1) :
            \A r \in rangeIndexes(ReadBlock(b), <<lo, hi>>) :
                /\ r[1] <= r[2] /\ r[2] < Len(blocks[b + 1])
                /\ \A k \in r[1]..(r[2] - 1) : blocks[b + 1][k + 1] \in lo..hi
=============================================================================
