-------------------------- MODULE CellColumnProofs --------------------------
(***************************************************************************)
(* The cell column for every block size, every set of cell ids and every   *)
(* length: build() keeps it ascending, so the two-level searches find each *)
(* stored cell at the address of its bitmap.                               *)
(***************************************************************************)
EXTENDS CellColumn, BlockColumnProofs

(* The inductive invariant: the shape of the column and the order of what  *)
(* it holds.  The shape alone says nothing of the order, and the order of  *)
(* the items is that of the blocks only by way of the shape.               *)
CInv == IInv /\ IsAscending(Items)

(* Cell ids are integers, so a column of them can be compared.             *)
LEMMA IntSeq ==
    ASSUME NEW s \in Seq(Value)
    PROVE  /\ s \in Seq(Int) /\ Len(s) \in Nat
           /\ \A i \in 1..Len(s) : s[i] \in Value /\ s[i] \in Int
<1>1. Len(s) \in Nat /\ \A i \in 1..Len(s) : s[i] \in Value
  OBVIOUS
<1>2. \A i \in 1..Len(s) : s[i] \in Int
  BY <1>1, CellIdAssumption
<1>3. s = [i \in 1..Len(s) |-> s[i]]
  OBVIOUS
<1>4. [i \in 1..Len(s) |-> s[i]] \in Seq(Int)
  BY <1>1, <1>2
<1> QED
  BY <1>1, <1>2, <1>3, <1>4

(* A step of the cell column is a step of a column.                        *)
LEMMA CellNextIsNext == [CellNext]_vars => [Next]_vars
BY DEF CellNext, Next, AddCell

(* An empty column is ascending.                                           *)
LEMMA InitCInv == Init => CInv
<1> SUFFICES ASSUME Init PROVE CInv
  OBVIOUS
<1>1. IInv
  BY InitIInv
<1>2. Len(Items) = 0
  BY <1>1, ItemsType DEF Init
<1> QED
  BY <1>1, <1>2 DEF CInv, IsAscending

(* Only AddCell adds an item, and it is greater than the last one.         *)
LEMMA NextCInv == CInv /\ [CellNext]_vars => CInv'
<1> SUFFICES ASSUME CInv, [CellNext]_vars PROVE CInv'
  OBVIOUS
<1>1. IInv /\ IInv' /\ [Next]_vars
  BY CellNextIsNext, NextIInv DEF CInv
<1>2. Items \in Seq(Value) /\ Len(Items) = entries /\ entries \in Nat
  BY <1>1, ItemsType DEF IInv, TypeOK
<1>3. ASSUME NEW v \in Value, AddCell(v)
      PROVE  IsAscending(Items')
  <2>1. Items' = Append(Items, v)
    BY <1>1, <1>3, AddAppends DEF AddCell
  <2>2. entries > 0 => Items[entries] < v
    BY <1>3 DEF AddCell
  <2>3. \A i \in 1..entries : Items[i] \in Int /\ v \in Int
    BY <1>2, CellIdAssumption, IntSeq
  <2>4. /\ Len(Items') = entries + 1
        /\ Items'[entries + 1] = v
        /\ \A i \in 1..entries : Items'[i] = Items[i]
    BY <1>2, <2>1
  <2>5. \A i \in 1..entries : Items[i] < v
    <3> SUFFICES ASSUME NEW i \in 1..entries PROVE Items[i] < v
      OBVIOUS
    <3>1. entries \in 1..entries /\ (i = entries \/ i < entries)
      BY <1>2
    <3>2. i < entries => Items[i] < Items[entries]
      BY <1>2, <3>1 DEF CInv, IsAscending
    <3> QED
      BY <1>2, <2>2, <2>3, <3>1, <3>2
  <2>6. ASSUME NEW i \in 1..(entries + 1), NEW j \in 1..(entries + 1), i < j
        PROVE  Items'[i] < Items'[j]
    <3>1. i \in 1..entries /\ (j \in 1..entries \/ j = entries + 1)
      BY <1>2, <2>6
    <3>2. j \in 1..entries => Items[i] < Items[j]
      BY <1>2, <2>6, <3>1 DEF CInv, IsAscending
    <3> QED
      BY <2>4, <2>5, <3>1, <3>2
  <2> QED
    BY <2>4, <2>6 DEF IsAscending
<1>4. ASSUME WriteToFile \/ WriteEmptyColumn \/ UNCHANGED vars
      PROVE  IsAscending(Items')
  <2>1. entries' = entries
    BY <1>4 DEF WriteToFile, WriteEmptyColumn, vars
  <2>2. Items' = Items
    BY <1>1, <2>1, ItemsUnchanged
  <2> QED
    BY <2>2 DEF CInv
<1>5. IsAscending(Items')
  BY <1>3, <1>4 DEF CellNext
<1> QED
  BY <1>1, <1>5 DEF CInv, IsAscending

(* build() keeps the cell column in shape and ascending.                   *)
THEOREM CellColumnInvariant == CellSpec => []CInv
BY InitCInv, NextCInv, PTL DEF CellSpec

-----------------------------------------------------------------------------
(* A written column, block by block.                                       *)

(* Each block is a stretch of the items, so it is ascending, too.          *)
LEMMA BlockIsAscending ==
    ASSUME CInv, phase = "written", NEW b \in 1..Len(blocks)
    PROVE  blocks[b] \in Seq(Int) /\ IsAscending(blocks[b])
<1>1. IInv /\ blocks[b] \in Seq(Value)
  BY DEF CInv, IInv, TypeOK
<1>2. blocks[b] \in Seq(Int) /\ \A k \in 1..Len(blocks[b]) : blocks[b][k] \in Int
  BY <1>1, IntSeq
<1>3. Len(Items) = entries /\ Start(b) \in Nat
  BY <1>1, ItemsType, StartFacts
<1>4. ASSUME NEW i \in 1..Len(blocks[b]), NEW j \in 1..Len(blocks[b]), i < j
      PROVE  blocks[b][i] < blocks[b][j]
  <2>1. /\ Start(b) + i \in 1..entries /\ Items[Start(b) + i] = blocks[b][i]
        /\ Start(b) + j \in 1..entries /\ Items[Start(b) + j] = blocks[b][j]
    BY <1>1, WrittenItems
  <2>2. Start(b) + i < Start(b) + j
    BY <1>3, <1>4
  <2> QED
    BY <1>3, <2>1, <2>2 DEF CInv, IsAscending
<1> QED
  BY <1>2, <1>4 DEF IsAscending

(* Where item i lies, and how the block index separates it from the blocks *)
(* before it.                                                              *)
LEMMA WhereItemLies ==
    ASSUME CInv, phase = "written", NEW i \in 0..(entries - 1)
    PROVE  LET b == BlockOf(i, BlockSize)
               k == OffsetInBlock(i, BlockSize)
           IN  /\ index \in Seq(Int) /\ Len(index) = Len(blocks)
               /\ Items[i + 1] \in Int
               /\ b \in 0..(Len(index) - 1)
               /\ k \in 0..(Len(blocks[b + 1]) - 1)
               /\ blocks[b + 1][k + 1] = Items[i + 1]
               /\ \A c \in 1..b : index[c] < Items[i + 1]
               /\ index[b + 1] >= Items[i + 1]
<1> DEFINE j == i + 1
           x == Items[j]
<1>1. /\ IInv /\ entries \in Nat /\ j \in 1..entries /\ j - 1 = i /\ i \in Nat
      /\ Len(blocks) \in Nat /\ index \in Seq(Int)
  BY IntSeq DEF CInv, IInv, TypeOK
<1> HIDE DEF j
<1>2. /\ Len(index) = Len(blocks)
      /\ \A c \in 1..Len(blocks) : index[c] = blocks[c][Len(blocks[c])]
  BY <1>1 DEF IInv, WrittenShape
<1>3. PICK b1 \in 1..(Len(blocks) + 1), k1 \in 1..BlockSize :
              /\ j = Start(b1) + k1
              /\ b1 <= Len(blocks) => /\ k1 \in 1..Len(blocks[b1])
                                      /\ ItemAt(j - 1) = blocks[b1][k1]
              /\ b1 > Len(blocks) => /\ phase = "adding"
                                     /\ k1 \in 1..Len(current)
                                     /\ ItemAt(j - 1) = current[k1]
  BY <1>1, PlaceOf
<1>4. b1 \in 1..Len(blocks) /\ k1 \in 1..Len(blocks[b1])
  BY <1>1, <1>3
<1>5. x = blocks[b1][k1] /\ Len(Items) = entries
  BY <1>1, <1>3, <1>4, ItemsType
<1>6. BlockOf(i, BlockSize) = b1 - 1 /\ OffsetInBlock(i, BlockSize) = k1 - 1
  <2>1. i = (b1 - 1) * BlockSize + (k1 - 1)
    <3>1. (b1 - 1) * BlockSize \in Nat
      BY <1>3, StartFacts DEF Start
    <3> QED
      BY <1>1, <1>3, <3>1 DEF Start
  <2>2. b1 - 1 \in Nat /\ k1 - 1 \in 0..(BlockSize - 1) /\ BlockSize \in Nat \ {0}
    BY <1>3, BlockSizeAssumption
  <2> QED
    BY <2>1, <2>2, AddressOf
<1>7. \A c \in 1..Len(blocks) :
         /\ Len(blocks[c]) \in 1..BlockSize /\ Start(c) \in Nat
         /\ Start(c) + Len(blocks[c]) \in 1..entries
         /\ index[c] = Items[Start(c) + Len(blocks[c])]
  <2> SUFFICES ASSUME NEW c \in 1..Len(blocks)
               PROVE  /\ Len(blocks[c]) \in 1..BlockSize /\ Start(c) \in Nat
                      /\ Start(c) + Len(blocks[c]) \in 1..entries
                      /\ index[c] = Items[Start(c) + Len(blocks[c])]
    OBVIOUS
  <2>1. Len(blocks[c]) \in 1..BlockSize /\ Start(c) \in Nat
    BY <1>1, LastOfBlock, StartFacts
  <2>2. Len(blocks[c]) \in 1..Len(blocks[c])
    BY <2>1
  <2>3. /\ Start(c) + Len(blocks[c]) \in 1..entries
        /\ Items[Start(c) + Len(blocks[c])] = blocks[c][Len(blocks[c])]
    BY <1>1, <2>2, WrittenItems
  <2> QED
    BY <1>2, <2>1, <2>3
<1>8. ASSUME NEW c \in 1..(b1 - 1)
      PROVE  index[c] < x
  <2>1. c \in 1..Len(blocks) /\ c \in Nat \ {0} /\ b1 \in Nat /\ b1 > c
    BY <1>1, <1>4
  <2>2. Start(c) + BlockSize <= Start(b1) /\ BlockSize \in Nat /\ Start(b1) \in Nat
    BY <2>1, StartFacts, BlockSizeAssumption
  <2>3. Start(c) + Len(blocks[c]) < j
    <3>1. Start(c) \in Nat /\ Len(blocks[c]) \in 1..BlockSize
      BY <1>7, <2>1
    <3>2. j = Start(b1) + k1 /\ k1 \in 1..BlockSize
      BY <1>3
    <3> QED
      BY <2>2, <3>1, <3>2
  <2>4. Items[Start(c) + Len(blocks[c])] < x
    BY <1>1, <1>5, <1>7, <2>1, <2>3 DEF CInv, IsAscending
  <2> QED
    BY <1>7, <2>1, <2>4
<1>9. index[b1] >= x
  <2>1. blocks[b1] \in Seq(Int) /\ IsAscending(blocks[b1])
    BY <1>4, BlockIsAscending
  <2>2. /\ Len(blocks[b1]) \in 1..Len(blocks[b1])
        /\ k1 = Len(blocks[b1]) \/ k1 < Len(blocks[b1])
    BY <1>4, <1>7
  <2>3. blocks[b1][k1] \in Int /\ blocks[b1][Len(blocks[b1])] \in Int
    BY <1>4, <2>1, <2>2
  <2>4. k1 < Len(blocks[b1]) => blocks[b1][k1] < blocks[b1][Len(blocks[b1])]
    BY <1>4, <2>2 , <2>1 DEF IsAscending
  <2> QED
    BY <1>2, <1>4, <1>5, <2>2, <2>3, <2>4
<1>10. x \in Int
  BY <1>4, <1>5, BlockIsAscending
<1>11. b1 - 1 + 1 = b1 /\ k1 - 1 + 1 = k1 /\ b1 - 1 \in 0..(Len(index) - 1)
       /\ k1 - 1 \in 0..(Len(blocks[b1]) - 1)
  BY <1>1, <1>2, <1>4, <1>7
<1> QED
  BY <1>1, <1>2, <1>5, <1>6, <1>8, <1>9, <1>10, <1>11 DEF j

(* The reader's cells of a block that it reads in full, and of any block.  *)
LEMMA ReadBlockIs ==
    ASSUME CInv, phase = "written", NEW b \in 0..(Len(blocks) - 1)
    PROVE  /\ ReadInFull(b) => ReadBlock(b) = blocks[b + 1]
           /\ ReadBlock(b) \in Seq(Int) /\ IsAscending(ReadBlock(b))
           /\ Len(ReadBlock(b)) <= Len(blocks[b + 1])
           /\ \A k \in 1..Len(ReadBlock(b)) : ReadBlock(b)[k] = blocks[b + 1][k]
<1> DEFINE s == blocks[b + 1]
           n == CellBlockEntries(b, BlockSize, entries)
<1>1. /\ b + 1 \in 1..Len(blocks) /\ b + 1 - 1 = b /\ b \in Nat
      /\ IInv /\ entries \in Nat
      /\ BlockSize \in Nat \ {0}
  BY BlockSizeAssumption DEF CInv, IInv, TypeOK
<1>2. s \in Seq(Int) /\ IsAscending(s) /\ Len(s) \in Nat
  BY <1>1, BlockIsAscending
<1>3. Len(s) = BlockEntries(b, BlockSize, entries)
  BY <1>1, WrittenCounts
<1>4. n \in Nat /\ n <= Len(s)
  <2>1. (b + 1) * BlockSize \in Nat
    BY <1>1
  <2>2. entries % BlockSize \in 0..(BlockSize - 1)
    BY <1>1
  <2> QED
    BY <1>1, <1>2, <1>3, <2>1, <2>2 DEF CellBlockEntries, BlockEntries
<1>5. ReadBlock(b) = SubSeq(s, 1, n)
  BY DEF ReadBlock
<1> HIDE DEF n, s
<1>6. /\ SubSeq(s, 1, n) \in Seq(Int) /\ Len(SubSeq(s, 1, n)) = n
      /\ \A k \in 1..n : SubSeq(s, 1, n)[k] = s[k]
  BY <1>2, <1>4
<1>7. IsAscending(SubSeq(s, 1, n))
  <2>1. \A k \in 1..n : k \in 1..Len(s)
    BY <1>2, <1>4
  <2> QED
    BY <1>2, <1>6, <2>1 DEF IsAscending
<1>8. n = Len(s) => SubSeq(s, 1, n) = s
  BY <1>2, <1>6
<1> QED
  BY <1>4, <1>5, <1>6, <1>7, <1>8 DEF ReadInFull, n, s

-----------------------------------------------------------------------------
(* A stored cell is found at the block and the offset of its bitmap, unless*)
(* the reader takes its full last block for an empty one: findBlockValue,  *)
(* queryValueIndexes.                                                      *)
THEOREM CellsAreFound == CellSpec => []StoredCellFound
<1>1. ASSUME CInv, phase = "written", NEW i \in 0..(entries - 1)
      PROVE  LET b == BlockOf(i, BlockSize)
             IN  /\ findBlockValue(index, Items[i + 1]) = {b}
                 /\ ReadInFull(b) =>
                       queryValueIndexes(ReadBlock(b), {Items[i + 1]})
                           = {OffsetInBlock(i, BlockSize)}
  <2> DEFINE b == BlockOf(i, BlockSize)
             k == OffsetInBlock(i, BlockSize)
  <2>1. /\ index \in Seq(Int) /\ Len(index) = Len(blocks)
        /\ Items[i + 1] \in Int /\ b \in 0..(Len(index) - 1)
        /\ k \in 0..(Len(blocks[b + 1]) - 1)
        /\ blocks[b + 1][k + 1] = Items[i + 1]
        /\ \A c \in 1..b : index[c] < Items[i + 1]
        /\ index[b + 1] >= Items[i + 1]
    BY <1>1, WhereItemLies
  <2> HIDE DEF b, k
  <2>2. findBlockValue(index, Items[i + 1]) = {b}
    BY <2>1, ValueBlockIs
  <2>3. ASSUME ReadInFull(b)
        PROVE  queryValueIndexes(ReadBlock(b), {Items[i + 1]}) = {k}
    <3>1. /\ ReadBlock(b) = blocks[b + 1]
          /\ ReadBlock(b) \in Seq(Int) /\ IsAscending(ReadBlock(b))
      BY <1>1, <2>1, <2>3, ReadBlockIs
    <3> QED
      BY <2>1, <3>1, ValueOffsetIs
  <2> QED
    BY <2>2, <2>3 DEF b, k
<1>2. CInv => StoredCellFound
  BY <1>1 DEF StoredCellFound
<1> QED
  BY <1>2, CellColumnInvariant, PTL

(* A stored cell of a range lies in a block the search visits and, as long *)
(* as the reader takes the whole block, at an offset it takes:             *)
(* findBlockRange, queryValueRangesIndexes.                                *)
THEOREM RangesAreFound == CellSpec => []RangeCellsFound
<1>1. ASSUME CInv, phase = "written", NEW lo \in Value, NEW hi \in Value,
             NEW i \in 0..(entries - 1), lo <= Items[i + 1], Items[i + 1] <= hi
      PROVE  LET b == BlockOf(i, BlockSize)
             IN  /\ b \in findBlockRange(index, <<lo, hi>>)
                 /\ ReadInFull(b) =>
                       \E r \in rangeIndexes(ReadBlock(b), <<lo, hi>>) :
                           OffsetInBlock(i, BlockSize) \in r[1]..r[2]
  <2> DEFINE b == BlockOf(i, BlockSize)
             k == OffsetInBlock(i, BlockSize)
  <2>1. /\ index \in Seq(Int) /\ Len(index) = Len(blocks)
        /\ Items[i + 1] \in Int /\ b \in 0..(Len(index) - 1)
        /\ k \in 0..(Len(blocks[b + 1]) - 1)
        /\ blocks[b + 1][k + 1] = Items[i + 1]
        /\ \A c \in 1..b : index[c] < Items[i + 1]
        /\ index[b + 1] >= Items[i + 1]
    BY <1>1, WhereItemLies
  <2> HIDE DEF b, k
  <2>2. lo \in Int /\ hi \in Int
    BY CellIdAssumption
  <2>3. b \in findBlockRange(index, <<lo, hi>>)
    BY <1>1, <2>1, <2>2, RangeBlocksInclude
  <2>4. ASSUME ReadInFull(b)
        PROVE  \E r \in rangeIndexes(ReadBlock(b), <<lo, hi>>) : k \in r[1]..r[2]
    <3>1. /\ ReadBlock(b) = blocks[b + 1]
          /\ ReadBlock(b) \in Seq(Int) /\ IsAscending(ReadBlock(b))
      BY <1>1, <2>1, <2>4, ReadBlockIs
    <3> QED
      BY <1>1, <2>1, <2>2, <3>1, RangeOffsetsInclude
  <2> QED
    BY <2>3, <2>4 DEF b, k
<1>2. CInv => RangeCellsFound
  BY <1>1 DEF RangeCellsFound
<1> QED
  BY <1>2, CellColumnInvariant, PTL

(* A range search takes nothing past a block, and all it takes but the last*)
(* value lies in the range: queryValueRangesIndexes, readIndexRanges.      *)
THEOREM RangesStayInBlock == CellSpec => []RangeTakesAtMostOneMore
<1>1. ASSUME CInv, phase = "written", NEW lo \in Value, NEW hi \in Value,
             NEW b \in 0..(Len(blocks) - 1),
             NEW r \in rangeIndexes(ReadBlock(b), <<lo, hi>>)
      PROVE  /\ r[1] <= r[2] /\ r[2] < Len(blocks[b + 1])
             /\ \A k \in r[1]..(r[2] - 1) : blocks[b + 1][k + 1] \in lo..hi
  <2>1. lo \in Int /\ hi \in Int
    BY CellIdAssumption
  <2>2. /\ ReadBlock(b) \in Seq(Int) /\ IsAscending(ReadBlock(b))
        /\ Len(ReadBlock(b)) <= Len(blocks[b + 1])
        /\ \A k \in 1..Len(ReadBlock(b)) : ReadBlock(b)[k] = blocks[b + 1][k]
    BY <1>1, ReadBlockIs
  <2>3. /\ r[1] \in Nat /\ r[2] \in Nat
        /\ r[1] <= r[2] /\ r[2] < Len(ReadBlock(b))
        /\ \A k \in r[1]..(r[2] - 1) : ReadBlock(b)[k + 1] \in lo..hi
    BY <1>1, <2>1, <2>2, RangeOffsetsTaken
  <2>4. Len(ReadBlock(b)) \in Nat /\ Len(blocks[b + 1]) \in Nat
    BY <1>1, <2>2, BlockIsAscending, b + 1 \in 1..Len(blocks)
  <2>5. ASSUME NEW k \in r[1]..(r[2] - 1)
        PROVE  blocks[b + 1][k + 1] \in lo..hi
    <3>1. k + 1 \in 1..Len(ReadBlock(b))
      BY <2>3, <2>4
    <3> QED
      BY <2>2, <2>3, <3>1
  <2> QED
    BY <2>2, <2>3, <2>4, <2>5
<1>2. CInv => RangeTakesAtMostOneMore
  BY <1>1 DEF RangeTakesAtMostOneMore
<1> QED
  BY <1>2, CellColumnInvariant, PTL
=============================================================================
