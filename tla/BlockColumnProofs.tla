------------------------- MODULE BlockColumnProofs --------------------------
(***************************************************************************)
(* BlockColumn for every block size, value set and number of values: its   *)
(* type, the shape of its blocks, what the readers may rely on, and that   *)
(* it implements AppendOnlyColumn.                                         *)
(***************************************************************************)
EXTENDS BlockColumn, BlocksProofs, SequenceTheorems

USE BlockSizeAssumption, MaxEntriesAssumption

(* While values are added all finished blocks are full, and the current    *)
(* one is empty only at the very start.                                    *)
AddingShape ==
    /\ \A b \in 1..Len(blocks) : Len(blocks[b]) = BlockSize
    /\ Len(current) <= BlockSize
    /\ current = <<>> => blocks = <<>>
    /\ entries = Len(blocks) * BlockSize + Len(current)

(* A written column has at least one block, all but the last are full and  *)
(* the last has at least one value.                                        *)
WrittenShape ==
    /\ current = <<>>
    /\ Len(blocks) # 0
    /\ \A b \in 1..(Len(blocks) - 1) : Len(blocks[b]) = BlockSize
    /\ Len(blocks[Len(blocks)]) \in 1..BlockSize
    /\ entries = (Len(blocks) - 1) * BlockSize + Len(blocks[Len(blocks)])
    /\ Len(index) = Len(blocks)
    /\ \A b \in 1..Len(blocks) : index[b] = blocks[b][Len(blocks[b])]

IInv == /\ TypeOK
        /\ phase = "adding" => AddingShape
        /\ phase = "written" => WrittenShape
        /\ phase = "undefined" => entries = 0

-----------------------------------------------------------------------------
(* A new column has the shape of one values are being added to.            *)
LEMMA InitIInv == Init => IInv
BY DEF Init, IInv, TypeOK, AddingShape

(* addValue keeps every finished block full and the index beside it.       *)
LEMMA AddValueIInv ==
    ASSUME IInv, NEW v \in Value, AddValue(v)
    PROVE  IInv'
<1> USE DEF IInv, TypeOK
<1>1. phase = "adding" /\ phase' = "adding" /\ AddingShape
  BY DEF AddValue
<1>2. entries' \in 0..MaxEntries
  BY DEF AddValue
<1>3. CASE Len(current) < BlockSize
  <2>1. current' = Append(current, v) /\ blocks' = blocks
    BY <1>3 DEF AddValue
  <2>2. current' \in Seq(Value) /\ Len(current') = Len(current) + 1
    BY <2>1
  <2>3. current' # <<>>
    BY <2>2
  <2>4. entries' = Len(blocks') * BlockSize + Len(current')
    <3>1. entries' = entries + 1
      BY DEF AddValue
    <3>2. Len(blocks) * BlockSize \in Nat
      OBVIOUS
    <3> QED
      BY <1>1, <2>1, <2>2, <3>1, <3>2 DEF AddingShape
  <2>5. AddingShape'
    BY <1>1, <1>3, <2>1, <2>2, <2>3, <2>4 DEF AddingShape
  <2> QED
    BY <1>1, <1>2, <2>1, <2>2, <2>5 DEF AddValue
<1>4. CASE Len(current) >= BlockSize
  <2>1. current' = <<v>> /\ blocks' = Append(blocks, current)
    BY <1>4 DEF AddValue
  <2>2. /\ current' \in Seq(Value) /\ Len(current') = 1
        /\ blocks' \in Seq(Seq(Value)) /\ Len(blocks') = Len(blocks) + 1
    BY <2>1
  <2>3. \A b \in 1..Len(blocks') : Len(blocks'[b]) = BlockSize
    BY <1>1, <1>4, <2>1 DEF AddingShape
  <2>4. entries' = Len(blocks') * BlockSize + Len(current')
    <3>1. entries' = entries + 1 /\ Len(current) = BlockSize
      BY <1>1, <1>4 DEF AddValue, AddingShape
    <3>2. (Len(blocks) + 1) * BlockSize = Len(blocks) * BlockSize + BlockSize
      OBVIOUS
    <3> QED
      BY <1>1, <2>2, <3>1, <3>2 DEF AddingShape
  <2> QED
    BY <1>1, <1>2, <2>1, <2>2, <2>3, <2>4 DEF AddValue, AddingShape
<1> QED
  BY <1>3, <1>4

(* writeToFile ends the last block, so a written column is its blocks.     *)
LEMMA WriteToFileIInv ==
    ASSUME IInv, WriteToFile
    PROVE  IInv'
<1> USE DEF IInv, TypeOK
<1>1. /\ phase = "adding" /\ phase' = "written" /\ AddingShape
      /\ blocks' = Append(blocks, current) /\ current' = <<>>
      /\ entries' = entries /\ current # <<>>
  BY DEF WriteToFile
<1>2. /\ blocks' \in Seq(Seq(Value)) /\ Len(blocks') = Len(blocks) + 1
      /\ blocks'[Len(blocks')] = current
      /\ \A b \in 1..Len(blocks) : blocks'[b] = blocks[b]
  BY <1>1
<1>3. Len(current) \in 1..BlockSize
  BY <1>1 DEF AddingShape
<1>4. /\ index' \in Seq(Value) /\ Len(index') = Len(blocks')
      /\ \A b \in 1..Len(blocks') : index'[b] = blocks'[b][Len(blocks'[b])]
  <2>1. index' = [b \in 1..(Len(blocks) + 1) |->
                     IF b <= Len(blocks) THEN blocks[b][Len(blocks[b])]
                                         ELSE current[Len(current)]]
    BY DEF WriteToFile
  <2>2. \A b \in 1..(Len(blocks) + 1) :
            index'[b] = blocks'[b][Len(blocks'[b])]
    <3> TAKE b \in 1..(Len(blocks) + 1)
    <3>1. CASE b <= Len(blocks)
      <4>1. blocks'[b] = blocks[b]
        BY <1>2, <3>1
      <4>2. index'[b] = blocks[b][Len(blocks[b])]
        BY <2>1, <3>1
      <4> QED
        BY <4>1, <4>2
    <3>2. CASE b = Len(blocks) + 1
      BY <1>2, <2>1, <3>2
    <3> QED
      BY <3>1, <3>2
  <2>3. \A b \in 1..Len(blocks) :
            blocks[b] \in Seq(Value) /\ Len(blocks[b]) \in 1..Len(blocks[b])
    BY <1>1 DEF AddingShape
  <2>4. \A b \in 1..(Len(blocks) + 1) :
            (IF b <= Len(blocks) THEN blocks[b][Len(blocks[b])]
                                 ELSE current[Len(current)]) \in Value
    BY <1>3, <2>3
  <2> QED
    BY <1>2, <2>1, <2>2, <2>4
<1>5. WrittenShape'
  BY <1>1, <1>2, <1>3, <1>4 DEF AddingShape, WrittenShape
<1> QED
  BY <1>1, <1>2, <1>4, <1>5

(* Writing a column without values leaves nothing to describe.             *)
LEMMA WriteEmptyColumnIInv ==
    ASSUME IInv, WriteEmptyColumn
    PROVE  IInv'
<1>1. entries = 0
  BY DEF IInv, AddingShape, WriteEmptyColumn, TypeOK
<1>2. TypeOK'
  BY DEF IInv, WriteEmptyColumn, TypeOK
<1> QED
  BY <1>1, <1>2 DEF IInv, WriteEmptyColumn

(* No step of the column breaks the invariant.                             *)
LEMMA NextIInv == IInv /\ [Next]_vars => IInv'
<1> SUFFICES ASSUME IInv, [Next]_vars PROVE IInv'
  OBVIOUS
<1>1. CASE \E v \in Value : AddValue(v)
  BY <1>1, AddValueIInv
<1>2. CASE WriteToFile
  BY <1>2, WriteToFileIInv
<1>3. CASE WriteEmptyColumn
  BY <1>3, WriteEmptyColumnIInv
<1>4. CASE UNCHANGED vars
  BY <1>4 DEF vars, IInv, TypeOK, AddingShape, WrittenShape
<1> QED
  BY <1>1, <1>2, <1>3, <1>4 DEF Next

(* In every reachable state the blocks, the index and the counts agree     *)
(* (addValue, writeToFile).                                                *)
THEOREM ColumnInvariant == Spec => []IInv
BY InitIInv, NextIInv, PTL DEF Spec

(* The values of the column have the types the code gives them.            *)
THEOREM ColumnTypeOK == Spec => []TypeOK
BY ColumnInvariant, PTL DEF IInv

-----------------------------------------------------------------------------
(* What the readers rely on follows from the shape of a written column.    *)

(* The readers compute as many blocks, and as many values in each, as were *)
(* written.                                                                *)
LEMMA WrittenCounts ==
    ASSUME IInv, phase = "written"
    PROVE  /\ Len(blocks) = determineBlocks(BlockSize, entries)
           /\ \A b \in 1..Len(blocks) :
                 Len(blocks[b]) = BlockEntries(b - 1, BlockSize, entries)
<1> DEFINE n == Len(blocks) - 1
           k == Len(blocks[Len(blocks)])
<1>1. /\ n \in Nat /\ k \in 1..BlockSize /\ entries = n * BlockSize + k
      /\ Len(blocks) = n + 1 /\ Len(blocks[n + 1]) = k
      /\ \A b \in 1..n : Len(blocks[b]) = BlockSize
  BY DEF IInv, TypeOK, WrittenShape
<1> HIDE DEF n, k
<1>2. /\ determineBlocks(BlockSize, n * BlockSize + k) = n + 1
      /\ \A b \in 0..(n - 1) :
            BlockEntries(b, BlockSize, n * BlockSize + k) = BlockSize
      /\ BlockEntries(n, BlockSize, n * BlockSize + k) = k
  BY <1>1, CountsOf, ZenonT(30)
<1>3. ASSUME NEW b \in 1..Len(blocks)
      PROVE  Len(blocks[b]) = BlockEntries(b - 1, BlockSize, entries)
  <2>1. CASE b - 1 \in 0..(n - 1)
    <3>1. BlockEntries(b - 1, BlockSize, entries) = BlockSize
      BY <1>1, <1>2, <2>1
    <3> QED
      BY <1>1, <2>1, <3>1
  <2>2. CASE b - 1 = n
    <3>1. b = n + 1
      BY <1>1, <2>2
    <3> QED
      BY <1>1, <1>2, <2>2, <3>1
  <2> QED
    BY <1>1, <2>1, <2>2
<1> QED
  BY <1>1, <1>2, <1>3

(* The readers of the byte and bitmap columns count the blocks, and the    *)
(* values of each block, as the writer left them.                          *)
THEOREM ReadersAgree == Spec => []ReadersCountTheBlocks
<1>1. IInv => ReadersCountTheBlocks
  BY WrittenCounts DEF ReadersCountTheBlocks
<1> QED
  BY <1>1, ColumnInvariant, PTL

(* The number of values in the blocks before block b (counted from 1).     *)
Start(b) == (b - 1) * BlockSize

(* Blocks follow one another: a later one starts where the one before      *)
(* ends.                                                                   *)
LEMMA StartFacts ==
    ASSUME NEW b \in Nat \ {0}
    PROVE  /\ Start(b) \in Nat
           /\ b * BlockSize = Start(b) + BlockSize
           /\ \A c \in Nat : c > b => Start(b) + BlockSize <= Start(c)
<1>1. b - 1 \in Nat /\ (b - 1) * BlockSize \in Nat
  OBVIOUS
<1>2. b * BlockSize = (b - 1) * BlockSize + BlockSize
  OBVIOUS
<1>3. ASSUME NEW c \in Nat, c > b
      PROVE  b * BlockSize <= (c - 1) * BlockSize
  <2>1. c - 1 \in Nat /\ b - 1 < c - 1 /\ b - 1 + 1 = b
    BY <1>3
  <2> QED
    BY <1>1, <2>1, BlockStarts
<1> QED
  BY <1>1, <1>2, <1>3 DEF Start

(* The reader's address arithmetic finds offset k of block b, in any phase.*)
LEMMA ItemAtStart ==
    ASSUME NEW b \in Nat \ {0}, NEW k \in 0..(BlockSize - 1)
    PROVE  ItemAt(Start(b) + k) =
               IF b - 1 < Len(blocks) THEN blocks[b - 1 + 1][k + 1]
                                      ELSE current[k + 1]
<1>1. b - 1 \in Nat
  OBVIOUS
<1>2. /\ BlockOf((b - 1) * BlockSize + k, BlockSize) = b - 1
      /\ OffsetInBlock((b - 1) * BlockSize + k, BlockSize) = k
  BY <1>1, AddressOf
<1>3. /\ BlockOf(Start(b) + k, BlockSize) = b - 1
      /\ OffsetInBlock(Start(b) + k, BlockSize) = k
  BY <1>2 DEF Start
<1> QED
  BY <1>3 DEF ItemAt

(* In a written column value k of block b is value number Start(b) + k of  *)
(* the column, and the number of values is that of the last one.           *)
LEMMA WrittenItems ==
    ASSUME IInv, phase = "written",
           NEW b \in 1..Len(blocks), NEW k \in 1..Len(blocks[b])
    PROVE  /\ Start(b) + k \in 1..entries
           /\ Items[Start(b) + k] = blocks[b][k]
<1>1. blocks \in Seq(Seq(Value)) /\ WrittenShape /\ b \in Nat \ {0}
  BY DEF IInv, TypeOK
<1>2. k \in 1..BlockSize /\ b - 1 \in Nat /\ b - 1 < Len(blocks)
  BY <1>1 DEF WrittenShape
<1>3. /\ entries = Start(Len(blocks)) + Len(blocks[Len(blocks)])
      /\ Len(blocks[Len(blocks)]) \in 1..BlockSize
  BY <1>1 DEF WrittenShape, Start
<1>4. Start(b) + k \in 1..entries
  <2>1. Start(b) \in Nat /\ Start(Len(blocks)) \in Nat
    BY <1>1, StartFacts
  <2>2. CASE b < Len(blocks)
    <3>1. Start(b) + BlockSize <= Start(Len(blocks))
      BY <1>1, <2>2, StartFacts
    <3> QED
      BY <1>2, <1>3, <2>1, <3>1, SMTT(30)
  <2>3. CASE b = Len(blocks)
    BY <1>1, <1>2, <1>3, <2>1, <2>3
  <2> QED
    BY <1>1, <2>2, <2>3
<1>5. ItemAt(Start(b) + (k - 1)) = blocks[b][k]
  <2>1. k - 1 \in 0..(BlockSize - 1) /\ b - 1 + 1 = b /\ k - 1 + 1 = k
    BY <1>1, <1>2
  <2>2. ItemAt(Start(b) + (k - 1)) = blocks[b - 1 + 1][k - 1 + 1]
    BY <1>1, <1>2, <2>1, ItemAtStart
  <2> QED
    BY <2>1, <2>2
<1>6. ASSUME NEW i \in 1..entries, i = Start(b) + k
      PROVE  Items[i] = blocks[b][k]
  <2>1. Items[i] = ItemAt(i - 1)
    BY DEF Items
  <2>2. i - 1 = Start(b) + (k - 1)
    BY <1>1, <1>2, <1>6, StartFacts, SMTT(30)
  <2> QED
    BY <1>5, <2>1, <2>2
<1> QED
  BY <1>4, <1>6

(* The last value of a block is value number min(b * B, entries).          *)
LEMMA LastOfBlock ==
    ASSUME IInv, phase = "written", NEW b \in 1..Len(blocks)
    PROVE  /\ Len(blocks[b]) \in 1..BlockSize
           /\ SmallerOf(b * BlockSize, entries) = Start(b) + Len(blocks[b])
<1>1. /\ blocks \in Seq(Seq(Value)) /\ WrittenShape
      /\ b \in Nat \ {0} /\ entries \in Nat
  BY DEF IInv, TypeOK
<1>2. Start(b) \in Nat /\ b * BlockSize = Start(b) + BlockSize
  BY <1>1, StartFacts
<1>3. /\ Len(blocks[b]) \in 1..BlockSize
      /\ b < Len(blocks) => Len(blocks[b]) = BlockSize
      /\ b = Len(blocks) => entries = Start(b) + Len(blocks[b])
  <2>1. b = Len(blocks) => entries = (b - 1) * BlockSize + Len(blocks[b])
    BY <1>1 DEF WrittenShape
  <2>2. /\ Len(blocks[b]) \in 1..BlockSize
        /\ b < Len(blocks) => Len(blocks[b]) = BlockSize
    BY <1>1 DEF WrittenShape
  <2> QED
    BY <2>1, <2>2 DEF Start
<1>4. Start(b) + Len(blocks[b]) \in 1..entries
  BY <1>3, WrittenItems
<1>5. b < Len(blocks) \/ b = Len(blocks)
  BY <1>1
<1> QED
  BY <1>1, <1>2, <1>3, <1>4, <1>5 DEF SmallerOf

(* The block index of a written column holds the last value of each block. *)
THEOREM IndexIsLastValues == Spec => []IndexHoldsLastValues
<1>1. ASSUME IInv, phase = "written", NEW b \in 1..Len(blocks)
      PROVE  index[b] = Items[SmallerOf(b * BlockSize, entries)]
  <2>1. Len(blocks[b]) \in 1..BlockSize
    BY <1>1, LastOfBlock
  <2>2. Items[Start(b) + Len(blocks[b])] = blocks[b][Len(blocks[b])]
    BY <1>1, <2>1, WrittenItems
  <2>3. index[b] = blocks[b][Len(blocks[b])]
    BY <1>1 DEF IInv, WrittenShape
  <2>4. SmallerOf(b * BlockSize, entries) = Start(b) + Len(blocks[b])
    BY <1>1, LastOfBlock
  <2> QED
    BY <2>2, <2>3, <2>4
<1>2. IInv => IndexHoldsLastValues
  <2> SUFFICES ASSUME IInv, phase = "written" PROVE IndexHoldsLastValues
    BY DEF IndexHoldsLastValues
  <2>1. Len(index) = Len(blocks)
    BY DEF IInv, WrittenShape
  <2> QED
    BY <1>1, <2>1 DEF IndexHoldsLastValues
<1> QED
  BY <1>2, ColumnInvariant, PTL

-----------------------------------------------------------------------------
(* A written column is the plain cut of its values into blocks.            *)

(* The entries of an IInv state, counted with Start.                       *)
LEMMA EntriesByStart ==
    ASSUME IInv
    PROVE  /\ phase = "adding" =>
                  entries = Start(Len(blocks) + 1) + Len(current)
           /\ phase = "written" =>
                  entries = Start(Len(blocks)) + Len(blocks[Len(blocks)])
<1>1. Len(blocks) + 1 - 1 = Len(blocks)
  BY DEF IInv, TypeOK
<1>2. Start(Len(blocks) + 1) = Len(blocks) * BlockSize
  BY <1>1 DEF Start
<1>3. Start(Len(blocks)) = (Len(blocks) - 1) * BlockSize
  BY DEF Start
<1> QED
  BY <1>2, <1>3 DEF IInv, AddingShape, WrittenShape

(* Every value number is Start(b) + k for a block b and a place k in it.   *)
LEMMA SomePlace ==
    ASSUME NEW i \in Nat \ {0}
    PROVE  \E b \in Nat \ {0}, k \in 1..BlockSize :
              /\ i = Start(b) + k
              /\ ItemAt(i - 1) = IF b <= Len(blocks) THEN blocks[b][k]
                                                     ELSE current[k]
<1> DEFINE b0 == BlockOf(i - 1, BlockSize)
           k0 == OffsetInBlock(i - 1, BlockSize)
<1>1. /\ i - 1 \in Nat /\ b0 \in Nat /\ k0 \in 0..(BlockSize - 1)
      /\ i - 1 = b0 * BlockSize + k0
  BY AddressIsExact
<1>2. ItemAt(i - 1) = IF b0 < Len(blocks) THEN blocks[b0 + 1][k0 + 1]
                                          ELSE current[k0 + 1]
  BY DEF ItemAt
<1> HIDE DEF b0, k0
<1>3. Start(b0 + 1) = b0 * BlockSize /\ b0 * BlockSize \in Nat
  <2>1. b0 + 1 - 1 = b0
    BY <1>1
  <2> QED
    BY <1>1, <2>1 DEF Start
<1>4. i = Start(b0 + 1) + (k0 + 1)
  BY <1>1, <1>3
<1>5. b0 < Len(blocks) <=> b0 + 1 <= Len(blocks)
  BY <1>1
<1> QED
  BY <1>1, <1>2, <1>4, <1>5

(* Where value number i of the column lies.                                *)
LEMMA PlaceOf ==
    ASSUME IInv, NEW i \in 1..entries
    PROVE  \E b \in 1..(Len(blocks) + 1), k \in 1..BlockSize :
              /\ i = Start(b) + k
              /\ b <= Len(blocks) => /\ k \in 1..Len(blocks[b])
                                     /\ ItemAt(i - 1) = blocks[b][k]
              /\ b > Len(blocks) => /\ phase = "adding"
                                    /\ k \in 1..Len(current)
                                    /\ ItemAt(i - 1) = current[k]
<1>1. /\ i \in Nat \ {0} /\ i <= entries /\ entries \in Nat
      /\ Len(blocks) \in Nat /\ Len(current) \in Nat
      /\ Len(blocks) + 1 \in Nat \ {0}
      /\ phase \in {"adding", "written"}
  BY DEF IInv, TypeOK
<1>2. PICK b \in Nat \ {0}, k \in 1..BlockSize :
              /\ i = Start(b) + k
              /\ ItemAt(i - 1) = IF b <= Len(blocks) THEN blocks[b][k]
                                                     ELSE current[k]
  BY <1>1, SomePlace
<1>3. CASE phase = "adding"
  <2>1. Start(b) \in Nat /\ Start(Len(blocks) + 1) \in Nat
    BY <1>1, StartFacts
  <2>2. entries = Start(Len(blocks) + 1) + Len(current)
        /\ Len(current) <= BlockSize
        /\ \A c \in 1..Len(blocks) : Len(blocks[c]) = BlockSize
    BY <1>3, EntriesByStart DEF IInv, AddingShape
  <2>3. b <= Len(blocks) + 1
    <3>1. b > Len(blocks) + 1 => Start(Len(blocks) + 1) + BlockSize <= Start(b)
      BY <1>1, StartFacts
    <3>2. Start(b) < entries
      BY <1>1, <1>2, <2>1
    <3>3. Start(b) < Start(Len(blocks) + 1) + BlockSize
      BY <1>1, <2>1, <2>2, <3>2
    <3> QED
      BY <1>1, <2>1, <3>1, <3>3
  <2>4. CASE b <= Len(blocks)
    BY <1>1, <1>2, <2>2, <2>4
  <2>5. CASE b = Len(blocks) + 1
    <3>1. k \in 1..Len(current)
      BY <1>1, <1>2, <2>1, <2>2, <2>5
    <3> QED
      BY <1>1, <1>2, <1>3, <2>5, <3>1
  <2> QED
    BY <1>1, <2>3, <2>4, <2>5
<1>4. CASE phase = "written"
  <2>1. /\ entries = Start(Len(blocks)) + Len(blocks[Len(blocks)])
        /\ Len(blocks[Len(blocks)]) \in 1..BlockSize
        /\ Len(blocks) \in Nat \ {0}
        /\ \A c \in 1..(Len(blocks) - 1) : Len(blocks[c]) = BlockSize
    BY <1>1, <1>4, EntriesByStart DEF IInv, WrittenShape
  <2>2. Start(b) \in Nat /\ Start(Len(blocks)) \in Nat
    BY <2>1, StartFacts
  <2>3. b <= Len(blocks)
    <3>1. b > Len(blocks) => Start(Len(blocks)) + BlockSize <= Start(b)
      BY <2>1, StartFacts
    <3>2. Start(b) < entries
      BY <1>1, <1>2, <2>2
    <3>3. Start(b) < Start(Len(blocks)) + BlockSize
      BY <2>1, <2>2, <3>2
    <3> QED
      BY <2>1, <2>2, <3>1, <3>3
  <2>4. k \in 1..Len(blocks[b])
    <3>1. CASE b < Len(blocks)
      BY <2>1, <3>1
    <3>2. CASE b = Len(blocks)
      BY <1>1, <1>2, <2>1, <2>2, <3>2
    <3> QED
      BY <2>1, <2>3, <3>1, <3>2
  <2>5. b \in 1..(Len(blocks) + 1) /\ ~ (b > Len(blocks))
    BY <1>1, <2>3
  <2> QED
    BY <1>2, <2>3, <2>4, <2>5
<1> QED
  BY <1>1, <1>3, <1>4

(* The abstract column is a sequence of values, as long as the count says. *)
LEMMA ItemsType ==
    ASSUME IInv
    PROVE  /\ Items \in Seq(Value) /\ Len(Items) = entries
           /\ \A i \in 1..entries : Items[i] = ItemAt(i - 1)
<1>1. ASSUME NEW i \in 1..entries PROVE ItemAt(i - 1) \in Value
  <2>1. PICK b \in 1..(Len(blocks) + 1), k \in 1..BlockSize :
              /\ b <= Len(blocks) => /\ k \in 1..Len(blocks[b])
                                     /\ ItemAt(i - 1) = blocks[b][k]
              /\ b > Len(blocks) => /\ k \in 1..Len(current)
                                    /\ ItemAt(i - 1) = current[k]
    BY PlaceOf
  <2>2. blocks \in Seq(Seq(Value)) /\ current \in Seq(Value)
    BY DEF IInv, TypeOK
  <2>3. CASE b <= Len(blocks)
    <3>1. blocks[b] \in Seq(Value)
      BY <2>2, <2>3
    <3>2. blocks[b][k] \in Value
      BY <2>1, <2>3, <3>1
    <3> QED
      BY <2>1, <2>3, <3>2
  <2>4. CASE b > Len(blocks)
    BY <2>1, <2>2, <2>4
  <2> QED
    BY <2>2, <2>3, <2>4
<1>2. entries \in Nat
  BY DEF IInv, TypeOK
<1> QED
  BY <1>1, <1>2 DEF Items

(* A piece of a sequence with the values of t at the right places is t.    *)
LEMMA SubSeqIs ==
    ASSUME NEW S, NEW s \in Seq(S), NEW t \in Seq(S), t # <<>>,
           NEW m \in Nat, m + Len(t) <= Len(s),
           \A k \in 1..Len(t) : s[m + k] = t[k]
    PROVE  SubSeq(s, m + 1, m + Len(t)) = t
<1>1. /\ Len(t) \in Nat \ {0} /\ m + 1 \in Int /\ m + Len(t) \in Int
      /\ m + 1 <= m + Len(t) /\ m + Len(t) - (m + 1) + 1 = Len(t)
  OBVIOUS
<1>2. \A i \in (m + 1)..(m + Len(t)) : s[i] \in S
  BY <1>1
<1>3. /\ SubSeq(s, m + 1, m + Len(t)) \in Seq(S)
      /\ Len(SubSeq(s, m + 1, m + Len(t))) = Len(t)
      /\ \A i \in 1..Len(t) : SubSeq(s, m + 1, m + Len(t))[i] = s[m + 1 + i - 1]
  BY <1>1, <1>2, SubSeqProperties
<1>4. \A i \in 1..Len(t) : m + 1 + i - 1 = m + i
  BY <1>1
<1> QED
  BY <1>3, <1>4, SeqEqual

(* What build() leaves in the file is the plain cut of the values into     *)
(* blocks.                                                                 *)
THEOREM WrittenIsSplit == Spec => []WrittenColumnIsSplit
<1>1. ASSUME IInv, phase = "written", NEW b \in 1..Len(blocks)
      PROVE  blocks[b] = SubSeq(Items, (b - 1) * BlockSize + 1,
                                SmallerOf(b * BlockSize, Len(Items)))
  <2>1. /\ blocks[b] \in Seq(Value) /\ b \in Nat \ {0}
        /\ Items \in Seq(Value) /\ Len(Items) = entries
    BY <1>1, ItemsType DEF IInv, TypeOK
  <2>2. Start(b) \in Nat
    BY <2>1, StartFacts
  <2>3. /\ Len(blocks[b]) \in 1..BlockSize
        /\ SmallerOf(b * BlockSize, entries) = Start(b) + Len(blocks[b])
    BY <1>1, LastOfBlock
  <2>4. \A k \in 1..Len(blocks[b]) : /\ Start(b) + k \in 1..entries
                                     /\ Items[Start(b) + k] = blocks[b][k]
    BY <1>1, WrittenItems
  <2>5. Start(b) + Len(blocks[b]) <= Len(Items) /\ blocks[b] # <<>>
    BY <2>1, <2>3, <2>4
  <2>6. SubSeq(Items, Start(b) + 1, Start(b) + Len(blocks[b])) = blocks[b]
    BY <2>1, <2>2, <2>4, <2>5, SubSeqIs
  <2>7. Start(b) = (b - 1) * BlockSize
    BY DEF Start
  <2> QED
    BY <2>1, <2>3, <2>6, <2>7
<1>2. ASSUME IInv, phase = "written" PROVE blocks = Split(Items, BlockSize)
  <2>1. Len(blocks) = determineBlocks(BlockSize, Len(Items))
    BY <1>2, WrittenCounts, ItemsType
  <2>2. blocks = [b \in 1..Len(blocks) |-> blocks[b]]
    BY <1>2 DEF IInv, TypeOK
  <2>3. blocks = [b \in 1..Len(blocks) |->
                     SubSeq(Items, (b - 1) * BlockSize + 1,
                            SmallerOf(b * BlockSize, Len(Items)))]
    BY <1>1, <1>2, <2>2
  <2> QED
    BY <2>1, <2>3 DEF Split
<1>3. IInv => WrittenColumnIsSplit
  BY <1>2 DEF WrittenColumnIsSplit
<1> QED
  BY <1>3, ColumnInvariant, PTL

-----------------------------------------------------------------------------
(* A finished block never changes.                                         *)
THEOREM FinishedStay == Spec => FinishedBlocksStay
<1> DEFINE Stay == /\ Len(blocks) <= Len(blocks')
                   /\ \A b \in 1..Len(blocks) : blocks'[b] = blocks[b]
<1>1. ASSUME IInv, [Next]_vars PROVE [Stay]_vars
  <2>1. blocks \in Seq(Seq(Value)) /\ current \in Seq(Value)
    BY <1>1 DEF IInv, TypeOK
  <2>2. blocks' = blocks \/ blocks' = Append(blocks, current)
    BY <1>1 DEF Next, AddValue, WriteToFile, WriteEmptyColumn, vars
  <2> QED
    BY <2>1, <2>2
<1> QED
  BY <1>1, ColumnInvariant, PTL DEF Spec, FinishedBlocksStay

-----------------------------------------------------------------------------
(* Refinement: read through ItemAt, the column is an append-only sequence. *)

(* What the column holds before a step it holds at the same place after.   *)
LEMMA ItemsKept ==
    ASSUME IInv, IInv', [Next]_vars, NEW i \in 1..entries
    PROVE  ItemAt(i - 1)' = ItemAt(i - 1)
<1>1. PICK b \in 1..(Len(blocks) + 1), k \in 1..BlockSize :
              /\ i = Start(b) + k
              /\ b <= Len(blocks) => /\ k \in 1..Len(blocks[b])
                                     /\ ItemAt(i - 1) = blocks[b][k]
              /\ b > Len(blocks) => /\ phase = "adding"
                                    /\ k \in 1..Len(current)
                                    /\ ItemAt(i - 1) = current[k]
  BY PlaceOf
<1>2. /\ blocks \in Seq(Seq(Value)) /\ current \in Seq(Value)
      /\ i \in Nat /\ Len(blocks) \in Nat
  BY DEF IInv, TypeOK
<1>3. ItemAt(i - 1)' = IF b <= Len(blocks') THEN blocks'[b][k] ELSE current'[k]
  <2>0. b \in Nat \ {0} /\ k \in Nat \ {0} /\ b - 1 \in Nat
    BY <1>2
  <2>a. Start(b) \in Nat
    BY <2>0, StartFacts
  <2>1. /\ b \in Nat \ {0} /\ k - 1 \in 0..(BlockSize - 1)
        /\ b - 1 + 1 = b /\ k - 1 + 1 = k /\ i - 1 = Start(b) + (k - 1)
    BY <1>1, <1>2, <2>0, <2>a
  <2>2. ItemAt(i - 1)' =
            IF b - 1 < Len(blocks') THEN blocks'[b - 1 + 1][k - 1 + 1]
                                    ELSE current'[k - 1 + 1]
    <3>1. /\ BlockOf(Start(b) + (k - 1), BlockSize) = b - 1
          /\ OffsetInBlock(Start(b) + (k - 1), BlockSize) = k - 1
      BY <2>0, <2>1, AddressOf DEF Start
    <3>2. /\ BlockOf(i - 1, BlockSize) = b - 1
          /\ OffsetInBlock(i - 1, BlockSize) = k - 1
      BY <2>1, <3>1
    <3> QED
      BY <3>2 DEF ItemAt
  <2>3. Len(blocks') \in Nat
    BY DEF IInv, TypeOK
  <2>4. ItemAt(i - 1)' =
            IF b - 1 < Len(blocks') THEN blocks'[b][k] ELSE current'[k]
    BY <2>1, <2>2
  <2>5. b - 1 < Len(blocks') <=> b <= Len(blocks')
    BY <2>1, <2>3
  <2> QED
    BY <2>4, <2>5
<1>4. CASE UNCHANGED <<blocks, current>>
  BY <1>1, <1>2, <1>3, <1>4
<1>5. CASE \E v \in Value : blocks' = blocks /\ current' = Append(current, v)
  BY <1>1, <1>2, <1>3, <1>5
<1>6. CASE blocks' = Append(blocks, current)
  BY <1>1, <1>2, <1>3, <1>6
<1> QED
  BY <1>4, <1>5, <1>6 DEF Next, AddValue, WriteToFile, WriteEmptyColumn, vars

(* A value that is added becomes the last item.                            *)
LEMMA NewItem ==
    ASSUME IInv, IInv', NEW v \in Value, AddValue(v),
           NEW n, n = entries
    PROVE  ItemAt(n)' = v
<1>1. /\ phase' = "adding" /\ AddingShape' /\ entries' = n + 1 /\ n \in Nat
      /\ blocks' \in Seq(Seq(Value)) /\ current' \in Seq(Value)
  BY DEF AddValue, IInv, TypeOK
<1>2. current' # <<>> /\ current'[Len(current')] = v
  <2>1. CASE current' = Append(current, v)
    <3>1. current \in Seq(Value) /\ Len(current) + 1 \in Nat \ {0}
      BY DEF IInv, TypeOK
    <3>2. /\ Len(Append(current, v)) = Len(current) + 1
          /\ Append(current, v)[Len(current) + 1] = v
      BY <3>1
    <3> QED
      BY <2>1, <3>1, <3>2
  <2>2. CASE current' = <<v>>
    BY <2>2
  <2> QED
    BY <2>1, <2>2 DEF AddValue
<1>3. /\ Len(blocks') \in Nat /\ Len(current') \in 1..BlockSize
      /\ Len(current') - 1 \in 0..(BlockSize - 1)
      /\ Len(current') - 1 + 1 = Len(current')
  BY <1>1, <1>2 DEF AddingShape
<1>4. n = Len(blocks') * BlockSize + (Len(current') - 1)
  <2>1. n + 1 = Len(blocks') * BlockSize + Len(current')
    BY <1>1 DEF AddingShape
  <2>2. Len(blocks') * BlockSize \in Nat
    BY <1>3
  <2> QED
    BY <1>1, <1>3, <2>1, <2>2
<1>5. /\ BlockOf(n, BlockSize) = Len(blocks')
      /\ OffsetInBlock(n, BlockSize) = Len(current') - 1
  <2>1. /\ BlockOf(Len(blocks') * BlockSize + (Len(current') - 1), BlockSize)
              = Len(blocks')
        /\ OffsetInBlock(Len(blocks') * BlockSize + (Len(current') - 1),
                         BlockSize)
              = Len(current') - 1
    BY <1>3, AddressOf
  <2> QED
    BY <1>4, <2>1
<1>6. ItemAt(n)' = current'[Len(current') - 1 + 1]
  BY <1>3, <1>5 DEF ItemAt
<1> QED
  BY <1>2, <1>3, <1>6

(* Adding a value appends it to the items and leaves the others alone.     *)
LEMMA AddAppends ==
    ASSUME IInv, IInv', NEW v \in Value, AddValue(v)
    PROVE  Items' = Append(Items, v)
<1>1. entries' = entries + 1 /\ entries \in Nat
  BY DEF AddValue, IInv, TypeOK
<1>2. [Next]_vars
  BY DEF Next
<1>3. Items \in Seq(Value) /\ Len(Items) = entries
  BY ItemsType
<1>4. /\ Append(Items, v) = [i \in 1..(entries + 1) |-> Append(Items, v)[i]]
      /\ Append(Items, v)[entries + 1] = v
      /\ \A i \in 1..entries : Append(Items, v)[i] = Items[i]
  <2>1. \A s \in Seq(Value) :
           /\ Append(s, v) \in Seq(Value) /\ Len(Append(s, v)) = Len(s) + 1
           /\ Append(s, v)[Len(s) + 1] = v
           /\ \A i \in 1..Len(s) : Append(s, v)[i] = s[i]
    OBVIOUS
  <2>2. \A s \in Seq(Value) : s = [i \in 1..Len(s) |-> s[i]]
    OBVIOUS
  <2> QED
    BY <1>3, <2>1, <2>2
<1>5. ASSUME NEW i \in 1..(entries + 1)
      PROVE  ItemAt(i - 1)' = Append(Items, v)[i]
  <2>1. CASE i \in 1..entries
    <3>1. ItemAt(i - 1)' = ItemAt(i - 1)
      BY <1>2, <2>1, ItemsKept
    <3>2. Items[i] = ItemAt(i - 1)
      BY <2>1, ItemsType
    <3> QED
      BY <1>4, <2>1, <3>1, <3>2
  <2>2. CASE i = entries + 1
    <3>1. i - 1 = entries
      BY <1>1, <2>2
    <3>2. ItemAt(i - 1)' = v
      BY <3>1, NewItem
    <3>3. Append(Items, v)[i] = v
      BY <1>4, <2>2
    <3> QED
      BY <3>2, <3>3
  <2>3. i \in 1..entries \/ i = entries + 1
    BY <1>1
  <2> QED
    BY <2>1, <2>2, <2>3
<1>6. Items' = [i \in 1..(entries + 1) |-> ItemAt(i - 1)']
  BY <1>1 DEF Items
<1>7. Items' = [i \in 1..(entries + 1) |-> Append(Items, v)[i]]
  BY <1>5, <1>6
<1> QED
  BY <1>4, <1>7

(* The value that is added, and no other, becomes the last item of the     *)
(* column, for every block size (addBytes, addValue, addBitmap).           *)
THEOREM AddedIsLast == Spec => AddedValueIsLast
<1>1. ASSUME IInv, IInv', [Next]_vars
      PROVE  [\A v \in Value : AddValue(v) => Items' = Append(Items, v)]_vars
  BY <1>1, AddAppends
<1> QED
  BY <1>1, ColumnInvariant, PTL DEF Spec, AddedValueIsLast

(* Steps that add nothing leave all items alone.                           *)
LEMMA ItemsUnchanged ==
    ASSUME IInv, IInv', [Next]_vars, entries' = entries
    PROVE  Items' = Items
<1>1. \A i \in 1..entries : ItemAt(i - 1)' = ItemAt(i - 1)
  BY ItemsKept
<1>2. Items' = [i \in 1..entries |-> ItemAt(i - 1)']
  BY DEF Items
<1> QED
  BY <1>1, <1>2 DEF Items

(* The column, read through the readers' address arithmetic, implements an *)
(* append-only sequence: addBytes, addValue, addBitmap and writeToFile     *)
(* neither lose, duplicate nor move a value, for every block size.         *)
THEOREM ColumnRefines == Spec => ImplementsColumn
<1>1. Init => Column!Init
  BY DEF Init, Column!Init, Items
<1>2. ASSUME IInv, IInv', [Next]_vars
      PROVE  [Column!Next]_<<Items, phase # "adding">>
  <2>1. ASSUME NEW v \in Value, AddValue(v)
        PROVE  Column!Next
    <3>1. Items' = Append(Items, v)
      BY <1>2, <2>1, AddAppends
    <3>2. phase = "adding" /\ phase' = "adding"
      BY <2>1 DEF AddValue
    <3> QED
      BY <3>1, <3>2 DEF Column!Next, Column!Add
  <2>2. CASE WriteToFile \/ WriteEmptyColumn
    <3>1. entries' = entries /\ phase = "adding" /\ phase' # "adding"
      BY <2>2 DEF WriteToFile, WriteEmptyColumn
    <3>2. Items' = Items
      BY <1>2, <3>1, ItemsUnchanged
    <3> QED
      BY <3>1, <3>2 DEF Column!Next, Column!Seal
  <2>3. CASE UNCHANGED vars
    <3>1. entries' = entries /\ phase' = phase
      BY <2>3 DEF vars
    <3>2. Items' = Items
      BY <1>2, <3>1, ItemsUnchanged
    <3> QED
      BY <3>1, <3>2
  <2> QED
    BY <1>2, <2>1, <2>2, <2>3 DEF Next
<1> QED
  BY <1>1, <1>2, ColumnInvariant, PTL DEF Spec, ImplementsColumn, Column!Spec
==============================================================================
