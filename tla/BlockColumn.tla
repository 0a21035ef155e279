---------------------------- MODULE BlockColumn -----------------------------
(***************************************************************************)
(* One column of the file while RoaringGeoMapWriter::build fills it and    *)
(* writes it.  ByteColumnWriter, CellIdColumnWriter and                    *)
(* RoaringBitmapColumnWriter run the same code over different values: a    *)
(* current block takes values until it rejects one, then it is pushed and  *)
(* a new one started; writeToFile pushes whatever the current block holds. *)
(***************************************************************************)
EXTENDS Blocks

CONSTANTS Value,      \* the values of the column
          BlockSize,  \* BLOCK_SIZE, 1024 in RoaringGeoMapWriter.cpp
          MaxEntries  \* the most values added (the header has 32 bits for it)

ASSUME BlockSizeAssumption == BlockSize \in Nat \ {0}
ASSUME MaxEntriesAssumption == MaxEntries \in Nat

VARIABLES blocks,  \* the finished blocks
          current, \* currentWriteBlock
          entries, \* values added: what build() stores in the header
          index,   \* BlockIndexWriter's values: the last value of each block
          phase    \* "adding", "written", or "undefined" after C++ UB

vars == <<blocks, current, entries, index, phase>>

TypeOK == /\ blocks \in Seq(Seq(Value))
          /\ current \in Seq(Value)
          /\ entries \in 0..MaxEntries
          /\ index \in Seq(Value)
          /\ phase \in {"adding", "written", "undefined"}

Init == /\ blocks = <<>>
        /\ current = <<>>
        /\ entries = 0
        /\ index = <<>>
        /\ phase = "adding"

(* A faulty variant: the full block is pushed but goes on being filled.    *)
AddValueKeepingBlock(v) ==
    /\ phase = "adding"
    /\ entries < MaxEntries
    /\ current' = Append(current, v)
    /\ blocks' = IF Len(current) < BlockSize THEN blocks ELSE Append(blocks, current)
    /\ entries' = entries + 1
    /\ UNCHANGED <<index, phase>>

(* A faulty variant: values are put in front of the block.                 *)
AddValueInFront(v) ==
    /\ phase = "adding"
    /\ entries < MaxEntries
    /\ \/ /\ Len(current) < BlockSize
          /\ current' = <<v>> \o current
          /\ UNCHANGED blocks
       \/ /\ Len(current) >= BlockSize
          /\ blocks' = Append(blocks, current)
          /\ current' = <<v>>
    /\ entries' = entries + 1
    /\ UNCHANGED <<index, phase>>

(* addBytes, addValue, addBitmap.  The current block takes the value       *)
(* (insertValue returns true) or, when it is full, is pushed and replaced. *)
AddValue(v) ==
    /\ phase = "adding"
    /\ entries < MaxEntries
    /\ \/ /\ Len(current) < BlockSize
          /\ current' = Append(current, v)
          /\ UNCHANGED blocks
       \/ /\ Len(current) >= BlockSize
          /\ blocks' = Append(blocks, current)
          /\ current' = <<v>>
    /\ entries' = entries + 1
    /\ UNCHANGED <<index, phase>>

(* Faulty variants: an index of first values, an index of block sizes, and *)
(* a current block that is written over the last finished one.             *)
WriteToFileFirstValues ==
    /\ phase = "adding"
    /\ current # <<>>
    /\ blocks' = Append(blocks, current)
    /\ index' = [b \in DOMAIN blocks' |-> blocks'[b][1]]
    /\ current' = <<>>
    /\ phase' = "written"
    /\ UNCHANGED entries
WriteToFileSizes ==
    /\ phase = "adding"
    /\ current # <<>>
    /\ blocks' = Append(blocks, current)
    /\ index' = [b \in DOMAIN blocks' |-> Len(blocks'[b])]
    /\ current' = <<>>
    /\ phase' = "written"
    /\ UNCHANGED entries
WriteToFileOverLast ==
    /\ phase = "adding"
    /\ current # <<>>
    /\ blocks' = IF blocks = <<>> THEN <<current>>
                 ELSE [blocks EXCEPT ![Len(blocks)] = current]
    /\ index' = [b \in DOMAIN blocks' |-> blocks'[b][Len(blocks'[b])]]
    /\ current' = <<>>
    /\ phase' = "written"
    /\ UNCHANGED entries

(* writeToFile with at least one value added.  The current block is pushed *)
(* even when it is not full; WriteBlock returns values.back() of each block*)
(* and the cell column keeps those as its block index.                     *)
WriteToFile ==
    /\ phase = "adding"
    /\ current # <<>>
    /\ blocks' = Append(blocks, current)
    /\ index' = [b \in 1..(Len(blocks) + 1) |->
                    IF b <= Len(blocks) THEN blocks[b][Len(blocks[b])]
                                        ELSE current[Len(current)]]
    /\ current' = <<>>
    /\ phase' = "written"
    /\ UNCHANGED entries

(* writeToFile of a column nothing was added to: values.back() of an empty *)
(* vector is undefined, so the index entry, if the program lives on, is    *)
(* anything, and the column has one block where the reader counts none.    *)
WriteEmptyColumn ==
    /\ phase = "adding"
    /\ current = <<>>
    /\ blocks' = Append(blocks, current)
    /\ \E v \in Value : index' = <<v>>
    /\ phase' = "undefined"
    /\ UNCHANGED <<current, entries>>

Next == (\E v \in Value : AddValue(v)) \/ WriteToFile \/ WriteEmptyColumn

Spec == Init /\ [][Next]_vars

-----------------------------------------------------------------------------
(* Value number i (from 0) where the reader's address arithmetic looks for *)
(* it, a value still in the current block included.                        *)
ItemAt(i) ==
    LET b == BlockOf(i, BlockSize)
        k == OffsetInBlock(i, BlockSize)
    IN  IF b < Len(blocks) THEN blocks[b + 1][k + 1] ELSE current[k + 1]

Items == [i \in 1..entries |-> ItemAt(i - 1)]

(* The value that is added, and no other, becomes the last item, whichever *)
(* block takes it (addBytes, addValue, addBitmap).                         *)
AddedValueIsLast ==
    [][\A v \in Value : AddValue(v) => Items' = Append(Items, v)]_vars

(* The column implements an append-only sequence when it is read through   *)
(* ItemAt: adding a value, closing a block and writing the column neither  *)
(* lose, duplicate nor move any value added before (addValue and           *)
(* writeToFile against RoaringGeoMapReader::queryBlocksByIndexes).         *)
Column == INSTANCE AppendOnlyColumn
              WITH items <- Items, sealed <- (phase # "adding")
ImplementsColumn == Column!Spec

(* The counts the readers compute from the header's two numbers are those  *)
(* of the blocks the writer left: the number of blocks, and the values of  *)
(* each block as the byte and bitmap readers count them.  BlockReader finds*)
(* the values behind `entries` offsets, so a count off by one misreads     *)
(* every value of the block.                                               *)
ReadersCountTheBlocks ==
    phase = "written" =>
        /\ Len(blocks) = determineBlocks(BlockSize, entries)
        /\ \A b \in 1..Len(blocks) :
              Len(blocks[b]) = BlockEntries(b - 1, BlockSize, entries)

(* A written column is the plain cut of its values into blocks, which is   *)
(* the form in which module GeoMap composes the three columns of the file. *)
WrittenColumnIsSplit ==
    phase = "written" => blocks = Split(Items, BlockSize)

(* The block index of a written column has for each block its last value:  *)
(* the one the readers' address arithmetic gives for the last value of     *)
(* that block (BlockWriter::WriteBlock, BlockIndexWriter::addValue).       *)
IndexHoldsLastValues ==
    phase = "written" =>
        /\ Len(index) = Len(blocks)
        /\ \A b \in 1..Len(index) :
              index[b] = Items[SmallerOf(b * BlockSize, entries)]

(* A finished block never changes again: values come only after it.        *)
FinishedBlocksStay ==
    [][ /\ Len(blocks) <= Len(blocks')
        /\ \A b \in 1..Len(blocks) : blocks'[b] = blocks[b] ]_vars

(* What a comment in CellIdColumnReader::ReadBlock doubts: that the cell   *)
(* column's reader counts the values of each block as they were written.   *)
CellReaderCountsTheBlocks ==
    phase = "written" =>
        \A b \in 1..Len(blocks) :
            Len(blocks[b]) = CellBlockEntries(b - 1, BlockSize, entries)
=============================================================================
