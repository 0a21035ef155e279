\* Seven cells fill two blocks of three and start a third, and every shorter
\* column is met too; two ids are always left over for the bounds of a range.
CONSTANTS
    Value <- MCValue
    BlockSize = 3
    MaxEntries = 7
SPECIFICATION CellSpec
INVARIANTS TypeOK ReadersCountTheBlocks WrittenColumnIsSplit IndexHoldsLastValues
    StoredCellFound RangeCellsFound RangeTakesAtMostOneMore
PROPERTIES AddedValueIsLast ImplementsColumn FinishedBlocksStay
\* A written column is final.
CHECK_DEADLOCK FALSE
