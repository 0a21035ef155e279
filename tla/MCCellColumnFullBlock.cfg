CONSTANTS
    Value <- MCValue
    BlockSize = 3
    MaxEntries = 7
SPECIFICATION CellSpec
INVARIANT CellReaderCountsTheBlocks
CHECK_DEADLOCK FALSE
