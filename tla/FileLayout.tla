----------------------------- MODULE FileLayout -----------------------------
(***************************************************************************)
(* The file as bytes.  RoaringGeoMapWriter::build lays the sections out in *)
(* a FileWriteBuffer and flushes it to the path it truncated at the start; *)
(* a RoaringGeoMapReader copies the file and finds its way from the header.*)
(* The program may be killed at any moment, the disk may be full, and a    *)
(* reader may open the file while a build is under way.                    *)
(*                                                                         *)
(* Positions are counted from 0, as in the code.  What the code does with  *)
(* an exception is a set here: {} for "throws", {x} for the value x.       *)
(***************************************************************************)
EXTENDS Blocks, SequencesExt

CONSTANTS Byte,        \* the number of values of a byte, 256
          HeaderSize,  \* HEADER_SIZE, 128
          InitialSize, \* of the write buffer, 4096 * 4
          BlockSize,   \* BLOCK_SIZE, 1024
          Input,       \* what builds have to write
          Cuts,        \* lengths at which a transfer to or from disk may halt
          MaxBuilds,   \* bound on the number of builds
          NoFile       \* no file at the path

Word == 8            \* sizeof(uint64_t)
Wrap == Byte^Word
Bytes == Seq(0..(Byte - 1))

ASSUME LayoutAssumption ==
    /\ Byte \in Nat \ {0, 1} /\ HeaderSize \in 88..(Wrap - 1) /\ InitialSize \in Nat
    /\ BlockSize \in 1..(Byte^2 - 1) /\ Cuts \subseteq Nat /\ MaxBuilds \in Nat
    /\ NoFile \notin Bytes

(* What a power is: proofs have no other definition of it.                 *)
ASSUME PowersAssumption ==
    Byte^0 = 1 /\ \A n \in 0..(Word - 1) : Byte^(n + 1) = Byte^n * Byte

VARIABLES pc,     \* the section a build writes next, "idle" between builds
          input,  \* what the last build has to write
          buffer, \* its FileWriteBuffer: bytes and currentPos
          header, \* its Header
          result, \* what it returned: "true", "throws", or "crashed"
          disk,   \* the bytes of the file
          builds, \* the number of builds that have truncated the file
          reader  \* a FileReadBuffer: size, bytes read, builds when opened

vars == <<pc, input, buffer, header, result, disk, builds, reader>>

-----------------------------------------------------------------------------
(* Integers in little endian: WriteHelpers, ReaderHelpers.  A value wider  *)
(* than its field loses its high bytes.                                    *)

(* A faulty variant: the digits are not cut to bytes.                      *)
LittleEndianUncut(v, w) == [k \in 1..w |-> v \div Byte^(k - 1)]
LittleEndian(v, w) == [k \in 1..w |-> (v \div Byte^(k - 1)) % Byte]
FromLittleEndian(s) ==
    LET value[k \in 0..Len(s)] ==
            IF k = 0 THEN 0 ELSE value[k - 1] + s[k] * Byte^(k - 1)
    IN  value[Len(s)]
Words(s) == FlattenSeq([i \in DOMAIN s |-> LittleEndian(s[i], Word)])

(* FileWriteBuffer: write, and seek by an unsigned 64-bit interval, so that*)
(* going back means going around.                                          *)
Resized(s, n) == s \o [i \in 1..(n - Len(s)) |-> 0]
Write(b, data) ==
    LET end == b.pos + Len(data)
        s   == Resized(b.bytes, end)
    IN  [bytes |-> SubSeq(s, 1, b.pos) \o data \o SubSeq(s, end + 1, Len(s)),
         pos   |-> end]
Seek(b, interval) ==
    LET p == (b.pos + interval) % Wrap
    IN  [bytes |-> Resized(b.bytes, p), pos |-> p]
Back(n) == (0 - n) % Wrap

-----------------------------------------------------------------------------
(* The column writers.  A block of values of their own sizes has the ends  *)
(* of the values in front; a block of uint64 values has nothing in front.  *)
EndsOf(s) ==
    LET end[i \in DOMAIN s] == Len(s[i]) + (IF i = 1 THEN 0 ELSE end[i - 1])
    IN  end
VarBlock(values) == Words(EndsOf(values)) \o FlattenSeq(values)
FixedBlock(values) == Words(values)

(* Faulty variants: no seek to the end, and a seek back that is too far.   *)
writeColumnStaying(b, bodies, maxes) ==
    LET head == (Len(bodies) + Len(maxes)) * Word
        data == Last(EndsOf(bodies))
        all  == Write(Seek(b, head), FlattenSeq(bodies))
    IN  [buffer |-> Write(Seek(all, Back(data + head)),
                          Words(maxes) \o Words(EndsOf(bodies))),
         size   |-> head + data]
writeColumnTooFar(b, bodies, maxes) ==
    LET head == (Len(bodies) + Len(maxes)) * Word
        data == Last(EndsOf(bodies))
        all  == Write(Seek(b, head), FlattenSeq(bodies))
        top  == Write(Seek(all, Back(data + head + Word)),
                      Words(maxes) \o Words(EndsOf(bodies)))
    IN  [buffer |-> Seek(top, data + head), size |-> head + data]

(* writeToFile: leave room for the block index and the block ends, write   *)
(* the blocks, go back and fill the room, go forward again.  The last seek *)
(* starts behind the filled room, yet covers it a second time.             *)
writeColumn(b, bodies, maxes) ==
    LET head == (Len(bodies) + Len(maxes)) * Word
        data == Last(EndsOf(bodies))
        all  == Write(Seek(b, head), FlattenSeq(bodies))
        top  == Write(Seek(all, Back(data + head)),
                      Words(maxes) \o Words(EndsOf(bodies)))
    IN  [buffer |-> Seek(top, data + head), size |-> head + data]

VarBlocks(values) ==
    LET blocks == Split(values, BlockSize) IN [i \in DOMAIN blocks |-> VarBlock(blocks[i])]
FixedBlocks(cells) ==
    LET blocks == Split(cells, BlockSize) IN [i \in DOMAIN blocks |-> FixedBlock(blocks[i])]
BlockMaxes(cells) ==
    LET blocks == Split(cells, BlockSize) IN [i \in DOMAIN blocks |-> Last(blocks[i])]
VarColumn(b, values) == writeColumn(b, VarBlocks(values), <<>>)
CellColumn(b, cells) == writeColumn(b, FixedBlocks(cells), BlockMaxes(cells))

(* Where the sections of input w start and where the last one ends, with   *)
(* the room that the last seek of each column leaves behind it.            *)
Room(bodies, maxes) ==
    2 * (Len(bodies) + Len(maxes)) * Word + Last(EndsOf(bodies))
KeysAt(w) == HeaderSize + Len(w.filter)
CellsAt(w) == KeysAt(w) + Room(VarBlocks(w.keys), <<>>)
BitmapsAt(w) == CellsAt(w) + Room(FixedBlocks(w.cells), BlockMaxes(w.cells))
EndAt(w) == BitmapsAt(w) + Room(VarBlocks(w.bitmaps), <<>>)

(* There is a key and a cell, each cell has its bitmap, the numbers of keys*)
(* and cells fit the header's 32 bits, and no buffer has 2^64 bytes.       *)
ASSUME InputAssumption ==
    \A w \in Input :
        /\ w \in [filter: Bytes, levelRange: Nat, keys: Seq(Bytes),
                  cells: Seq(0..(Wrap - 1)), bitmaps: Seq(Bytes)]
        /\ w.keys # <<>> /\ w.cells # <<>> /\ Len(w.cells) = Len(w.bitmaps)
        /\ Len(w.keys) < Byte^4 /\ Len(w.cells) < Byte^4
        /\ EndAt(w) < Wrap

(* Header: its members, keyIndexSize with 32 bits, and what it writes.     *)
NewHeader(levelRange) ==
    [cellIdFilterOffset |-> 0, cellIdFilterSize |-> 0,
     keyIndexOffset |-> 0, keyIndexSize |-> 0,
     cellIndexOffset |-> 0, cellIndexSize |-> 0,
     roaringIndexOffset |-> 0, roaringIndexSize |-> 0,
     keyIndexEntries |-> 0, cellIndexEntries |-> 0,
     levelIndexBucketRange |-> levelRange % Byte, blockSize |-> BlockSize]

HeaderBytes(h) ==
    Words(<<HeaderSize, h.cellIdFilterOffset, h.cellIdFilterSize,
            h.keyIndexOffset, h.keyIndexSize, h.cellIndexOffset,
            h.cellIndexSize, h.roaringIndexOffset, h.roaringIndexSize>>)
    \o LittleEndian(h.keyIndexEntries, 4) \o LittleEndian(h.cellIndexEntries, 4)
    \o LittleEndian(h.levelIndexBucketRange, 1) \o LittleEndian(h.blockSize, 2)
    \o <<0, 0, 0, 0, 0>>   \* fileType and four reserved bytes

-----------------------------------------------------------------------------
(* A reader's view of the bytes f it has read.                             *)

(* A faulty variant: only the start is looked at, and zeros are behind the *)
(* end of what was read (the rest of the aligned allocation).              *)
viewOfStart(f, offset, length) ==
    IF offset >= Len(f) THEN {}
    ELSE {SubSeq(Resized(f, offset + length), offset + 1, offset + length)}

(* FileReadBuffer::view.                                                   *)
view(f, offset, length) ==
    IF offset + length > Len(f) THEN {} ELSE {SubSeq(f, offset + 1, offset + length)}

(* VectorView: n integers of 64 bits.                                      *)
VectorView(f, pos, n) ==
    {[i \in 1..n |-> FromLittleEndian(SubSeq(v, (i - 1) * Word + 1, i * Word))] :
        v \in view(f, pos, n * Word)}

(* Header::readFromFile.  The last field it reads ends with byte 84.       *)
readFromFile(f) ==
    LET at(p, w) == FromLittleEndian(SubSeq(f, p + 1, p + w))
    IN  {[cellIdFilterOffset |-> at(8, 8), cellIdFilterSize |-> at(16, 8),
          keyIndexOffset |-> at(24, 8), keyIndexSize |-> at(32, 8) % Byte^4,
          cellIndexOffset |-> at(40, 8), cellIndexSize |-> at(48, 8),
          roaringIndexOffset |-> at(56, 8), roaringIndexSize |-> at(64, 8),
          keyIndexEntries |-> at(72, 4), cellIndexEntries |-> at(76, 4),
          levelIndexBucketRange |-> at(80, 1), blockSize |-> at(81, 2)] :
             last \in view(f, 83, 1)}

(* RoaringGeoMapReader's constructor: the header, the filter, and for each *)
(* column its block ends and, for the cells, the block index.              *)
Opened(f) ==
    UNION {LET keyBlocks  == determineBlocks(h.blockSize, h.keyIndexEntries)
               cellBlocks == determineBlocks(h.blockSize, h.cellIndexEntries)
           IN  {[header |-> h, filter |-> x, keyEnds |-> k,
                 index |-> i, cellEnds |-> c, bitmapEnds |-> m] :
                   x \in view(f, h.cellIdFilterOffset, h.cellIdFilterSize),
                   k \in VectorView(f, h.keyIndexOffset, keyBlocks),
                   i \in VectorView(f, h.cellIndexOffset, cellBlocks),
                   c \in VectorView(f, h.cellIndexOffset + cellBlocks * Word,
                                    cellBlocks),
                   m \in VectorView(f, h.roaringIndexOffset, cellBlocks)}
           : h \in readFromFile(f)}

(* BlockOffsetReader::BlockPos, and the same for the values of a block.    *)
(* A faulty variant: the end where the start should be.                    *)
StartOfEnd(ends, i) == ends[i + 1]
StartOf(ends, i) == IF i = 0 THEN 0 ELSE ends[i]

(* ReadBlock and BlockReader::readIndexes: value number i of a column.     *)
ReadVarValue(f, startPos, blockEnds, blockSize, entries, i) ==
    LET b   == BlockOf(i, blockSize)
        k   == OffsetInBlock(i, blockSize)
        n   == BlockEntries(b, blockSize, entries)
        pos == startPos + Len(blockEnds) * Word + StartOf(blockEnds, b)
    IN  UNION {view(f, pos + n * Word + StartOf(ends, k),
                    ends[k + 1] - StartOf(ends, k)) :
                  ends \in VectorView(f, pos, n)}
ReadKey(f, r, i) ==
    ReadVarValue(f, r.header.keyIndexOffset, r.keyEnds, r.header.blockSize,
                 r.header.keyIndexEntries, i)
ReadBitmap(f, r, i) ==
    ReadVarValue(f, r.header.roaringIndexOffset, r.bitmapEnds,
                 r.header.blockSize, r.header.cellIndexEntries, i)

(* CellIdColumnReader::ReadBlock and FixedBlockReader: all cells it counts *)
(* in block b.                                                             *)
ReadCells(f, r, b) ==
    VectorView(f, r.header.cellIndexOffset
                      + (Len(r.index) + Len(r.cellEnds)) * Word
                      + StartOf(r.cellEnds, b),
               CellBlockEntries(b, r.header.blockSize, r.header.cellIndexEntries))

-----------------------------------------------------------------------------
NoReader == [step |-> "closed", size |-> 0, data |-> <<>>, since |-> 0]

Init == /\ pc = "idle" /\ result = "none" /\ builds = 0
        /\ input \in Input
        /\ buffer = [bytes |-> <<>>, pos |-> 0]
        /\ header = NewHeader(1)
        /\ disk = NoFile
        /\ reader = NoReader

(* The stream cannot be opened: build throws and the file is as it was.    *)
CannotOpen == /\ pc = "idle"
              /\ result' = "throws"
              /\ UNCHANGED <<pc, input, buffer, header, disk, builds, reader>>

(* FileWriteBuffer's constructor truncates the file; reserve_header.       *)
CreateFile == /\ pc = "idle" /\ builds < MaxBuilds
              /\ input' \in Input
              /\ buffer' = Write([bytes |-> Resized(<<>>, InitialSize), pos |-> 0],
                                 Resized(<<>>, HeaderSize))
              /\ header' = NewHeader(input'.levelRange)
              /\ disk' = <<>>
              /\ builds' = builds + 1
              /\ pc' = "filter" /\ result' = "none"
              /\ UNCHANGED reader

(* The sections in the order of build(): each step fills in the header's   *)
(* members for its section, from the position the section started at.      *)
WriteFilter == /\ pc = "filter"
               /\ buffer' = Write(buffer, input.filter)
               /\ header' = [header EXCEPT !.cellIdFilterOffset = buffer.pos,
                                           !.cellIdFilterSize = Len(input.filter)]
               /\ pc' = "keys"
               /\ UNCHANGED <<input, result, disk, builds, reader>>

WriteKeys == /\ pc = "keys"
             /\ LET c == VarColumn(buffer, input.keys)
                IN  /\ buffer' = c.buffer
                    /\ header' = [header EXCEPT
                                     !.keyIndexOffset = buffer.pos,
                                     !.keyIndexSize = c.size % Byte^4,
                                     !.keyIndexEntries = Len(input.keys)]
             /\ pc' = "cells"
             /\ UNCHANGED <<input, result, disk, builds, reader>>

WriteCells == /\ pc = "cells"
              /\ LET c == CellColumn(buffer, input.cells)
                 IN  /\ buffer' = c.buffer
                     /\ header' = [header EXCEPT
                                      !.cellIndexOffset = buffer.pos,
                                      !.cellIndexSize = c.size,
                                      !.cellIndexEntries = Len(input.cells)]
              /\ pc' = "bitmaps"
              /\ UNCHANGED <<input, result, disk, builds, reader>>

WriteBitmaps == /\ pc = "bitmaps"
                /\ LET c == VarColumn(buffer, input.bitmaps)
                   IN  /\ buffer' = c.buffer
                       /\ header' = [header EXCEPT !.roaringIndexOffset = buffer.pos,
                                                   !.roaringIndexSize = c.size]
                /\ pc' = "header"
                /\ UNCHANGED <<input, result, disk, builds, reader>>

(* reset() and Header::writeToFile.                                        *)
WriteHeader == /\ pc = "header"
               /\ buffer' = Write([buffer EXCEPT !.pos = 0], HeaderBytes(header))
               /\ pc' = "flush"
               /\ UNCHANGED <<input, header, result, disk, builds, reader>>

(* flush(0): the bytes go to the file from the first to the last, in any   *)
(* number of pieces.                                                       *)
FlushSome == /\ pc = "flush"
             /\ \E n \in Cuts \cup {Len(buffer.bytes)} :
                   /\ Len(disk) < n /\ n <= Len(buffer.bytes)
                   /\ disk' = SubSeq(buffer.bytes, 1, n)
             /\ UNCHANGED <<pc, input, buffer, header, result, builds, reader>>

(* build returns true.  It does not look at the stream, so bytes that a    *)
(* full disk refused are not missed.  (The buffer is destroyed; the model  *)
(* keeps it for the properties.)                                           *)
Return == /\ pc = "flush"
          /\ pc' = "idle" /\ result' = "true"
          /\ UNCHANGED <<input, buffer, header, disk, builds, reader>>

(* The process dies during a build; the file keeps the bytes it has.       *)
Crash == /\ pc # "idle"
         /\ pc' = "idle" /\ result' = "crashed"
         /\ UNCHANGED <<input, buffer, header, disk, builds, reader>>

(* FileReadBuffer: the size of the file first (opened at its end) ...      *)
OpenFile == /\ disk # NoFile
            /\ reader' = [step |-> "reading", size |-> Len(disk),
                          data |-> <<>>, since |-> builds]
            /\ UNCHANGED <<pc, input, buffer, header, result, disk, builds>>

(* ... then that many bytes, in any number of pieces; a file that has      *)
(* become shorter makes it throw, and so does the constructor of the index *)
(* when a section is not in what was read.                                 *)
ReadSome == /\ reader.step = "reading" /\ Len(reader.data) < reader.size
            /\ \E n \in Cuts \cup {reader.size} :
                  /\ Len(reader.data) < n /\ n <= reader.size
                  /\ reader' = IF n > Len(disk)
                               THEN NoReader
                               ELSE [reader EXCEPT !.data = reader.data \o
                                        SubSeq(disk, Len(reader.data) + 1, n)]
            /\ UNCHANGED <<pc, input, buffer, header, result, disk, builds>>
OpenIndex == /\ reader.step = "reading" /\ Len(reader.data) = reader.size
             /\ reader' = IF Opened(reader.data) = {}
                          THEN NoReader
                          ELSE [reader EXCEPT !.step = "open"]
             /\ UNCHANGED <<pc, input, buffer, header, result, disk, builds>>

Next == \/ CannotOpen \/ CreateFile
        \/ WriteFilter \/ WriteKeys \/ WriteCells \/ WriteBitmaps \/ WriteHeader
        \/ FlushSome \/ Return \/ Crash
        \/ OpenFile \/ ReadSome \/ OpenIndex

Spec == Init /\ [][Next]_vars

-----------------------------------------------------------------------------
TypeOK == /\ pc \in {"idle", "filter", "keys", "cells", "bitmaps", "header", "flush"}
          /\ input \in Input
          /\ buffer \in [bytes: Bytes, pos: 0..(Wrap - 1)]
          /\ header \in [DOMAIN NewHeader(1) -> 0..(Wrap - 1)]
          /\ result \in {"none", "true", "throws", "crashed"}
          /\ disk \in Bytes \cup {NoFile}
          /\ builds \in 0..MaxBuilds
          /\ reader \in [step: {"closed", "reading", "open"}, size: Nat,
                         data: Bytes, since: 0..MaxBuilds]

(* The header's sections follow one another in the buffer without overlap, *)
(* behind the header itself (build, the column writers' seeks).            *)
SectionsInOrder ==
    pc = "flush" =>
        /\ Len(HeaderBytes(header)) <= HeaderSize
        /\ HeaderSize <= header.cellIdFilterOffset
        /\ header.cellIdFilterOffset + header.cellIdFilterSize <= header.keyIndexOffset
        /\ header.keyIndexOffset + header.keyIndexSize <= header.cellIndexOffset
        /\ header.cellIndexOffset + header.cellIndexSize <= header.roaringIndexOffset
        /\ header.roaringIndexOffset + header.roaringIndexSize <= Len(buffer.bytes)

(* No section is written over what was laid out before it, whichever way   *)
(* the seeks wrap around, and the header over nothing but its own room.    *)
WrittenBytesStay ==
    [][LET end == IF pc = "header" THEN Len(buffer.bytes) ELSE buffer.pos
       IN  pc \notin {"idle", "flush"} =>
               SubSeq(buffer'.bytes, HeaderSize + 1, end)
                   = SubSeq(buffer.bytes, HeaderSize + 1, end)]_vars

(* What a reader of the bytes f reads of w, a build's input: each reading  *)
(* throws or gives what was written, for any i and b there is.             *)
CellsCounted(w, b) ==
    SubSeq(Split(w.cells, BlockSize)[b + 1], 1,
           CellBlockEntries(b, BlockSize, Len(w.cells)))
NothingMisread(f, w) ==
    \A r \in Opened(f) :
        /\ r.filter = w.filter
        /\ r.header.levelIndexBucketRange = w.levelRange % Byte
        /\ r.header.blockSize = BlockSize
        /\ r.header.keyIndexEntries = Len(w.keys)
        /\ r.header.cellIndexEntries = Len(w.cells)
        /\ \A i \in DOMAIN w.keys : ReadKey(f, r, i - 1) \subseteq {w.keys[i]}
        /\ \A i \in DOMAIN w.bitmaps : ReadBitmap(f, r, i - 1) \subseteq {w.bitmaps[i]}
        /\ r.index = [b \in DOMAIN r.index |-> Last(Split(w.cells, BlockSize)[b])]
        /\ \A b \in DOMAIN r.index :
              ReadCells(f, r, b - 1) \subseteq {CellsCounted(w, b - 1)}
NothingRefused(f, w) ==
    \E r \in Opened(f) :
        /\ \A i \in DOMAIN w.keys : ReadKey(f, r, i - 1) # {}
        /\ \A i \in DOMAIN w.bitmaps : ReadBitmap(f, r, i - 1) # {}
        /\ \A b \in DOMAIN r.index : ReadCells(f, r, b - 1) # {}

(* A file that is written to its end reads back: every key and bitmap by   *)
(* its number, every block of cells (as far as the cell reader counts it), *)
(* the filter and the header (build against the reader's constructor).     *)
CompleteFileReadsBack ==
    disk = buffer.bytes =>
        NothingMisread(disk, input) /\ NothingRefused(disk, input)

(* A reader never misreads: whatever a crash, a full disk or a build that  *)
(* is still flushing left of the file, a reader that got to open it throws *)
(* or answers from what that build wrote, if no other build truncated the  *)
(* file while it was read (FileReadBuffer::view against flush).            *)
ReaderNeverMisreads ==
    reader.step = "open" /\ reader.since = builds => NothingMisread(reader.data, input)

-----------------------------------------------------------------------------
(* build returned true: the file is written (c/include's comment on Build: *)
(* "Returns true on success, false on failure").                           *)
BuildTrueMeansWritten == result = "true" => disk = buffer.bytes
=============================================================================
