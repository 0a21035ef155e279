# RoaringGeoMaps in TLA+

RoaringGeoMaps is a single-file spatial index. A writer takes pairs of a key (a
byte sequence) and a region cover (a set of S2 cells) and builds one file; a
reader loads that file and answers which keys' covers intersect a query region.
This directory holds TLA+ modules translated from the C++ in `cpp/src`, the TLC
configurations that check them on small instances, and theorems about them that
TLAPS checks for every value of the constants.

## 1. Inventory

| Component | State it keeps | Operations | Source (`cpp/src/`) |
|---|---|---|---|
| Column writers | finished blocks, the current block, the block index, the block ends | `addBytes` / `addValue` / `addBitmap`, `writeToFile` | `Block.h`, `ByteColumnWriter`, `CellIdColumnWriter`, `RoaringBitmapColumnWriter`, `BlockIndexWriter` |
| Column readers, block search | none beyond the file; block and value counts are recomputed from the header | `ReadBlock`, `findBlockRange`, `findBlockValue`, `queryValueIndexes`, `queryValueRangesIndexes`, `readIndexRanges` | `Block.h`, `*ColumnReader`, `S2BlockIndexReader` |
| Cell filter | a SuRF trie of all stored cells | `contains`, `containsRange` | `CellFilter` |
| Index writer | a multiset of (key, cover) ordered by least cell, the filter's values, the level range | `write`, `build` | `RoaringGeoMapWriter` |
| Index reader | a copy of the file | constructor, `Contains`; `Intersects` returns `{}` | `RoaringGeoMapReader` |
| File layout | a growing buffer with a position, the header's offsets, the bytes on disk | `write`, `seek`, `reset`, `flush`, `view`, `readFromFile` | `Header`, `BlockOffset.h`, `io/*`, `VectorView.h`, `WriteHelpers.h`, `ReaderHelpers.h` |
| S2 library | external: cells in a hierarchy, numbered along a curve | `range_min`, `range_max`, `parent`, `Denormalize` | - |
| SuRF library | external: a trie that cuts its keys | `lookupKey`, `moveToKeyGreaterThan`, `moveToKeyLessThan` | - |
| C wrapper | none; it owns the objects it makes and two result arrays per call | `New`, `Delete`, `Write`, `Build`, `Contains` (and `Intersects`, which nobody calls) | `../../c/src` |
| Go wrapper | a handle with the address of a C++ object, C strings while a call runs | `New`, `Write`, `Build`, `Contains`, `Close` | `../../go` |
| Benchmarks, endian helpers | none | - | `../benchmarks`, `endian/endian.h` |

**How they interact.** `build` walks the multiset, gives each key its position
as its id, collects for each cell the ids of the keys whose cover has it, and
feeds three columns: the keys in id order, the cells in ascending order and, in
the same loop, the cells' bitmaps of ids. The columns, the filter and the header
are laid out in one `FileWriteBuffer`. Nothing in the file says how many blocks
a column has or how long they are: the readers recompute that from the block
size and the number of entries. A query is expanded to the index's levels, asks
the filter for a range of stored cells below each query cell and for each of its
ancestors, searches the block index and then the blocks for them, unites the
bitmaps found at the same block and offset of the bitmap column, and reads the
keys with these ids. Every operation is synchronous and nothing is locked. Threads
meet in three ways: writer and reader share the file, of which a reader keeps a
copy; Go handles may be used from any goroutine; and all objects come from one
allocator, which gives a freed address out again.

**What is hard here.**

- Writer and reader agree by arithmetic only: block counts, value counts, the
  address of an id, the alignment of the cell and the bitmap column.
- The search has two stages with bounds that are inclusive in one place and
  exclusive in another; an error loses hits without a message.
- The filter is approximate: it cuts its keys, and its iterators run out.
- Levels: filter, covers, queries and ancestors must use cells of the same levels.
- Writes and builds interleave; ids shift with later writes.
- The file is truncated when a build starts and written when it ends: crashes, a
  full disk, and readers that open it in the meantime.
- The write buffer goes backwards by adding unsigned numbers that wrap around.
- The walk up to a cell's ancestors steps by one byte of the file; 0 never ends.
- Three languages share one object: `Close` twice or too early, an error return or
  a panic with buffers allocated, a trie that is owned by two objects.

**What makes each component correct.**

- Column: an append-only sequence; the readers' counts are those of the blocks;
  the block index has each block's last value.
- Cell column: the search for a stored cell ends at its own address; the search
  for a range visits the block of every stored cell in it, takes the cell as long as
  the reader reads the whole block, and runs past no block.
- Filter: it passes every stored cell.
- Writer: a build stores exactly the covers written so far, aligned.
- Reader: the keys of all hits, little else, and never an exception; the keys
  that belong to the ids.
- Handles: a call reaches the object its handle got, no object is lost, and the C
  strings and result arrays of a call are freed on each way out of it.
- File: sections do not overlap, a complete file reads back, an incomplete one is
  refused or read rightly.

`PROJECT.json` lists the single hazards, each at the line where it bites.

## 2. Modules

    AppendOnlyColumn                        what a column promises
        ^ refined by
    Blocks --> BlockColumn --> CellColumn (MCCellColumn)
      |
      +--> GeoMap (MCGeoMap) <-- S2Cells, CellFilter
      |       ^ refined by
      |    ContainsCall (MCContainsCall)
      +--> FileLayout (MCFileLayout)

    Handles (MCHandles)

The proofs, each module extending the ones before it on its line:

    BlocksProofs --> BlockColumnProofs --> CellColumnProofs
         |
         +--> OrderProofs --> GeoMapProofs --> QueryProofs
                  |
                  +--> FileLayoutProofs
    HandlesProofs

| Module | Models | State and actions against the code |
|---|---|---|
| `Blocks` | the arithmetic and the searches over blocks | operators named after the functions: `determineBlocks`, `findBlockRange`, `findBlockValue`, `queryValueIndexes`; `BlockEntries` and `CellBlockEntries` are the two versions of the count in the `ReadBlock`s; `Split` is what the writers leave. `{}` stands for `nullopt`. |
| `AppendOnlyColumn` | abstract: a sequence that is appended to and sealed once | - |
| `BlockColumn` | one column while it is filled and written | `blocks`, `current` are the writer's vector and `currentWriteBlock`; `AddValue` is the add operation with its retry in a new block; `WriteToFile` pushes the last block and makes the block index; `WriteEmptyColumn` is `values.back()` of an empty vector, after which nothing is promised |
| `CellColumn` | a `BlockColumn` filled in ascending order, and the two-stage search over it | `AddCell` is the order of `std::map`; `ReadBlock` is what the cell reader takes from a block |
| `S2Cells` | external S2 | the id layout of `S2CellId` with `Branch` children per cell (4 in S2), `Denormalize` with its clip at the leaf level |
| `CellFilter` | `CellFilter.cpp` over an external SuRF | keys are cut to the shortest prefix that tells them apart, in steps given by `Units`; `Units = {1}` keeps them whole; an iterator that ran out gives the empty string, read as 0 |
| `GeoMap` | writer and reader composed | `covers` is `keysToRegionCover` in the multiset's order, equal elements in the order of insertion; `file` the file at the path, `reader` the copy an open reader has; actions `write`, `writeFails` (memory runs out between filter and cover), `build`, `Open`, `ContainsQuery`; an empty cover has as its first cell any of `EmptyFirst`, for `*begin()` of an empty set is undefined |
| `ContainsCall` | `Contains` loop by loop, beside a thread that writes and builds | `call` holds the locals: the cells still to do, the level `i`, ranges, ancestors, ids, keys; one action per iteration of each loop; `range` is the constructor's int, `stored` the byte the header keeps of it |
| `Handles` | the Go wrapper over the C wrapper over the two classes | `field` is `r.writer` and `r.reader`, `object` says whose object lies at an address, `trie` what became of a reader's filter, `call` the call a goroutine is in, with the C buffers it holds and those it will free. Touching an object that is not there ends the process or goes on (`alive`) |
| `FileLayout` | the file as bytes | one action per section of `build`, then `FlushSome` in pieces and `Return`; `Crash`; `CannotOpen`; `OpenFile`, `ReadSome`, `OpenIndex` for a reader that copies the file meanwhile; `{}` stands for an exception |

`GeoMap` takes the columns as `Split`. That is what `BlockColumn` arrives at by
its steps: `WrittenColumnIsSplit` is checked and, as `WrittenIsSplit`, proved.
`FileLayout` does the same for what is inside the blocks. Operators called a
"faulty variant" are not used by the specifications: they are plausible errors
(an off-by-one, a lost seek, a swapped order), each of which must break a property.

## 3. Runs

| Run | What it shows | Bounds, and why they are enough |
|---|---|---|
| `cell_column` | A column, written at any moment, implements the append-only sequence; counts, index and cut are right; finished blocks stay. The search finds each stored cell at its address, and a range search visits the block of each cell of the range; both take the cell as long as the reader reads the whole block. | Ids 11..19, blocks of 3, up to 7 entries: empty, partly filled and full last blocks, and a third block; every ascending column and every range with bounds on, between and outside the stored cells. Columns in another order or with repeated values, which the byte and bitmap columns may be, are not run: the code of a column copies values and never looks at them, so distinct ones show all there is, and the theorems hold for any. |
| `geomap_exact` | All queries over all interleavings of write, failing write, build, open. Of readable blocks every stored cell above a query cell at a level of the index is returned, and of two or more below it all; besides these only the cell right after a hit of a range, and the first cell not before an ancestor that the filter knows, may be; builds store what was written. | 4 levels of subdivision with branch 2, two levels per index level, an empty cover and covers on three levels that share no cell unless one is written twice, 2 writes, blocks of 3. Two covers together put two or three cells below a query cell and a cell of the other cover right behind them, in the block or the next one; queries reach the first, middle and last cells and beyond. One cover of two cells may fail before or behind its second one (`Unlucky`), which leaves the filter cells that are not stored. An empty cover's first cell reads as 0, before all cells, or as 5, among them. The filter keeps keys whole, so what is returned can be told exactly. |
| `contains_call` | The loops of `Contains`, while a writer goes on, implement the one step of `GeoMap`; each call returns, unless the header's byte is 0, and then none with a cell in it does. With a filter that cuts keys, of two or more hits below a query cell all in a readable block are returned but the greatest, if the filter has cut it and it is the first of its block, which happens here to cell 6; what strays into a reply looks to the filter like a hit or follows one; the keys are those of the ids. | 5 levels, 2 of them per index level, 3 writes, 3 blocks of cells and 2 blocks of keys, keys cut by 2 of 5 bits. Bytes have 4 values, so that the int 4 is stored as 0 and 6 as 2. One call for each opening: a call leaves nothing behind that the next would read. The queries have none, one or two cells. |
| `file_layout` | Two builds one after the other, killed or cut short at any step, and a reader that copies the file at the same time. | Digits to base 4 in place of bytes (fields overflow and carry sooner), the header's real 128 bytes and field widths, a buffer of 200 that has to grow. Two inputs of different length with an empty value, a full and a partly filled last block. Pieces end before and after every last byte a reader needs. |
| `handles` | Goroutines open, use, close and use again their handles in any order; C++ touches only the object of the call's own handle, none is lost, and only an array of sizes can leak. | 3 goroutines, a writer, two readers, two addresses: a call on a closed handle meets another handle's object at the old address while a third goroutine runs. Each handle is made once; symmetric goroutines, readers, addresses. |
| `cell_column_full_block`, `geomap_own_cover`, `geomap_unknown_region`, `geomap_levels`, `geomap_neighbours`, `file_full_disk`, `handles_filter` | One counterexample each to what a document, comment or test says, see section 4. | As above. |

**What the exact wording of the properties of `GeoMap` says about the code.** A
reply is right up to what section 4 lists, and the properties carry these limits
in the open: a block is `Readable` unless it is full and the last; a query cell
with exactly one stored cell below it is not promised that cell, and one with more
not the greatest, if that is the first of its block and the filter has cut it; a query
beyond the last stored cell is not promised to find nothing; and a range takes up to
one value too many from each block. `StraysFollowAHit` says what else a reply may
hold, in the terms of the filter: a cell that looks to it as if it were below a query
cell, the cell right after one in its block, and the first stored cell not before an
ancestor that looks stored, for the block search does not test for equality. When the
filter keeps its keys whole and all of them are stored, only the hits look so.

**What the exact wording of the properties of `Handles` says.** `UsesOwnObject`
and `NoObjectLost` hold as long as callers keep two calls on one handle apart
unless both are `Contains`: the code has no lock, and a `Close` during a `Contains`
does delete the object under it. Calls on different handles may overlap in any way,
and a closed handle may be used or closed again. `OnlySizesLeak` has no condition.

**Deadlock.** Off for the column runs, where a written column is final, and for the
runs of `Handles`, where the process may die. It is checked in the passing runs of
`GeoMap`, `ContainsCall` and `FileLayout`.

**Fairness.** One assumption, `WF_callVars(ContainsStep)`: the thread that is in
`Contains` is scheduled again. `Contains` waits for no lock, no other thread and no
input, so any scheduler that lets every thread run gives this. Nothing is assumed
of the writer, of `Open` or of callers: whether an operation is started is up to
them. With it `CallsReturn` says that a call ends if the header's byte is not 0 or
the query has no cells. `ZeroRangeNeverReturns` is the other half, as a safety
property: with a byte of 0 (a level range of 256, which an `int` parameter takes
without a word) the walk up from the query's first cell stands still. No
other module claims liveness: its operations are single calls that a caller may or
may not make, with no loop that waits, no retry and no queue.

**Crashes and the disk.** A crash is a process that is killed: the file keeps a
prefix of the buffer, as `flush` is one `write` from the start. A power failure
that reorders pages is not modelled. A reader during whose copying another build
truncated the file may join bytes of two builds; `ReaderNeverMisreads` speaks of
the readers to which that did not happen. A file that ends within the bitmaps can
be opened, and single queries on it then throw; the property says that the rest
are answered rightly.

## 4. Where code and documents disagree

| Run | Where | What |
|---|---|---|
| `cell_column_full_block` | `CellIdColumnReader.cpp:20` | `<` where the other two readers have `<=`: the cells of a full last block are never found. |
| `geomap_own_cover` | `CellFilter.cpp:47` | `<` again: a range with one stored cell counts as "not present", so a cover asked for by its own cells may find nothing. The repository's test of this passes by the other search: its trie has one key and keeps only leading digits of it, so the filter passes the query cells' ancestors, and the block search, which takes the next larger value, finds the stored cell for them. |
| `geomap_unknown_region` | `CellFilter.cpp:44` | The iterator's validity is not asked; beyond the last stored cell the range 0 to last is searched. |
| `geomap_levels` | `RoaringGeoMapWriter.cpp:24` | The denormalized region is dropped: with a level range above 1 stored ancestors at other levels are not looked up. |
| `geomap_neighbours` | `Block.h:206` | The end of a range, exclusive by the comment at line 197, is read inclusively: within a block the value right after a range is read and its keys are returned, whatever the query. |
| `file_full_disk` | `io/FileWriteBuffer.cpp:85` | `build` returns true when nothing was written. |
| `handles_filter` | `RoaringGeoMapReader.cpp:15` | `CellFilter` has a destructor that deletes its trie and the default assignment, which copies the pointer: the temporary of `deserialize` deletes the trie the new reader goes on asking, and the reader deletes it again. |

More that was met, by `contains_call` or by reading:

- `CellFilter.cpp:45`: the end of a range is what the filter has kept of its last key,
  a smaller number than the cell. A greatest hit that is the first of its block is not
  searched for and its keys are lost, against README.md:31-35; elsewhere in a block the
  one value too many of `Block.h:206` makes up for it. `RangeHitsFound` names the
  exception, and `contains_call` meets it.
- `RoaringGeoMapWriter.cpp:29`: an id belongs to a call of `write`, not to a key, so
  a key written with two covers comes back twice; README.md:44 has "unique keys".
- `ByteColumnWriter.cpp:36`: the seek "to the end of the block data" ends behind it,
  so each column is followed by a gap of zeros. Harmless to the readers.
- `RoaringGeoMapWriter.h:27,35,43` and `c/include/roaring_geo_map_writer.h:19` promise
  that a key of more than 512 characters is refused; nothing in the code looks at a
  key's length.
- `Header.cpp:98`: `getBitmapPos` gives the offset of the bitmap column for its size;
  no reader uses the size.
- Two allocations inside the C++ are never freed: `FileReadBuffer`'s buffer when its
  constructor throws behind `aligned_alloc` (`io/FileReadBuffer.cpp:17-23`), and the
  array that SuRF's `serialize` returns (`CellFilter.cpp:29`).
- `c/include/roaring_geo_map_reader.h:18` says that `Contains` returns the size of the
  results; it returns 0 and the Go wrapper takes anything else for an error.

## 5. Theorems

All are proved for every value of the constants that the assumptions at the end of
this section allow: every block size, hierarchy, cover, query, input, every number
of goroutines, handles, addresses, writes and builds. The invariants that are not
among the properties of a run were checked by TLC before they were proved.

**The column** (`BlockColumnProofs`). `TypeOK` and the properties of
a column are not inductive: that the counts are right when the column is
written follows from the shape it has before. The invariant `IInv` adds it:
while values are added, every finished block is full and `current` is empty only
at the very start (`AddingShape`); once written, the blocks are full but for a last
one that is not empty, and the index holds their last values (`WrittenShape`).
From it: `ColumnTypeOK`, `ReadersAgree` (the readers' counts), `IndexIsLastValues`,
`AddedIsLast`, `WrittenIsSplit`, `FinishedStay`, and `ColumnRefines`: read through the
readers' address arithmetic, a column implements `AppendOnlyColumn`. They rest on
`BlocksProofs` about quotient and remainder: `AddressOf`, `AddressIsExact`,
`CountsOf`.

**The searches** (`BlocksProofs`). `LowerBound` and `UpperBound` are `CHOOSE`s;
that there is something to choose follows from the least natural number with a
property. Then what each of the four searches returns over a sorted sequence.

**The cell column** (`CellColumnProofs`). `CInv` adds to `IInv` that the items
ascend (`CellColumnInvariant`). `CellsAreFound`: a stored cell is found at exactly its
address whenever the reader takes its whole block. `RangesAreFound`: a range search
visits every block with a cell in the range, and takes the cell under the same
condition. `RangesStayInBlock`: it never runs past a block and takes at most one value
outside the range.

**The writer** (`GeoMapProofs`). `MapInvariant` proves `MapInv`: the covers ascend
by their first cells and are at most `MaxWrites` (`GoodCovers`), the filter has all
their cells and only cells, and what lies at the path or in a reader is a
`GoodFile`: blocks that are full but for the last, ascending cells, index and
bitmaps aligned with them, every cell in the filter, every id below the number of
keys. A file outlives the covers it was made from, so the properties of a reader
need the latter as an invariant of their own. From it: `IdsFollowCurve`,
`FilterHasNoFalseNegatives` for every set of lengths a key may be cut to, and
`BuildsAreExact`, an action property. `OrderProofs` has what a set of numbers in its
order is, and an insertion into a sequence.

**The reader** (`QueryProofs`). `QueryInv` is `MapInv` and one fact on answers: it
was computed from the file that is open, which holds as `Open` drops the answer.
The rest is about one query on a `GoodFile`: cells and their ancestors by their
numbers, what the merged ranges cover, what an iterator that ran out leaves of a
range, and which places of the columns are read. From it: `GeoMapTypeOK`,
`QueriesNeverThrow`, `KeysAreThoseOfIds`, `AncestorsAreFound`, `RangeSearch` and
`OnlyNeighboursStray`, all of them for keys cut to any lengths. The last two rest on
`KeyInterval`: the interval of numbers that a key stands for has the key and reaches
neither down to a lesser key nor up to a greater one. `RangeSearch` says of two or more
hits in readable blocks which one may be missing, `OnlyNeighboursStray` that the answer
to a query that does not reach beyond the filter's last key has nothing in it but what
`StraysFollowAHit` names.

**The handles** (`HandlesProofs`). `UsesOwnObject` is not inductive: that the object
`Close` deletes is not somebody else's needs that handles and live objects
correspond both ways. `HInv` says so (`Ownership`), with the two moments when it does
not hold: a constructor runs and no handle has its object yet, and `Close` has deleted
the object and still has to clear the field. `Shape` is what holds even of callers who
misuse a handle: where the handle of a call comes from, that one call makes it,
which C strings and result arrays a call has allocated. From it: `HandlesTypeOK`, `OwnObjectUsed`, `NoneLost`
and `OnlySizes`.

**The file** (`FileLayoutProofs`). None of the properties of `file_layout` is
inductive: that a section lies where the header says is known when it is written
and used when the file is read. `LayoutInv` says, section by section, what lies where
in the buffer and what the header says of it, from the moment the section is
written (`Laid`); that the file is a prefix of a complete buffer or empty (`Stored`);
and that a reader whose file was not truncated has a prefix of it (`Read`). What a
section looks like is its `Image`. The step that writes a column rests on
`ColumnFacts`: the seek back by an unsigned number ends where the column starts, and
what is written there is the room left for it, because no buffer reaches 2^64. From
it: `FileTypeOK`, `SectionsLieInOrder`, and `BytesStay`, an action property. Reading
back rests on `RoundTrip` (digits that are cut to bytes add up again to a number that
fits its field), `VarValueRead` and `CellsRead` (value i of an image, found through
two levels of ends, is value i), and `HeaderRead`. On these, `CompleteReadsBack`: a
file that was written to its end gives all of its input; and `NeverMisread`: of any
shorter file each reading throws or gives what was written.

**Assumptions**, each stated in the module that declares the constants:

- `Blocks` and `BlockColumn`: a block size above 0, a bound on the entries.
- `S2Cells`: `Branch` is even and at least 2, there is a face (`HierarchyAssumption`);
  what a power is (`PowersAssumption`, here and in `FileLayout`): the provers have no
  rule for `^`, so its definition is given for the exponents that occur, and TLC
  evaluates it on every run.
- `CellFilter`: the lengths a key may be cut to are finitely many, 1 among them.
- `GeoMap`: covers and queries are sets of cells, the minimal level is a level and
  the level range above 0.
- `FileLayout`: a header of at least 88 bytes, what the code writes into its 128;
  a block size that fits its 16 bits; an input has a key and a cell, as many bitmaps
  as cells, fewer keys and cells than 2^32, and no buffer of 2^64 bytes.
- `Handles`: none but that the sets do not overlap.

**Model-checked only.** `CallsReturn` is liveness. `ImplementsGeoMap` (that the loops
of `Contains` implement its one step in `GeoMap`) and `ZeroRangeNeverReturns` need an
invariant for each of the loops of `ContainsCall`; they come next. The properties of
runs that expect a violation are false.

## 6. Not modelled

- `CellIdColumnReader::FilterIndexBlock` and `write32ByteAligned`: called by nobody.
- `Intersects` returns `{}`, and K nearest neighbours do not exist.
- Roaring bitmaps' own encoding and SuRF's: a bitmap is a set of ids in `GeoMap`
  and an uninterpreted byte string in `FileLayout`, the filter likewise.
- Big-endian machines (`endian.h`), benchmarks.
- What the C++ allocates inside a call: `Handles` follows the C strings and the result
  arrays of the two wrappers, not the buffers of section 4 that C++ leaves behind.
- Level ranges below 1: `Denormalize` of S2 requires a step of 1 at least.
- The C wrapper's `Intersects`: no caller, and it copies an empty result.
- What the bytes of a key are: C strings end at a zero byte, so a Go key is cut there.
- What C++ leaves undefined, beyond this: a column with nothing in it is a state of
  its own (`"undefined"`); the first cell of an empty cover is any of `EmptyFirst`; an
  object that is used when it is not there, or a trie that is deleted twice, ends the
  process or does nothing (the damage it may do to other objects is not followed);
  arrays from `new[]` that Go gives to `free` are taken to be freed.
- A `build` without a single cell to store: `GeoMap` has no such step;
  `WriteEmptyColumn` of `BlockColumn` is where it would end.

## 7. Plan

Done, in this order: `Blocks`, `BlockColumn` and its refinement and proofs;
`CellColumn`, the searches and their proofs; `S2Cells`, `CellFilter`, `GeoMap`;
`FileLayout`; empty covers and failing writes in `GeoMap`; `ContainsCall` with its
refinement and termination; `Handles`. Then theorems for every
value of the constants: the columns and searches, `Handles`, `GeoMap` (writer, then
reader), `FileLayout` (layout, then reading back).

Next: `ContainsCall`, with what is done and what is left of each loop as the
invariant: `ZeroRangeNeverReturns`, and that each step of `Contains` is a step of
`GeoMap` or changes nothing there.
