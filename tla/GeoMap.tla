------------------------------- MODULE GeoMap -------------------------------
(***************************************************************************)
(* The whole index: RoaringGeoMapWriter collects region covers and builds  *)
(* the file, RoaringGeoMapReader opens a file and answers Contains.        *)
(*                                                                         *)
(* The file holds a filter of all cell ids, a column of keys, a column of  *)
(* cell ids and, aligned with it, a column of bitmaps with the ids of the  *)
(* keys whose cover has the cell; a key's id is its position in the key    *)
(* column.  The three columns are Split as module BlockColumn shows.  The  *)
(* reader copies the file when it opens it and never looks at it again, so *)
(* the writer may go on writing and building while readers are open.       *)
(***************************************************************************)
EXTENDS Blocks, S2Cells, CellFilter, SequencesExt

CONSTANTS Key,        \* byte sequences that are stored
          Region,     \* region covers that are written, sets of cells
          QueryRegion,\* region covers that are asked for
          MinLevel,   \* MIN_LEVEL, 3 in the writer and in the reader
          LevelRange, \* levelIndexBucketRange of the file
          BlockSize,  \* BLOCK_SIZE, 1024
          EmptyFirst, \* what *begin() of an empty cover may read
          Unlucky,    \* bound: the regions whose write may run out of memory
          MaxWrites,  \* bound on the number of writes
          NoFile      \* no file at the path, no reader open on it

ASSUME GeoMapAssumption ==
    /\ Region \subseteq SUBSET Cell /\ Unlucky \subseteq Region
    /\ EmptyFirst \subseteq Nat /\ EmptyFirst # {}
    /\ QueryRegion \subseteq SUBSET Cell
    /\ MinLevel \in Level /\ LevelRange \in Nat \ {0}
    /\ BlockSize \in Nat \ {0}
    /\ MaxWrites \in Nat

VARIABLES covers,       \* keysToRegionCover, a multiset in its order
          filterValues, \* filterBuilder's values
          file,         \* the file at the path
          reader,       \* the file as it was when the reader opened it
          reply         \* the last answer of Contains

vars == <<covers, filterValues, file, reader, reply>>

NoReply == [status |-> "none", query |-> {}, ids |-> {}, keys |-> <<>>]

Init == /\ covers = <<>>
        /\ filterValues = {}
        /\ file = NoFile
        /\ reader = NoFile
        /\ reply = NoReply

-----------------------------------------------------------------------------
(* RoaringGeoMapWriter.                                                    *)

(* The cell a cover is ordered by: *begin() of its set.  For an empty cover*)
(* that is undefined and reads what lies behind the tree's header: the     *)
(* number of its nodes, 0, in one library, anything in another.            *)
FirstCells(region) == IF region = {} THEN EmptyFirst ELSE {Min(region)}

(* A faulty variant: covers in the order they are written.                 *)
PlaceAtEnd(e) == Len(covers) + 1

(* CompareKeyCoverPair orders covers by their least cell; a new one goes   *)
(* behind its equals.                                                      *)
PlaceFor(e) == Cardinality({n \in DOMAIN covers : covers[n].first <= e.first}) + 1

(* A faulty variant: the denormalized region goes to the filter, the       *)
(* region's own cells to the cover.                                        *)
writeTwoRegions(region, key) ==
    /\ Len(covers) < MaxWrites
    /\ filterValues' = filterValues \cup Denormalize(region, MinLevel, LevelRange)
    /\ \E first \in FirstCells(region) :
          LET e == [key |-> key, cover |-> region, first |-> first]
          IN  covers' = InsertAt(covers, PlaceFor(e), e)
    /\ UNCHANGED <<file, reader, reply>>

(* RoaringGeoMapWriter::write.  The denormalized region is a local that is *)
(* dropped; the filter and the cover get the region's own cells.           *)
write(region, key) ==
    /\ Len(covers) < MaxWrites
    /\ filterValues' = filterValues \cup region
    /\ \E first \in FirstCells(region) :
          LET e == [key |-> key, cover |-> region, first |-> first]
          IN  covers' = InsertAt(covers, PlaceFor(e), e)
    /\ UNCHANGED <<file, reader, reply>>

(* write runs out of memory when the filter has the cells up to some one   *)
(* and the cover is still to be inserted: the C wrapper returns false.     *)
writeFails(region) ==
    /\ \E last \in region :
          filterValues' = filterValues \cup {c \in region : c <= last}
    /\ UNCHANGED <<covers, file, reader, reply>>

StoredCells(cs) == UNION {cs[n].cover : n \in DOMAIN cs}

(* Faulty variants: ids counted from 1, and a cell's entry replaced where  *)
(* the new id should be added to it.                                       *)
cellToKeyMapFromOne(cs) ==
    [c \in StoredCells(cs) |-> {n \in DOMAIN cs : c \in cs[n].cover}]
cellToKeyMapLast(cs) ==
    [c \in StoredCells(cs) |-> {Max({n \in DOMAIN cs : c \in cs[n].cover}) - 1}]

(* The first loop of build(): for each cell the ids of its keys, ascending *)
(* by cell as std::map keeps them.                                         *)
cellToKeyMap(cs) == [c \in StoredCells(cs) |->
                        {n - 1 : n \in {m \in DOMAIN cs : c \in cs[m].cover}}]
InOrder(S, before(_, _)) ==
    LET nth(n) == CHOOSE x \in S : Cardinality({y \in S : before(y, x)}) = n - 1
    IN  SubSeq([n \in 1..Cardinality(S) |-> nth(n)], 1, Cardinality(S))
Ascending(S) == InOrder(S, <)

(* The file build() leaves.  The block index has each block's last cell.   *)
FileOf(cs, values) ==
    LET cells   == Ascending(StoredCells(cs))
        bitmaps == [i \in DOMAIN cells |-> cellToKeyMap(cs)[cells[i]]]
        keys    == [n \in DOMAIN cs |-> cs[n].key]
        blocks  == Split(cells, BlockSize)
    IN  [filter      |-> values,
         keys        |-> Split(keys, BlockSize),
         keyEntries  |-> Len(keys),
         cells       |-> blocks,
         cellIndex   |-> [b \in DOMAIN blocks |-> Last(blocks[b])],
         bitmaps     |-> Split(bitmaps, BlockSize),
         cellEntries |-> Len(cells)]

(* RoaringGeoMapWriter::build with a cell to store: with none it runs into *)
(* the undefined behaviour of BlockColumn!WriteEmptyColumn.                *)
build == /\ StoredCells(covers) # {}
         /\ UNCHANGED <<covers, filterValues, reader, reply>>
         /\ file' = FileOf(covers, filterValues)

-----------------------------------------------------------------------------
(* RoaringGeoMapReader on a file f.                                        *)

(* The ranges of stored cells below the query cells ...                    *)
CellRanges(f, region) ==
    UNION {containsRange(f.filter, range_min(c), range_max(c)) : c \in region}

(* ... and the query cells' ancestors at the levels of the index, as far as*)
(* the filter knows them.                                                  *)
AncestorLevels(l) == {i \in MinLevel..(l - 1) : (l - i) % LevelRange = 0}
Ancestors(region) ==
    UNION {{parent(c, i) : i \in AncestorLevels(level(c))} : c \in region}
(* A faulty variant: ancestors the filter does not know are looked up, too.*)
CellAncestorsUnfiltered(f, region) == Ancestors(region)
CellAncestors(f, region) == {a \in Ancestors(region) : filterContains(f.filter, a)}

(* S2BlockIndexReader::QueryValuesBlocks: what to look for in which block. *)
QueryValuesBlocks(f, ranges, values) ==
    LET rangesIn(b) == {r \in ranges : b \in findBlockRange(f.cellIndex, r)}
        valuesIn(b) == {v \in values : b \in findBlockValue(f.cellIndex, v)}
    IN  {[blockId |-> b, ranges |-> rangesIn(b), values |-> valuesIn(b)] :
            b \in {d \in 0..(Len(f.cellIndex) - 1) :
                      rangesIn(d) # {} \/ valuesIn(d) # {}}}

(* FixedBlockReader::queryValueRangesIndexes: the ranges come in order; one*)
(* that starts no later than all before it end is merged into them, so that*)
(* a merged range runs from one start that lies behind every earlier end up*)
(* to the next.                                                            *)
Starts(rs) == {r[1] : r \in {s \in rs : \A q \in rs : q[1] >= s[1] \/ q[2] < s[1]}}
From(rs, a) == {r \in rs : r[1] >= a /\ ~ \E s \in Starts(rs) : a < s /\ s <= r[1]}
MergeRanges(rs) == {<<a, Max({r[2] : r \in From(rs, a)})>> : a \in Starts(rs)}

queryValueRangesIndexes(values, ranges) ==
    UNION {MergeRanges(rs) : rs \in {UNION {rangeIndexes(values, r) : r \in ranges}}}

(* Cells and bitmaps as the two column readers cut them out of a block.    *)
ReadCells(f, b) ==
    SubSeq(f.cells[b + 1], 1, CellBlockEntries(b, BlockSize, f.cellEntries))
ReadBitmaps(f, b) ==
    SubSeq(f.bitmaps[b + 1], 1, BlockEntries(b, BlockSize, f.cellEntries))

(* RoaringGeoMapReader::queryBlockValues: the offsets in one block whose   *)
(* bitmaps are read, and whether readIndexRanges would throw.              *)
IndexRanges(f, v) == queryValueRangesIndexes(ReadCells(f, v.blockId), v.ranges)
BadRange(f, v) == \E r \in IndexRanges(f, v) :
                     r[1] > r[2] \/ r[2] >= Len(ReadBitmaps(f, v.blockId))
queryBlockValues(f, v) ==
    LET offsets == queryValueIndexes(ReadCells(f, v.blockId), v.values)
                   \cup UNION {r[1]..r[2] : r \in IndexRanges(f, v)}
    IN  UNION {ReadBitmaps(f, v.blockId)[k + 1] : k \in offsets}

(* queryBlocksByIndexes and the key column's reader: the keys by their ids.*)
ReadKey(f, id) ==
    f.keys[BlockOf(id, BlockSize) + 1][OffsetInBlock(id, BlockSize) + 1]

ReadKeys(f, ids) ==
    LET sorted == Ascending(ids)
    IN  [n \in DOMAIN sorted |-> ReadKey(f, sorted[n])]

(* The constructor reads the whole file into memory.                       *)
Open == /\ file # NoFile
        /\ reader' = file
        /\ reply' = NoReply
        /\ UNCHANGED <<covers, filterValues, file>>

(* RoaringGeoMapReader::Contains.                                          *)
ContainsQuery(query) ==
    /\ reader # NoFile
    /\ UNCHANGED <<covers, filterValues, file, reader>>
    /\ LET region == Denormalize(query, MinLevel, LevelRange)
           visits == QueryValuesBlocks(reader, CellRanges(reader, region),
                                       CellAncestors(reader, region))
           ids    == UNION {queryBlockValues(reader, v) : v \in visits}
       IN  reply' = IF \E v \in visits : BadRange(reader, v)
                    THEN [NoReply EXCEPT !.status = "out_of_range",
                                         !.query = query]
                    ELSE [status |-> "answered", query |-> query,
                          ids |-> ids, keys |-> ReadKeys(reader, ids)]

Next == \/ \E region \in Region, key \in Key : write(region, key)
        \/ \E region \in Unlucky : writeFails(region)
        \/ build
        \/ Open
        \/ \E query \in QueryRegion : ContainsQuery(query)

Spec == Init /\ [][Next]_vars

-----------------------------------------------------------------------------
FileType == [filter: SUBSET Cell, keys: Seq(Seq(Key)), keyEntries: 0..MaxWrites,
             cells: Seq(Seq(Cell)), cellIndex: Seq(Cell), cellEntries: Nat,
             bitmaps: Seq(Seq(SUBSET (0..(MaxWrites - 1))))]

TypeOK == /\ covers \in Seq([key: Key, cover: SUBSET Cell, first: Nat])
          /\ filterValues \subseteq Cell
          /\ file \in FileType \cup {NoFile}
          /\ reader \in FileType \cup {NoFile}
          /\ reply \in [status: {"none", "answered", "out_of_range"},
                        query: SUBSET Cell, ids: SUBSET Nat, keys: Seq(Key)]

(* The places of a file's cells, and what is stored there.                 *)
Places(f) == UNION {{<<b, k>> : k \in DOMAIN f.cells[b]} : b \in DOMAIN f.cells}
CellAt(f, p) == f.cells[p[1]][p[2]]
IdsAt(f, p) == f.bitmaps[p[1]][p[2]]

(* The cell reader takes a full last block for an empty one.               *)
Readable(f, p) == Len(ReadCells(f, p[1] - 1)) = Len(f.cells[p[1]])

(* What a query is about: the stored cells that a query cell contains, and *)
(* the stored cells that contain a query cell, at a level of the index.    *)
Asked == Denormalize(reply.query, MinLevel, LevelRange)
HitsBelow(c) == {p \in Places(reader) : contains(c, CellAt(reader, p))}
RangeHits == UNION {HitsBelow(c) : c \in Asked}
AncestorHits ==
    {p \in Places(reader) :
        \E c \in Asked : /\ contains(CellAt(reader, p), c)
                         /\ level(CellAt(reader, p)) \in MinLevel..(level(c) - 1)
                         /\ (level(c) - level(CellAt(reader, p))) % LevelRange = 0}
Found(p) == IdsAt(reader, p) \subseteq reply.ids

(* Key ids follow the curve: covers are ordered by their least cell, which *)
(* is what makes near ids mean near regions (comment at build()).  Empty   *)
(* covers, wherever they land, do not disturb the order of the others.     *)
IdsFollowFirstCells ==
    \A m, n \in DOMAIN covers :
        m < n /\ covers[m].cover # {} /\ covers[n].cover # {}
            => Min(covers[m].cover) <= Min(covers[n].cover)

(* A build stores exactly what was written: each key under its id, each    *)
(* cell of a cover once and in order, and at the same block and offset of  *)
(* the bitmap column the ids of the covers that have the cell.             *)
BuildStoresCovers ==
    [][file' # file =>
        /\ \A id \in 0..(Len(covers) - 1) : ReadKey(file', id) = covers[id + 1].key
        /\ {CellAt(file', p) : p \in Places(file')} = StoredCells(covers)
        /\ \A p, q \in Places(file') :
              p[1] < q[1] \/ (p[1] = q[1] /\ p[2] < q[2])
                  => CellAt(file', p) < CellAt(file', q)
        /\ \A p \in Places(file') :
              IdsAt(file', p) = {n - 1 : n \in {m \in DOMAIN covers :
                                    CellAt(file', p) \in covers[m].cover}}]_vars

(* The filter passes every cell the file stores: it has no false negatives *)
(* as far as single cells are asked for (CellFilter::contains).            *)
FilterPassesStoredCells ==
    file # NoFile => \A p \in Places(file) : filterContains(file.filter, CellAt(file, p))

(* No query runs into the std::out_of_range of readIndexRanges: offsets    *)
(* found in a cell block exist in the bitmap block next to it.             *)
NeverOutOfRange == reply.status # "out_of_range"

(* The keys of a reply are the keys stored under its ids, ascending: the   *)
(* reader's block and offset arithmetic against the key column's blocks.   *)
KeysFollowIds ==
    reply.status = "answered" =>
        /\ Len(reply.keys) = Cardinality(reply.ids)
        /\ \A id \in reply.ids :
              reply.keys[Cardinality({i \in reply.ids : i <= id})]
                  = FlattenSeq(reader.keys)[id + 1]

(* The keys of every stored cell that contains a query cell and lies at a  *)
(* level of the index are returned, if the cell's block is readable:       *)
(* Contains, the ancestor search.                                          *)
AncestorHitsFound ==
    reply.status = "answered" =>
        \A p \in AncestorHits : Readable(reader, p) => Found(p)

(* What the filter takes for stored, and for a stored cell below c: it may *)
(* have only the leading digits of a cell, and then answers for all numbers*)
(* that start with them.                                                   *)
LooksStored(a) == \E k \in reader.filter : a \in Lo(reader.filter, k)..Hi(reader.filter, k)
LooksBelow(c) ==
    {p \in Places(reader) : /\ Hi(reader.filter, CellAt(reader, p)) >= range_min(c)
                            /\ Lo(reader.filter, CellAt(reader, p)) <= range_max(c)}

(* Of two or more stored cells below a query cell the keys of all in a     *)
(* readable block are returned, but perhaps those of the greatest: if the  *)
(* filter has cut it the range ends before it, and the one value too many  *)
(* that a block gives makes up for it unless it is the first of its block. *)
(* Contains, the range search.                                             *)
RangeHitsFound ==
    reply.status = "answered" =>
        \A c \in Asked : Cardinality(HitsBelow(c)) > 1 =>
            \A p \in HitsBelow(c) :
                \/ ~ Readable(reader, p)
                \/ Found(p)
                \/ /\ p[2] = 1 /\ Lo(reader.filter, CellAt(reader, p)) < CellAt(reader, p)
                   /\ \A q \in HitsBelow(c) : CellAt(reader, q) <= CellAt(reader, p)

(* Unless the query reaches beyond the filter's last key, every id of a    *)
(* reply is that of a stored cell that looks to the filter as if it were   *)
(* below a query cell, of the cell right after one in its block, or of the *)
(* first stored cell not before an ancestor that looks stored: nothing else*)
(* strays into a reply.  With whole keys, all of them stored, only the hits*)
(* look so.                                                                *)
StraysFollowAHit ==
    /\ reply.status = "answered"
    /\ \A c \in Asked : \E k \in reader.filter : Hi(reader.filter, k) >= range_min(c)
    => \A id \in reply.ids : \E p \in Places(reader) :
          /\ id \in IdsAt(reader, p)
          /\ \/ \E c \in Asked : p \in LooksBelow(c) \/ <<p[1], p[2] - 1>> \in LooksBelow(c)
             \/ \E a \in Ancestors(Asked) :
                   /\ LooksStored(a) /\ a <= CellAt(reader, p)
                   /\ \A q \in Places(reader) :
                         CellAt(reader, q) < a \/ CellAt(reader, p) <= CellAt(reader, q)

-----------------------------------------------------------------------------
(* What the documentation and the tests promise and the code does not do.  *)
CoverOf(id) == {CellAt(reader, p) : p \in {q \in Places(reader) : id \in IdsAt(reader, q)}}
KeyIds == UNION {IdsAt(reader, p) : p \in Places(reader)}

(* A cover that is asked for by its own cells finds its key (the first test*)
(* of RoaringGeoMapWriterTest, README step 2): the range of a query cell   *)
(* with one stored cell in it is taken for "not present".                  *)
OwnCoverFound ==
    reply.status = "answered" =>
        \A id \in KeyIds : CoverOf(id) = reply.query => id \in reply.ids

(* A query that neither contains a stored cell nor lies in one finds no    *)
(* key (test QueryNonExistentCellId): an exhausted filter iterator is read *)
(* as cell 0 and the range from 0 to the last stored cell is searched.     *)
UnknownRegionFindsNothing ==
    /\ reply.status = "answered"
    /\ \A c \in reply.query, p \in Places(reader) :
          ~ contains(c, CellAt(reader, p)) /\ ~ contains(CellAt(reader, p), c)
    => reply.ids = {}

(* A stored cell that contains a query cell is found (README steps 1 and 3,*)
(* comment at write()): cells are stored at the levels of the cover, not at*)
(* the levels of the index that the ancestors are looked up at.            *)
StoredAncestorsFound ==
    reply.status = "answered" =>
        \A c \in reply.query, p \in Places(reader) :
            /\ contains(CellAt(reader, p), c) /\ CellAt(reader, p) # c
            /\ level(CellAt(reader, p)) >= MinLevel
            /\ Readable(reader, p)
            => Found(p)

(* Only keys that match the query are returned (README step 5), here: if no*)
(* iterator runs out and no ancestor that is not stored looks so.  The end *)
(* of a range, exclusive by its comment, is read inclusively.              *)
OnlyMatchesReturned ==
    /\ reply.status = "answered"
    /\ \A c \in Asked : \E p \in Places(reader) : CellAt(reader, p) >= range_min(c)
    /\ \A a \in Ancestors(Asked) :
          LooksStored(a) => \E p \in Places(reader) : CellAt(reader, p) = a
    => \A id \in reply.ids : \E p \in Places(reader), c \in reply.query :
          /\ id \in IdsAt(reader, p)
          /\ contains(c, CellAt(reader, p)) \/ contains(CellAt(reader, p), c)
=============================================================================
