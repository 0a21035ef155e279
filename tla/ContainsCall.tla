---------------------------- MODULE ContainsCall ----------------------------
(***************************************************************************)
(* RoaringGeoMapReader::Contains as the thread that calls it runs it, loop *)
(* by loop, while a writer in another thread writes and builds again: the  *)
(* ranges below the query cells, the walk up to their ancestors, one block *)
(* of cells and bitmaps after another, one block of keys after another.    *)
(* Module GeoMap has the same call as one step.                            *)
(*                                                                         *)
(* The loops step by the header's levelIndexBucketRange, one byte in the   *)
(* file, where the writer was given an int.                                *)
(***************************************************************************)
EXTENDS GeoMap

CONSTANTS WriterRanges, \* what the writer's constructor may be given
          ByteValues    \* how many values a byte of the header has, 256

VARIABLES range, \* the writer's levelIndexBucketRange
          call   \* the locals of Contains

callVars == <<range, call>>

(* Header::readFromFile.                                                   *)
stored == range % ByteValues

(* LevelRange is what a file's one byte says when it is not zero.          *)
ASSUME CallAssumption ==
    /\ ByteValues \in Nat \ {0}
    /\ \A r \in WriterRanges : r \in Nat \ {0} /\ r % ByteValues \in {0, LevelRange}

Idle == [step |-> "idle", query |-> {}, region |-> <<>>, todo |-> <<>>, i |-> 0,
         ranges |-> {}, ancestors |-> {}, ids |-> {}, keys |-> <<>>]
Goto(step, todo) == [call EXCEPT !.step = step, !.todo = todo]
Todo == Head(call.todo)

CallInit == Init /\ range \in WriterRanges /\ call = Idle

-----------------------------------------------------------------------------
(* Contains is entered; the query is denormalized in ascending order.      *)
(* Bound: one call for every opening of the reader; a call leaves nothing  *)
(* behind that the next one would read.                                    *)
Start(query) ==
    /\ reader # NoFile /\ reply = NoReply /\ call.step = "idle"
    /\ \E region \in {Ascending(Denormalize(query, MinLevel, stored))} :
          call' = [Goto("ranges", region) EXCEPT !.query = query, !.region = region]
    /\ UNCHANGED <<vars, range>>

(* A faulty variant: the walk begins one level of the index too high.      *)
FirstLevelTwoUp(todo) == IF todo = <<>> THEN 0 ELSE level(Head(todo)) - 2 * stored

(* The first level of a cell's walk: with a cell at hand, the cell's level *)
(* minus the range; the walk is over below MinLevel.                       *)
FirstLevel(todo) == IF todo = <<>> THEN 0 ELSE level(Head(todo)) - stored

(* One cell of the loop over the ranges, and the end of the loop.          *)
RangeStep ==
    /\ call.step = "ranges"
    /\ call' =
        IF call.todo = <<>>
        THEN [Goto("ancestors", call.region) EXCEPT !.i = FirstLevel(call.region)]
        ELSE [call EXCEPT !.todo = Tail(@),
                !.ranges = @ \cup containsRange(reader.filter, range_min(Todo), range_max(Todo))]
    /\ UNCHANGED <<vars, range>>

(* Faulty variants: the walk up takes every level, or is clamped to         *)
(* MinLevel.                                                               *)
WalkUp(goesOn, next) ==
    /\ call.step = "ancestors" /\ call.todo # <<>>
    /\ call' =
        IF goesOn
        THEN [call EXCEPT !.i = next,
                !.ancestors = @ \cup {a \in {parent(Todo, call.i)} :
                                         filterContains(reader.filter, a)}]
        ELSE [call EXCEPT !.todo = Tail(@), !.i = FirstLevel(Tail(call.todo))]
    /\ UNCHANGED <<vars, range>>
AncestorStepByOne == WalkUp(call.i >= MinLevel, call.i - 1)
AncestorStepClamped == WalkUp(call.i >= MinLevel, Max({call.i - stored, MinLevel}))

(* One level of a cell's walk up, or on to the next cell.  A stored range  *)
(* of 0 stays where it is.                                                 *)
AncestorStep ==
    /\ call.step = "ancestors" /\ call.todo # <<>>
    /\ call' =
        IF call.i >= MinLevel
        THEN [call EXCEPT !.i = @ - stored,
                !.ancestors = @ \cup {a \in {parent(Todo, call.i)} :
                                         filterContains(reader.filter, a)}]
        ELSE [call EXCEPT !.todo = Tail(@), !.i = FirstLevel(Tail(call.todo))]
    /\ UNCHANGED <<vars, range>>

(* QueryValuesBlocks gives the blocks to visit in their order.             *)
FindBlocks ==
    /\ call.step = "ancestors" /\ call.todo = <<>>
    /\ \E visits \in {QueryValuesBlocks(reader, call.ranges, call.ancestors)} :
          call' = Goto("blocks", InOrder(visits, LAMBDA v, w : v.blockId < w.blockId))
    /\ UNCHANGED <<vars, range>>

(* One visit: its ids join the result, or the exception leaves Contains.   *)
BlockStep ==
    /\ call.step = "blocks" /\ call.todo # <<>>
    /\ IF BadRange(reader, Todo)
       THEN /\ reply' = [NoReply EXCEPT !.status = "out_of_range", !.query = call.query]
            /\ call' = Idle
       ELSE /\ call' = [call EXCEPT !.todo = Tail(@),
                                    !.ids = @ \cup queryBlockValues(reader, Todo)]
            /\ UNCHANGED reply
    /\ UNCHANGED <<covers, filterValues, file, reader, range>>

(* A faulty variant: all ids are looked for in the first id's block.       *)
queryBlocksByIndexesInOne(ids) ==
    IF ids = {} THEN <<>>
    ELSE <<[blockId |-> BlockOf(Min(ids), BlockSize),
            values |-> [n \in 1..Cardinality(ids) |->
                            OffsetInBlock(Ascending(ids)[n], BlockSize)]]>>

(* queryBlocksByIndexes: the ascending ids, grouped by their block.        *)
queryBlocksByIndexes(ids) ==
    LET step(acc, id) ==
            IF acc # <<>> /\ Last(acc).blockId = BlockOf(id, BlockSize)
            THEN [acc EXCEPT ![Len(acc)].values = Append(@, OffsetInBlock(id, BlockSize))]
            ELSE Append(acc, [blockId |-> BlockOf(id, BlockSize),
                              values |-> <<OffsetInBlock(id, BlockSize)>>])
    IN  FoldLeft(step, <<>>, Ascending(ids))

FindKeys ==
    /\ call.step = "blocks" /\ call.todo = <<>>
    /\ call' = Goto("keys", queryBlocksByIndexes(call.ids))
    /\ UNCHANGED <<vars, range>>

(* One block of keys: its wanted keys are appended to the results.         *)
KeyStep ==
    /\ call.step = "keys" /\ call.todo # <<>>
    /\ LET block == reader.keys[Todo.blockId + 1]
       IN  call' = [call EXCEPT !.todo = Tail(@),
                        !.keys = @ \o [n \in DOMAIN Todo.values |-> block[Todo.values[n] + 1]]]
    /\ UNCHANGED <<vars, range>>

Return ==
    /\ call.step = "keys" /\ call.todo = <<>>
    /\ reply' = [status |-> "answered", query |-> call.query,
                 ids |-> call.ids, keys |-> call.keys]
    /\ call' = Idle
    /\ UNCHANGED <<covers, filterValues, file, reader, range>>

(* The writer's thread, and the reader's when no call is under way.        *)
WriterStep ==
    /\ \/ \E region \in Region, key \in Key : write(region, key)
       \/ \E region \in Unlucky : writeFails(region)
       \/ build
    /\ UNCHANGED callVars

OpenStep == call.step = "idle" /\ Open /\ UNCHANGED callVars

ContainsStep == RangeStep \/ AncestorStep \/ FindBlocks \/ BlockStep
                \/ FindKeys \/ KeyStep \/ Return

CallNext == WriterStep \/ OpenStep \/ (\E query \in QueryRegion : Start(query))
            \/ ContainsStep

(* Contains waits for nothing: its thread, once scheduled, goes on.        *)
CallSpec == CallInit /\ [][CallNext]_<<vars, callVars>>
            /\ WF_callVars(ContainsStep)

-----------------------------------------------------------------------------
(* Step by step Contains does what GeoMap says it does at once, whatever   *)
(* the writer does meanwhile: the loops over cells, levels and blocks give *)
(* the sets of GeoMap, and an exception on the way gives no partial answer.*)
ImplementsGeoMap == Init /\ [][UNCHANGED vars \/ Next]_vars

(* Every call of Contains returns or throws, if the range in the file is   *)
(* not 0 or there is no cell to walk up from (the loop at Reader.cpp:59).  *)
CallsReturn ==
    call.step # "idle" /\ (stored # 0 \/ call.query = {}) ~> call.step = "idle"

(* With a range of 256, which is 0 in the header's byte, no query with a   *)
(* cell in it ever returns: the walk up the ancestors stands still.        *)
ZeroRangeNeverReturns ==
    [][stored = 0 /\ call.query # {} => call'.step # "idle"]_callVars
=============================================================================
