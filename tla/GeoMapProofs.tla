---------------------------- MODULE GeoMapProofs ----------------------------
(***************************************************************************)
(* The writer's half of module GeoMap for any hierarchy, covers, block size*)
(* and number of writes: covers are kept in the order of their least cells,*)
(* and a build stores what was written at the addresses the reader uses.   *)
(***************************************************************************)
EXTENDS GeoMap, OrderProofs

-----------------------------------------------------------------------------
(* Cell ids are natural numbers, and there are finitely many.              *)
LEMMA PowerFacts == \A n \in 0..MaxLevel : Branch^n \in Nat \ {0}
<1> DEFINE T == {n \in 0..MaxLevel : Branch^n \notin Nat \ {0}}
<1> SUFFICES ASSUME T # {} PROVE FALSE
  OBVIOUS
<1>1. PICK m \in T : \A n \in T : m <= n
  <2>1. T \subseteq Nat
    BY HierarchyAssumption
  <2> HIDE DEF T
  <2> QED
    BY <2>1, LeastNat
<1>2. m # 0
  BY PowersAssumption, HierarchyAssumption
<1>3. m - 1 \in 0..(MaxLevel - 1) /\ m - 1 \notin T /\ m - 1 + 1 = m
  BY <1>1, <1>2, HierarchyAssumption
<1>4. Branch^(m - 1) \in Nat \ {0}
  BY <1>3, HierarchyAssumption
<1>5. Branch^m = Branch * Branch^(m - 1)
  BY <1>3, PowersAssumption
<1>6. \A a, b \in Nat \ {0} : a * b \in Nat \ {0}
  OBVIOUS
<1>7. Branch^m \in Nat \ {0}
  BY <1>4, <1>5, <1>6, HierarchyAssumption
<1> QED
  BY <1>7

(* The lowest bit of a cell is a positive number at every level.           *)
LEMMA LsbFacts == \A l \in Level : Lsb(l) \in Nat \ {0}
<1> SUFFICES ASSUME NEW l \in Level PROVE Lsb(l) \in Nat \ {0}
  OBVIOUS
<1>1. MaxLevel - l \in 0..MaxLevel
  BY HierarchyAssumption DEF Level
<1> QED
  BY <1>1, PowerFacts DEF Lsb

(* The cells of one level are finitely many numbers.                       *)
LEMMA CellsAtFacts ==
    ASSUME NEW l \in Level
    PROVE  CellsAt(l) \subseteq Nat /\ IsFiniteSet(CellsAt(l))
<1> DEFINE K == 0..(Faces * Branch^l - 1)
           f == [k \in K |-> (2 * k + 1) * Lsb(l)]
<1>1. Lsb(l) \in Nat
  BY LsbFacts
<1>2. Branch^l \in Nat
  BY PowerFacts DEF Level
<1>3. Faces * Branch^l - 1 \in Int
  <2>1. \A a, b \in Nat : a * b - 1 \in Int
    OBVIOUS
  <2> QED
    BY <1>2, <2>1, HierarchyAssumption
<1>4. IsFiniteSet(K)
  BY <1>3, FS_Interval
<1>5. CellsAt(l) = {f[k] : k \in K}
  BY DEF CellsAt
<1>6. f \in Surjection(K, CellsAt(l))
  BY <1>5 DEF Surjection
<1>7. IsFiniteSet(CellsAt(l))
  <2> HIDE DEF f, K
  <2> QED
    BY <1>4, <1>6, FS_Surjection
<1>8. \A k \in K : (2 * k + 1) * Lsb(l) \in Nat
  <2>1. \A k, a \in Nat : (2 * k + 1) * a \in Nat
    OBVIOUS
  <2>2. K \subseteq Nat
    BY <1>3
  <2> QED
    BY <1>1, <2>1, <2>2
<1> QED
  BY <1>5, <1>7, <1>8

(* All cells are finitely many numbers.                                    *)
LEMMA CellFacts == Cell \subseteq Nat /\ IsFiniteSet(Cell)
<1> DEFINE f == [l \in Level |-> CellsAt(l)]
           T == {CellsAt(l) : l \in Level}
<1>1. Cell \subseteq Nat
  BY CellsAtFacts DEF Cell
<1>2. IsFiniteSet(Level)
  BY FS_Interval, HierarchyAssumption DEF Level
<1>3. f \in Surjection(Level, T)
  BY DEF Surjection
<1>4. IsFiniteSet(T)
  <2> HIDE DEF f, T
  <2> QED
    BY <1>2, <1>3, FS_Surjection
<1>5. IsFiniteSet(UNION T)
  BY <1>4, CellsAtFacts, FS_UNION
<1> QED
  BY <1>1, <1>5 DEF Cell

-----------------------------------------------------------------------------
(* Ascending lists a finite set of numbers in order.                       *)
LEMMA AscendingFacts ==
    ASSUME NEW S, S \subseteq Nat, IsFiniteSet(S)
    PROVE  /\ Ascending(S) \in Seq(S)
           /\ Len(Ascending(S)) = Cardinality(S)
           /\ IsAscending(Ascending(S))
           /\ \A x \in S : /\ Cardinality(Below(S, x)) + 1 \in 1..Len(Ascending(S))
                           /\ Ascending(S)[Cardinality(Below(S, x)) + 1] = x
<1> DEFINE N == Cardinality(S)
           nth(n) == CHOOSE x \in S : Cardinality({y \in S : y < x}) = n - 1
           g == [n \in 1..N |-> nth(n)]
<1>1. N \in Nat
  BY FS_CardinalityType
<1>2. Ascending(S) = SubSeq(g, 1, N)
  BY DEF Ascending, InOrder
<1>3. \A n \in 1..N : g[n] \in S /\ Cardinality(Below(S, g[n])) = n - 1
  <2> SUFFICES ASSUME NEW n \in 1..N
      PROVE  g[n] \in S /\ Cardinality(Below(S, g[n])) = n - 1
    OBVIOUS
  <2>1. n - 1 \in 0..(Cardinality(S) - 1)
    BY <1>1
  <2>2. \E x \in S : Cardinality({y \in S : y < x}) = n - 1
    BY <2>1, EveryPlace DEF Below
  <2>3. nth(n) \in S /\ Cardinality({y \in S : y < nth(n)}) = n - 1
    BY <2>2
  <2> QED
    BY <2>3 DEF Below
<1> HIDE DEF g
<1>4. /\ Ascending(S) \in Seq(S)
      /\ Len(Ascending(S)) = N
      /\ \A n \in 1..N : Ascending(S)[n] = g[n]
  BY <1>1, <1>2, <1>3
<1>5. IsAscending(Ascending(S))
  <2> SUFFICES ASSUME NEW i \in 1..N, NEW j \in 1..N, i < j PROVE g[i] < g[j]
    BY <1>4 DEF IsAscending
  <2>1. /\ Cardinality(Below(S, g[i])) < Cardinality(Below(S, g[j]))
        /\ g[i] \in S /\ g[j] \in S
    BY <1>1, <1>3
  <2> QED
    BY <2>1, BelowOrder
<1>6. ASSUME NEW x \in S
      PROVE  /\ Cardinality(Below(S, x)) + 1 \in 1..N
             /\ Ascending(S)[Cardinality(Below(S, x)) + 1] = x
  <2> DEFINE c == Cardinality(Below(S, x))
  <2>1. c \in Nat /\ c < N
    BY BelowFacts
  <2> HIDE DEF c
  <2>2. c + 1 \in 1..N /\ c + 1 - 1 = c
    BY <1>1, <2>1
  <2>3. g[c + 1] \in S /\ Cardinality(Below(S, g[c + 1])) = c
    BY <1>3, <2>1, <2>2
  <2>4. g[c + 1] = x
    BY <2>3, BelowOrder DEF c
  <2> QED
    BY <1>4, <2>2, <2>4 DEF c
<1> QED
  BY <1>4, <1>5, <1>6

-----------------------------------------------------------------------------
(* The covers in memory.  A cover that is not empty has its least cell as  *)
(* the cell it is ordered by.                                              *)
CoverEntry == [key: Key, cover: SUBSET Cell, first: Nat]

GoodCovers(cs) ==
    /\ cs \in Seq(CoverEntry) /\ Len(cs) <= MaxWrites
    /\ \A m, n \in 1..Len(cs) : m < n => cs[m].first <= cs[n].first
    /\ \A n \in 1..Len(cs) : cs[n].cover # {} => cs[n].first = Min(cs[n].cover)

(* The place behind all entries that start no later.                       *)
LEMMA PlaceFacts ==
    ASSUME GoodCovers(covers), NEW e \in CoverEntry
    PROVE  /\ PlaceFor(e) \in 1..(Len(covers) + 1)
           /\ \A n \in 1..(PlaceFor(e) - 1) : covers[n].first <= e.first
           /\ \A n \in PlaceFor(e)..Len(covers) : covers[n].first > e.first
<1> DEFINE L == Len(covers)
           P == {n \in DOMAIN covers : covers[n].first <= e.first}
           T == {n \in 1..(L + 1) : n = L + 1 \/ covers[n].first > e.first}
<1>1. /\ L \in Nat /\ DOMAIN covers = 1..L /\ e.first \in Nat
      /\ \A n \in 1..L : covers[n].first \in Nat
      /\ \A m, n \in 1..L : m < n => covers[m].first <= covers[n].first
  <2>1. covers \in Seq(CoverEntry) /\ \A n \in 1..L : covers[n] \in CoverEntry
    BY DEF GoodCovers
  <2> QED
    BY <2>1 DEF GoodCovers, CoverEntry
<1>2. PICK m \in T : \A n \in T : m <= n
  <2>1. L + 1 \in T /\ T \subseteq Nat
    BY <1>1
  <2> HIDE DEF T
  <2> QED
    BY <2>1, LeastNat
<1>3. \A n \in 1..(m - 1) : covers[n].first <= e.first
  <2> SUFFICES ASSUME NEW n \in 1..(m - 1) PROVE covers[n].first <= e.first
    OBVIOUS
  <2>1. n \in 1..L /\ n \notin T
    BY <1>1, <1>2
  <2> QED
    BY <1>1, <2>1
<1>4. \A n \in m..L : covers[n].first > e.first
  <2> SUFFICES ASSUME NEW n \in m..L PROVE covers[n].first > e.first
    OBVIOUS
  <2>1. n \in 1..L /\ m \in 1..L /\ covers[m].first > e.first /\ (m = n \/ m < n)
    BY <1>1, <1>2
  <2>2. covers[m].first <= covers[n].first
    BY <1>1, <2>1
  <2> QED
    BY <1>1, <2>1, <2>2
<1>5. m - 1 \in 0..L /\ P = 1..(m - 1)
  BY <1>1, <1>2, <1>3, <1>4
<1>6. Cardinality(P) = m - 1
  <2>1. m - 1 \in Nat /\ P = 1..(m - 1)
    BY <1>1, <1>5
  <2> HIDE DEF P
  <2>2. Cardinality(P) = IF 1 > m - 1 THEN 0 ELSE m - 1 - 1 + 1
    BY <2>1, FS_Interval
  <2> QED
    BY <2>1, <2>2
<1>7. PlaceFor(e) = m
  <2>1. PlaceFor(e) = Cardinality(P) + 1
    BY DEF PlaceFor
  <2> HIDE DEF P
  <2> QED
    BY <1>1, <1>2, <1>6, <2>1
<1> QED
  BY <1>1, <1>2, <1>3, <1>4, <1>7

(* write keeps the covers in order, and adds the region to their cells.    *)
LEMMA WriteCovers ==
    ASSUME GoodCovers(covers), NEW region \in SUBSET Cell, NEW key \in Key,
           write(region, key)
    PROVE  GoodCovers(covers') /\ StoredCells(covers') \subseteq StoredCells(covers) \cup region
<1>1. PICK first \in FirstCells(region) :
         covers' = InsertAt(covers, PlaceFor([key |-> key, cover |-> region, first |-> first]),
                            [key |-> key, cover |-> region, first |-> first])
  BY DEF write
<1> DEFINE e == [key |-> key, cover |-> region, first |-> first]
<1>2. e \in CoverEntry /\ (region # {} => first = Min(region))
  <2>1. region # {} => Min(region) \in Nat
    BY CellFacts, MinFacts
  <2>2. first \in Nat /\ (region # {} => first = Min(region))
    BY <2>1, GeoMapAssumption DEF FirstCells
  <2> QED
    BY <2>2 DEF CoverEntry
<1>3. e.first = first /\ e.cover = region
  OBVIOUS
<1>4. covers' = InsertAt(covers, PlaceFor(e), e)
  BY <1>1
<1> DEFINE p == PlaceFor(e)
<1> HIDE DEF e
<1>5. /\ p \in 1..(Len(covers) + 1)
      /\ \A n \in 1..(p - 1) : covers[n].first <= e.first
      /\ \A n \in p..Len(covers) : covers[n].first > e.first
  BY <1>2, PlaceFacts
<1> HIDE DEF p
<1>6. covers \in Seq(CoverEntry) /\ Len(covers) \in Nat
  BY DEF GoodCovers
<1>7. /\ covers' \in Seq(CoverEntry) /\ Len(covers') = Len(covers) + 1
      /\ \A n \in 1..(p - 1) : covers'[n] = covers[n]
      /\ covers'[p] = e
      /\ \A n \in (p + 1)..(Len(covers) + 1) : covers'[n] = covers[n - 1]
  <2>1. covers' = InsertAt(covers, p, e)
    BY <1>4 DEF p
  <2> DEFINE t == InsertAt(covers, p, e)
  <2>2. /\ t \in Seq(CoverEntry) /\ Len(t) = Len(covers) + 1
        /\ \A n \in 1..(p - 1) : t[n] = covers[n]
        /\ t[p] = e
        /\ \A n \in (p + 1)..(Len(covers) + 1) : t[n] = covers[n - 1]
    BY <1>2, <1>5, <1>6, InsertFacts
  <2> HIDE DEF t
  <2>3. covers' = t
    BY <2>1 DEF t
  <2> QED
    BY <2>2, <2>3
<1>8. Len(covers') <= MaxWrites
  BY <1>6, <1>7, GeoMapAssumption DEF write
<1> DEFINE old(i) == IF i < p THEN i ELSE i - 1
<1>9. \A i \in 1..Len(covers') : i # p =>
          old(i) \in 1..Len(covers) /\ covers'[i] = covers[old(i)]
  <2> SUFFICES ASSUME NEW i \in 1..Len(covers'), i # p
      PROVE  old(i) \in 1..Len(covers) /\ covers'[i] = covers[old(i)]
    OBVIOUS
  <2>1. CASE i < p
    <3>1. i \in 1..(p - 1) /\ i \in 1..Len(covers) /\ old(i) = i
      BY <1>5, <1>6, <2>1
    <3> QED
      BY <1>7, <3>1
  <2>2. CASE i > p
    <3>1. /\ i \in (p + 1)..(Len(covers) + 1) /\ i - 1 \in 1..Len(covers)
          /\ old(i) = i - 1
      BY <1>5, <1>6, <1>7, <2>2
    <3> QED
      BY <1>7, <3>1
  <2> QED
    BY <1>5, <1>6, <1>7, <2>1, <2>2
<1>10. \A m, n \in 1..Len(covers') : m < n => covers'[m].first <= covers'[n].first
  <2> SUFFICES ASSUME NEW m \in 1..Len(covers'), NEW n \in 1..Len(covers'), m < n
      PROVE  covers'[m].first <= covers'[n].first
    OBVIOUS
  <2>1. \A i \in 1..Len(covers) : covers[i].first \in Nat
    <3>1. \A i \in 1..Len(covers) : covers[i] \in CoverEntry
      BY <1>6
    <3> QED
      BY <3>1 DEF CoverEntry
  <2>2. \A i, j \in 1..Len(covers) : i < j => covers[i].first <= covers[j].first
    BY DEF GoodCovers
  <2>3. CASE m # p /\ n # p
    <3>1. /\ old(m) \in 1..Len(covers) /\ old(n) \in 1..Len(covers) /\ old(m) < old(n)
          /\ covers'[m] = covers[old(m)] /\ covers'[n] = covers[old(n)]
      <4>1. old(m) < old(n)
        BY <1>5, <1>6, <1>7, <2>3
      <4> QED
        BY <1>9, <2>3, <4>1
    <3> QED
      BY <2>2, <3>1
  <2>4. CASE m = p
    <3>1. /\ n - 1 \in p..Len(covers) /\ covers'[n] = covers[n - 1]
          /\ n - 1 \in 1..Len(covers)
      BY <1>6, <1>7, <2>4
    <3>2. covers[n - 1].first > e.first /\ covers[n - 1].first \in Nat
      BY <1>5, <2>1, <3>1
    <3>3. e.first \in Nat /\ covers'[m] = e
      BY <1>2, <1>7, <2>4 DEF CoverEntry
    <3> QED
      BY <3>1, <3>2, <3>3
  <2>5. CASE n = p
    <3>1. m \in 1..(p - 1) /\ covers'[m] = covers[m]
      BY <1>6, <1>7, <2>5
    <3> QED
      BY <1>5, <1>7, <2>5, <3>1
  <2> QED
    BY <2>3, <2>4, <2>5
<1>11. \A n \in 1..Len(covers') : covers'[n].cover # {} => covers'[n].first = Min(covers'[n].cover)
  <2> SUFFICES ASSUME NEW n \in 1..Len(covers'), covers'[n].cover # {}
      PROVE  covers'[n].first = Min(covers'[n].cover)
    OBVIOUS
  <2>1. CASE n = p
    BY <1>2, <1>3, <1>7, <2>1
  <2>2. CASE n # p
    <3>1. \E i \in 1..Len(covers) : covers'[n] = covers[i]
      BY <1>9, <2>2
    <3> QED
      BY <3>1 DEF GoodCovers
  <2> QED
    BY <2>1, <2>2
<1>12. StoredCells(covers') \subseteq StoredCells(covers) \cup region
  <2>1. DOMAIN covers' = 1..Len(covers') /\ DOMAIN covers = 1..Len(covers)
    BY <1>6, <1>7
  <2>2. \A n \in 1..Len(covers') : covers'[n].cover \subseteq StoredCells(covers) \cup region
    <3> SUFFICES ASSUME NEW n \in 1..Len(covers')
        PROVE  covers'[n].cover \subseteq StoredCells(covers) \cup region
      OBVIOUS
    <3>1. CASE n = p
      BY <1>3, <1>7, <3>1
    <3>2. CASE n # p
      <4>1. PICK i \in 1..Len(covers) : covers'[n] = covers[i]
        BY <1>9, <3>2
      <4> QED
        BY <2>1, <4>1 DEF StoredCells
    <3> QED
      BY <3>1, <3>2
  <2> QED
    BY <2>1, <2>2 DEF StoredCells
<1> QED
  BY <1>7, <1>8, <1>10, <1>11, <1>12 DEF GoodCovers

-----------------------------------------------------------------------------
(* A file as the readers need it: cells and bitmaps are cut alike and the  *)
(* index has every block's last cell; what the readers count agrees; cells *)
(* ascend, are in the filter, and their keys are there, where they are     *)
(* looked for.                                                             *)
Aligned(f) ==
    /\ Len(f.cells) # 0 /\ Len(f.bitmaps) = Len(f.cells) /\ Len(f.cellIndex) = Len(f.cells)
    /\ \A b \in 1..Len(f.cells) :
          /\ Len(f.cells[b]) # 0 /\ Len(f.bitmaps[b]) = Len(f.cells[b])
          /\ f.cellIndex[b] = Last(f.cells[b])
          /\ BlockEntries(b - 1, BlockSize, f.cellEntries) = Len(f.cells[b])
          /\ CellBlockEntries(b - 1, BlockSize, f.cellEntries) \in {0, Len(f.cells[b])}

Before(p, q) == p[1] < q[1] \/ (p[1] = q[1] /\ p[2] < q[2])
Sorted(f) == \A p, q \in Places(f) : Before(p, q) => CellAt(f, p) < CellAt(f, q)

GoodFile(f) ==
    /\ f \in FileType /\ Aligned(f) /\ Sorted(f)
    /\ \A p \in Places(f) : /\ CellAt(f, p) \in f.filter
                            /\ IdsAt(f, p) \subseteq 0..(f.keyEntries - 1)
    /\ \A id \in 0..(f.keyEntries - 1) :
          ReadKey(f, id) \in Key /\ ReadKey(f, id) = FlattenSeq(f.keys)[id + 1]

(* What the file f stores of the covers cs (as BuildStoresCovers has it).  *)
Stores(f, cs) ==
    /\ \A id \in 0..(Len(cs) - 1) : ReadKey(f, id) = cs[id + 1].key
    /\ {CellAt(f, p) : p \in Places(f)} = StoredCells(cs)
    /\ \A p \in Places(f) :
          IdsAt(f, p) = {n - 1 : n \in {m \in DOMAIN cs : CellAt(f, p) \in cs[m].cover}}

(* What the added covers store are finitely many cells.                    *)
LEMMA StoredCellsFacts ==
    ASSUME NEW cs, GoodCovers(cs)
    PROVE  StoredCells(cs) \subseteq Cell /\ StoredCells(cs) \subseteq Nat
           /\ IsFiniteSet(StoredCells(cs))
<1>1. \A n \in DOMAIN cs : cs[n].cover \subseteq Cell
  <2>1. cs \in Seq(CoverEntry) /\ \A n \in DOMAIN cs : cs[n] \in CoverEntry
    BY DEF GoodCovers
  <2> QED
    BY <2>1 DEF CoverEntry
<1>2. StoredCells(cs) \in SUBSET Cell
  BY <1>1 DEF StoredCells
<1> QED
  BY <1>2, CellFacts, FS_Subset

(* Place <<b, j>> of a file that holds s.                                  *)
Number(p) == (p[1] - 1) * BlockSize + p[2]

(* Places in a later block have greater numbers.                           *)
LEMMA NumberOrder ==
    ASSUME NEW b \in Nat \ {0}, NEW c \in Nat \ {0}, b < c,
           NEW i \in 1..BlockSize, NEW j \in Nat \ {0}
    PROVE  (b - 1) * BlockSize + i < (c - 1) * BlockSize + j
<1>1. b - 1 \in Nat /\ c - 1 \in Nat /\ b - 1 < c - 1 /\ b - 1 + 1 = b
  OBVIOUS
<1>2. BlockSize \in Nat \ {0}
  BY GeoMapAssumption
<1>3. b * BlockSize <= (c - 1) * BlockSize
  BY <1>1, <1>2, BlockStarts
<1>4. b * BlockSize = (b - 1) * BlockSize + BlockSize
  BY <1>2
<1>5. (b - 1) * BlockSize \in Nat /\ (c - 1) * BlockSize \in Nat
  BY <1>1, <1>2
<1> QED
  BY <1>2, <1>3, <1>4, <1>5

(* build writes a well-formed file that stores exactly what was added.     *)
LEMMA FileOfFacts ==
    ASSUME NEW cs, NEW values, GoodCovers(cs), StoredCells(cs) # {},
           values \subseteq Cell, StoredCells(cs) \subseteq values
    PROVE  GoodFile(FileOf(cs, values)) /\ Stores(FileOf(cs, values), cs)
<1> DEFINE C == StoredCells(cs)
           IdsOf(c) == {n - 1 : n \in {m \in DOMAIN cs : c \in cs[m].cover}}
           cells == Ascending(C)
           bitmaps == [i \in DOMAIN cells |-> cellToKeyMap(cs)[cells[i]]]
           keys == [n \in DOMAIN cs |-> cs[n].key]
           f == FileOf(cs, values)
           B == BlockSize
           L == Len(cs)
<1>1. B \in Nat \ {0} /\ MaxWrites \in Nat
  BY GeoMapAssumption
<1>2. C \subseteq Cell /\ C \subseteq Nat /\ IsFiniteSet(C) /\ C # {}
  BY StoredCellsFacts
<1>3. /\ L \in Nat /\ L <= MaxWrites /\ DOMAIN cs = 1..L
      /\ \A n \in 1..L : cs[n].key \in Key
  <2>1. cs \in Seq(CoverEntry) /\ L <= MaxWrites
    BY DEF GoodCovers
  <2>2. L \in Nat /\ DOMAIN cs = 1..L /\ \A n \in 1..L : cs[n] \in CoverEntry
    BY <2>1
  <2> QED
    BY <2>1, <2>2 DEF CoverEntry
<1>4. /\ f.filter = values /\ f.keys = Split(keys, B) /\ f.keyEntries = Len(keys)
      /\ f.cells = Split(cells, B) /\ f.bitmaps = Split(bitmaps, B)
      /\ f.cellIndex = [b \in DOMAIN Split(cells, B) |-> Last(Split(cells, B)[b])]
      /\ f.cellEntries = Len(cells)
      /\ f = [filter |-> f.filter, keys |-> f.keys, keyEntries |-> f.keyEntries,
              cells |-> f.cells, cellIndex |-> f.cellIndex, bitmaps |-> f.bitmaps,
              cellEntries |-> f.cellEntries]
  BY DEF FileOf
<1>5. /\ cells \in Seq(C) /\ Len(cells) \in Nat \ {0} /\ IsAscending(cells)
      /\ \A x \in C : \E i \in 1..Len(cells) : cells[i] = x
  <2>1. /\ cells \in Seq(C) /\ Len(cells) = Cardinality(C) /\ IsAscending(cells)
        /\ \A x \in C : /\ Cardinality(Below(C, x)) + 1 \in 1..Len(cells)
                        /\ cells[Cardinality(Below(C, x)) + 1] = x
    BY <1>2, AscendingFacts
  <2>2. Cardinality(C) \in Nat \ {0}
    BY <1>2, FS_CardinalityType, FS_EmptySet
  <2> QED
    BY <2>1, <2>2
<1>6. /\ bitmaps \in Seq(SUBSET (0..(L - 1))) /\ Len(bitmaps) = Len(cells)
      /\ \A i \in 1..Len(cells) : bitmaps[i] = IdsOf(cells[i])
  <2>1. \A c \in C : cellToKeyMap(cs)[c] = IdsOf(c)
    BY DEF cellToKeyMap
  <2>2. \A c : IdsOf(c) \subseteq 0..(L - 1)
    BY <1>3
  <2> HIDE DEF cells, IdsOf
  <2>3. DOMAIN cells = 1..Len(cells) /\ \A i \in 1..Len(cells) : cells[i] \in C
    BY <1>5
  <2>4. \A i \in 1..Len(cells) : bitmaps[i] = IdsOf(cells[i])
    BY <2>1, <2>3
  <2> QED
    BY <1>5, <2>2, <2>3, <2>4
<1>7. keys \in Seq(Key) /\ Len(keys) = L /\ \A i \in 1..L : keys[i] = cs[i].key
  BY <1>3
<1> HIDE DEF cells, bitmaps, keys, f, IdsOf
<1>8. PICK n \in Nat, k \in 1..B : Len(cells) = n * B + k
  BY <1>1, <1>5, LengthInBlocks
<1>9. f.cells \in Seq(Seq(C)) /\ InBlocks(f.cells, cells, B, n, k)
  BY <1>1, <1>4, <1>5, <1>8, SplitFacts
<1>10. f.bitmaps \in Seq(Seq(SUBSET (0..(L - 1)))) /\ InBlocks(f.bitmaps, bitmaps, B, n, k)
  BY <1>1, <1>4, <1>6, <1>8, SplitFacts
<1>11. /\ DOMAIN f.cells = 1..(n + 1)
       /\ \A b \in 1..(n + 1) : /\ Len(f.cells[b]) = IF b = n + 1 THEN k ELSE B
                                /\ Len(f.bitmaps[b]) = Len(f.cells[b])
                                /\ DOMAIN f.cells[b] = 1..Len(f.cells[b])
  <2>1. DOMAIN f.cells = 1..(n + 1) /\ \A b \in 1..(n + 1) : f.cells[b] \in Seq(C)
    BY <1>9 DEF InBlocks
  <2>2. \A b \in 1..(n + 1) : DOMAIN f.cells[b] = 1..Len(f.cells[b])
    BY <2>1
  <2>3. \A b \in 1..(n + 1) : b # n + 1 => b \in 1..n
    BY <1>8
  <2> QED
    BY <1>9, <1>10, <2>1, <2>2, <2>3 DEF InBlocks
<1>12. ASSUME NEW p \in Places(f)
       PROVE  /\ p[1] \in 1..(n + 1) /\ p[2] \in 1..Len(f.cells[p[1]])
              /\ Number(p) \in 1..Len(cells) /\ CellAt(f, p) = cells[Number(p)]
              /\ CellAt(f, p) \in C /\ IdsAt(f, p) = IdsOf(CellAt(f, p))
  <2>1. PICK b \in 1..(n + 1) : \E j \in 1..Len(f.cells[b]) : p = <<b, j>>
    BY <1>11 DEF Places
  <2>2. PICK j \in 1..Len(f.cells[b]) : p = <<b, j>>
    BY <2>1
  <2>3. j \in 1..Len(f.bitmaps[b])
    BY <1>11, <2>2
  <2>4. Number(p) \in 1..Len(cells) /\ CellAt(f, p) = cells[Number(p)]
    BY <1>9, <2>2 DEF InBlocks, Number, CellAt
  <2>5. IdsAt(f, p) = bitmaps[Number(p)]
    BY <1>10, <2>2, <2>3 DEF InBlocks, Number, IdsAt
  <2>6. cells[Number(p)] \in C
    BY <1>5, <2>4
  <2> QED
    BY <1>6, <2>2, <2>4, <2>5, <2>6
<1>13. Aligned(f)
  <2>1. Len(f.cells) = n + 1 /\ Len(f.bitmaps) = n + 1 /\ Len(f.cellIndex) = n + 1
    BY <1>4, <1>9, <1>10, <1>11 DEF InBlocks
  <2>2. \A b \in 1..(n + 1) : f.cellIndex[b] = Last(f.cells[b])
    BY <1>4, <1>11
  <2>3. ASSUME NEW b \in 1..(n + 1)
        PROVE  /\ BlockEntries(b - 1, B, n * B + k) = IF b = n + 1 THEN k ELSE B
               /\ CellBlockEntries(b - 1, B, n * B + k) \in {0, IF b = n + 1 THEN k ELSE B}
    <3>1. CASE b = n + 1
      <4>1. b - 1 = n
        BY <3>1
      <4>2. BlockEntries(n, B, n * B + k) = k
        BY <1>1, CountsOf
      <4>3. CellBlockEntries(n, B, n * B + k) \in {0, k}
        BY <1>1, CellCountsOf
      <4> QED
        BY <3>1, <4>1, <4>2, <4>3
    <3>2. CASE b # n + 1
      <4>1. b - 1 \in 0..(n - 1)
        BY <3>2
      <4>2. \A c \in 0..(n - 1) : BlockEntries(c, B, n * B + k) = B
        BY <1>1, CountsOf
      <4>3. \A c \in 0..(n - 1) : CellBlockEntries(c, B, n * B + k) = B
        BY <1>1, CellCountsOf
      <4> DEFINE c == b - 1
      <4> HIDE DEF c
      <4>4. c \in 0..(n - 1)
        BY <4>1 DEF c
      <4>5. BlockEntries(c, B, n * B + k) = B /\ CellBlockEntries(c, B, n * B + k) = B
        BY <4>2, <4>3, <4>4
      <4> QED
        BY <3>2, <4>5 DEF c
    <3> QED
      BY <3>1, <3>2
  <2>4. \A b \in 1..(n + 1) : Len(f.cells[b]) # 0
    BY <1>1, <1>11
  <2>5. f.cellEntries = n * B + k
    BY <1>4, <1>8
  <2> QED
    BY <1>11, <2>1, <2>2, <2>3, <2>4, <2>5 DEF Aligned
<1>14. Sorted(f)
  <2> SUFFICES ASSUME NEW p \in Places(f), NEW q \in Places(f), Before(p, q)
      PROVE  CellAt(f, p) < CellAt(f, q)
    BY DEF Sorted
  <2>1. Number(p) < Number(q)
    <3>1. p[1] \in Nat \ {0} /\ q[1] \in Nat \ {0} /\ p[2] \in 1..B /\ q[2] \in Nat \ {0}
      <4>1. /\ p[1] \in 1..(n + 1) /\ p[2] \in 1..Len(f.cells[p[1]])
            /\ q[1] \in 1..(n + 1) /\ q[2] \in 1..Len(f.cells[q[1]])
        BY <1>12
      <4>2. \A b \in 1..(n + 1) : Len(f.cells[b]) \in 1..B
        <5>1. k \in 1..B /\ B \in 1..B
          BY <1>1
        <5>2. \A b \in 1..(n + 1) : Len(f.cells[b]) = k \/ Len(f.cells[b]) = B
          BY <1>11
        <5> QED
          BY <5>1, <5>2
      <4> QED
        BY <1>1, <4>1, <4>2, SMTT(30)
    <3>2. CASE p[1] < q[1]
      BY <3>1, <3>2, NumberOrder DEF Number
    <3>3. CASE p[1] = q[1] /\ p[2] < q[2]
      <4>1. (p[1] - 1) * B \in Int
        BY <1>1, <3>1
      <4> QED
        BY <3>1, <3>3, <4>1 DEF Number
    <3> QED
      BY <3>2, <3>3 DEF Before
  <2>2. /\ Number(p) \in 1..Len(cells) /\ CellAt(f, p) = cells[Number(p)]
        /\ Number(q) \in 1..Len(cells) /\ CellAt(f, q) = cells[Number(q)]
    BY <1>12
  <2> QED
    BY <1>5, <2>1, <2>2 DEF IsAscending
<1>15. \A id \in 0..(L - 1) : ReadKey(f, id) = cs[id + 1].key
  <2> SUFFICES ASSUME NEW id \in 0..(L - 1) PROVE ReadKey(f, id) = cs[id + 1].key
    OBVIOUS
  <2>1. id \in 0..(Len(keys) - 1) /\ id + 1 \in 1..L
    BY <1>3, <1>7
  <2>2. Split(keys, B)[BlockOf(id, B) + 1][OffsetInBlock(id, B) + 1] = keys[id + 1]
    BY <1>1, <1>7, <2>1, ItemInBlock
  <2> QED
    BY <1>4, <1>7, <2>1, <2>2 DEF ReadKey
<1>16. {CellAt(f, p) : p \in Places(f)} = C
  <2>1. ASSUME NEW x \in C PROVE \E p \in Places(f) : CellAt(f, p) = x
    <3>1. PICK i \in 1..Len(cells) : cells[i] = x
      BY <1>5
    <3>2. i - 1 \in 0..(Len(cells) - 1) /\ i - 1 + 1 = i
      BY <1>5
    <3> DEFINE b == BlockOf(i - 1, B) + 1
               j == OffsetInBlock(i - 1, B) + 1
    <3>3. b \in 1..Len(f.cells) /\ j \in 1..Len(f.cells[b]) /\ f.cells[b][j] = cells[i]
      <4> DEFINE d == i - 1
      <4>1. d \in 0..(Len(cells) - 1) /\ d + 1 = i
        BY <3>2
      <4> HIDE DEF d
      <4>2. /\ BlockOf(d, B) + 1 \in 1..Len(Split(cells, B))
            /\ OffsetInBlock(d, B) + 1 \in 1..Len(Split(cells, B)[BlockOf(d, B) + 1])
            /\ Split(cells, B)[BlockOf(d, B) + 1][OffsetInBlock(d, B) + 1] = cells[d + 1]
        BY <1>1, <1>5, <4>1, ItemInBlock
      <4> QED
        BY <1>4, <4>1, <4>2 DEF d
    <3> HIDE DEF b, j
    <3>4. <<b, j>> \in Places(f)
      BY <1>9, <1>11, <3>3 DEF Places, InBlocks
    <3> QED
      BY <3>1, <3>3, <3>4 DEF CellAt
  <2> QED
    BY <1>12, <2>1
<1>17. f \in FileType
  <2>1. f.keys \in Seq(Seq(Key))
    <3>1. CASE L = 0
      <4>1. determineBlocks(B, 0) = 0
        BY <1>1 DEF determineBlocks
      <4>2. Split(keys, B) = <<>>
        BY <1>7, <3>1, <4>1 DEF Split
      <4> QED
        BY <1>4, <4>2
    <3>2. CASE L # 0
      <4>1. PICK m \in Nat, j \in 1..B : Len(keys) = m * B + j
        BY <1>1, <1>3, <1>7, <3>2, LengthInBlocks
      <4> QED
        BY <1>1, <1>4, <1>7, <4>1, SplitFacts
    <3> QED
      BY <3>1, <3>2
  <2>2. f.cells \in Seq(Seq(Cell))
    BY <1>2, <1>9
  <2>3. f.bitmaps \in Seq(Seq(SUBSET (0..(MaxWrites - 1))))
    <3>1. 0..(L - 1) \subseteq 0..(MaxWrites - 1)
      BY <1>1, <1>3
    <3> QED
      BY <1>10, <3>1
  <2>4. f.cellIndex \in Seq(Cell)
    <3>1. \A b \in 1..(n + 1) : Last(f.cells[b]) \in Cell
      <4>1. \A b \in 1..(n + 1) : /\ Len(f.cells[b]) \in 1..Len(f.cells[b])
                                  /\ f.cells[b] \in Seq(C)
        BY <1>1, <1>9, <1>11
      <4> QED
        BY <1>2, <4>1 DEF Last
    <3> QED
      BY <1>4, <1>11, <3>1, SMTT(30)
  <2>5. f.filter \in SUBSET Cell /\ f.keyEntries \in 0..MaxWrites /\ f.cellEntries \in Nat
    BY <1>1, <1>3, <1>4, <1>5, <1>7
  <2> QED
    BY <1>4, <2>1, <2>2, <2>3, <2>4, <2>5 DEF FileType
<1>18. \A p \in Places(f) : /\ CellAt(f, p) \in f.filter
                            /\ IdsAt(f, p) \subseteq 0..(f.keyEntries - 1)
  <2>1. \A c : IdsOf(c) \subseteq 0..(L - 1)
    BY <1>3 DEF IdsOf
  <2> QED
    BY <1>4, <1>7, <1>12, <2>1
<1>19. \A id \in 0..(f.keyEntries - 1) :
          ReadKey(f, id) \in Key /\ ReadKey(f, id) = FlattenSeq(f.keys)[id + 1]
  <2> SUFFICES ASSUME NEW id \in 0..(L - 1)
      PROVE  ReadKey(f, id) \in Key /\ ReadKey(f, id) = FlattenSeq(f.keys)[id + 1]
    BY <1>4, <1>7
  <2>1. id + 1 \in 1..L
    BY <1>3
  <2>2. ReadKey(f, id) = keys[id + 1] /\ keys[id + 1] \in Key
    BY <1>3, <1>7, <1>15, <2>1
  <2>3. keys # << >>
    BY <1>7, <2>1
  <2>4. FlattenSeq(f.keys) = keys
    BY <1>1, <1>4, <1>7, <2>3, FlattenSplit
  <2> QED
    BY <2>2, <2>4
<1>20. Stores(f, cs)
  BY <1>12, <1>15, <1>16 DEF Stores, IdsOf
<1> QED
  BY <1>13, <1>14, <1>17, <1>18, <1>19, <1>20 DEF GoodFile, f

-----------------------------------------------------------------------------
(* The invariant of the index, but for the last answer: the covers are in  *)
(* order, the filter has all their cells (and what failed writes left), and*)
(* what lies on disk or in a reader is a good file.                        *)
MapInv ==
    /\ GoodCovers(covers)
    /\ StoredCells(covers) \subseteq filterValues /\ filterValues \subseteq Cell
    /\ file = NoFile \/ GoodFile(file)
    /\ reader = NoFile \/ GoodFile(reader)

(* At the start nothing is written and nothing is open.                    *)
LEMMA MapInit == Init => MapInv
<1> SUFFICES ASSUME Init PROVE MapInv
  OBVIOUS
<1>1. GoodCovers(covers)
  BY GeoMapAssumption DEF Init, GoodCovers
<1>2. StoredCells(covers) = {}
  BY DEF Init, StoredCells
<1> QED
  BY <1>1, <1>2 DEF Init, MapInv

(* No operation of writer or reader breaks the invariant.                  *)
LEMMA MapStep == MapInv /\ [Next]_vars => MapInv'
<1> SUFFICES ASSUME MapInv, [Next]_vars PROVE MapInv'
  OBVIOUS
<1>1. ASSUME NEW region \in Region, NEW key \in Key, write(region, key) PROVE MapInv'
  <2>1. region \in SUBSET Cell
    BY GeoMapAssumption
  <2>2. GoodCovers(covers') /\ StoredCells(covers') \subseteq StoredCells(covers) \cup region
    BY <1>1, <2>1, WriteCovers DEF MapInv
  <2>3. filterValues' = filterValues \cup region /\ file' = file /\ reader' = reader
    BY <1>1 DEF write
  <2> QED
    BY <2>1, <2>2, <2>3 DEF MapInv
<1>2. ASSUME NEW region \in Unlucky, writeFails(region) PROVE MapInv'
  <2>1. region \in SUBSET Cell
    BY GeoMapAssumption
  <2>2. /\ filterValues \subseteq filterValues' /\ filterValues' \subseteq filterValues \cup region
        /\ covers' = covers /\ file' = file /\ reader' = reader
    BY <1>2 DEF writeFails
  <2> QED
    BY <2>1, <2>2 DEF MapInv
<1>3. CASE build
  <2>1. GoodFile(FileOf(covers, filterValues))
    BY <1>3, FileOfFacts DEF build, MapInv
  <2> QED
    BY <1>3, <2>1 DEF build, MapInv
<1>4. CASE Open
  BY <1>4 DEF Open, MapInv
<1>5. ASSUME NEW query \in QueryRegion, ContainsQuery(query) PROVE MapInv'
  BY <1>5 DEF ContainsQuery, MapInv
<1>6. CASE UNCHANGED vars
  BY <1>6 DEF vars, MapInv
<1> QED
  BY <1>1, <1>2, <1>3, <1>4, <1>5, <1>6 DEF Next

(* Every reachable state satisfies MapInv: whatever is written, in whatever*)
(* order, with failed writes, builds and openings anywhere in between.     *)
THEOREM MapInvariant == Spec => []MapInv
<1> QED
  BY MapInit, MapStep, PTL DEF Spec

(* Key ids follow the curve: the covers that build() numbers are sorted by *)
(* their least cells (CompareKeyCoverPair), however they were written.     *)
THEOREM IdsFollowCurve == Spec => []IdsFollowFirstCells
<1>1. MapInv => IdsFollowFirstCells
  <2>1. GoodCovers(covers) => DOMAIN covers = 1..Len(covers)
    BY DEF GoodCovers
  <2> QED
    BY <2>1 DEF MapInv, GoodCovers, IdsFollowFirstCells
<1> QED
  BY <1>1, MapInvariant, PTL

(* A key's interval has one of the lengths, and tells it from the others.  *)
LEMMA UnitFacts ==
    ASSUME NEW keys, keys \subseteq Nat, NEW k \in keys
    PROVE  /\ Unit(keys, k) \in Nat \ {0} /\ Unit(keys, k) \in Units
           /\ \A o \in keys \ {k} : o \div Unit(keys, k) # k \div Unit(keys, k)
<1> DEFINE S == {u \in Units : \A o \in keys \ {k} : o \div u # k \div u}
<1>1. \A o \in keys : o \div 1 = o
  OBVIOUS
<1>2. S \subseteq Nat \ {0} /\ 1 \in S /\ IsFiniteSet(S)
  BY <1>1, UnitsAssumption, FS_Subset
<1>3. Unit(keys, k) = Max(S)
  BY DEF Unit
<1>4. Max(S) \in S
  <2> HIDE DEF S
  <2> QED
    BY <1>2, FiniteMaxFacts
<1> QED
  BY <1>2, <1>3, <1>4

(* A key of the filter passes it, whatever the filter cuts off its keys.   *)
LEMMA KeyPasses ==
    ASSUME NEW keys, keys \subseteq Nat, NEW k \in keys
    PROVE  filterContains(keys, k)
<1>1. Unit(keys, k) \in Nat \ {0}
  BY UnitFacts
<1>2. k % Unit(keys, k) \in 0..(Unit(keys, k) - 1)
  BY <1>1
<1> QED
  BY <1>1, <1>2 DEF filterContains, lookupKey, Lo, Hi

(* No false negatives: a file's filter passes every cell the file stores.  *)
THEOREM FilterHasNoFalseNegatives == Spec => []FilterPassesStoredCells
<1>1. MapInv => FilterPassesStoredCells
  <2> SUFFICES ASSUME MapInv, file # NoFile, NEW p \in Places(file)
      PROVE  filterContains(file.filter, CellAt(file, p))
    BY DEF FilterPassesStoredCells
  <2>1. file.filter \subseteq Cell
    BY DEF MapInv, GoodFile, FileType
  <2>2. CellAt(file, p) \in file.filter
    BY DEF MapInv, GoodFile
  <2> QED
    BY <2>1, <2>2, CellFacts, KeyPasses
<1> QED
  BY <1>1, MapInvariant, PTL

(* A build stores exactly what was written: keys under their ids, each cell*)
(* once and in order, and with each cell the ids of the covers that have it*)
(* (RoaringGeoMapWriter::build against the addresses the readers use).     *)
THEOREM BuildsAreExact == Spec => BuildStoresCovers
<1> DEFINE A == file' # file =>
        /\ \A id \in 0..(Len(covers) - 1) : ReadKey(file', id) = covers[id + 1].key
        /\ {CellAt(file', p) : p \in Places(file')} = StoredCells(covers)
        /\ \A p, q \in Places(file') :
              p[1] < q[1] \/ (p[1] = q[1] /\ p[2] < q[2])
                  => CellAt(file', p) < CellAt(file', q)
        /\ \A p \in Places(file') :
              IdsAt(file', p) = {n - 1 : n \in {m \in DOMAIN covers :
                                    CellAt(file', p) \in covers[m].cover}}
<1>1. MapInv /\ [Next]_vars => [A]_vars
  <2> SUFFICES ASSUME MapInv, Next, file' # file PROVE A
    BY DEF vars
  <2>1. build
    BY DEF Next, write, writeFails, Open, ContainsQuery
  <2>2. GoodFile(file') /\ Stores(file', covers)
    BY <2>1, FileOfFacts DEF build, MapInv
  <2> QED
    BY <2>2 DEF GoodFile, Stores, Sorted, Before
<1> QED
  BY <1>1, MapInvariant, PTL DEF Spec, BuildStoresCovers
=============================================================================
