----------------------------- MODULE QueryProofs ----------------------------
(***************************************************************************)
(* The reader's half of module GeoMap: what Contains finds, what it leaves *)
(* out and what strays into its answer, for any hierarchy, covers, queries,*)
(* filter and block size.                                                  *)
(***************************************************************************)
EXTENDS GeoMapProofs

-----------------------------------------------------------------------------
(* The cells' numbers.  A cell of level l is an odd multiple of Lsb(l).    *)
LEMMA OddMultiple ==
    ASSUME NEW l \in Level, NEW c \in CellsAt(l)
    PROVE  c \in Nat /\ c % (2 * Lsb(l)) = Lsb(l)
<1> DEFINE L == Lsb(l)
           M == 2 * L
<1>1. L \in Nat \ {0} /\ M \in Nat \ {0} /\ L \in 0..(M - 1)
  BY LsbFacts
<1>2. Faces * Branch^l - 1 \in Int
  <2>1. \A a, b \in Nat : a * b - 1 \in Int
    OBVIOUS
  <2> QED
    BY <2>1, PowerFacts, HierarchyAssumption DEF Level
<1>3. PICK k \in 0..(Faces * Branch^l - 1) : c = (2 * k + 1) * L
  BY DEF CellsAt
<1> HIDE DEF L
<1>4. k \in Nat /\ c = k * M + L
  BY <1>1, <1>2, <1>3
<1> HIDE DEF M
<1>5. (k * M + L) % M = L
  BY <1>1, <1>4, DivMod
<1>6. c \in Nat /\ c % M = L
  BY <1>1, <1>4, <1>5
<1> QED
  BY <1>6 DEF L, M

(* Every cell is an odd multiple of the lowest bit of its own level.       *)
LEMMA LevelFacts ==
    ASSUME NEW c \in Cell
    PROVE  level(c) \in Level /\ c % (2 * Lsb(level(c))) = Lsb(level(c))
<1>1. \E l \in Level : c % (2 * Lsb(l)) = Lsb(l)
  BY OddMultiple DEF Cell
<1> QED
  BY <1>1 DEF level

(* The numbers below a cell.                                               *)
LEMMA RangeFacts ==
    ASSUME NEW c \in Cell
    PROVE  /\ range_min(c) \in Nat /\ range_max(c) \in Nat
           /\ range_min(c) <= c /\ c <= range_max(c)
<1> DEFINE L == Lsb(level(c))
<1>1. c \in Nat /\ L \in Nat \ {0} /\ c % (2 * L) = L
  BY CellFacts, LevelFacts, LsbFacts
<1>2. range_min(c) = c - (L - 1) /\ range_max(c) = c + (L - 1)
  BY DEF range_min, range_max
<1> HIDE DEF L
<1>3. L <= c
  <2>1. 2 * L \in Nat \ {0}
    BY <1>1
  <2>2. \A d \in Nat \ {0} : c % d <= c
    BY <1>1
  <2> QED
    BY <1>1, <2>1, <2>2
<1> QED
  BY <1>1, <1>2, <1>3

(* A cell that contains c is c's parent at its own level.                  *)
LEMMA ContainsIsParent ==
    ASSUME NEW a \in Cell, NEW c \in Nat, contains(a, c)
    PROVE  parent(c, level(a)) = a
<1> DEFINE L == Lsb(level(a))
           M == 2 * L
<1>1. a \in Nat /\ L \in Nat \ {0} /\ a % M = L /\ M \in Nat \ {0}
  BY CellFacts, LevelFacts, LsbFacts
<1>2. a - (L - 1) <= c /\ c <= a + (L - 1)
  BY DEF contains, range_min, range_max
<1>3. parent(c, level(a)) = (c - (c % M)) + L
  BY DEF parent
<1>4. M = 2 * L
  OBVIOUS
<1> HIDE DEF L, M
<1> DEFINE k == a \div M
           r == c - k * M
<1>5. k \in Nat /\ a = k * M + L
  BY <1>1
<1> HIDE DEF k
<1>6. k * M \in Nat
  BY <1>1, <1>5
<1>7. r \in 0..(M - 1) /\ c = k * M + r
  <2> DEFINE m == k * M
  <2>1. m \in Nat /\ a = m + L /\ r = c - m
    BY <1>5, <1>6
  <2> HIDE DEF m, r
  <2>2. r \in 0..(M - 1) /\ c = m + r
    BY <1>1, <1>2, <1>4, <2>1
  <2> QED
    BY <2>2 DEF m
<1> HIDE DEF r
<1>8. (k * M + r) % M = r
  BY <1>1, <1>5, <1>7, DivMod
<1> QED
  BY <1>1, <1>5, <1>6, <1>7, <1>8, <1>3

(* A coarser level's Lsb is an even multiple of a finer level's.           *)
LEMMA PowersEven ==
    ASSUME NEW n \in 0..MaxLevel, NEW m \in 0..MaxLevel, n < m
    PROVE  \E q \in Nat : Branch^m = q * (2 * Branch^n)
<1> DEFINE P(i) == \E q \in Nat : Branch^i = q * (2 * Branch^n)
           T == {i \in 0..MaxLevel : n < i /\ ~ P(i)}
<1> SUFFICES ASSUME T # {} PROVE FALSE
  OBVIOUS
<1>1. PICK i \in T : \A j \in T : i <= j
  <2>1. T \subseteq Nat
    BY HierarchyAssumption
  <2> HIDE DEF T
  <2> QED
    BY <2>1, LeastNat
<1>2. /\ i - 1 \in 0..(MaxLevel - 1) /\ i - 1 + 1 = i /\ i - 1 \notin T /\ n <= i - 1
      /\ i - 1 \in 0..MaxLevel
  <2> HIDE DEF P
  <2>1. i \in Nat /\ i <= MaxLevel /\ n < i /\ n \in Nat
    BY <1>1, HierarchyAssumption
  <2>2. i - 1 \notin T
    BY <1>1, <2>1
  <2> HIDE DEF T
  <2> QED
    BY <2>1, <2>2, HierarchyAssumption
<1>3. Branch^i = Branch * Branch^(i - 1)
  <2> DEFINE j == i - 1
  <2>1. j \in 0..(MaxLevel - 1) /\ j + 1 = i
    BY <1>2
  <2> HIDE DEF j
  <2>2. Branch^(j + 1) = Branch * Branch^j
    BY <2>1, PowersAssumption
  <2> QED
    BY <2>1, <2>2 DEF j
<1>4. Branch \in Nat /\ Branch^n \in Nat
  BY PowerFacts, HierarchyAssumption
<1>5. CASE n = i - 1
  <2>1. Branch = (Branch \div 2) * 2 /\ Branch \div 2 \in Nat
    BY HierarchyAssumption
  <2>2. \A h, a \in Nat : h * 2 * a = h * (2 * a)
    OBVIOUS
  <2>3. Branch^i = (Branch \div 2) * 2 * Branch^n
    BY <1>3, <1>5, <2>1
  <2>4. P(i)
    BY <1>4, <2>1, <2>2, <2>3
  <2> QED
    BY <1>1, <2>4
<1>6. CASE n < i - 1
  <2>1. PICK q \in Nat : Branch^(i - 1) = q * (2 * Branch^n)
    BY <1>2, <1>6
  <2>2. Branch * (q * (2 * Branch^n)) = (Branch * q) * (2 * Branch^n) /\ Branch * q \in Nat
    <3>1. \A b, u, a \in Nat : b * (u * (2 * a)) = (b * u) * (2 * a) /\ b * u \in Nat
      OBVIOUS
    <3> QED
      BY <1>4, <3>1
  <2>3. P(i)
    BY <1>3, <2>1, <2>2
  <2> QED
    BY <1>1, <2>3
<1> QED
  BY <1>2, <1>5, <1>6

(* So a number is an odd multiple of one level's Lsb only.                 *)
LEMMA LevelIs ==
    ASSUME NEW a \in Nat, NEW i \in Level, a % (2 * Lsb(i)) = Lsb(i)
    PROVE  level(a) = i
<1>1. ASSUME NEW j \in Level, NEW l \in Level, j < l,
             a % (2 * Lsb(j)) = Lsb(j), a % (2 * Lsb(l)) = Lsb(l)
      PROVE  FALSE
  <2>1. /\ MaxLevel - l \in 0..MaxLevel /\ MaxLevel - j \in 0..MaxLevel
        /\ MaxLevel - l < MaxLevel - j
    BY <1>1, HierarchyAssumption DEF Level
  <2> DEFINE L == Lsb(l)
             J == Lsb(j)
  <2>2. PICK q \in Nat : J = q * (2 * L)
    BY <2>1, PowersEven DEF Lsb
  <2>3. J \in Nat \ {0} /\ L \in Nat \ {0} /\ 2 * L \in Nat \ {0} /\ 0 \in 0..(2 * L - 1)
    BY LsbFacts
  <2>4. a % (2 * J) = J /\ a % (2 * L) = L
    BY <1>1
  <2> HIDE DEF L, J
  <2> DEFINE d == a \div (2 * J)
  <2>5. d \in Nat /\ a = d * (2 * J) + J
    <3> DEFINE I == 2 * J
    <3>1. I \in Nat \ {0} /\ a % I = J /\ d = a \div I
      BY <2>3, <2>4
    <3> HIDE DEF I, d
    <3>2. d \in Nat /\ a = d * I + J
      BY <3>1
    <3> QED
      BY <3>2 DEF I
  <2> HIDE DEF d
  <2> DEFINE e == (2 * d + 1) * q
             M == 2 * L
  <2>6. e \in Nat /\ a = e * M + 0
    <3>1. \A x, y, z \in Nat : x * (2 * (y * z)) + y * z = ((2 * x + 1) * y) * z
      OBVIOUS
    <3>2. \A x, y \in Nat : (2 * x + 1) * y \in Nat
      OBVIOUS
    <3>3. M \in Nat /\ J = q * M
      BY <2>2, <2>3
    <3> HIDE DEF M
    <3>4. a = d * (2 * (q * M)) + q * M
      BY <2>5, <3>3
    <3>5. a = ((2 * d + 1) * q) * M /\ (2 * d + 1) * q \in Nat
      BY <2>2, <2>5, <3>1, <3>2, <3>3, <3>4
    <3> HIDE DEF e
    <3>6. e \in Nat /\ a = e * M
      BY <3>5 DEF e
    <3> QED
      BY <3>3, <3>6
  <2> HIDE DEF e
  <2>7. (e * M + 0) % M = 0
    <3>1. M \in Nat \ {0} /\ 0 \in 0..(M - 1)
      BY <2>3
    <3> HIDE DEF M
    <3> QED
      BY <2>6, <3>1, DivMod
  <2> QED
    BY <2>3, <2>4, <2>6, <2>7
<1>2. level(a) \in Level /\ a % (2 * Lsb(level(a))) = Lsb(level(a))
  <2>1. \E l \in Level : a % (2 * Lsb(l)) = Lsb(l)
    OBVIOUS
  <2> QED
    BY <2>1 DEF level
<1>3. ~ (level(a) < i) /\ ~ (i < level(a))
  BY <1>1, <1>2
<1> QED
  BY <1>2, <1>3, HierarchyAssumption DEF Level

(* A cell is no multiple of what the cells of a coarser level are odd      *)
(* multiples of.                                                           *)
LEMMA FinerIsNoMultiple ==
    ASSUME NEW c \in Cell, NEW i \in Level, i < level(c)
    PROVE  c % (2 * Lsb(i)) # 0
<1> SUFFICES ASSUME c % (2 * Lsb(i)) = 0 PROVE FALSE
  OBVIOUS
<1> DEFINE l == level(c)
           L == Lsb(l)
           M == 2 * L
           J == Lsb(i)
           I == 2 * J
<1>1. c \in Nat /\ L \in Nat \ {0} /\ M \in Nat \ {0} /\ c % M = L
  BY CellFacts, LevelFacts, LsbFacts
<1>2. J \in Nat \ {0} /\ I \in Nat \ {0} /\ c % I = 0
  BY LsbFacts
<1>3. PICK q \in Nat : J = q * M
  <2>1. /\ MaxLevel - l \in 0..MaxLevel /\ MaxLevel - i \in 0..MaxLevel
        /\ MaxLevel - l < MaxLevel - i
    <3>1. l \in Level /\ i < l
      BY LevelFacts
    <3> HIDE DEF l
    <3> QED
      BY <3>1, HierarchyAssumption DEF Level
  <2> QED
    BY <2>1, PowersEven DEF Lsb
<1>4. I = J + J
  BY <1>2
<1> HIDE DEF I, J, M, L
<1> DEFINE d == c \div I
<1>5. d \in Nat /\ c = d * I
  <2> DEFINE m == c % I
  <2>1. d \in Nat /\ c = d * I + m
    BY <1>1, <1>2, DivModExact
  <2>2. m = 0
    BY <1>2
  <2> HIDE DEF d, m
  <2>3. d * I \in Nat
    BY <1>2, <2>1
  <2> QED
    BY <2>1, <2>2, <2>3
<1> HIDE DEF d
<1> DEFINE e == d * (q + q)
<1>6. e \in Nat /\ c = e * M + 0
  <2>1. \A x, y, z \in Nat : x * (y * z + y * z) = (x * (y + y)) * z /\ x * (y + y) \in Nat
    OBVIOUS
  <2>2. c = d * (q * M + q * M) /\ M \in Nat
    BY <1>1, <1>3, <1>4, <1>5
  <2>3. e \in Nat /\ c = e * M
    BY <1>3, <1>5, <2>1, <2>2
  <2> HIDE DEF e
  <2>4. e * M \in Nat
    BY <1>1, <2>3
  <2> QED
    BY <2>3, <2>4
<1> HIDE DEF e
<1>7. (e * M + 0) % M = 0
  <2>1. 0 \in 0..(M - 1)
    BY <1>1
  <2> QED
    BY <1>1, <1>6, <2>1, DivMod
<1> QED
  BY <1>1, <1>6, <1>7

(* The parent of c at level i, if it is one of the numbers of level i: it  *)
(* contains c.                                                             *)
LEMMA ParentFacts ==
    ASSUME NEW c \in Nat, NEW i \in Level, c % (2 * Lsb(i)) # 0
    PROVE  /\ parent(c, i) \in Nat /\ level(parent(c, i)) = i
           /\ contains(parent(c, i), c)
<1> DEFINE L == Lsb(i)
           M == 2 * L
           k == c \div M
           r == c % M
           a == parent(c, i)
<1>1. L \in Nat \ {0} /\ M \in Nat \ {0} /\ M = 2 * L
  BY LsbFacts
<1>2. r # 0 /\ a = (c - r) + L
  BY DEF parent
<1> HIDE DEF L, M
<1>3. k \in Nat /\ r \in 0..(M - 1) /\ c = k * M + r
  BY <1>1, DivModExact
<1> HIDE DEF k, r, a
<1>4. k * M \in Nat
  BY <1>1, <1>3
<1>5. a = k * M + L /\ a \in Nat
  BY <1>1, <1>3, <1>2, <1>4
<1>6. a % M = L
  <2>1. L \in 0..(M - 1)
    BY <1>1
  <2>2. (k * M + L) % M = L
    BY <1>1, <1>3, <2>1, DivMod
  <2> QED
    BY <1>5, <2>2
<1>7. level(a) = i
  BY <1>5, <1>6, LevelIs DEF L, M
<1>8. contains(a, c)
  <2>1. range_min(a) = a - (L - 1) /\ range_max(a) = a + (L - 1)
    BY <1>7 DEF range_min, range_max, L
  <2> DEFINE m == k * M
  <2>2. m \in Nat /\ c = m + r /\ a = m + L
    BY <1>3, <1>4, <1>5
  <2> HIDE DEF m
  <2>3. a - (L - 1) <= c /\ c <= a + (L - 1)
    BY <1>1, <1>3, <1>2, <2>2
  <2> QED
    BY <2>1, <2>3 DEF contains
<1> QED
  BY <1>5, <1>7, <1>8 DEF a
(* Denormalizing a cover gives cells again.                                *)
LEMMA DenormalizeFacts ==
    ASSUME NEW q \in SUBSET Cell
    PROVE  Denormalize(q, MinLevel, LevelRange) \subseteq Cell
<1>1. ASSUME NEW l \in Level PROVE NextLevel(l, MinLevel, LevelRange) \in Level
  <2> DEFINE low == IF l < MinLevel THEN MinLevel ELSE l
             rest == (MaxLevel - (low - MinLevel)) % LevelRange
  <2>1. /\ MinLevel \in Nat /\ MinLevel <= MaxLevel /\ MaxLevel \in Nat
        /\ LevelRange \in Nat \ {0} /\ l \in Nat /\ l <= MaxLevel
    BY GeoMapAssumption, HierarchyAssumption DEF Level
  <2>2. low \in Nat /\ low <= MaxLevel /\ MaxLevel - (low - MinLevel) \in Nat
    BY <2>1
  <2>3. NextLevel(l, MinLevel, LevelRange) =
          IF LevelRange <= 1 THEN low
          ELSE IF low + rest > MaxLevel THEN MaxLevel ELSE low + rest
    BY DEF NextLevel
  <2> HIDE DEF low
  <2>4. rest \in Nat
    BY <2>1, <2>2
  <2> HIDE DEF rest
  <2> QED
    BY <2>1, <2>2, <2>3, <2>4 DEF Level
<1>2. \A c \in q : CellsAt(NextLevel(level(c), MinLevel, LevelRange)) \subseteq Cell
  BY <1>1, LevelFacts DEF Cell
<1> QED
  BY <1>2 DEF Denormalize

-----------------------------------------------------------------------------
(* Merging ranges.  It keeps every range within one of the merged ones, and*)
(* covers nothing that no range covers.                                    *)
LEMMA MergeFacts ==
    ASSUME NEW rs, NEW N \in Nat,
           \A r \in rs : r[1] \in Nat /\ r[2] \in Nat /\ r[1] <= r[2] /\ r[2] < N
    PROVE  /\ \A m \in MergeRanges(rs) : /\ m[1] \in Nat /\ m[2] \in Nat
                                         /\ m[1] <= m[2] /\ m[2] < N
           /\ \A r \in rs : \E m \in MergeRanges(rs) : m[1] <= r[1] /\ r[2] <= m[2]
           /\ \A m \in MergeRanges(rs) : \A k \in m[1]..m[2] :
                 \E r \in rs : k \in r[1]..r[2]
<1> DEFINE E(a) == {r[2] : r \in From(rs, a)}
<1>1. \A s \in Starts(rs) : s \in Nat /\ \E r \in rs : r[1] = s
  BY DEF Starts
<1>2. ASSUME NEW a \in Starts(rs)
      PROVE  /\ Max(E(a)) \in E(a) /\ Max(E(a)) \in Nat /\ Max(E(a)) < N /\ a <= Max(E(a))
             /\ \A r \in From(rs, a) : r[2] <= Max(E(a))
  <2>1. PICK r0 \in rs : r0[1] = a
    BY <1>1
  <2>2. r0 \in From(rs, a)
    BY <1>1, <2>1 DEF From
  <2>3. E(a) \subseteq Nat /\ r0[2] \in E(a) /\ \A y \in E(a) : y <= N /\ y < N
    BY <2>2 DEF From
  <2>4. \A r \in From(rs, a) : r[2] \in E(a)
    OBVIOUS
  <2> HIDE DEF E
  <2>5. Max(E(a)) \in E(a) /\ \A y \in E(a) : y <= Max(E(a))
    BY <2>3, BoundedMaxFacts
  <2> QED
    BY <1>1, <2>1, <2>3, <2>5, <2>4
<1>3. MergeRanges(rs) = {<<a, Max(E(a))>> : a \in Starts(rs)}
  BY DEF MergeRanges
<1> HIDE DEF E
<1>4. ASSUME NEW m \in MergeRanges(rs)
      PROVE  m[1] \in Starts(rs) /\ m[2] = Max(E(m[1]))
  BY <1>3
<1>5. ASSUME NEW a \in Starts(rs)
      PROVE  \E m \in MergeRanges(rs) : m[1] = a /\ m[2] = Max(E(a))
  <2>1. <<a, Max(E(a))>> \in MergeRanges(rs)
    BY <1>3
  <2> QED
    BY <2>1
<1>6. ASSUME NEW r \in rs
      PROVE  \E a \in Starts(rs) : r \in From(rs, a)
  <2> DEFINE T == {s \in Starts(rs) : s <= r[1]}
             F == {q[1] : q \in rs}
  <2>1. T # {}
    <3>1. F \subseteq Nat /\ r[1] \in F
      OBVIOUS
    <3>2. PICK x \in F : \A y \in F : x <= y
      <4> HIDE DEF F
      <4> QED
        BY <3>1, LeastNat
    <3>3. x \in Starts(rs) /\ x <= r[1]
      BY <3>1, <3>2 DEF Starts
    <3> QED
      BY <3>3
  <2>2. T \subseteq Nat /\ \A y \in T : y <= r[1]
    BY <1>1
  <2>3. Max(T) \in T /\ \A y \in T : y <= Max(T)
    <3> HIDE DEF T
    <3> QED
      BY <2>1, <2>2, BoundedMaxFacts
  <2> DEFINE a == Max(T)
  <2>4. a \in Starts(rs) /\ a \in Nat /\ a <= r[1]
    BY <2>2, <2>3
  <2>5. \A s \in Starts(rs) : s <= r[1] => s <= a
    BY <2>3
  <2> HIDE DEF a
  <2>6. r \in From(rs, a)
    BY <1>1, <2>4, <2>5 DEF From
  <2> QED
    BY <2>4, <2>6
<1>7. ASSUME NEW r \in rs
      PROVE  \E m \in MergeRanges(rs) : m[1] <= r[1] /\ r[2] <= m[2]
  <2>1. PICK a \in Starts(rs) : r \in From(rs, a)
    BY <1>6
  <2>2. a <= r[1] /\ r[2] <= Max(E(a))
    BY <1>1, <1>2, <2>1 DEF From
  <2> QED
    BY <1>5, <2>2
<1>8. ASSUME NEW m \in MergeRanges(rs), NEW k \in m[1]..m[2],
             \A r \in rs : ~ (k \in r[1]..r[2])
      PROVE  FALSE
  <2> DEFINE a == m[1]
             F == {r[1] : r \in {q \in From(rs, a) : q[1] > k}}
  <2>1. a \in Starts(rs) /\ a \in Nat /\ Max(E(a)) \in E(a) /\ m[2] = Max(E(a))
        /\ k \in Nat /\ a <= k /\ k <= m[2] /\ m[2] \in Nat
    BY <1>1, <1>2, <1>4
  <2>2. \A r \in rs : r[1] > k \/ r[2] < k
    BY <1>8, <2>1
  <2>3. F # {} /\ F \subseteq Nat
    <3>1. PICK r \in From(rs, a) : r[2] = m[2]
      BY <2>1 DEF E
    <3>2. r \in rs /\ r[1] > k
      BY <2>1, <2>2, <3>1 DEF From
    <3> QED
      BY <3>1, <3>2 DEF From
  <2>4. PICK x \in F : \A y \in F : x <= y
    <3> HIDE DEF F
    <3> QED
      BY <2>3, LeastNat
  <2>5. PICK r \in From(rs, a) : r[1] = x /\ x > k
    BY <2>4
  <2>6. /\ r \in rs /\ x \in Nat /\ a < x
        /\ \A s \in Starts(rs) : ~ (a < s /\ s <= x)
    BY <2>1, <2>5 DEF From
  <2>7. x \notin Starts(rs)
    BY <2>1, <2>6
  <2>8. PICK q \in rs : q[1] < x /\ q[2] >= x
    BY <2>5, <2>6, <2>7 DEF Starts
  <2>9. q[1] > k
    BY <2>1, <2>2, <2>5, <2>6, <2>8
  <2>10. q \in From(rs, a)
    BY <1>1, <2>1, <2>6, <2>8, <2>9 DEF From
  <2> QED
    BY <2>4, <2>6, <2>8, <2>9, <2>10
<1> QED
  BY <1>1, <1>2, <1>4, <1>7, <1>8

-----------------------------------------------------------------------------
(* The filter.  The interval a key stands for has the key, and reaches     *)
(* neither down to a lesser key nor up to a greater one.                   *)
LEMMA KeyInterval ==
    ASSUME NEW keys, keys \subseteq Nat, NEW k \in keys
    PROVE  /\ Lo(keys, k) \in Nat /\ Hi(keys, k) \in Nat
           /\ Lo(keys, k) <= k /\ k <= Hi(keys, k)
           /\ \A x \in keys : x < k => x < Lo(keys, k)
           /\ \A x \in keys : k < x => Hi(keys, k) < x
<1> DEFINE u == Unit(keys, k)
<1>1. u \in Nat \ {0} /\ u \in Units /\ \A o \in keys \ {k} : o \div u # k \div u
  BY UnitFacts
<1>2. Lo(keys, k) = k - (k % u) /\ Hi(keys, k) = k - (k % u) + u - 1
  BY DEF Lo, Hi
<1> HIDE DEF u
<1> DEFINE d == k \div u
           r == k % u
<1>3. d \in Nat /\ r \in 0..(u - 1) /\ k = d * u + r /\ d * u \in Nat
  BY <1>1, DivModExact
<1>4. Lo(keys, k) = d * u /\ Hi(keys, k) = d * u + u - 1
  BY <1>1, <1>2, <1>3
<1>5. ASSUME NEW x \in keys, x < k PROVE x < d * u
  <2> DEFINE e == x \div u
             t == x % u
  <2>1. e \in Nat /\ t \in 0..(u - 1) /\ x = e * u + t /\ e * u \in Nat /\ x \in Nat
    BY <1>1, DivModExact
  <2>2. e # d
    <3>1. x \in keys \ {k}
      BY <1>5, <2>1
    <3> QED
      BY <1>1, <3>1
  <2> HIDE DEF e, t, d, r
  <2>3. ~ (d < e)
    <3> SUFFICES ASSUME d < e PROVE FALSE
      OBVIOUS
    <3>1. (d + 1) * u <= e * u /\ (d + 1) * u = d * u + u
      BY <1>1, <1>3, <2>1, BlockStarts
    <3> QED
      BY <1>1, <1>3, <1>5, <2>1, <3>1
  <2>4. (e + 1) * u <= d * u /\ (e + 1) * u = e * u + u
    BY <1>1, <1>3, <2>1, <2>2, <2>3, BlockStarts
  <2> QED
    BY <1>1, <1>3, <2>1, <2>4
<1>6. ASSUME NEW x \in keys, k < x PROVE d * u + u - 1 < x
  <2> DEFINE e == x \div u
             t == x % u
  <2>1. e \in Nat /\ t \in 0..(u - 1) /\ x = e * u + t /\ e * u \in Nat /\ x \in Nat
    BY <1>1, DivModExact
  <2>2. e # d
    <3>1. x \in keys \ {k}
      BY <1>6, <2>1
    <3> QED
      BY <1>1, <3>1
  <2> HIDE DEF e, t, d, r
  <2>3. ~ (e < d)
    <3> SUFFICES ASSUME e < d PROVE FALSE
      OBVIOUS
    <3>1. (e + 1) * u <= d * u /\ (e + 1) * u = e * u + u
      BY <1>1, <1>3, <2>1, BlockStarts
    <3> QED
      BY <1>1, <1>3, <1>6, <2>1, <3>1
  <2>4. (d + 1) * u <= e * u /\ (d + 1) * u = d * u + u
    BY <1>1, <1>3, <2>1, <2>2, <2>3, BlockStarts
  <2> QED
    BY <1>1, <1>3, <2>1, <2>4
<1>7. \A x \in keys : x < k => x < Lo(keys, k)
  BY <1>4, <1>5
<1>8. \A x \in keys : k < x => Hi(keys, k) < x
  BY <1>4, <1>6
<1> DEFINE m == d * u
<1>9. m \in Nat /\ k = m + r /\ Lo(keys, k) = m /\ Hi(keys, k) = m + u - 1
  BY <1>3, <1>4
<1>10. r \in 0..(u - 1)
  BY <1>3
<1> HIDE DEF d, r, m
<1>11. /\ Lo(keys, k) \in Nat /\ Hi(keys, k) \in Nat
       /\ Lo(keys, k) <= k /\ k <= Hi(keys, k)
  BY <1>1, <1>9, <1>10
<1> QED
  BY <1>7, <1>8, <1>11

(* The iterators: the least interval that reaches up to v, the greatest    *)
(* that starts no later than v; 0 when there is none.                      *)
LEMMA MoveFacts ==
    ASSUME NEW keys, keys \subseteq Nat, NEW v \in Nat
    PROVE  /\ moveToKeyGreaterThan(keys, v) \in Nat /\ moveToKeyLessThan(keys, v) \in Nat
           /\ \A k \in keys : Hi(keys, k) >= v =>
                 /\ moveToKeyGreaterThan(keys, v) <= Lo(keys, k)
                 /\ \E j \in keys : /\ Hi(keys, j) >= v
                                   /\ moveToKeyGreaterThan(keys, v) = Lo(keys, j)
           /\ \A k \in keys : Lo(keys, k) <= v => Lo(keys, k) <= moveToKeyLessThan(keys, v)
           /\ moveToKeyLessThan(keys, v) <= v
<1> DEFINE up == {k \in keys : Hi(keys, k) >= v}
           down == {k \in keys : Lo(keys, k) <= v}
           A == {Lo(keys, k) : k \in up}
           B == {Lo(keys, k) : k \in down}
<1>1. \A k \in keys : Lo(keys, k) \in Nat
  BY KeyInterval
<1>2. /\ A \subseteq Nat /\ B \subseteq Nat /\ \A y \in B : y <= v
      /\ up # {} => A # {}
      /\ down # {} => B # {}
  BY <1>1
<1>3. /\ moveToKeyGreaterThan(keys, v) = IF up = {} THEN 0 ELSE Min(A)
      /\ moveToKeyLessThan(keys, v) = IF down = {} THEN 0 ELSE Max(B)
  BY DEF moveToKeyGreaterThan, moveToKeyLessThan
<1>4. up # {} => Min(A) \in A /\ \A y \in A : Min(A) <= y
  <2> HIDE DEF A, up
  <2> QED
    BY <1>2, MinFacts
<1>5. down # {} => Max(B) \in B /\ \A y \in B : y <= Max(B)
  <2> HIDE DEF B, down
  <2> QED
    BY <1>2, BoundedMaxFacts
<1>6. \A k \in keys : Hi(keys, k) >= v =>
         /\ moveToKeyGreaterThan(keys, v) <= Lo(keys, k)
         /\ \E j \in keys : /\ Hi(keys, j) >= v
                           /\ moveToKeyGreaterThan(keys, v) = Lo(keys, j)
  <2> SUFFICES ASSUME NEW k \in keys, Hi(keys, k) >= v
      PROVE  /\ Min(A) <= Lo(keys, k)
             /\ \E j \in keys : Hi(keys, j) >= v /\ Min(A) = Lo(keys, j)
    BY <1>3
  <2>1. Lo(keys, k) \in A /\ up # {}
    OBVIOUS
  <2>2. Min(A) \in A /\ \A y \in A : Min(A) <= y
    BY <1>4, <2>1
  <2> QED
    BY <2>1, <2>2
<1>7. \A k \in keys : Lo(keys, k) <= v => Lo(keys, k) <= moveToKeyLessThan(keys, v)
  BY <1>3, <1>5
<1>8. moveToKeyGreaterThan(keys, v) \in Nat
  BY <1>2, <1>3, <1>4
<1>9. moveToKeyLessThan(keys, v) \in Nat /\ moveToKeyLessThan(keys, v) <= v
  BY <1>2, <1>3, <1>5
<1> QED
  BY <1>6, <1>7, <1>8, <1>9

(* containsRange gives a pair of numbers or nothing.                       *)
LEMMA ContainsRangeType ==
    ASSUME NEW keys, keys \subseteq Nat, NEW lo \in Nat, NEW hi \in Nat,
           NEW r \in containsRange(keys, lo, hi)
    PROVE  /\ r[1] \in Nat /\ r[2] \in Nat /\ r = <<r[1], r[2]>>
           /\ r[1] = moveToKeyGreaterThan(keys, lo) /\ r[2] = moveToKeyLessThan(keys, hi)
           /\ r[1] < r[2]
<1>1. /\ moveToKeyGreaterThan(keys, lo) \in Nat
      /\ moveToKeyLessThan(keys, hi) \in Nat
  BY MoveFacts
<1> QED
  BY <1>1 DEF containsRange

(* Two keys of the filter within the asked numbers give a range.  It starts*)
(* no later than any key there, and it reaches every key there but perhaps *)
(* the greatest, and of that the number that the filter has of it.         *)
LEMMA ContainsRangeFinds ==
    ASSUME NEW keys, keys \subseteq Nat, NEW lo \in Nat, NEW hi \in Nat,
           NEW x \in keys, NEW y \in keys, lo <= x, x < y, y <= hi
    PROVE  \E r \in containsRange(keys, lo, hi) :
              /\ r[1] \in Nat /\ r[2] \in Nat /\ r = <<r[1], r[2]>>
              /\ \A k \in keys : lo <= k => r[1] <= k
              /\ \A k \in keys : k < y => k < r[2]
              /\ \A k \in keys : k <= hi => Lo(keys, k) <= r[2]
<1> DEFINE a == moveToKeyGreaterThan(keys, lo)
           b == moveToKeyLessThan(keys, hi)
           r == <<a, b>>
<1>1. a \in Nat /\ b \in Nat
  BY MoveFacts
<1>2. \A k \in keys : lo <= k => a <= k
  <2> SUFFICES ASSUME NEW k \in keys, lo <= k PROVE a <= k
    OBVIOUS
  <2>1. Lo(keys, k) \in Nat /\ Hi(keys, k) \in Nat /\ Lo(keys, k) <= k /\ k <= Hi(keys, k)
    BY KeyInterval
  <2>2. \A j \in keys : Hi(keys, j) >= lo => a <= Lo(keys, j)
    BY MoveFacts
  <2>3. a <= Lo(keys, k)
    BY <2>1, <2>2
  <2> QED
    BY <1>1, <2>1, <2>3
<1>3. \A k \in keys : Lo(keys, k) <= hi => Lo(keys, k) <= b
  BY MoveFacts
<1>4. \A k \in keys : k < y => k < b
  <2> SUFFICES ASSUME NEW k \in keys, k < y PROVE k < b
    OBVIOUS
  <2>1. Lo(keys, y) \in Nat /\ Lo(keys, y) <= y /\ k < Lo(keys, y)
    BY KeyInterval
  <2>2. Lo(keys, y) <= b
    BY <1>3, <2>1
  <2> QED
    BY <1>1, <2>1, <2>2
<1>5. \A k \in keys : k <= hi => Lo(keys, k) <= b
  <2> SUFFICES ASSUME NEW k \in keys, k <= hi PROVE Lo(keys, k) <= b
    OBVIOUS
  <2>1. Lo(keys, k) \in Nat /\ Lo(keys, k) <= k /\ k \in Nat
    BY KeyInterval
  <2>2. Lo(keys, k) <= hi
    BY <2>1
  <2> QED
    BY <1>3, <2>2
<1>6. a < b
  BY <1>1, <1>2, <1>4
<1>7. r \in containsRange(keys, lo, hi)
  BY <1>6 DEF containsRange
<1>8. r[1] = a /\ r[2] = b /\ r = <<r[1], r[2]>>
  OBVIOUS
<1> HIDE DEF r, a, b
<1> QED
  BY <1>1, <1>2, <1>4, <1>5, <1>7, <1>8

-----------------------------------------------------------------------------
(* A sequence of cells is one of numbers.                                  *)
LEMMA CellsAreNumbers ==
    ASSUME NEW s \in Seq(Cell)
    PROVE  s \in Seq(Int) /\ \A i \in 1..Len(s) : s[i] \in Cell /\ s[i] \in Nat
<1>1. \A i \in 1..Len(s) : s[i] \in Cell
  OBVIOUS
<1>2. \A i \in 1..Len(s) : s[i] \in Nat
  BY <1>1, CellFacts
<1> QED
  BY <1>1, <1>2

(* A good file as the searches see it.  Block b of the cells, as far as it *)
(* is read, and the bitmaps next to it.                                    *)
LEMMA BlockFacts ==
    ASSUME NEW f, GoodFile(f), NEW b \in 0..(Len(f.cellIndex) - 1)
    PROVE  /\ b + 1 \in 1..Len(f.cells)
           /\ f.cells[b + 1] \in Seq(Int) /\ IsAscending(f.cells[b + 1])
           /\ ReadCells(f, b) = f.cells[b + 1] \/ ReadCells(f, b) = << >>
           /\ ReadBitmaps(f, b) = f.bitmaps[b + 1]
           /\ Len(f.bitmaps[b + 1]) = Len(f.cells[b + 1])
           /\ \A k \in 0..(Len(f.cells[b + 1]) - 1) :
                 /\ <<b + 1, k + 1>> \in Places(f)
                 /\ CellAt(f, <<b + 1, k + 1>>) = f.cells[b + 1][k + 1]
                 /\ IdsAt(f, <<b + 1, k + 1>>) = f.bitmaps[b + 1][k + 1]
<1> DEFINE B == b + 1
           s == f.cells[B]
           t == f.bitmaps[B]
<1>1. /\ f.cells \in Seq(Seq(Cell)) /\ f.bitmaps \in Seq(Seq(SUBSET (0..(MaxWrites - 1))))
      /\ Len(f.bitmaps) = Len(f.cells) /\ Len(f.cellIndex) = Len(f.cells)
  BY DEF GoodFile, FileType, Aligned
<1>2. B \in 1..Len(f.cells) /\ b = B - 1
  BY <1>1
<1> HIDE DEF B
<1>3. /\ Len(t) = Len(s)
      /\ BlockEntries(B - 1, BlockSize, f.cellEntries) = Len(s)
      /\ CellBlockEntries(B - 1, BlockSize, f.cellEntries) \in {0, Len(s)}
  BY <1>2 DEF GoodFile, Aligned
<1>4. s \in Seq(Cell) /\ t \in Seq(SUBSET (0..(MaxWrites - 1)))
  BY <1>1, <1>2
<1>5. s \in Seq(Int)
  BY <1>4, CellsAreNumbers
<1>6. SubSeq(s, 1, Len(s)) = s /\ SubSeq(t, 1, Len(t)) = t /\ SubSeq(s, 1, 0) = << >>
  BY <1>4
<1>7. \A k \in 1..Len(s) : <<B, k>> \in Places(f)
  <2>1. DOMAIN f.cells = 1..Len(f.cells) /\ DOMAIN s = 1..Len(s)
    BY <1>1, <1>4
  <2> QED
    BY <1>2, <2>1 DEF Places
<1>8. \A k \in 1..Len(s) : CellAt(f, <<B, k>>) = s[k] /\ IdsAt(f, <<B, k>>) = t[k]
  BY DEF CellAt, IdsAt
<1>9. IsAscending(s)
  <2> SUFFICES ASSUME NEW i \in 1..Len(s), NEW j \in 1..Len(s), i < j PROVE s[i] < s[j]
    BY DEF IsAscending
  <2>1. Before(<<B, i>>, <<B, j>>)
    BY DEF Before
  <2>2. CellAt(f, <<B, i>>) < CellAt(f, <<B, j>>)
    BY <1>7, <2>1 DEF GoodFile, Sorted
  <2> QED
    BY <1>8, <2>2
<1>10. \A k \in 0..(Len(s) - 1) : k + 1 \in 1..Len(s)
  BY <1>4
<1>11. ReadCells(f, b) = s \/ ReadCells(f, b) = << >>
  <2>1. ReadCells(f, b) = SubSeq(s, 1, CellBlockEntries(B - 1, BlockSize, f.cellEntries))
    BY <1>2 DEF ReadCells, B
  <2> QED
    BY <1>3, <1>6, <2>1
<1>12. ReadBitmaps(f, b) = t
  <2>1. ReadBitmaps(f, b) = SubSeq(t, 1, BlockEntries(B - 1, BlockSize, f.cellEntries))
    BY <1>2 DEF ReadBitmaps, B
  <2> QED
    BY <1>3, <1>6, <2>1
<1> QED
  BY <1>2, <1>3, <1>5, <1>7, <1>8, <1>9, <1>10, <1>11, <1>12 DEF B

(* A place of the file: its block in the index, its offset in the block.   *)
LEMMA PlaceOf ==
    ASSUME NEW f, GoodFile(f), NEW p \in Places(f)
    PROVE  \E b \in 0..(Len(f.cellIndex) - 1) :
           \E k \in 0..(Len(f.cells[b + 1]) - 1) :
              /\ p = <<b + 1, k + 1>> /\ p[1] = b + 1 /\ p[2] = k + 1
              /\ f.cellIndex \in Seq(Int) /\ CellAt(f, p) \in Nat
              /\ \A j \in 1..b : f.cellIndex[j] < CellAt(f, p)
              /\ f.cellIndex[b + 1] >= CellAt(f, p)
<1>1. /\ f.cells \in Seq(Seq(Cell)) /\ f.cellIndex \in Seq(Cell)
      /\ Len(f.cellIndex) = Len(f.cells)
  BY DEF GoodFile, FileType, Aligned
<1>2. PICK B \in 1..Len(f.cells) : \E K \in 1..Len(f.cells[B]) : p = <<B, K>>
  <2>1. DOMAIN f.cells = 1..Len(f.cells)
        /\ \A i \in 1..Len(f.cells) : DOMAIN f.cells[i] = 1..Len(f.cells[i])
    BY <1>1
  <2> QED
    BY <2>1 DEF Places
<1>3. PICK K \in 1..Len(f.cells[B]) : p = <<B, K>>
  BY <1>2
<1>4. \A i \in 1..Len(f.cells) : /\ f.cells[i] \in Seq(Cell) /\ Len(f.cells[i]) \in Nat \ {0}
                                 /\ f.cellIndex[i] = f.cells[i][Len(f.cells[i])]
                                 /\ <<i, Len(f.cells[i])>> \in Places(f)
  <2> SUFFICES ASSUME NEW i \in 1..Len(f.cells)
      PROVE  /\ f.cells[i] \in Seq(Cell) /\ Len(f.cells[i]) \in Nat \ {0}
             /\ f.cellIndex[i] = f.cells[i][Len(f.cells[i])]
             /\ <<i, Len(f.cells[i])>> \in Places(f)
    OBVIOUS
  <2>1. f.cells[i] \in Seq(Cell) /\ Len(f.cells[i]) # 0 /\ f.cellIndex[i] = Last(f.cells[i])
    BY <1>1 DEF GoodFile, Aligned
  <2>2. Len(f.cells[i]) \in DOMAIN f.cells[i] /\ i \in DOMAIN f.cells
    BY <1>1, <2>1
  <2> QED
    BY <2>1, <2>2 DEF Last, Places
<1>5. CellAt(f, p) = f.cells[B][K] /\ CellAt(f, p) \in Cell /\ CellAt(f, p) \in Nat
  BY <1>3, <1>4, CellsAreNumbers DEF CellAt
<1>6. \A j \in 1..(B - 1) : f.cellIndex[j] < CellAt(f, p)
  <2> SUFFICES ASSUME NEW j \in 1..(B - 1) PROVE f.cellIndex[j] < CellAt(f, p)
    OBVIOUS
  <2>1. j \in 1..Len(f.cells) /\ j < B
    BY <1>1
  <2>2. Before(<<j, Len(f.cells[j])>>, p)
    BY <1>3, <2>1 DEF Before
  <2>3. CellAt(f, <<j, Len(f.cells[j])>>) < CellAt(f, p)
    BY <1>4, <2>1, <2>2 DEF GoodFile, Sorted
  <2> QED
    BY <1>4, <2>1, <2>3 DEF CellAt
<1>7. f.cellIndex[B] >= CellAt(f, p)
  <2> DEFINE E == Len(f.cells[B])
  <2>1. f.cellIndex[B] = CellAt(f, <<B, E>>) /\ <<B, E>> \in Places(f) /\ E \in Nat
    BY <1>4 DEF CellAt
  <2>2. f.cellIndex[B] \in Nat
    BY <1>1, CellsAreNumbers
  <2>3. CASE K = E
    BY <1>3, <1>5, <2>1, <2>2, <2>3
  <2>4. CASE K < E
    <3>1. Before(p, <<B, E>>)
      BY <1>3, <2>4 DEF Before
    <3>2. CellAt(f, p) < CellAt(f, <<B, E>>)
      BY <2>1, <3>1 DEF GoodFile, Sorted
    <3> QED
      BY <1>5, <2>1, <2>2, <3>2
  <2> QED
    BY <2>1, <2>3, <2>4
<1>8. f.cellIndex \in Seq(Int)
  BY <1>1, CellsAreNumbers
<1> DEFINE b == B - 1
           k == K - 1
<1>9. /\ b \in 0..(Len(f.cellIndex) - 1) /\ b + 1 = B
      /\ k \in 0..(Len(f.cells[B]) - 1) /\ k + 1 = K
      /\ \A j \in 1..b : f.cellIndex[j] < CellAt(f, p)
  BY <1>1, <1>4, <1>6
<1> HIDE DEF b, k
<1> QED
  BY <1>3, <1>5, <1>7, <1>8, <1>9

(* Different cells lie at different places.                                *)
LEMMA PlacesInOrder ==
    ASSUME NEW f, GoodFile(f), NEW p \in Places(f), NEW q \in Places(f)
    PROVE  /\ CellAt(f, p) \in Nat /\ CellAt(f, q) \in Nat
           /\ p = q \/ CellAt(f, p) < CellAt(f, q) \/ CellAt(f, q) < CellAt(f, p)
           /\ CellAt(f, p) < CellAt(f, q) => Before(p, q)
<1>1. /\ p = <<p[1], p[2]>> /\ p[1] \in Int /\ p[2] \in Int /\ CellAt(f, p) \in Nat
  BY PlaceOf
<1>2. /\ q = <<q[1], q[2]>> /\ q[1] \in Int /\ q[2] \in Int /\ CellAt(f, q) \in Nat
  BY PlaceOf
<1>3. p = q \/ Before(p, q) \/ Before(q, p)
  BY <1>1, <1>2 DEF Before
<1>4. /\ Before(p, q) => CellAt(f, p) < CellAt(f, q)
      /\ Before(q, p) => CellAt(f, q) < CellAt(f, p)
  BY DEF GoodFile, Sorted
<1> QED
  BY <1>1, <1>2, <1>3, <1>4

-----------------------------------------------------------------------------
(* One query.  Its ranges and wanted ancestors, the blocks it visits.      *)
Ranges(f, q) == CellRanges(f, Denormalize(q, MinLevel, LevelRange))
Wanted(f, q) == CellAncestors(f, Denormalize(q, MinLevel, LevelRange))
Visits(f, q) == QueryValuesBlocks(f, Ranges(f, q), Wanted(f, q))
Ids(f, q) == UNION {queryBlockValues(f, v) : v \in Visits(f, q)}

(* The ranges are pairs of numbers.                                        *)
LEMMA RangesType ==
    ASSUME NEW f, GoodFile(f), NEW q \in SUBSET Cell, NEW r \in Ranges(f, q)
    PROVE  /\ r[1] \in Nat /\ r[2] \in Nat /\ r = <<r[1], r[2]>>
           /\ \E c \in Denormalize(q, MinLevel, LevelRange) :
                 r \in containsRange(f.filter, range_min(c), range_max(c))
<1>1. PICK c \in Denormalize(q, MinLevel, LevelRange) :
         r \in containsRange(f.filter, range_min(c), range_max(c))
  BY DEF Ranges, CellRanges
<1>2. c \in Cell
  BY DenormalizeFacts
<1>3. range_min(c) \in Nat /\ range_max(c) \in Nat
  BY <1>2, RangeFacts
<1>4. f.filter \subseteq Nat
  BY CellFacts DEF GoodFile, FileType
<1> QED
  BY <1>1, <1>3, <1>4, ContainsRangeType

(* The wanted ancestors: numbers of cells that contain a query cell, at the*)
(* levels of the index.                                                    *)
LEMMA WantedFacts ==
    ASSUME NEW f, GoodFile(f), NEW q \in SUBSET Cell, NEW a \in Wanted(f, q)
    PROVE  /\ a \in Nat /\ filterContains(f.filter, a)
           /\ \E c \in Denormalize(q, MinLevel, LevelRange) :
                 /\ contains(a, c) /\ level(a) \in MinLevel..(level(c) - 1)
                 /\ (level(c) - level(a)) % LevelRange = 0
<1>1. PICK c \in Denormalize(q, MinLevel, LevelRange) :
         \E i \in AncestorLevels(level(c)) : a = parent(c, i)
  BY DEF Wanted, CellAncestors, Ancestors
<1>2. PICK i \in AncestorLevels(level(c)) : a = parent(c, i)
  BY <1>1
<1>3. c \in Cell /\ c \in Nat
  BY DenormalizeFacts, CellFacts
<1> DEFINE l == level(c)
<1>4. l \in Level /\ i \in Level /\ i < l /\ i \in MinLevel..(l - 1) /\ (l - i) % LevelRange = 0
  <2>1. l \in Level /\ MinLevel \in Level /\ MaxLevel \in Nat
    BY <1>3, LevelFacts, GeoMapAssumption, HierarchyAssumption
  <2>2. i \in MinLevel..(l - 1) /\ (l - i) % LevelRange = 0
    BY <1>2 DEF AncestorLevels
  <2> HIDE DEF l
  <2> QED
    BY <2>1, <2>2 DEF Level
<1>5. c % (2 * Lsb(i)) # 0
  BY <1>3, <1>4, FinerIsNoMultiple
<1>6. a \in Nat /\ level(a) = i /\ contains(a, c)
  BY <1>2, <1>3, <1>4, <1>5, ParentFacts
<1> QED
  BY <1>4, <1>6 DEF Wanted, CellAncestors

(* A visit is of one block, with ranges and values that lead there.        *)
LEMMA VisitFacts ==
    ASSUME NEW f, NEW q, NEW v \in Visits(f, q)
    PROVE  /\ v.blockId \in 0..(Len(f.cellIndex) - 1)
           /\ v.ranges \subseteq Ranges(f, q) /\ v.values \subseteq Wanted(f, q)
           /\ \A a \in v.values : v.blockId \in findBlockValue(f.cellIndex, a)
  BY DEF Visits, QueryValuesBlocks

(* Wherever a range or a value leads to, there is a visit with it.         *)
LEMMA RangeVisited ==
    ASSUME NEW f, NEW q, NEW r \in Ranges(f, q),
           NEW b \in 0..(Len(f.cellIndex) - 1), b \in findBlockRange(f.cellIndex, r)
    PROVE  \E v \in Visits(f, q) : v.blockId = b /\ r \in v.ranges
<1> DEFINE rangesIn(d) == {s \in Ranges(f, q) : d \in findBlockRange(f.cellIndex, s)}
           valuesIn(d) == {a \in Wanted(f, q) : d \in findBlockValue(f.cellIndex, a)}
           v == [blockId |-> b, ranges |-> rangesIn(b), values |-> valuesIn(b)]
<1>1. r \in rangesIn(b)
  OBVIOUS
<1>2. Visits(f, q) = {[blockId |-> d, ranges |-> rangesIn(d), values |-> valuesIn(d)] :
                        d \in {e \in 0..(Len(f.cellIndex) - 1) :
                                  rangesIn(e) # {} \/ valuesIn(e) # {}}}
  BY DEF Visits, QueryValuesBlocks
<1> HIDE DEF rangesIn, valuesIn
<1>3. v \in Visits(f, q)
  BY <1>1, <1>2
<1> QED
  BY <1>1, <1>3

(* The block a wanted value is looked up in is visited with that value.    *)
LEMMA ValueVisited ==
    ASSUME NEW f, NEW q, NEW a \in Wanted(f, q),
           NEW b \in 0..(Len(f.cellIndex) - 1), b \in findBlockValue(f.cellIndex, a)
    PROVE  \E v \in Visits(f, q) : v.blockId = b /\ a \in v.values
<1> DEFINE rangesIn(d) == {s \in Ranges(f, q) : d \in findBlockRange(f.cellIndex, s)}
           valuesIn(d) == {x \in Wanted(f, q) : d \in findBlockValue(f.cellIndex, x)}
           v == [blockId |-> b, ranges |-> rangesIn(b), values |-> valuesIn(b)]
<1>1. a \in valuesIn(b)
  OBVIOUS
<1>2. Visits(f, q) = {[blockId |-> d, ranges |-> rangesIn(d), values |-> valuesIn(d)] :
                        d \in {e \in 0..(Len(f.cellIndex) - 1) :
                                  rangesIn(e) # {} \/ valuesIn(e) # {}}}
  BY DEF Visits, QueryValuesBlocks
<1> HIDE DEF rangesIn, valuesIn
<1>3. v \in Visits(f, q)
  BY <1>1, <1>2
<1> QED
  BY <1>1, <1>3

(* The offsets a visit takes for its ranges lie in the block; merged, they *)
(* are those of the single ranges.                                         *)
LEMMA IndexRangesFacts ==
    ASSUME NEW f, GoodFile(f), NEW q \in SUBSET Cell, NEW v \in Visits(f, q)
    PROVE  /\ \A m \in IndexRanges(f, v) :
                 /\ m[1] \in Nat /\ m[2] \in Nat /\ m[1] <= m[2]
                 /\ m[2] < Len(ReadCells(f, v.blockId))
           /\ \A r \in v.ranges : \A x \in rangeIndexes(ReadCells(f, v.blockId), r) :
                 \E m \in IndexRanges(f, v) : m[1] <= x[1] /\ x[2] <= m[2]
           /\ \A m \in IndexRanges(f, v) : \A k \in m[1]..m[2] :
                 \E r \in v.ranges : \E x \in rangeIndexes(ReadCells(f, v.blockId), r) :
                    k \in x[1]..x[2]
           /\ \A r \in v.ranges : \A x \in rangeIndexes(ReadCells(f, v.blockId), r) :
                 x[1] \in Nat /\ x[2] \in Nat
<1> DEFINE s == ReadCells(f, v.blockId)
           rs == UNION {rangeIndexes(s, r) : r \in v.ranges}
<1>1. s \in Seq(Int) /\ IsAscending(s)
  <2>1. << >> \in Seq(Int) /\ IsAscending(<< >>)
    BY DEF IsAscending
  <2> QED
    BY <2>1, VisitFacts, BlockFacts
<1>2. Len(s) \in Nat
  BY <1>1
<1>3. \A x \in rs : x[1] \in Nat /\ x[2] \in Nat /\ x[1] <= x[2] /\ x[2] < Len(s)
  <2> SUFFICES ASSUME NEW r \in v.ranges, NEW x \in rangeIndexes(s, r)
      PROVE  x[1] \in Nat /\ x[2] \in Nat /\ x[1] <= x[2] /\ x[2] < Len(s)
    OBVIOUS
  <2>1. r \in Ranges(f, q)
    BY VisitFacts
  <2>2. r[1] \in Int /\ r[2] \in Int /\ r = <<r[1], r[2]>>
    BY <2>1, RangesType
  <2> HIDE DEF s
  <2>3. x \in rangeIndexes(s, <<r[1], r[2]>>)
    BY <2>2
  <2> QED
    BY <1>1, <2>2, <2>3, RangeOffsetsTaken
<1>4. IndexRanges(f, v) = MergeRanges(rs)
  <2>1. IndexRanges(f, v) = UNION {MergeRanges(y) : y \in {rs}}
    BY DEF IndexRanges, queryValueRangesIndexes
  <2> HIDE DEF rs
  <2> QED
    BY <2>1
<1>5. \A x : x \in rs <=> \E r \in v.ranges : x \in rangeIndexes(s, r)
  OBVIOUS
<1> HIDE DEF s, rs
<1>6. /\ \A m \in MergeRanges(rs) : /\ m[1] \in Nat /\ m[2] \in Nat
                                    /\ m[1] <= m[2] /\ m[2] < Len(s)
      /\ \A r \in rs : \E m \in MergeRanges(rs) : m[1] <= r[1] /\ r[2] <= m[2]
      /\ \A m \in MergeRanges(rs) : \A k \in m[1]..m[2] :
            \E r \in rs : k \in r[1]..r[2]
  BY <1>2, <1>3, MergeFacts
<1> QED
  BY <1>3, <1>4, <1>5, <1>6 DEF s

(* No visit's ranges make readIndexRanges throw.                           *)
LEMMA NoBadRange ==
    ASSUME NEW f, GoodFile(f), NEW q \in SUBSET Cell, NEW v \in Visits(f, q)
    PROVE  ~ BadRange(f, v)
<1> SUFFICES ASSUME NEW m \in IndexRanges(f, v)
    PROVE  m[1] <= m[2] /\ m[2] < Len(ReadBitmaps(f, v.blockId)) /\ m[1] \in Nat /\ m[2] \in Nat
                        /\ Len(ReadBitmaps(f, v.blockId)) \in Nat
  BY DEF BadRange
<1>1. v.blockId \in 0..(Len(f.cellIndex) - 1)
  BY VisitFacts
<1> DEFINE s == ReadCells(f, v.blockId)
           t == ReadBitmaps(f, v.blockId)
           u == f.cells[v.blockId + 1]
<1>2. (s = u \/ s = << >>) /\ Len(t) = Len(u) /\ u \in Seq(Int)
  BY <1>1, BlockFacts
<1>3. m[1] \in Nat /\ m[2] \in Nat /\ m[1] <= m[2] /\ m[2] < Len(s)
  BY IndexRangesFacts
<1> HIDE DEF s, t, u
<1>4. Len(s) <= Len(t) /\ Len(s) \in Nat /\ Len(t) \in Nat
  BY <1>2
<1> QED
  BY <1>3, <1>4 DEF t

(* What offset k of a readable block has is read if a range or a value     *)
(* leads to it, and nothing else is.                                       *)
Taken(f, v, k) ==
    \/ \E r \in v.ranges : \E x \in rangeIndexes(ReadCells(f, v.blockId), r) : k \in x[1]..x[2]
    \/ k \in queryValueIndexes(ReadCells(f, v.blockId), v.values)

(* The bitmap at an offset that a visit takes is part of the answer.       *)
LEMMA TakenIsRead ==
    ASSUME NEW f, GoodFile(f), NEW q \in SUBSET Cell, NEW v \in Visits(f, q),
           NEW k \in Int, Taken(f, v, k)
    PROVE  ReadBitmaps(f, v.blockId)[k + 1] \subseteq Ids(f, q)
<1> DEFINE offsets == queryValueIndexes(ReadCells(f, v.blockId), v.values)
                      \cup UNION {m[1]..m[2] : m \in IndexRanges(f, v)}
<1>1. k \in offsets
  <2>1. CASE k \in queryValueIndexes(ReadCells(f, v.blockId), v.values)
    BY <2>1
  <2>2. ASSUME NEW r \in v.ranges, NEW x \in rangeIndexes(ReadCells(f, v.blockId), r),
               k \in x[1]..x[2]
        PROVE  k \in offsets
    <3>1. x[1] \in Nat /\ x[2] \in Nat
      BY IndexRangesFacts
    <3>2. PICK m \in IndexRanges(f, v) : m[1] <= x[1] /\ x[2] <= m[2]
      BY IndexRangesFacts
    <3>3. m[1] \in Nat /\ m[2] \in Nat
      BY IndexRangesFacts
    <3>4. k \in m[1]..m[2]
      BY <2>2, <3>1, <3>2, <3>3
    <3> QED
      BY <3>4
  <2> QED
    BY <2>1, <2>2 DEF Taken
<1>2. queryBlockValues(f, v) = UNION {ReadBitmaps(f, v.blockId)[i + 1] : i \in offsets}
  BY DEF queryBlockValues
<1> HIDE DEF offsets
<1>3. ReadBitmaps(f, v.blockId)[k + 1] \subseteq queryBlockValues(f, v)
  BY <1>1, <1>2
<1> QED
  BY <1>3 DEF Ids

(* And every id of the answer comes from an offset that a visit takes.     *)
LEMMA ReadIsTaken ==
    ASSUME NEW f, GoodFile(f), NEW q \in SUBSET Cell, NEW id \in Ids(f, q)
    PROVE  \E v \in Visits(f, q) : \E k \in 0..(Len(ReadCells(f, v.blockId)) - 1) :
              Taken(f, v, k) /\ id \in ReadBitmaps(f, v.blockId)[k + 1]
<1>1. PICK v \in Visits(f, q) : id \in queryBlockValues(f, v)
  BY DEF Ids
<1> DEFINE s == ReadCells(f, v.blockId)
<1>2. PICK k \in queryValueIndexes(s, v.values) \cup UNION {m[1]..m[2] : m \in IndexRanges(f, v)} :
         id \in ReadBitmaps(f, v.blockId)[k + 1]
  BY <1>1 DEF queryBlockValues
<1>3. Taken(f, v, k)
  <2>1. CASE k \in queryValueIndexes(s, v.values)
    BY <2>1 DEF Taken
  <2>2. ASSUME NEW m \in IndexRanges(f, v), k \in m[1]..m[2] PROVE Taken(f, v, k)
    <3>1. \E r \in v.ranges : \E x \in rangeIndexes(s, r) : k \in x[1]..x[2]
      BY <2>2, IndexRangesFacts
    <3> QED
      BY <3>1 DEF Taken
  <2> QED
    BY <1>2, <2>1, <2>2
<1>4. k \in 0..(Len(s) - 1)
  <2>1. s \in Seq(Int) /\ Len(s) \in Nat
    <3>1. << >> \in Seq(Int)
      OBVIOUS
    <3>2. s \in Seq(Int)
      BY <3>1, VisitFacts, BlockFacts
    <3> HIDE DEF s
    <3> QED
      BY <3>2
  <2>2. CASE k \in queryValueIndexes(s, v.values)
    <3>1. PICK a \in v.values : k = LowerBound(s, a) /\ k < Len(s)
      BY <2>2 DEF queryValueIndexes
    <3>2. a \in Int
      BY VisitFacts, WantedFacts
    <3>3. LowerBound(s, a) \in 0..Len(s)
      BY <2>1, <3>2, LowerBoundFacts
    <3> QED
      BY <2>1, <3>1, <3>3
  <2>3. ASSUME NEW m \in IndexRanges(f, v), k \in m[1]..m[2] PROVE k \in 0..(Len(s) - 1)
    <3>1. m[1] \in Nat /\ m[2] \in Nat /\ m[2] < Len(s)
      BY IndexRangesFacts
    <3> HIDE DEF s
    <3> QED
      BY <2>1, <2>3, <3>1
  <2> QED
    BY <1>2, <2>2, <2>3
<1> QED
  BY <1>2, <1>3, <1>4

-----------------------------------------------------------------------------
(* What a query reads.  An id of the answer is one of a place whose block  *)
(* is read and whose offset a range or a value leads to.                   *)
LEMMA IdIsRead ==
    ASSUME NEW f, GoodFile(f), NEW q \in SUBSET Cell, NEW id \in Ids(f, q)
    PROVE  \E v \in Visits(f, q) : \E k \in 0..(Len(f.cells[v.blockId + 1]) - 1) :
              /\ v.blockId \in 0..(Len(f.cellIndex) - 1)
              /\ ReadCells(f, v.blockId) = f.cells[v.blockId + 1]
              /\ Taken(f, v, k)
              /\ <<v.blockId + 1, k + 1>> \in Places(f)
              /\ id \in IdsAt(f, <<v.blockId + 1, k + 1>>)
<1>1. PICK v \in Visits(f, q) : \E k \in 0..(Len(ReadCells(f, v.blockId)) - 1) :
              Taken(f, v, k) /\ id \in ReadBitmaps(f, v.blockId)[k + 1]
  BY ReadIsTaken
<1>2. PICK k \in 0..(Len(ReadCells(f, v.blockId)) - 1) :
              Taken(f, v, k) /\ id \in ReadBitmaps(f, v.blockId)[k + 1]
  BY <1>1
<1>3. v.blockId \in 0..(Len(f.cellIndex) - 1)
  BY VisitFacts
<1>4. ReadCells(f, v.blockId) = f.cells[v.blockId + 1]
  <2>1. CASE ReadCells(f, v.blockId) = << >>
    <3>1. Len(ReadCells(f, v.blockId)) = 0
      BY <2>1
    <3> QED
      BY <3>1
  <2> QED
    BY <1>3, <2>1, BlockFacts
<1>5. k \in 0..(Len(f.cells[v.blockId + 1]) - 1)
  BY <1>4
<1>6. /\ <<v.blockId + 1, k + 1>> \in Places(f)
      /\ id \in IdsAt(f, <<v.blockId + 1, k + 1>>)
  <2> DEFINE b == v.blockId
  <2>1. /\ b \in 0..(Len(f.cellIndex) - 1) /\ k \in 0..(Len(f.cells[b + 1]) - 1)
        /\ id \in ReadBitmaps(f, b)[k + 1]
    BY <1>2, <1>3, <1>5
  <2> HIDE DEF b
  <2>2. /\ ReadBitmaps(f, b) = f.bitmaps[b + 1]
        /\ \A i \in 0..(Len(f.cells[b + 1]) - 1) :
              /\ <<b + 1, i + 1>> \in Places(f)
              /\ IdsAt(f, <<b + 1, i + 1>>) = f.bitmaps[b + 1][i + 1]
    BY <2>1, BlockFacts
  <2>3. <<b + 1, k + 1>> \in Places(f) /\ id \in IdsAt(f, <<b + 1, k + 1>>)
    BY <2>1, <2>2
  <2> QED
    BY <2>3 DEF b
<1> QED
  BY <1>2, <1>3, <1>4, <1>5, <1>6

(* Ids of an answer are numbers of stored keys.                            *)
LEMMA IdsFacts ==
    ASSUME NEW f, GoodFile(f), NEW q \in SUBSET Cell
    PROVE  Ids(f, q) \subseteq 0..(f.keyEntries - 1)
<1> SUFFICES ASSUME NEW id \in Ids(f, q) PROVE id \in 0..(f.keyEntries - 1)
  OBVIOUS
<1>1. \E p \in Places(f) : id \in IdsAt(f, p)
  BY IdIsRead
<1> QED
  BY <1>1 DEF GoodFile

(* The block of a readable place is read as it is.                         *)
LEMMA ReadableFacts ==
    ASSUME NEW f, GoodFile(f), NEW p \in Places(f), Readable(f, p)
    PROVE  \E b \in 0..(Len(f.cellIndex) - 1), k \in Int :
              /\ k \in 0..(Len(f.cells[b + 1]) - 1)
              /\ p = <<b + 1, k + 1>> /\ p[1] = b + 1 /\ p[2] = k + 1
              /\ f.cellIndex \in Seq(Int)
              /\ \A j \in 1..b : f.cellIndex[j] < CellAt(f, p)
              /\ f.cellIndex[b + 1] >= CellAt(f, p)
              /\ ReadCells(f, b) = f.cells[b + 1]
              /\ f.cells[b + 1] \in Seq(Int) /\ IsAscending(f.cells[b + 1])
              /\ f.cells[b + 1][k + 1] = CellAt(f, p)
              /\ ReadBitmaps(f, b)[k + 1] = IdsAt(f, p)
<1>1. PICK b \in 0..(Len(f.cellIndex) - 1) :
        \E k \in 0..(Len(f.cells[b + 1]) - 1) :
              /\ p = <<b + 1, k + 1>> /\ p[1] = b + 1 /\ p[2] = k + 1
              /\ f.cellIndex \in Seq(Int)
              /\ \A j \in 1..b : f.cellIndex[j] < CellAt(f, p)
              /\ f.cellIndex[b + 1] >= CellAt(f, p)
  BY PlaceOf
<1>2. PICK k \in 0..(Len(f.cells[b + 1]) - 1) :
              /\ p = <<b + 1, k + 1>> /\ p[1] = b + 1 /\ p[2] = k + 1
              /\ f.cellIndex \in Seq(Int)
              /\ \A j \in 1..b : f.cellIndex[j] < CellAt(f, p)
              /\ f.cellIndex[b + 1] >= CellAt(f, p)
  BY <1>1
<1>3. /\ f.cells[b + 1] \in Seq(Int) /\ IsAscending(f.cells[b + 1])
      /\ ReadCells(f, b) = f.cells[b + 1] \/ ReadCells(f, b) = << >>
      /\ f.cells[b + 1][k + 1] = CellAt(f, p)
      /\ ReadBitmaps(f, b)[k + 1] = IdsAt(f, p)
  <2>1. /\ f.cells[b + 1] \in Seq(Int) /\ IsAscending(f.cells[b + 1])
        /\ ReadCells(f, b) = f.cells[b + 1] \/ ReadCells(f, b) = << >>
        /\ ReadBitmaps(f, b) = f.bitmaps[b + 1]
        /\ \A i \in 0..(Len(f.cells[b + 1]) - 1) :
              /\ CellAt(f, <<b + 1, i + 1>>) = f.cells[b + 1][i + 1]
              /\ IdsAt(f, <<b + 1, i + 1>>) = f.bitmaps[b + 1][i + 1]
    BY BlockFacts, SMTT(30)
  <2>2. /\ CellAt(f, <<b + 1, k + 1>>) = f.cells[b + 1][k + 1]
        /\ IdsAt(f, <<b + 1, k + 1>>) = f.bitmaps[b + 1][k + 1]
    BY <2>1
  <2> QED
    BY <1>2, <2>1, <2>2
<1>4. ReadCells(f, b) = f.cells[b + 1]
  <2>1. p[1] - 1 = b
    BY <1>2
  <2>2. Len(ReadCells(f, b)) = Len(f.cells[b + 1])
    BY <1>2, <2>1 DEF Readable
  <2>3. Len(f.cells[b + 1]) # 0 /\ Len(<< >>) = 0
    OBVIOUS
  <2> QED
    BY <1>3, <2>2, <2>3
<1>5. /\ k \in 0..(Len(f.cells[b + 1]) - 1)
      /\ p = <<b + 1, k + 1>> /\ p[1] = b + 1 /\ p[2] = k + 1
      /\ f.cellIndex \in Seq(Int)
      /\ \A j \in 1..b : f.cellIndex[j] < CellAt(f, p)
      /\ f.cellIndex[b + 1] >= CellAt(f, p)
      /\ ReadCells(f, b) = f.cells[b + 1]
      /\ f.cells[b + 1] \in Seq(Int) /\ IsAscending(f.cells[b + 1])
      /\ f.cells[b + 1][k + 1] = CellAt(f, p)
      /\ ReadBitmaps(f, b)[k + 1] = IdsAt(f, p)
  BY <1>2, <1>3, <1>4
<1>6. k \in Int
  OBVIOUS
<1>7. WITNESS b \in 0..(Len(f.cellIndex) - 1), k \in Int
<1> QED
  BY <1>5

(* A wanted value that is stored is found.                                 *)
LEMMA ValueFound ==
    ASSUME NEW f, GoodFile(f), NEW q \in SUBSET Cell,
           NEW p \in Places(f), Readable(f, p), CellAt(f, p) \in Wanted(f, q)
    PROVE  IdsAt(f, p) \subseteq Ids(f, q)
<1> DEFINE a == CellAt(f, p)
<1>1. PICK b \in 0..(Len(f.cellIndex) - 1), k \in Int :
              /\ k \in 0..(Len(f.cells[b + 1]) - 1)
              /\ f.cellIndex \in Seq(Int)
              /\ \A j \in 1..b : f.cellIndex[j] < a
              /\ f.cellIndex[b + 1] >= a
              /\ ReadCells(f, b) = f.cells[b + 1]
              /\ f.cells[b + 1] \in Seq(Int) /\ IsAscending(f.cells[b + 1])
              /\ f.cells[b + 1][k + 1] = a
              /\ ReadBitmaps(f, b)[k + 1] = IdsAt(f, p)
  BY ReadableFacts
<1>2. a \in Nat
  BY WantedFacts
<1> HIDE DEF a
<1>3. findBlockValue(f.cellIndex, a) = {b}
  <2> DEFINE maxes == f.cellIndex
  <2>1. /\ maxes \in Seq(Int) /\ b \in 0..(Len(maxes) - 1) /\ a \in Int
        /\ \A j \in 1..b : maxes[j] < a
        /\ maxes[b + 1] >= a
    BY <1>1, <1>2
  <2> HIDE DEF maxes
  <2>2. findBlockValue(maxes, a) = {b}
    BY <2>1, ValueBlockIs
  <2> QED
    BY <2>2 DEF maxes
<1>4. PICK v \in Visits(f, q) : v.blockId = b /\ a \in v.values
  BY <1>3, ValueVisited DEF a
<1>5. queryValueIndexes(f.cells[b + 1], {a}) = {k}
  BY <1>1, ValueOffsetIs
<1>6. k \in queryValueIndexes(f.cells[b + 1], v.values)
  BY <1>4, <1>5 DEF queryValueIndexes
<1>7. Taken(f, v, k)
  BY <1>1, <1>4, <1>6 DEF Taken
<1> QED
  BY <1>1, <1>4, <1>7, TakenIsRead

(* A stored cell within one of the ranges is found.                        *)
LEMMA RangeFound ==
    ASSUME NEW f, GoodFile(f), NEW q \in SUBSET Cell,
           NEW p \in Places(f), Readable(f, p),
           NEW r \in Ranges(f, q), r[1] <= CellAt(f, p), CellAt(f, p) <= r[2]
    PROVE  IdsAt(f, p) \subseteq Ids(f, q)
<1> DEFINE a == CellAt(f, p)
<1>1. PICK b \in 0..(Len(f.cellIndex) - 1), k \in Int :
              /\ k \in 0..(Len(f.cells[b + 1]) - 1)
              /\ f.cellIndex \in Seq(Int)
              /\ \A j \in 1..b : f.cellIndex[j] < a
              /\ f.cellIndex[b + 1] >= a
              /\ ReadCells(f, b) = f.cells[b + 1]
              /\ f.cells[b + 1] \in Seq(Int) /\ IsAscending(f.cells[b + 1])
              /\ f.cells[b + 1][k + 1] = a
              /\ ReadBitmaps(f, b)[k + 1] = IdsAt(f, p)
  BY ReadableFacts
<1>2. a \in Nat
  BY PlacesInOrder
<1>3. r[1] \in Int /\ r[2] \in Int /\ r = <<r[1], r[2]>> /\ r[1] <= a /\ a <= r[2]
  BY RangesType
<1> HIDE DEF a
<1>4. b \in findBlockRange(f.cellIndex, <<r[1], r[2]>>)
  <2> DEFINE maxes == f.cellIndex
             lo == r[1]
             hi == r[2]
  <2>1. /\ maxes \in Seq(Int) /\ b \in 0..(Len(maxes) - 1) /\ a \in Int
        /\ \A j \in 1..b : maxes[j] < a
        /\ maxes[b + 1] >= a
        /\ lo \in Int /\ hi \in Int /\ lo <= a /\ a <= hi
    BY <1>1, <1>2, <1>3
  <2> HIDE DEF maxes, lo, hi
  <2>2. b \in findBlockRange(maxes, <<lo, hi>>)
    BY <2>1, RangeBlocksInclude
  <2> QED
    BY <2>2 DEF maxes, lo, hi
<1>5. PICK v \in Visits(f, q) : v.blockId = b /\ r \in v.ranges
  BY <1>3, <1>4, RangeVisited
<1>6. \E x \in rangeIndexes(f.cells[b + 1], <<r[1], r[2]>>) : k \in x[1]..x[2]
  BY <1>1, <1>3, RangeOffsetsInclude
<1>7. Taken(f, v, k)
  BY <1>1, <1>3, <1>5, <1>6 DEF Taken
<1> QED
  BY <1>1, <1>5, <1>7, TakenIsRead

(* So is the cell behind one of these in its block.                        *)
LEMMA BehindFound ==
    ASSUME NEW f, GoodFile(f), NEW q \in SUBSET Cell,
           NEW p \in Places(f), Readable(f, p), p[2] # 1,
           NEW r \in Ranges(f, q),
           r[1] <= CellAt(f, <<p[1], p[2] - 1>>), CellAt(f, <<p[1], p[2] - 1>>) <= r[2]
    PROVE  IdsAt(f, p) \subseteq Ids(f, q)
<1> DEFINE o == <<p[1], p[2] - 1>>
           a == CellAt(f, o)
<1>1. PICK b \in 0..(Len(f.cellIndex) - 1), k \in Int :
              /\ k \in 0..(Len(f.cells[b + 1]) - 1)
              /\ p = <<b + 1, k + 1>> /\ p[1] = b + 1 /\ p[2] = k + 1
              /\ f.cellIndex \in Seq(Int)
              /\ \A j \in 1..b : f.cellIndex[j] < CellAt(f, p)
              /\ f.cellIndex[b + 1] >= CellAt(f, p)
              /\ ReadCells(f, b) = f.cells[b + 1]
              /\ f.cells[b + 1] \in Seq(Int) /\ IsAscending(f.cells[b + 1])
              /\ f.cells[b + 1][k + 1] = CellAt(f, p)
              /\ ReadBitmaps(f, b)[k + 1] = IdsAt(f, p)
  BY ReadableFacts
<1>2. k \in 1..(Len(f.cells[b + 1]) - 1) /\ o = <<b + 1, k>>
  BY <1>1
<1>3. o \in Places(f)
  <2> DEFINE j == k - 1
  <2>1. j \in 0..(Len(f.cells[b + 1]) - 1) /\ j + 1 = k
    BY <1>2
  <2> HIDE DEF j
  <2>2. <<b + 1, j + 1>> \in Places(f)
    BY <2>1, BlockFacts
  <2> QED
    BY <1>2, <2>1, <2>2
<1>4. /\ a \in Nat /\ f.cells[b + 1][k] = a
      /\ \A j \in 1..b : f.cellIndex[j] < a
      /\ f.cellIndex[b + 1] >= a
  <2>1. f.cells[b + 1][k] = a
    BY <1>2 DEF CellAt
  <2>2. PICK c \in 0..(Len(f.cellIndex) - 1) :
            /\ o[1] = c + 1 /\ CellAt(f, o) \in Nat
            /\ \A j \in 1..c : f.cellIndex[j] < CellAt(f, o)
            /\ f.cellIndex[c + 1] >= CellAt(f, o)
    BY <1>3, PlaceOf
  <2>3. c = b
    BY <1>2, <2>2
  <2> QED
    BY <2>1, <2>2, <2>3
<1>5. r[1] \in Int /\ r[2] \in Int /\ r = <<r[1], r[2]>> /\ r[1] <= a /\ a <= r[2]
  BY RangesType
<1> HIDE DEF a, o
<1>6. b \in findBlockRange(f.cellIndex, <<r[1], r[2]>>)
  <2> DEFINE maxes == f.cellIndex
             lo == r[1]
             hi == r[2]
  <2>1. /\ maxes \in Seq(Int) /\ b \in 0..(Len(maxes) - 1) /\ a \in Int
        /\ \A j \in 1..b : maxes[j] < a
        /\ maxes[b + 1] >= a
        /\ lo \in Int /\ hi \in Int /\ lo <= a /\ a <= hi
    BY <1>1, <1>4, <1>5, SMTT(30)
  <2> HIDE DEF maxes, lo, hi
  <2>2. b \in findBlockRange(maxes, <<lo, hi>>)
    BY <2>1, RangeBlocksInclude
  <2> QED
    BY <2>2 DEF maxes, lo, hi
<1>7. PICK v \in Visits(f, q) : v.blockId = b /\ r \in v.ranges
  BY <1>5, <1>6, RangeVisited
<1>8. \E x \in rangeIndexes(f.cells[b + 1], <<r[1], r[2]>>) : k \in x[1]..x[2]
  BY <1>1, <1>2, <1>4, <1>5, RangeOffsetsBehind
<1>9. Taken(f, v, k)
  BY <1>1, <1>5, <1>7, <1>8 DEF Taken
<1> QED
  BY <1>1, <1>7, <1>9, TakenIsRead

(* The place before a place in its block.                                  *)
LEMMA PlaceBefore ==
    ASSUME NEW f, GoodFile(f), NEW p \in Places(f), p[2] # 1
    PROVE  /\ <<p[1], p[2] - 1>> \in Places(f) /\ p[1] \in Int /\ p[2] \in Int
           /\ <<p[1], p[2] - 1>>[1] = p[1] /\ <<p[1], p[2] - 1>>[2] = p[2] - 1
<1>1. PICK b \in 0..(Len(f.cellIndex) - 1), k \in Int :
         k \in 0..(Len(f.cells[b + 1]) - 1) /\ p[1] = b + 1 /\ p[2] = k + 1
  BY PlaceOf
<1> DEFINE j == k - 1
<1>2. j \in 0..(Len(f.cells[b + 1]) - 1) /\ j + 1 = p[2] - 1
  BY <1>1
<1> HIDE DEF j
<1>3. <<b + 1, j + 1>> \in Places(f)
  BY <1>2, BlockFacts
<1> QED
  BY <1>1, <1>2, <1>3

(* A hit of a range search in a readable block that is not the only one is *)
(* found, but for the greatest hit of a query cell at the start of a block,*)
(* and this only if the filter has cut it.                                 *)
LEMMA RangeHitFound ==
    ASSUME NEW f, GoodFile(f), NEW q \in SUBSET Cell,
           NEW c \in Denormalize(q, MinLevel, LevelRange),
           NEW p \in Places(f), contains(c, CellAt(f, p)), Readable(f, p),
           NEW o \in Places(f), contains(c, CellAt(f, o)), o # p
    PROVE  \/ IdsAt(f, p) \subseteq Ids(f, q)
           \/ /\ p[2] = 1 /\ Lo(f.filter, CellAt(f, p)) < CellAt(f, p)
              /\ \A z \in Places(f) : contains(c, CellAt(f, z)) => CellAt(f, z) <= CellAt(f, p)
<1> DEFINE keys == f.filter
           lo == range_min(c)
           hi == range_max(c)
           at(z) == CellAt(f, z)
<1>1. /\ keys \subseteq Nat /\ lo \in Nat /\ hi \in Nat
      /\ \A z \in Places(f) : at(z) \in keys /\ at(z) \in Nat
      /\ \A z \in Places(f) : contains(c, at(z)) <=> lo <= at(z) /\ at(z) <= hi
  <2>1. c \in Cell
    BY DenormalizeFacts
  <2>2. keys \subseteq Cell
    BY DEF GoodFile, FileType
  <2>3. \A z \in Places(f) : at(z) \in keys
    BY DEF GoodFile
  <2> QED
    BY <2>1, <2>2, <2>3, CellFacts, RangeFacts DEF contains
<1>2. \A r \in containsRange(keys, lo, hi) : r \in Ranges(f, q)
  BY DEF Ranges, CellRanges
<1>3. lo <= at(p) /\ at(p) <= hi /\ lo <= at(o) /\ at(o) <= hi
  BY <1>1
<1>4. at(p) # at(o)
  BY PlacesInOrder, <1>1
<1>5. ASSUME NEW z \in Places(f), contains(c, at(z)), at(p) < at(z)
      PROVE  IdsAt(f, p) \subseteq Ids(f, q)
  <2>1. at(z) <= hi
    BY <1>1, <1>5
  <2>2. PICK r \in containsRange(keys, lo, hi) :
            /\ r[1] \in Nat /\ r[2] \in Nat
            /\ \A k \in keys : lo <= k => r[1] <= k
            /\ \A k \in keys : k < at(z) => k < r[2]
    <3> DEFINE x == at(p)
               y == at(z)
    <3>1. keys \subseteq Nat /\ lo \in Nat /\ hi \in Nat /\ x \in keys /\ y \in keys
          /\ lo <= x /\ x < y /\ y <= hi
      BY <1>1, <1>3, <1>5, <2>1
    <3> HIDE DEF keys, lo, hi, x, y
    <3>2. \E r \in containsRange(keys, lo, hi) :
              /\ r[1] \in Nat /\ r[2] \in Nat /\ r = <<r[1], r[2]>>
              /\ \A k \in keys : lo <= k => r[1] <= k
              /\ \A k \in keys : k < y => k < r[2]
              /\ \A k \in keys : k <= hi => Lo(keys, k) <= r[2]
      BY <3>1, ContainsRangeFinds
    <3> QED
      BY <3>2 DEF y
  <2>3. r[1] <= at(p) /\ at(p) <= r[2]
    BY <1>1, <1>3, <1>5, <2>2
  <2> QED
    BY <1>2, <2>3, RangeFound
<1>6. ASSUME at(o) < at(p)
      PROVE  IdsAt(f, p) \subseteq Ids(f, q) \/ (p[2] = 1 /\ Lo(keys, at(p)) < at(p))
  <2>1. PICK r \in containsRange(keys, lo, hi) :
            /\ r[1] \in Nat /\ r[2] \in Nat
            /\ \A k \in keys : lo <= k => r[1] <= k
            /\ \A k \in keys : k < at(p) => k < r[2]
            /\ Lo(keys, at(p)) <= r[2]
    <3> DEFINE x == at(o)
               y == at(p)
    <3>1. keys \subseteq Nat /\ lo \in Nat /\ hi \in Nat /\ x \in keys /\ y \in keys
          /\ lo <= x /\ x < y /\ y <= hi
      BY <1>1, <1>3, <1>6
    <3> HIDE DEF keys, lo, hi, x, y
    <3>2. \E r \in containsRange(keys, lo, hi) :
              /\ r[1] \in Nat /\ r[2] \in Nat /\ r = <<r[1], r[2]>>
              /\ \A k \in keys : lo <= k => r[1] <= k
              /\ \A k \in keys : k < y => k < r[2]
              /\ \A k \in keys : k <= hi => Lo(keys, k) <= r[2]
      BY <3>1, ContainsRangeFinds
    <3>3. PICK r \in containsRange(keys, lo, hi) :
              /\ r[1] \in Nat /\ r[2] \in Nat
              /\ \A k \in keys : lo <= k => r[1] <= k
              /\ \A k \in keys : k < y => k < r[2]
              /\ \A k \in keys : k <= hi => Lo(keys, k) <= r[2]
      BY <3>2
    <3>4. Lo(keys, y) <= r[2]
      BY <3>1, <3>3
    <3> QED
      BY <3>3, <3>4 DEF y
  <2>2. CASE Lo(keys, at(p)) = at(p)
    <3>1. r[1] <= at(p) /\ at(p) <= r[2]
      BY <1>1, <1>3, <2>1, <2>2
    <3> QED
      BY <1>2, <3>1, RangeFound
  <2>3. CASE p[2] # 1
    <3> DEFINE u == <<p[1], p[2] - 1>>
    <3>1. u \in Places(f) /\ at(u) < at(p) /\ at(o) <= at(u)
      <4>1. u \in Places(f) /\ p[1] \in Int /\ p[2] \in Int /\ u[1] = p[1] /\ u[2] = p[2] - 1
        BY <2>3, PlaceBefore
      <4>2. o = <<o[1], o[2]>> /\ o[1] \in Int /\ o[2] \in Int
        BY PlaceOf
      <4>3. Before(u, p) /\ Before(o, p)
        BY <1>6, <4>1, PlacesInOrder DEF Before
      <4>4. o = u \/ Before(o, u)
        BY <4>1, <4>2, <4>3 DEF Before
      <4>5. at(u) < at(p) /\ (Before(o, u) => at(o) < at(u))
        BY <4>1, <4>3 DEF GoodFile, Sorted
      <4> QED
        BY <1>1, <4>1, <4>4, <4>5
    <3> HIDE DEF u
    <3>2. r[1] <= at(u) /\ at(u) <= r[2]
      BY <1>1, <1>3, <2>1, <3>1
    <3> QED
      BY <1>2, <2>3, <3>2, BehindFound DEF u
  <2>4. Lo(keys, at(p)) \in Nat /\ Lo(keys, at(p)) <= at(p) /\ at(p) \in Nat
    <3>1. keys \subseteq Nat /\ at(p) \in keys
      BY <1>1
    <3> HIDE DEF keys, at
    <3> QED
      BY <3>1, KeyInterval
  <2>5. Lo(keys, at(p)) = at(p) \/ Lo(keys, at(p)) < at(p)
    <3> HIDE DEF keys, at
    <3> QED
      BY <2>4
  <2> QED
    BY <2>2, <2>3, <2>5
<1>7. CASE \E z \in Places(f) : contains(c, at(z)) /\ at(p) < at(z)
  BY <1>5, <1>7
<1>8. CASE \A z \in Places(f) : contains(c, at(z)) => ~ (at(p) < at(z))
  <2>1. at(o) < at(p)
    BY <1>1, <1>4, <1>8
  <2>2. \A z \in Places(f) : contains(c, at(z)) => at(z) <= at(p)
    BY <1>1, <1>8
  <2> QED
    BY <1>6, <2>1, <2>2
<1> QED
  BY <1>7, <1>8

-----------------------------------------------------------------------------
(* What strays into an answer.  A cell that looks to the filter as if it   *)
(* were below the query cell c, and the first cell not before an ancestor a*)
(* that looks stored.                                                      *)
IsNear(f, c, p) ==
    /\ p \in Places(f)
    /\ Hi(f.filter, CellAt(f, p)) >= range_min(c)
    /\ Lo(f.filter, CellAt(f, p)) <= range_max(c)
IsNext(f, a, p) ==
    /\ \E k \in f.filter : a \in Lo(f.filter, k)..Hi(f.filter, k)
    /\ a <= CellAt(f, p)
    /\ \A z \in Places(f) : CellAt(f, z) < a \/ CellAt(f, p) <= CellAt(f, z)

(* The block that the index gives for a value and the offset that the block*)
(* gives are those of the first stored cell not before the value.          *)
LEMMA FirstNotBefore ==
    ASSUME NEW f, GoodFile(f), NEW a \in Nat,
           NEW b \in 0..(Len(f.cellIndex) - 1), b \in findBlockValue(f.cellIndex, a),
           NEW k \in Int, k = LowerBound(f.cells[b + 1], a), k < Len(f.cells[b + 1])
    PROVE  /\ a <= CellAt(f, <<b + 1, k + 1>>)
           /\ \A z \in Places(f) :
                 CellAt(f, z) < a \/ CellAt(f, <<b + 1, k + 1>>) <= CellAt(f, z)
<1> DEFINE p == <<b + 1, k + 1>>
           s == f.cells[b + 1]
<1>1. /\ s \in Seq(Int) /\ Len(s) \in Nat
      /\ \A i \in 0..(Len(s) - 1) : <<b + 1, i + 1>> \in Places(f)
  <2>1. s \in Seq(Int)
    BY BlockFacts
  <2>2. \A i \in 0..(Len(s) - 1) : <<b + 1, i + 1>> \in Places(f)
    BY BlockFacts
  <2> QED
    BY <2>1, <2>2
<1>2. k \in 0..(Len(s) - 1) /\ s[k + 1] >= a /\ \A j \in 1..k : s[j] < a
  <2> HIDE DEF s
  <2>1. /\ LowerBound(s, a) \in 0..Len(s) /\ \A j \in 1..LowerBound(s, a) : s[j] < a
        /\ LowerBound(s, a) < Len(s) => s[LowerBound(s, a) + 1] >= a
    BY <1>1, LowerBoundFacts
  <2>2. k = LowerBound(s, a) /\ k < Len(s)
    BY DEF s
  <2> QED
    BY <1>1, <2>1, <2>2
<1>3. p \in Places(f) /\ CellAt(f, p) = s[k + 1] /\ CellAt(f, p) \in Nat
  <2>1. p \in Places(f)
    BY <1>1, <1>2
  <2> QED
    BY <2>1, PlacesInOrder DEF CellAt
<1>4. f.cellIndex \in Seq(Int) /\ \A j \in 1..b : f.cellIndex[j] < a
  <2> DEFINE maxes == f.cellIndex
  <2>1. maxes \in Seq(Int)
    BY <1>3, PlaceOf
  <2>2. b = LowerBound(maxes, a)
    BY DEF findBlockValue
  <2> HIDE DEF maxes
  <2>3. \A j \in 1..LowerBound(maxes, a) : maxes[j] < a
    BY <2>1, LowerBoundFacts
  <2> QED
    BY <2>1, <2>2, <2>3 DEF maxes
<1>5. ASSUME NEW z \in Places(f), ~ (CellAt(f, z) < a), ~ (CellAt(f, p) <= CellAt(f, z))
      PROVE  FALSE
  <2>1. PICK d \in 0..(Len(f.cellIndex) - 1) :
            \E i \in 0..(Len(f.cells[d + 1]) - 1) :
               /\ z = <<d + 1, i + 1>> /\ z[1] = d + 1 /\ z[2] = i + 1
               /\ CellAt(f, z) \in Nat /\ f.cellIndex[d + 1] >= CellAt(f, z)
    BY PlaceOf
  <2>2. PICK i \in 0..(Len(f.cells[d + 1]) - 1) :
            /\ z = <<d + 1, i + 1>> /\ z[1] = d + 1 /\ z[2] = i + 1
            /\ CellAt(f, z) \in Nat /\ f.cellIndex[d + 1] >= CellAt(f, z)
    BY <2>1
  <2>3. CellAt(f, z) < CellAt(f, p) /\ CellAt(f, z) >= a
    BY <1>3, <1>5, <2>2
  <2>4. d < b \/ (d = b /\ i < k)
    <3>1. Before(z, p)
      BY <1>3, <2>3, PlacesInOrder
    <3> QED
      BY <1>2, <2>2, <3>1 DEF Before
  <2>5. CASE d < b
    <3>1. d + 1 \in 1..b /\ d + 1 \in 1..Len(f.cellIndex)
      BY <2>2, <2>5
    <3>2. f.cellIndex[d + 1] < a /\ f.cellIndex[d + 1] \in Int
      BY <1>4, <3>1
    <3> QED
      BY <2>2, <2>3, <3>2
  <2>6. CASE d = b /\ i < k
    <3>1. i + 1 \in 1..k
      BY <1>2, <2>2, <2>6
    <3>2. CellAt(f, z) = s[i + 1]
      BY <2>2, <2>6 DEF CellAt
    <3>3. s[i + 1] < a
      BY <1>2, <3>1
    <3> QED
      BY <2>2, <2>3, <3>2, <3>3
  <2> QED
    BY <2>4, <2>5, <2>6
<1> QED
  BY <1>2, <1>3, <1>5

(* Unless a query cell lies beyond the filter's last key, every id of an   *)
(* answer is one of a cell that looks as if it were below a query cell, of *)
(* the place right behind one, or of the first cell not before an ancestor.*)
LEMMA IdIsOfHit ==
    ASSUME NEW f, GoodFile(f), NEW q \in SUBSET Cell,
           \A c \in Denormalize(q, MinLevel, LevelRange) :
              \E k \in f.filter : Hi(f.filter, k) >= range_min(c),
           NEW id \in Ids(f, q)
    PROVE  \E p \in Places(f) :
              /\ id \in IdsAt(f, p)
              /\ \/ \E c \in Denormalize(q, MinLevel, LevelRange) :
                       IsNear(f, c, p) \/ IsNear(f, c, <<p[1], p[2] - 1>>)
                 \/ \E a \in Ancestors(Denormalize(q, MinLevel, LevelRange)) : IsNext(f, a, p)
<1>1. PICK v \in Visits(f, q) : \E k \in 0..(Len(f.cells[v.blockId + 1]) - 1) :
         /\ v.blockId \in 0..(Len(f.cellIndex) - 1)
         /\ ReadCells(f, v.blockId) = f.cells[v.blockId + 1]
         /\ Taken(f, v, k)
         /\ <<v.blockId + 1, k + 1>> \in Places(f)
         /\ id \in IdsAt(f, <<v.blockId + 1, k + 1>>)
  BY IdIsRead
<1>2. PICK k \in 0..(Len(f.cells[v.blockId + 1]) - 1) :
         /\ v.blockId \in 0..(Len(f.cellIndex) - 1)
         /\ ReadCells(f, v.blockId) = f.cells[v.blockId + 1]
         /\ Taken(f, v, k)
         /\ <<v.blockId + 1, k + 1>> \in Places(f)
         /\ id \in IdsAt(f, <<v.blockId + 1, k + 1>>)
  BY <1>1
<1> DEFINE b == v.blockId
           s == f.cells[b + 1]
           p == <<b + 1, k + 1>>
<1>3. /\ k \in 0..(Len(s) - 1) /\ b \in 0..(Len(f.cellIndex) - 1)
      /\ ReadCells(f, b) = s /\ p \in Places(f) /\ id \in IdsAt(f, p)
      /\ s \in Seq(Int) /\ IsAscending(s)
      /\ \A i \in 0..(Len(s) - 1) : /\ <<b + 1, i + 1>> \in Places(f)
                                    /\ CellAt(f, <<b + 1, i + 1>>) = s[i + 1]
  <2>1. b \in 0..(Len(f.cellIndex) - 1)
    BY <1>2
  <2> HIDE DEF b
  <2>2. /\ s \in Seq(Int) /\ IsAscending(s)
        /\ \A i \in 0..(Len(s) - 1) : /\ <<b + 1, i + 1>> \in Places(f)
                                      /\ CellAt(f, <<b + 1, i + 1>>) = s[i + 1]
    <3>1. s \in Seq(Int) /\ IsAscending(s)
      BY <2>1, BlockFacts
    <3>2. \A i \in 0..(Len(s) - 1) : <<b + 1, i + 1>> \in Places(f)
      BY <2>1, BlockFacts
    <3>3. \A i \in 0..(Len(s) - 1) : CellAt(f, <<b + 1, i + 1>>) = s[i + 1]
      BY DEF CellAt
    <3> QED
      BY <3>1, <3>2, <3>3
  <2> QED
    BY <1>2, <2>1, <2>2 DEF b
<1>4. f.filter \subseteq Nat /\ \A z \in Places(f) : CellAt(f, z) \in f.filter
  BY CellFacts DEF GoodFile, FileType
<1>5. ASSUME k \in queryValueIndexes(ReadCells(f, b), v.values)
      PROVE  \E a \in Ancestors(Denormalize(q, MinLevel, LevelRange)) : IsNext(f, a, p)
  <2>1. PICK a \in v.values : k = LowerBound(s, a) /\ k < Len(s)
    BY <1>3, <1>5 DEF queryValueIndexes
  <2>2. a \in Wanted(f, q) /\ b \in findBlockValue(f.cellIndex, a)
    BY VisitFacts
  <2>3. a \in Nat /\ filterContains(f.filter, a)
    BY <2>2, WantedFacts
  <2>4. a \in Ancestors(Denormalize(q, MinLevel, LevelRange))
    BY <2>2 DEF Wanted, CellAncestors
  <2>5. \E x \in f.filter : a \in Lo(f.filter, x)..Hi(f.filter, x)
    <3>1. PICK x \in f.filter : Lo(f.filter, x) <= a /\ a <= Hi(f.filter, x)
      BY <2>3 DEF filterContains, lookupKey
    <3>2. Lo(f.filter, x) \in Nat /\ Hi(f.filter, x) \in Nat
      BY <1>4, KeyInterval
    <3> QED
      BY <2>3, <3>1, <3>2
  <2>6. /\ a <= CellAt(f, p)
        /\ \A z \in Places(f) : CellAt(f, z) < a \/ CellAt(f, p) <= CellAt(f, z)
    <3>1. b \in 0..(Len(f.cellIndex) - 1)
      BY <1>3
    <3> HIDE DEF b
    <3> QED
      BY <2>1, <2>2, <2>3, <3>1, FirstNotBefore
  <2> QED
    BY <2>4, <2>5, <2>6 DEF IsNext
<1>6. ASSUME NEW r \in v.ranges, NEW x \in rangeIndexes(ReadCells(f, b), r), k \in x[1]..x[2]
      PROVE  \E c \in Denormalize(q, MinLevel, LevelRange) :
                IsNear(f, c, p) \/ IsNear(f, c, <<p[1], p[2] - 1>>)
  <2>1. r \in Ranges(f, q)
    BY VisitFacts
  <2>2. PICK c \in Denormalize(q, MinLevel, LevelRange) :
           r \in containsRange(f.filter, range_min(c), range_max(c))
    BY <2>1, RangesType
  <2> DEFINE lo == range_min(c)
             hi == range_max(c)
  <2>3. lo \in Nat /\ hi \in Nat
    BY DenormalizeFacts, RangeFacts
  <2>4. PICK o \in f.filter : Hi(f.filter, o) >= lo
    OBVIOUS
  <2> HIDE DEF lo, hi
  <2>5. /\ r[1] \in Nat /\ r[2] \in Nat /\ r = <<r[1], r[2]>>
        /\ r[1] = moveToKeyGreaterThan(f.filter, lo) /\ r[2] = moveToKeyLessThan(f.filter, hi)
    BY <1>4, <2>2, <2>3, ContainsRangeType DEF lo, hi
  <2>6. r[2] <= hi
    BY <1>4, <2>3, <2>5, MoveFacts
  <2>7. PICK y \in f.filter : Hi(f.filter, y) >= lo /\ r[1] = Lo(f.filter, y)
    <3>1. \A z \in f.filter : Hi(f.filter, z) >= lo =>
              \E j \in f.filter : Hi(f.filter, j) >= lo
                                  /\ moveToKeyGreaterThan(f.filter, lo) = Lo(f.filter, j)
      BY <1>4, <2>3, MoveFacts
    <3> QED
      BY <2>4, <2>5, <3>1
  <2>8. ASSUME NEW x0 \in f.filter, x0 \in r[1]..r[2]
        PROVE  Hi(f.filter, x0) >= lo /\ Lo(f.filter, x0) <= hi
    <3>1. /\ x0 \in Nat /\ y \in Nat
          /\ Lo(f.filter, x0) \in Nat /\ Hi(f.filter, x0) \in Nat
          /\ Lo(f.filter, x0) <= x0 /\ x0 <= Hi(f.filter, x0)
          /\ Hi(f.filter, y) \in Nat
          /\ x0 < y => x0 < Lo(f.filter, y)
          /\ y < x0 => Hi(f.filter, y) < x0
      BY <1>4, KeyInterval
    <3>2. Lo(f.filter, x0) <= hi
      BY <2>3, <2>5, <2>6, <2>8, <3>1
    <3>3. ~ (x0 < y)
      BY <2>5, <2>7, <2>8, <3>1
    <3>4. CASE x0 = y
      BY <2>7, <3>2, <3>4
    <3>5. CASE y < x0
      BY <2>3, <2>7, <3>1, <3>2, <3>5
    <3> QED
      BY <3>1, <3>3, <3>4, <3>5
  <2>9. ASSUME NEW i \in 0..(Len(s) - 1), s[i + 1] \in r[1]..r[2]
        PROVE  IsNear(f, c, <<b + 1, i + 1>>)
    <3>1. /\ <<b + 1, i + 1>> \in Places(f) /\ CellAt(f, <<b + 1, i + 1>>) = s[i + 1]
          /\ s[i + 1] \in f.filter
      <4>1. <<b + 1, i + 1>> \in Places(f) /\ CellAt(f, <<b + 1, i + 1>>) = s[i + 1]
        BY <1>3
      <4> QED
        BY <1>4, <4>1
    <3>2. Hi(f.filter, s[i + 1]) >= lo /\ Lo(f.filter, s[i + 1]) <= hi
      BY <2>8, <2>9, <3>1
    <3> QED
      BY <3>1, <3>2 DEF IsNear, lo, hi
  <2>10. /\ x[1] \in Nat /\ x[2] \in Nat /\ x[1] <= x[2] /\ x[2] < Len(s)
         /\ s[x[1] + 1] \in r[1]..r[2]
         /\ \A i \in x[1]..(x[2] - 1) : s[i + 1] \in r[1]..r[2]
    <3>1. x \in rangeIndexes(s, <<r[1], r[2]>>)
      BY <1>3, <2>5
    <3> DEFINE l == r[1]
               h == r[2]
    <3>2. l \in Int /\ h \in Int /\ x \in rangeIndexes(s, <<l, h>>)
      BY <2>5, <3>1
    <3> HIDE DEF l, h, s, b
    <3>3. /\ x[1] \in Nat /\ x[2] \in Nat /\ x[1] <= x[2] /\ x[2] < Len(s)
          /\ s[x[1] + 1] \in l..h
          /\ \A i \in x[1]..(x[2] - 1) : s[i + 1] \in l..h
      BY <1>3, <3>2, RangeOffsetsTaken
    <3> QED
      BY <3>3 DEF l, h
  <2>11. CASE k < x[2] \/ k = x[1]
    <3>1. s[k + 1] \in r[1]..r[2]
      <4> HIDE DEF s, b
      <4>1. k = x[1] \/ k \in x[1]..(x[2] - 1)
        BY <1>6, <2>10, <2>11
      <4> QED
        BY <2>10, <4>1
    <3>2. IsNear(f, c, p)
      BY <1>3, <2>9, <3>1
    <3> QED
      BY <3>2
  <2>12. CASE ~ (k < x[2] \/ k = x[1])
    <3> DEFINE i == k - 1
    <3>1. i \in x[1]..(x[2] - 1) /\ i \in 0..(Len(s) - 1) /\ i + 1 = k
      <4> DEFINE N == Len(s)
                 x1 == x[1]
                 x2 == x[2]
      <4>1. /\ k \in x1..x2 /\ ~ (k < x2 \/ k = x1) /\ k \in 0..(N - 1)
            /\ x1 \in Nat /\ x2 \in Nat /\ N \in Nat
        BY <1>3, <1>6, <2>10, <2>12
      <4> HIDE DEF N, x1, x2
      <4>2. i \in x1..(x2 - 1) /\ i \in 0..(N - 1) /\ i + 1 = k
        BY <4>1
      <4> QED
        BY <4>2 DEF N, x1, x2
    <3>2. <<b + 1, i + 1>> = <<p[1], p[2] - 1>>
      BY <3>1
    <3> HIDE DEF i
    <3>3. s[i + 1] \in r[1]..r[2]
      BY <2>10, <3>1
    <3>4. IsNear(f, c, <<b + 1, i + 1>>)
      BY <2>9, <3>1, <3>3
    <3> QED
      BY <3>2, <3>4
  <2> QED
    BY <2>11, <2>12
<1> QED
  BY <1>2, <1>3, <1>5, <1>6 DEF Taken

-----------------------------------------------------------------------------
(* The keys of an answer, as readKeys collects them by their ids.          *)
LEMMA KeysFacts ==
    ASSUME NEW f, GoodFile(f), NEW ids, ids \subseteq 0..(f.keyEntries - 1)
    PROVE  /\ ReadKeys(f, ids) \in Seq(Key) /\ Len(ReadKeys(f, ids)) = Cardinality(ids)
           /\ \A id \in ids : ReadKeys(f, ids)[Cardinality({i \in ids : i <= id})]
                                = FlattenSeq(f.keys)[id + 1]
<1>1. f.keyEntries \in Nat
  BY DEF GoodFile, FileType
<1>2. ids \subseteq Nat /\ IsFiniteSet(ids)
  <2> DEFINE I == 0..(f.keyEntries - 1)
  <2>1. IsFiniteSet(I) /\ I \subseteq Nat
    BY <1>1, FS_Interval
  <2>2. ids \subseteq I
    OBVIOUS
  <2> HIDE DEF I
  <2> QED
    BY <2>1, <2>2, FS_Subset
<1> DEFINE sorted == Ascending(ids)
           keys == ReadKeys(f, ids)
<1>3. /\ sorted \in Seq(ids) /\ Len(sorted) = Cardinality(ids)
      /\ \A x \in ids : /\ Cardinality(Below(ids, x)) + 1 \in 1..Len(sorted)
                        /\ sorted[Cardinality(Below(ids, x)) + 1] = x
  BY <1>2, AscendingFacts
<1>4. keys = [n \in DOMAIN sorted |-> ReadKey(f, sorted[n])]
  BY DEF ReadKeys
<1> HIDE DEF sorted, keys
<1>5. Len(sorted) \in Nat /\ DOMAIN sorted = 1..Len(sorted)
      /\ \A n \in 1..Len(sorted) : sorted[n] \in ids
  BY <1>3
<1>6. \A id \in ids : ReadKey(f, id) \in Key /\ ReadKey(f, id) = FlattenSeq(f.keys)[id + 1]
  BY DEF GoodFile
<1>7. keys \in Seq(Key) /\ Len(keys) = Cardinality(ids)
  <2>1. \A n \in 1..Len(sorted) : ReadKey(f, sorted[n]) \in Key
    BY <1>5, <1>6
  <2>2. keys = [n \in 1..Len(sorted) |-> ReadKey(f, sorted[n])]
    BY <1>4, <1>5
  <2> QED
    BY <1>3, <1>5, <2>1, <2>2
<1>8. ASSUME NEW id \in ids
      PROVE  keys[Cardinality({i \in ids : i <= id})] = FlattenSeq(f.keys)[id + 1]
  <2> DEFINE S == {i \in ids : i <= id}
  <2>1. S = Below(ids, id) \cup {id} /\ id \notin Below(ids, id)
        /\ Below(ids, id) \subseteq ids
    <3>1. \A i \in ids : i <= id <=> i < id \/ i = id
      BY <1>2
    <3>2. ~ (id < id)
      BY <1>2
    <3> QED
      BY <3>1, <3>2 DEF Below
  <2>2. IsFiniteSet(Below(ids, id))
    BY <1>2, <2>1, FS_Subset
  <2>3. Cardinality(S) = Cardinality(Below(ids, id)) + 1
    <3> HIDE DEF S
    <3> QED
      BY <2>1, <2>2, FS_AddElement
  <2> HIDE DEF S
  <2>4. Cardinality(S) \in 1..Len(sorted) /\ sorted[Cardinality(S)] = id
    BY <1>3, <2>3
  <2>5. keys[Cardinality(S)] = ReadKey(f, id)
    BY <1>4, <1>5, <2>4
  <2> QED
    BY <1>6, <2>5 DEF S
<1> QED
  BY <1>7, <1>8 DEF keys

-----------------------------------------------------------------------------
(* The invariant of the answer: it was computed from the file that is still*)
(* open (Open drops it), and never with an exception.                      *)
ReplyInv ==
    /\ reply \in [status: {"none", "answered"},
                  query: SUBSET Cell, ids: SUBSET Nat, keys: Seq(Key)]
    /\ reply.status = "answered" =>
          /\ reader # NoFile
          /\ reply.ids = Ids(reader, reply.query)
          /\ reply.keys = ReadKeys(reader, reply.ids)

QueryInv == MapInv /\ ReplyInv

(* Before the first query there is no answer.                              *)
LEMMA NoReplyFacts ==
    /\ NoReply \in [status: {"none", "answered"},
                    query: SUBSET Cell, ids: SUBSET Nat, keys: Seq(Key)]
    /\ NoReply.status # "answered"
BY DEF NoReply

(* An answer is computed from the file that is open, and Open forgets it.  *)
LEMMA ReplyStep == QueryInv /\ [Next]_vars => ReplyInv'
<1> SUFFICES ASSUME MapInv, ReplyInv, [Next]_vars PROVE ReplyInv'
  BY DEF QueryInv
<1>1. CASE reply' = reply /\ reader' = reader
  BY <1>1 DEF ReplyInv
<1>2. CASE Open
  BY <1>2, NoReplyFacts DEF Open, ReplyInv
<1>3. ASSUME NEW q \in QueryRegion, ContainsQuery(q) PROVE ReplyInv'
  <2> DEFINE ids == Ids(reader, q)
  <2>1. q \in SUBSET Cell /\ reader # NoFile /\ reader' = reader /\ GoodFile(reader)
    BY <1>3, GeoMapAssumption DEF ContainsQuery, MapInv
  <2>2. \A v \in Visits(reader, q) : ~ BadRange(reader, v)
    BY <2>1, NoBadRange
  <2>3. reply' = IF \E v \in Visits(reader, q) : BadRange(reader, v)
                 THEN [NoReply EXCEPT !.status = "out_of_range", !.query = q]
                 ELSE [status |-> "answered", query |-> q,
                       ids |-> ids, keys |-> ReadKeys(reader, ids)]
    BY <1>3 DEF ContainsQuery, Ids, Visits, Ranges, Wanted
  <2> HIDE DEF ids
  <2>4. reply' = [status |-> "answered", query |-> q,
                  ids |-> ids, keys |-> ReadKeys(reader, ids)]
    BY <2>2, <2>3
  <2>5. ids \subseteq 0..(reader.keyEntries - 1)
    BY <2>1, IdsFacts DEF ids
  <2>6. ids \subseteq Nat
    BY <2>1, <2>5 DEF GoodFile, FileType
  <2>7. ReadKeys(reader, ids) \in Seq(Key)
    BY <2>1, <2>5, KeysFacts
  <2>8. ids = Ids(reader, q)
    BY DEF ids
  <2> QED
    BY <2>1, <2>4, <2>6, <2>7, <2>8 DEF ReplyInv
<1>4. CASE UNCHANGED vars
  BY <1>1, <1>4 DEF vars
<1>5. ASSUME NEW region \in Region, NEW key \in Key, write(region, key) PROVE ReplyInv'
  BY <1>1, <1>5 DEF write
<1>6. ASSUME NEW region \in Unlucky, writeFails(region) PROVE ReplyInv'
  BY <1>1, <1>6 DEF writeFails
<1>7. CASE build
  BY <1>1, <1>7 DEF build
<1> QED
  BY <1>2, <1>3, <1>4, <1>5, <1>6, <1>7 DEF Next

(* Every reachable answer is that of the open file, whatever was written   *)
(* and built since the file was opened.                                    *)
THEOREM QueryInvariant == Spec => []QueryInv
<1>1. Init => QueryInv
  BY MapInit, NoReplyFacts DEF Init, QueryInv, ReplyInv
<1>2. QueryInv /\ [Next]_vars => QueryInv'
  BY MapStep, ReplyStep DEF QueryInv
<1> QED
  BY <1>1, <1>2, PTL DEF Spec

(* Type correctness of the whole index.                                    *)
THEOREM GeoMapTypeOK == Spec => []TypeOK
<1>1. QueryInv => TypeOK
  BY DEF QueryInv, MapInv, ReplyInv, GoodCovers, CoverEntry, GoodFile, TypeOK
<1> QED
  BY <1>1, QueryInvariant, PTL

(* No query throws std::out_of_range in readIndexRanges: what two readers  *)
(* recompute of their blocks agrees, even where one of them misreads a     *)
(* full last block as empty.                                               *)
THEOREM QueriesNeverThrow == Spec => []NeverOutOfRange
<1>1. QueryInv => NeverOutOfRange
  BY DEF QueryInv, ReplyInv, NeverOutOfRange
<1> QED
  BY <1>1, QueryInvariant, PTL

(* The keys of an answer are those stored under its ids, in order: the     *)
(* key column's block and offset arithmetic, for every block size.         *)
THEOREM KeysAreThoseOfIds == Spec => []KeysFollowIds
<1>1. QueryInv => KeysFollowIds
  <2> SUFFICES ASSUME QueryInv, reply.status = "answered"
      PROVE  /\ Len(reply.keys) = Cardinality(reply.ids)
             /\ \A id \in reply.ids :
                   reply.keys[Cardinality({i \in reply.ids : i <= id})]
                     = FlattenSeq(reader.keys)[id + 1]
    BY DEF KeysFollowIds
  <2>1. /\ GoodFile(reader) /\ reply.query \in SUBSET Cell
        /\ reply.ids = Ids(reader, reply.query) /\ reply.keys = ReadKeys(reader, reply.ids)
    BY DEF QueryInv, MapInv, ReplyInv
  <2>2. reply.ids \subseteq 0..(reader.keyEntries - 1)
    BY <2>1, IdsFacts
  <2> QED
    BY <2>1, <2>2, KeysFacts
<1> QED
  BY <1>1, QueryInvariant, PTL

(* What the answer was computed from, for the proofs below.                *)
LEMMA AnswerFacts ==
    ASSUME QueryInv, reply.status = "answered"
    PROVE  /\ GoodFile(reader) /\ reply.query \in SUBSET Cell
           /\ reply.ids = Ids(reader, reply.query)
           /\ Asked = Denormalize(reply.query, MinLevel, LevelRange)
BY DEF QueryInv, MapInv, ReplyInv, Asked

(* The ancestor search is complete: every stored cell that contains a query*)
(* cell, at a level of the index and in a readable block, is found.        *)
THEOREM AncestorsAreFound == Spec => []AncestorHitsFound
<1>1. QueryInv => AncestorHitsFound
  <2> SUFFICES ASSUME QueryInv, reply.status = "answered",
                      NEW p \in AncestorHits, Readable(reader, p)
      PROVE  Found(p)
    BY DEF AncestorHitsFound
  <2> DEFINE a == CellAt(reader, p)
             q == reply.query
  <2>1. GoodFile(reader) /\ q \in SUBSET Cell /\ reply.ids = Ids(reader, q)
        /\ Asked = Denormalize(q, MinLevel, LevelRange)
    BY AnswerFacts
  <2>2. PICK c \in Asked : /\ contains(a, c) /\ level(a) \in MinLevel..(level(c) - 1)
                           /\ (level(c) - level(a)) % LevelRange = 0
    BY DEF AncestorHits
  <2>3. p \in Places(reader)
    BY DEF AncestorHits
  <2>4. a \in reader.filter /\ reader.filter \subseteq Cell
    BY <2>1, <2>3 DEF GoodFile, FileType
  <2>5. c \in Cell /\ c \in Nat /\ a \in Cell /\ reader.filter \subseteq Nat
    BY <2>1, <2>4, DenormalizeFacts, CellFacts
  <2> HIDE DEF a, q
  <2>6. parent(c, level(a)) = a
    BY <2>2, <2>5, ContainsIsParent
  <2>7. level(a) \in AncestorLevels(level(c))
    BY <2>2 DEF AncestorLevels
  <2>8. a \in Ancestors(Asked)
    BY <2>6, <2>7 DEF Ancestors
  <2>9. filterContains(reader.filter, a)
    BY <2>4, <2>5, KeyPasses
  <2>10. a \in Wanted(reader, q)
    BY <2>1, <2>8, <2>9 DEF Wanted, CellAncestors
  <2> QED
    BY <2>1, <2>3, <2>10, ValueFound DEF Found, a
<1> QED
  BY <1>1, QueryInvariant, PTL

(* A set with more than one element has another one.                       *)
LEMMA OtherElement ==
    ASSUME NEW S, Cardinality(S) > 1, NEW p \in S
    PROVE  \E o \in S : o # p
<1> SUFFICES ASSUME \A o \in S : o = p PROVE FALSE
  OBVIOUS
<1>1. S = {p}
  OBVIOUS
<1>2. Cardinality(S) = 1
  BY <1>1, FS_Singleton
<1> QED
  BY <1>2

(* What the range search leaves out, as a fact about one hit.              *)
LEMMA RangeHitOfAnswer ==
    ASSUME QueryInv, reply.status = "answered", NEW c \in Asked,
           Cardinality(HitsBelow(c)) > 1, NEW p \in HitsBelow(c), Readable(reader, p)
    PROVE  \/ Found(p)
           \/ /\ p[2] = 1 /\ Lo(reader.filter, CellAt(reader, p)) < CellAt(reader, p)
              /\ \A z \in HitsBelow(c) : CellAt(reader, z) <= CellAt(reader, p)
<1>1. PICK o \in HitsBelow(c) : o # p
  BY OtherElement
<1>2. /\ GoodFile(reader) /\ reply.query \in SUBSET Cell
      /\ reply.ids = Ids(reader, reply.query)
      /\ Asked = Denormalize(reply.query, MinLevel, LevelRange)
  BY AnswerFacts
<1>3. \A z : z \in HitsBelow(c) <=> z \in Places(reader) /\ contains(c, CellAt(reader, z))
  BY DEF HitsBelow
<1>4. \/ IdsAt(reader, p) \subseteq Ids(reader, reply.query)
      \/ /\ p[2] = 1 /\ Lo(reader.filter, CellAt(reader, p)) < CellAt(reader, p)
         /\ \A z \in Places(reader) : contains(c, CellAt(reader, z)) =>
                CellAt(reader, z) <= CellAt(reader, p)
  BY <1>1, <1>2, <1>3, RangeHitFound
<1> QED
  BY <1>2, <1>3, <1>4 DEF Found

(* The range search: of two or more hits below a query cell all that lie in*)
(* a readable block are returned, but perhaps the greatest, if the filter  *)
(* has cut it and it is the first of its block.                            *)
THEOREM RangeSearch == Spec => []RangeHitsFound
<1>1. QueryInv => RangeHitsFound
  BY RangeHitOfAnswer DEF RangeHitsFound
<1> QED
  BY <1>1, QueryInvariant, PTL

(* And unless a query reaches beyond the filter's last key nothing strays  *)
(* into an answer but the keys of a cell that looks to the filter as if it *)
(* were below a query cell, of the cell right behind one, or of the first  *)
(* cell not before an ancestor that looks stored.                          *)
THEOREM OnlyNeighboursStray == Spec => []StraysFollowAHit
<1>1. QueryInv => StraysFollowAHit
  <2> SUFFICES ASSUME QueryInv, reply.status = "answered",
                      \A c \in Asked : \E k \in reader.filter :
                          Hi(reader.filter, k) >= range_min(c),
                      NEW id \in reply.ids
      PROVE  \E p \in Places(reader) :
                /\ id \in IdsAt(reader, p)
                /\ \/ \E c \in Asked : p \in LooksBelow(c)
                                       \/ <<p[1], p[2] - 1>> \in LooksBelow(c)
                   \/ \E a \in Ancestors(Asked) :
                         /\ LooksStored(a) /\ a <= CellAt(reader, p)
                         /\ \A z \in Places(reader) :
                               CellAt(reader, z) < a \/ CellAt(reader, p) <= CellAt(reader, z)
    BY DEF StraysFollowAHit
  <2>1. /\ GoodFile(reader) /\ reply.query \in SUBSET Cell
        /\ reply.ids = Ids(reader, reply.query)
        /\ Asked = Denormalize(reply.query, MinLevel, LevelRange)
    BY AnswerFacts
  <2>2. PICK p \in Places(reader) :
              /\ id \in IdsAt(reader, p)
              /\ \/ \E c \in Asked : IsNear(reader, c, p)
                                     \/ IsNear(reader, c, <<p[1], p[2] - 1>>)
                 \/ \E a \in Ancestors(Asked) : IsNext(reader, a, p)
    BY <2>1, IdIsOfHit
  <2>3. \A c, z : IsNear(reader, c, z) => z \in LooksBelow(c)
    BY DEF IsNear, LooksBelow
  <2>4. ASSUME NEW a \in Ancestors(Asked), IsNext(reader, a, p)
        PROVE  /\ LooksStored(a) /\ a <= CellAt(reader, p)
               /\ \A z \in Places(reader) :
                     CellAt(reader, z) < a \/ CellAt(reader, p) <= CellAt(reader, z)
    BY <2>4 DEF IsNext, LooksStored
  <2> QED
    BY <2>2, <2>3, <2>4
<1> QED
  BY <1>1, QueryInvariant, PTL
=============================================================================
