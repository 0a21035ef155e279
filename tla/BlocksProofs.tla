---------------------------- MODULE BlocksProofs ----------------------------
(***************************************************************************)
(* Facts about the operators of module Blocks, for every block size and    *)
(* every sequence: the address arithmetic, the blocks of a column, and what*)
(* the searches return.                                                    *)
(***************************************************************************)
EXTENDS Blocks, TLAPS, WellFoundedInduction

-----------------------------------------------------------------------------
(* The address arithmetic of the readers.  A column with n full blocks and *)
(* k values in the next one has n * B + k values.                          *)

(* Block and offset of a value come back from its number.                  *)
LEMMA DivMod ==
    ASSUME NEW B \in Nat \ {0}, NEW n \in Nat, NEW k \in 0..(B - 1)
    PROVE  /\ (n * B + k) \div B = n
           /\ (n * B + k) % B = k
OBVIOUS

(* Quotient and remainder make the number.                                 *)
LEMMA DivModExact ==
    ASSUME NEW B \in Nat \ {0}, NEW i \in Nat
    PROVE  i \div B \in Nat /\ i % B \in 0..(B - 1) /\ i = (i \div B) * B + (i % B)
OBVIOUS

(* Block n, offset k is the address of value number n * B + k.             *)
LEMMA AddressOf ==
    ASSUME NEW B \in Nat \ {0}, NEW n \in Nat, NEW k \in 0..(B - 1)
    PROVE  /\ BlockOf(n * B + k, B) = n
           /\ OffsetInBlock(n * B + k, B) = k
<1>1. (n * B + k) \div B = n
  BY DivMod
<1>2. n * B \in Nat
  OBVIOUS
<1> QED
  BY <1>1, <1>2 DEF BlockOf, OffsetInBlock

(* Every value number has an address, and the address gives it back.       *)
LEMMA AddressIsExact ==
    ASSUME NEW B \in Nat \ {0}, NEW i \in Nat
    PROVE  /\ BlockOf(i, B) \in Nat
           /\ OffsetInBlock(i, B) \in 0..(B - 1)
           /\ i = BlockOf(i, B) * B + OffsetInBlock(i, B)
<1>1. /\ i \div B \in Nat
      /\ i % B \in 0..(B - 1)
      /\ i = (i \div B) * B + (i % B)
  OBVIOUS
<1>2. (i \div B) * B \in Nat
  BY <1>1
<1> QED
  BY <1>1, <1>2 DEF BlockOf, OffsetInBlock

(* Monotone block starts, in the one form the proofs below need.           *)
LEMMA BlockStarts ==
    ASSUME NEW B \in Nat \ {0}, NEW m \in Nat, NEW n \in Nat, m < n
    PROVE  (m + 1) * B <= n * B
OBVIOUS

(* n full blocks and k values more (1 <= k <= B) make n + 1 blocks, and the*)
(* readers count B values in the first n of them and k in the last.        *)
LEMMA CountsOf ==
    ASSUME NEW B \in Nat \ {0}, NEW n \in Nat, NEW k \in 1..B
    PROVE  /\ determineBlocks(B, n * B + k) = n + 1
           /\ \A b \in 0..(n - 1) : BlockEntries(b, B, n * B + k) = B
           /\ BlockEntries(n, B, n * B + k) = k
<1>1. n * B \in Nat /\ (n + 1) * B = n * B + B
  OBVIOUS
<1>2. CASE k < B
  <2>1. (n * B + k) \div B = n /\ (n * B + k) % B = k
    BY <1>2, DivMod
  <2>2. \A b \in 0..(n - 1) : (b + 1) * B <= n * B
    BY BlockStarts
  <2> QED
    BY <1>1, <1>2, <2>1, <2>2 DEF determineBlocks, BlockEntries
<1>3. CASE k = B
  <2>1. n * B + k = (n + 1) * B + 0
    BY <1>1, <1>3
  <2>2. (n * B + k) \div B = n + 1 /\ (n * B + k) % B = 0
    BY <2>1, DivMod, n + 1 \in Nat, 0 \in 0..(B - 1)
  <2>3. \A b \in 0..(n - 1) : (b + 1) * B <= n * B
    BY BlockStarts
  <2> QED
    BY <1>1, <1>3, <2>2, <2>3 DEF determineBlocks, BlockEntries
<1> QED
  BY <1>2, <1>3

(* The cell column's reader counts the same, but for a full last block.    *)
LEMMA CellCountsOf ==
    ASSUME NEW B \in Nat \ {0}, NEW n \in Nat, NEW k \in 1..B
    PROVE  /\ \A b \in 0..(n - 1) : CellBlockEntries(b, B, n * B + k) = B
           /\ CellBlockEntries(n, B, n * B + k) = IF k < B THEN k ELSE 0
<1>1. n * B \in Nat /\ (n + 1) * B = n * B + B
  OBVIOUS
<1>2. \A b \in 0..(n - 1) : (b + 1) * B <= n * B /\ (b + 1) * B \in Nat
  BY BlockStarts
<1>3. (n * B + k) % B = IF k < B THEN k ELSE 0
  <2>1. CASE k < B
    <3>1. k \in 0..(B - 1)
      BY <2>1
    <3> QED
      BY <2>1, <3>1, DivMod
  <2>2. CASE k = B
    <3>1. n * B + k = (n + 1) * B + 0 /\ n + 1 \in Nat /\ 0 \in 0..(B - 1)
      BY <1>1, <2>2
    <3> QED
      BY <2>2, <3>1, DivMod
  <2> QED
    BY <2>1, <2>2
<1>4. \A b \in 0..(n - 1) : (b + 1) * B < n * B + k
  BY <1>1, <1>2
<1>5. ~ ((n + 1) * B < n * B + k)
  BY <1>1
<1> QED
  BY <1>3, <1>4, <1>5 DEF CellBlockEntries

-----------------------------------------------------------------------------
(* The blocks of a column.                                                 *)
LEMMA LengthInBlocks ==
    ASSUME NEW B \in Nat \ {0}, NEW N \in Nat \ {0}
    PROVE  \E n \in Nat, k \in 1..B : N = n * B + k
<1> DEFINE n == BlockOf(N - 1, B)
           r == OffsetInBlock(N - 1, B)
<1>1. N - 1 \in Nat
  OBVIOUS
<1>2. n \in Nat /\ r \in 0..(B - 1) /\ N - 1 = n * B + r
  BY <1>1, AddressIsExact
<1> HIDE DEF n, r
<1>3. n * B \in Nat
  BY <1>2
<1>4. N = n * B + (r + 1) /\ r + 1 \in 1..B
  BY <1>2, <1>3
<1> QED
  BY <1>2, <1>4

(* The blocks t hold the items of s one after the other: n full blocks of B*)
(* items, and one more with k.                                             *)
InBlocks(t, s, B, n, k) ==
    /\ Len(t) = n + 1 /\ Len(t[n + 1]) = k
    /\ \A b \in 1..n : Len(t[b]) = B
    /\ \A b \in 1..(n + 1) : \A j \in 1..Len(t[b]) :
          /\ (b - 1) * B + j \in 1..Len(s)
          /\ t[b][j] = s[(b - 1) * B + j]

(* Split of a sequence puts its entries into blocks as the writer does.    *)
LEMMA SplitFacts ==
    ASSUME NEW T, NEW s \in Seq(T), NEW B \in Nat \ {0},
           NEW n \in Nat, NEW k \in 1..B, Len(s) = n * B + k
    PROVE  Split(s, B) \in Seq(Seq(T)) /\ InBlocks(Split(s, B), s, B, n, k)
<1> DEFINE from(b) == (b - 1) * B
           to(b) == SmallerOf(b * B, Len(s))
           len(b) == IF b = n + 1 THEN k ELSE B
<1>1. n * B \in Nat /\ (n + 1) * B = n * B + B
  OBVIOUS
<1>2. ASSUME NEW b \in 1..(n + 1)
      PROVE  from(b) \in Nat /\ to(b) = from(b) + len(b) /\ to(b) <= Len(s) /\ len(b) \in 1..B
  <2>1. b - 1 \in Nat /\ b \in Nat /\ from(b) \in Nat /\ b * B = from(b) + B
    OBVIOUS
  <2>2. CASE b = n + 1
    BY <1>1, <2>1, <2>2 DEF SmallerOf
  <2>3. CASE b # n + 1
    <3>1. b * B <= n * B
      <4>1. b - 1 \in Nat /\ b - 1 < n /\ b - 1 + 1 = b
        BY <2>3
      <4> QED
        BY <4>1, BlockStarts
    <3> HIDE DEF from
    <3>2. b * B <= Len(s) /\ b * B \in Nat
      BY <1>1, <2>1, <3>1
    <3> QED
      BY <1>1, <2>1, <2>3, <3>2 DEF SmallerOf
  <2> QED
    BY <2>2, <2>3
<1>3. Split(s, B) = [b \in 1..(n + 1) |-> SubSeq(s, from(b) + 1, to(b))]
  <2>1. determineBlocks(B, Len(s)) = n + 1
    BY CountsOf, ZenonT(30)
  <2> QED
    BY <2>1 DEF Split
<1> HIDE DEF from, to
<1>4. ASSUME NEW b \in 1..(n + 1)
      PROVE  /\ Split(s, B)[b] \in Seq(T) /\ Len(Split(s, B)[b]) = len(b)
             /\ \A j \in 1..len(b) : /\ from(b) + j \in 1..Len(s)
                                     /\ Split(s, B)[b][j] = s[from(b) + j]
  <2> DEFINE f == from(b)
             l == len(b)
  <2>1. Split(s, B)[b] = SubSeq(s, f + 1, f + l)
    BY <1>2, <1>3
  <2>2. f \in Nat /\ l \in Nat \ {0} /\ f + l <= Len(s) /\ Len(s) \in Nat
    BY <1>2
  <2> HIDE DEF f, l
  <2>3. \A j \in 1..l : f + j \in 1..Len(s) /\ f + 1 + j - 1 = f + j
    BY <2>2
  <2>4. /\ SubSeq(s, f + 1, f + l) \in Seq(T)
        /\ Len(SubSeq(s, f + 1, f + l)) = l
        /\ \A j \in 1..l : SubSeq(s, f + 1, f + l)[j] = s[f + j]
    <3> DEFINE m == f + 1
               o == f + l
               t == SubSeq(s, m, o)
    <3>1. /\ m \in Int /\ o \in Int /\ m <= o /\ o - m + 1 = l
          /\ m \in 1..Len(s) /\ o \in 1..Len(s)
      BY <2>2
    <3>2. \A j \in 1..l : m + j - 1 = f + j
      BY <2>2
    <3> HIDE DEF m, o
    <3>3. t \in Seq(T) /\ Len(t) = o - m + 1 /\ \A j \in 1..(o - m + 1) : t[j] = s[m + j - 1]
      BY <3>1
    <3> QED
      BY <3>1, <3>2, <3>3 DEF m, o
  <2> QED
    BY <2>1, <2>3, <2>4 DEF f, l
<1>5. Split(s, B) \in Seq(Seq(T)) /\ Len(Split(s, B)) = n + 1
  BY <1>3, <1>4
<1>6. \A b \in 1..n : b \in 1..(n + 1) /\ len(b) = B
  OBVIOUS
<1>7. n + 1 \in 1..(n + 1) /\ len(n + 1) = k
  OBVIOUS
<1> HIDE DEF len
<1> QED
  BY <1>4, <1>5, <1>6, <1>7 DEF from, InBlocks

(* Item i lies where the readers look for it.                              *)
LEMMA ItemInBlock ==
    ASSUME NEW T, NEW s \in Seq(T), NEW B \in Nat \ {0}, NEW i \in 0..(Len(s) - 1)
    PROVE  /\ BlockOf(i, B) + 1 \in 1..Len(Split(s, B))
           /\ OffsetInBlock(i, B) + 1 \in 1..Len(Split(s, B)[BlockOf(i, B) + 1])
           /\ Split(s, B)[BlockOf(i, B) + 1][OffsetInBlock(i, B) + 1] = s[i + 1]
<1> DEFINE q == BlockOf(i, B)
           r == OffsetInBlock(i, B)
<1>1. Len(s) \in Nat \ {0} /\ i \in Nat /\ i < Len(s)
  OBVIOUS
<1>2. PICK n \in Nat, k \in 1..B : Len(s) = n * B + k
  BY <1>1, LengthInBlocks
<1>3. q \in Nat /\ r \in 0..(B - 1) /\ i = q * B + r
  BY <1>1, AddressIsExact
<1> HIDE DEF q, r
<1>4. n * B \in Nat /\ q * B \in Nat /\ (n + 1) * B = n * B + B
  BY <1>3
<1>5. q <= n
  <2> SUFFICES ASSUME n < q PROVE FALSE
    BY <1>3
  <2>1. (n + 1) * B <= q * B
    BY <1>3, BlockStarts
  <2> QED
    BY <1>1, <1>2, <1>3, <1>4, <2>1
<1>6. q = n => r < k
  BY <1>1, <1>2, <1>3, <1>4
<1>7. InBlocks(Split(s, B), s, B, n, k)
  BY <1>2, SplitFacts
<1>8. q + 1 \in 1..(n + 1) /\ r + 1 \in 1..Len(Split(s, B)[q + 1]) /\ Len(Split(s, B)) = n + 1
  <2>1. CASE q = n
    <3>1. q + 1 \in 1..(n + 1) /\ r + 1 \in 1..k /\ q + 1 = n + 1
      BY <1>3, <1>6, <2>1
    <3> QED
      BY <1>7, <3>1 DEF InBlocks
  <2>2. CASE q # n
    <3>1. q + 1 \in 1..n
      BY <1>3, <1>5, <2>2
    <3> QED
      <4>1. q + 1 \in 1..(n + 1) /\ r + 1 \in 1..B
        BY <1>3, <3>1
      <4> QED
        BY <1>7, <3>1, <4>1 DEF InBlocks
  <2> QED
    BY <1>7, <2>1, <2>2 DEF InBlocks
<1> DEFINE b == q + 1
           j == r + 1
<1>9. b \in 1..(n + 1) /\ j \in 1..Len(Split(s, B)[b]) /\ (b - 1) * B + j = i + 1
  <2>1. b - 1 = q
    BY <1>3
  <2> QED
    BY <1>3, <1>4, <1>8, <2>1
<1> HIDE DEF b, j
<1>10. Split(s, B)[b][j] = s[(b - 1) * B + j]
  BY <1>7, <1>9 DEF InBlocks
<1> QED
  BY <1>8, <1>9, <1>10 DEF q, r, b, j

-----------------------------------------------------------------------------
(* The searches.  First: std::lower_bound and std::upper_bound always have *)
(* an answer (the CHOOSEs of LowerBound and UpperBound do); then where the *)
(* two levels of a search end for a value that is stored, and what a range *)
(* search takes.                                                           *)

(* Every nonempty set of natural numbers has a least element.              *)
LEMMA LeastNat ==
    ASSUME NEW T, T \subseteq Nat, T # {}
    PROVE  \E m \in T : \A n \in T : m <= n
<1> DEFINE R == OpToRel(<, Nat)
<1>1. IsWellFoundedOn(R, Nat)
  BY NatLessThanWellFounded
<1>2. \E m \in T : \A n \in T : <<n, m>> \notin R
  <2> HIDE DEF R
  <2> QED
    BY <1>1, WFMin, ZenonT(20)
<1>3. \A m, n \in Nat : <<n, m>> \in R <=> n < m
  BY DEF OpToRel
<1> HIDE DEF R
<1>4. PICK m \in T : \A n \in T : <<n, m>> \notin R
  BY <1>2
<1>5. \A n \in T : n \in Nat /\ ~(n < m)
  BY <1>3, <1>4
<1>6. \A n \in T : m <= n
  BY <1>4, <1>5
<1> QED
  BY <1>6

(* std::lower_bound has an answer: the least offset that qualifies.        *)
LEMMA LowerBoundFacts ==
    ASSUME NEW s \in Seq(Int), NEW v \in Int
    PROVE  /\ LowerBound(s, v) \in 0..Len(s)
           /\ \A j \in 1..LowerBound(s, v) : s[j] < v
           /\ LowerBound(s, v) < Len(s) => s[LowerBound(s, v) + 1] >= v
<1> DEFINE T == {i \in 0..Len(s) : i < Len(s) => s[i + 1] >= v}
<1>1. Len(s) \in Nat /\ \A i \in 1..Len(s) : s[i] \in Int
  OBVIOUS
<1>2. Len(s) \in T /\ T \subseteq Nat
  BY <1>1
<1>3. PICK m \in T : \A n \in T : m <= n
  BY <1>2, LeastNat
<1>4. ASSUME NEW j \in 1..m
      PROVE  s[j] < v
  <2>1. /\ j - 1 \in 0..Len(s) /\ j - 1 < Len(s) /\ j - 1 + 1 = j
        /\ j - 1 < m /\ j \in 1..Len(s)
    BY <1>1
  <2>2. j - 1 \notin T
    BY <1>1, <1>3, <2>1
  <2>3. ~ (s[j] >= v)
    BY <2>1, <2>2
  <2> QED
    BY <1>1, <2>1, <2>3
<1>5. \E i \in 0..Len(s) : /\ \A j \in 1..i : s[j] < v
                           /\ i < Len(s) => s[i + 1] >= v
  BY <1>4
<1> QED
  BY <1>5 DEF LowerBound

(* ... and it is the only one.                                             *)
LEMMA LowerBoundIs ==
    ASSUME NEW s \in Seq(Int), NEW v \in Int, NEW i \in 0..Len(s),
           \A j \in 1..i : s[j] < v,
           i < Len(s) => s[i + 1] >= v
    PROVE  LowerBound(s, v) = i
<1> DEFINE m == LowerBound(s, v)
<1>1. /\ m \in 0..Len(s)
      /\ \A j \in 1..m : s[j] < v
      /\ m < Len(s) => s[m + 1] >= v
  BY LowerBoundFacts
<1>2. Len(s) \in Nat /\ \A j \in 1..Len(s) : s[j] \in Int
  OBVIOUS
<1> HIDE DEF m
<1>3. ~ (m < i)
  <2> SUFFICES ASSUME m < i PROVE FALSE
    OBVIOUS
  <2>1. m + 1 \in 1..i /\ m + 1 \in 1..Len(s) /\ m < Len(s)
    BY <1>1, <1>2
  <2> QED
    BY <1>1, <1>2, <2>1
<1>4. ~ (i < m)
  <2> SUFFICES ASSUME i < m PROVE FALSE
    OBVIOUS
  <2>1. i + 1 \in 1..m /\ i + 1 \in 1..Len(s) /\ i < Len(s)
    BY <1>1, <1>2
  <2> QED
    BY <1>1, <1>2, <2>1
<1>5. m = i
  BY <1>1, <1>2, <1>3, <1>4
<1> QED
  BY <1>5 DEF m

(* The same for std::upper_bound, which starts where the lower one ended.  *)
LEMMA UpperBoundFacts ==
    ASSUME NEW s \in Seq(Int), NEW v \in Int, NEW from \in 0..Len(s)
    PROVE  /\ UpperBound(s, from, v) \in from..Len(s)
           /\ \A j \in (from + 1)..UpperBound(s, from, v) : s[j] <= v
           /\ UpperBound(s, from, v) < Len(s)
                 => s[UpperBound(s, from, v) + 1] > v
<1> DEFINE T == {i \in from..Len(s) : i < Len(s) => s[i + 1] > v}
<1>1. Len(s) \in Nat /\ \A i \in 1..Len(s) : s[i] \in Int
  OBVIOUS
<1>2. Len(s) \in T /\ T \subseteq Nat
  BY <1>1
<1>3. PICK m \in T : \A n \in T : m <= n
  BY <1>2, LeastNat
<1>4. ASSUME NEW j \in (from + 1)..m
      PROVE  s[j] <= v
  <2>1. /\ j - 1 \in from..Len(s) /\ j - 1 < Len(s) /\ j - 1 + 1 = j
        /\ j - 1 < m /\ j \in 1..Len(s)
    BY <1>1
  <2>2. j - 1 \notin T
    BY <1>1, <1>3, <2>1
  <2>3. ~ (s[j] > v)
    BY <2>1, <2>2
  <2> QED
    BY <1>1, <2>1, <2>3
<1>5. \E i \in from..Len(s) : /\ \A j \in (from + 1)..i : s[j] <= v
                              /\ i < Len(s) => s[i + 1] > v
  BY <1>4
<1> QED
  BY <1>5 DEF UpperBound

IsAscending(s) == \A i, j \in 1..Len(s) : i < j => s[i] < s[j]

(* A single value: the search in the block index ends at the block whose   *)
(* last value is the first not below it, the search in a block at it.      *)
LEMMA ValueBlockIs ==
    ASSUME NEW maxes \in Seq(Int), NEW v \in Int, NEW b \in 0..(Len(maxes) - 1),
           \A j \in 1..b : maxes[j] < v, maxes[b + 1] >= v
    PROVE  findBlockValue(maxes, v) = {b}
<1>1. b \in 0..Len(maxes) /\ b < Len(maxes)
  OBVIOUS
<1>2. LowerBound(maxes, v) = b
  BY <1>1, LowerBoundIs
<1> QED
  BY <1>1, <1>2 DEF findBlockValue

(* In a block a stored value is found at its offset and nowhere else.      *)
LEMMA ValueOffsetIs ==
    ASSUME NEW s \in Seq(Int), IsAscending(s), NEW k \in 0..(Len(s) - 1)
    PROVE  queryValueIndexes(s, {s[k + 1]}) = {k}
<1>1. /\ k \in 0..Len(s) /\ k < Len(s) /\ k + 1 \in 1..Len(s)
      /\ s[k + 1] \in Int
  OBVIOUS
<1>2. \A j \in 1..k : s[j] < s[k + 1]
  BY <1>1 DEF IsAscending
<1>3. s[k + 1] >= s[k + 1]
  BY <1>1
<1>4. LowerBound(s, s[k + 1]) = k
  BY <1>1, <1>2, <1>3, LowerBoundIs
<1> QED
  BY <1>1, <1>4 DEF queryValueIndexes

(* A range of cells, of which x is one: the blocks visited include the one *)
(* whose last value is the first not below x.                              *)
LEMMA RangeBlocksInclude ==
    ASSUME NEW maxes \in Seq(Int), NEW lo \in Int, NEW hi \in Int, NEW x \in Int,
           lo <= x, x <= hi, NEW b \in 0..(Len(maxes) - 1),
           \A j \in 1..b : maxes[j] < x, maxes[b + 1] >= x
    PROVE  b \in findBlockRange(maxes, <<lo, hi>>)
<1> DEFINE lower == LowerBound(maxes, lo)
           upper == UpperBound(maxes, lower, hi)
<1>1. /\ Len(maxes) \in Nat /\ \A i \in 1..Len(maxes) : maxes[i] \in Int
      /\ b \in Nat /\ b < Len(maxes) /\ b + 1 \in 1..Len(maxes)
  OBVIOUS
<1>2. lower \in 0..Len(maxes) /\ \A j \in 1..lower : maxes[j] < lo
  BY LowerBoundFacts
<1>3. /\ upper \in lower..Len(maxes)
      /\ upper < Len(maxes) => maxes[upper + 1] > hi
  BY <1>2, UpperBoundFacts
<1> HIDE DEF lower, upper
<1>4. lower <= b
  <2> SUFFICES ASSUME b < lower PROVE FALSE
    BY <1>1, <1>2
  <2>1. b + 1 \in 1..lower
    BY <1>1, <1>2
  <2> QED
    BY <1>1, <1>2, <2>1
<1>5. b <= upper
  <2> SUFFICES ASSUME upper < b PROVE FALSE
    BY <1>1, <1>2, <1>3
  <2>1. /\ upper + 1 \in 1..b /\ upper < Len(maxes)
        /\ upper + 1 \in 1..Len(maxes)
    BY <1>1, <1>2, <1>3
  <2> QED
    BY <1>1, <1>3, <2>1
<1>6. /\ lower # Len(maxes)
      /\ b \in lower..(IF upper = Len(maxes) THEN upper - 1 ELSE upper)
  BY <1>1, <1>2, <1>3, <1>4, <1>5
<1>7. findBlockRange(maxes, <<lo, hi>>) =
          lower..(IF upper = Len(maxes) THEN upper - 1 ELSE upper)
  BY <1>6 DEF findBlockRange, lower, upper
<1> QED
  BY <1>6, <1>7

(* In its block the range search takes the offset of x.                    *)
LEMMA RangeOffsetsInclude ==
    ASSUME NEW s \in Seq(Int), IsAscending(s), NEW lo \in Int, NEW hi \in Int,
           NEW k \in 0..(Len(s) - 1), lo <= s[k + 1], s[k + 1] <= hi
    PROVE  \E r \in rangeIndexes(s, <<lo, hi>>) : k \in r[1]..r[2]
<1> DEFINE lower == LowerBound(s, lo)
           upper == UpperBound(s, lower, hi)
           last  == IF upper = Len(s) THEN upper - 1 ELSE upper
<1>1. /\ Len(s) \in Nat /\ \A i \in 1..Len(s) : s[i] \in Int
      /\ k \in Nat /\ k < Len(s) /\ k + 1 \in 1..Len(s)
  OBVIOUS
<1>2. lower \in 0..Len(s) /\ \A j \in 1..lower : s[j] < lo
  BY LowerBoundFacts
<1>3. upper \in lower..Len(s) /\ (upper < Len(s) => s[upper + 1] > hi)
  BY <1>2, UpperBoundFacts
<1> HIDE DEF lower, upper
<1>4. lower <= k
  <2> SUFFICES ASSUME k < lower PROVE FALSE
    BY <1>1, <1>2
  <2>1. k + 1 \in 1..lower
    BY <1>1, <1>2
  <2> QED
    BY <1>1, <1>2, <2>1
<1>5. k < upper
  <2> SUFFICES ASSUME upper <= k PROVE FALSE
    BY <1>1, <1>2, <1>3
  <2>1. /\ upper < Len(s) /\ upper + 1 \in 1..Len(s)
        /\ upper + 1 = k + 1 \/ upper + 1 < k + 1
    BY <1>1, <1>2, <1>3
  <2>2. s[upper + 1] <= s[k + 1]
    BY <1>1, <2>1 DEF IsAscending
  <2> QED
    BY <1>1, <1>3, <2>1, <2>2
<1>6. /\ lower < Len(s) /\ lower < upper
      /\ k \in lower..last
  BY <1>1, <1>2, <1>3, <1>4, <1>5
<1>7. rangeIndexes(s, <<lo, hi>>) = {<<lower, last>>}
  BY <1>6 DEF rangeIndexes, lower, upper
<1> HIDE DEF last
<1>8. <<lower, last>>[1] = lower /\ <<lower, last>>[2] = last
  OBVIOUS
<1> QED
  BY <1>6, <1>7, <1>8

(* It takes the value behind one of these, too, if there is one in the     *)
(* block.                                                                  *)
LEMMA RangeOffsetsBehind ==
    ASSUME NEW s \in Seq(Int), IsAscending(s), NEW lo \in Int, NEW hi \in Int,
           NEW k \in 1..(Len(s) - 1), lo <= s[k], s[k] <= hi
    PROVE  \E r \in rangeIndexes(s, <<lo, hi>>) : k \in r[1]..r[2]
<1> DEFINE lower == LowerBound(s, lo)
           upper == UpperBound(s, lower, hi)
           last  == IF upper = Len(s) THEN upper - 1 ELSE upper
<1>1. /\ Len(s) \in Nat /\ \A i \in 1..Len(s) : s[i] \in Int
      /\ k \in Nat /\ k < Len(s) /\ k \in 1..Len(s)
  OBVIOUS
<1>2. lower \in 0..Len(s) /\ \A j \in 1..lower : s[j] < lo
  BY LowerBoundFacts
<1>3. upper \in lower..Len(s) /\ (upper < Len(s) => s[upper + 1] > hi)
  BY <1>2, UpperBoundFacts
<1> HIDE DEF lower, upper
<1>4. lower < k
  <2> SUFFICES ASSUME k <= lower PROVE FALSE
    BY <1>1, <1>2
  <2>1. k \in 1..lower
    BY <1>1, <1>2
  <2> QED
    BY <1>1, <1>2, <2>1
<1>5. k <= upper
  <2> SUFFICES ASSUME upper < k PROVE FALSE
    BY <1>1, <1>2, <1>3
  <2>1. /\ upper < Len(s) /\ upper + 1 \in 1..Len(s)
        /\ upper + 1 = k \/ upper + 1 < k
    BY <1>1, <1>2, <1>3
  <2>2. s[upper + 1] <= s[k]
    BY <1>1, <2>1 DEF IsAscending
  <2> QED
    BY <1>1, <1>3, <2>1, <2>2
<1>6. /\ lower < Len(s) /\ lower < upper
      /\ k \in lower..last
  BY <1>1, <1>2, <1>3, <1>4, <1>5
<1>7. rangeIndexes(s, <<lo, hi>>) = {<<lower, last>>}
  BY <1>6 DEF rangeIndexes, lower, upper
<1> HIDE DEF last
<1>8. <<lower, last>>[1] = lower /\ <<lower, last>>[2] = last
  OBVIOUS
<1> QED
  BY <1>6, <1>7, <1>8

(* And it takes nothing past the block, and only its last value can lie    *)
(* outside the range.                                                      *)
LEMMA RangeOffsetsTaken ==
    ASSUME NEW s \in Seq(Int), IsAscending(s), NEW lo \in Int, NEW hi \in Int,
           NEW r \in rangeIndexes(s, <<lo, hi>>)
    PROVE  /\ r[1] \in Nat /\ r[2] \in Nat
           /\ r[1] <= r[2] /\ r[2] < Len(s)
           /\ s[r[1] + 1] \in lo..hi
           /\ \A k \in r[1]..(r[2] - 1) : s[k + 1] \in lo..hi
<1> DEFINE lower == LowerBound(s, lo)
           upper == UpperBound(s, lower, hi)
           last  == IF upper = Len(s) THEN upper - 1 ELSE upper
<1>1. Len(s) \in Nat /\ \A i \in 1..Len(s) : s[i] \in Int
  OBVIOUS
<1>2. lower \in 0..Len(s) /\ (lower < Len(s) => s[lower + 1] >= lo)
  BY LowerBoundFacts
<1>3. upper \in lower..Len(s) /\ \A j \in (lower + 1)..upper : s[j] <= hi
  BY <1>2, UpperBoundFacts
<1>4. lower < Len(s) /\ lower < upper /\ r = <<lower, last>>
  <2>1. /\ lower < Len(s) /\ lower < upper
        /\ r \in {<<lower, last>>}
    <3>1. rangeIndexes(s, <<lo, hi>>) =
              IF lower < Len(s) /\ lower < upper THEN {<<lower, last>>} ELSE {}
      BY DEF rangeIndexes
    <3> HIDE DEF lower, upper, last
    <3> QED
      BY <3>1
  <2> QED
    BY <2>1
<1> HIDE DEF lower, upper
<1>5. r[1] = lower /\ r[2] = last /\ lower \in Nat /\ upper \in Nat
  BY <1>1, <1>2, <1>3, <1>4
<1>6. /\ last \in Nat /\ lower <= last /\ last < Len(s) /\ last <= upper
  BY <1>1, <1>2, <1>3, <1>4
<1> HIDE DEF last
<1>7. ASSUME NEW k \in lower..(last - 1)
      PROVE  s[k + 1] \in lo..hi
  <2>1. /\ k + 1 \in (lower + 1)..upper /\ k + 1 \in 1..Len(s)
        /\ lower + 1 \in 1..Len(s)
        /\ lower + 1 = k + 1 \/ lower + 1 < k + 1
    BY <1>1, <1>5, <1>6
  <2>2. s[lower + 1] <= s[k + 1]
    BY <1>1, <2>1 DEF IsAscending
  <2> QED
    BY <1>1, <1>2, <1>3, <1>4, <2>1, <2>2, SMTT(30)
<1>8. s[lower + 1] \in lo..hi
  BY <1>1, <1>2, <1>3, <1>4
<1> QED
  BY <1>5, <1>6, <1>7, <1>8
=============================================================================
