----------------------------- MODULE OrderProofs -----------------------------
(***************************************************************************)
(* Sets of numbers in their order: least and greatest elements, and how    *)
(* many elements of a set lie below one of its elements.  And sequences: a *)
(* new entry at some place, the concatenation of a column's blocks.        *)
(***************************************************************************)
EXTENDS SequencesExt, FiniteSetTheorems, SequenceTheorems, BlocksProofs

(* Min finds the least element of any set of natural numbers.              *)
LEMMA MinFacts ==
    ASSUME NEW S, S \subseteq Nat, S # {}
    PROVE  Min(S) \in S /\ \A y \in S : Min(S) <= y
<1>1. \E m \in S : \A y \in S : m <= y
  BY LeastNat
<1> QED
  BY <1>1 DEF Min

(* Max finds the greatest element of a set that has a bound.               *)
LEMMA BoundedMaxFacts ==
    ASSUME NEW S, S \subseteq Nat, S # {}, NEW n \in Nat, \A y \in S : y <= n
    PROVE  Max(S) \in S /\ \A y \in S : y <= Max(S)
<1> DEFINE B == {m \in Nat : \A y \in S : y <= m}
<1>1. PICK m \in B : \A k \in B : m <= k
  <2>1. n \in B /\ B \subseteq Nat
    OBVIOUS
  <2> HIDE DEF B
  <2> QED
    BY <2>1, LeastNat
<1>2. m \in S
  <2> SUFFICES ASSUME m \notin S PROVE FALSE
    OBVIOUS
  <2>1. m \in Nat /\ \A y \in S : y \in Nat /\ y <= m - 1
    BY <1>1
  <2>2. m - 1 \in Nat
    <3>1. PICK y \in S : y \in Nat /\ y <= m - 1
      BY <2>1
    <3> QED
      BY <2>1, <3>1
  <2>3. m - 1 \in B
    BY <2>1, <2>2
  <2> QED
    BY <1>1, <2>1, <2>3
<1>3. \A y \in S : m >= y
  BY <1>1
<1>4. \E x \in S : \A y \in S : x >= y
  BY <1>2, <1>3
<1>5. Max(S) \in S /\ \A y \in S : Max(S) >= y
  BY <1>4 DEF Max
<1> QED
  BY <1>5

-----------------------------------------------------------------------------
(* The elements of S below x; their number is the place of x in the order. *)
Below(S, x) == {y \in S : y < x}

(* An element has fewer elements below it than the set has.                *)
LEMMA BelowFacts ==
    ASSUME NEW S, S \subseteq Nat, IsFiniteSet(S), NEW x \in S
    PROVE  /\ Cardinality(Below(S, x)) \in Nat /\ Cardinality(S) \in Nat
           /\ Cardinality(Below(S, x)) < Cardinality(S)
<1>1. Below(S, x) \in SUBSET (S \ {x})
  BY DEF Below
<1>2. IsFiniteSet(S \ {x}) /\ Cardinality(S \ {x}) = Cardinality(S) - 1
  BY FS_RemoveElement
<1>3. /\ IsFiniteSet(Below(S, x))
      /\ Cardinality(Below(S, x)) <= Cardinality(S \ {x})
  BY <1>1, <1>2, FS_Subset
<1>4. Cardinality(Below(S, x)) \in Nat /\ Cardinality(S) \in Nat
  BY <1>3, FS_CardinalityType
<1> QED
  BY <1>2, <1>3, <1>4

(* A greater element has more of them below it.                            *)
LEMMA BelowMonotone ==
    ASSUME NEW S, S \subseteq Nat, IsFiniteSet(S), NEW x \in S, NEW y \in S, x < y
    PROVE  Cardinality(Below(S, x)) < Cardinality(Below(S, y))
<1>1. IsFiniteSet(Below(S, x)) /\ IsFiniteSet(Below(S, y))
  <2>1. Below(S, x) \in SUBSET S /\ Below(S, y) \in SUBSET S
    BY DEF Below
  <2> QED
    BY <2>1, FS_Subset
<1>2. x \notin Below(S, x) /\ Below(S, x) \cup {x} \in SUBSET Below(S, y)
  <2>1. x \in Nat /\ y \in Nat
    OBVIOUS
  <2>2. \A z \in S : z < x => z < y
    BY <2>1
  <2>3. ~ (x < x)
    BY <2>1
  <2> QED
    BY <2>2, <2>3, x < y DEF Below
<1>3. Cardinality(Below(S, x) \cup {x}) = Cardinality(Below(S, x)) + 1
  BY <1>1, <1>2, FS_AddElement
<1>4. Cardinality(Below(S, x) \cup {x}) <= Cardinality(Below(S, y))
  BY <1>1, <1>2, FS_Subset
<1>5. Cardinality(Below(S, x)) \in Nat /\ Cardinality(Below(S, y)) \in Nat
  BY <1>1, FS_CardinalityType
<1> QED
  BY <1>3, <1>4, <1>5

(* ... so the number of elements below tells an element's place.           *)
LEMMA BelowOrder ==
    ASSUME NEW S, S \subseteq Nat, IsFiniteSet(S), NEW x \in S, NEW y \in S
    PROVE  /\ Cardinality(Below(S, x)) = Cardinality(Below(S, y)) => x = y
           /\ Cardinality(Below(S, x)) < Cardinality(Below(S, y)) => x < y
<1>1. /\ x \in Nat /\ y \in Nat
      /\ Cardinality(Below(S, x)) \in Nat /\ Cardinality(Below(S, y)) \in Nat
  BY BelowFacts
<1>2. x < y => Cardinality(Below(S, x)) < Cardinality(Below(S, y))
  BY BelowMonotone
<1>3. y < x => Cardinality(Below(S, y)) < Cardinality(Below(S, x))
  BY BelowMonotone
<1> QED
  BY <1>1, <1>2, <1>3

(* And so every place is taken: for any n below the number of elements one *)
(* element has n others below it.                                          *)
LEMMA EveryPlace ==
    ASSUME NEW S, S \subseteq Nat, IsFiniteSet(S), NEW n \in 0..(Cardinality(S) - 1)
    PROVE  \E x \in S : Cardinality(Below(S, x)) = n
<1> DEFINE P == 0..(Cardinality(S) - 1)
           f == [x \in S |-> Cardinality(Below(S, x))]
<1>1. Cardinality(S) \in Nat
  BY FS_CardinalityType
<1>2. IsFiniteSet(P) /\ Cardinality(P) = Cardinality(S)
  BY <1>1, FS_Interval
<1>3. \A x \in S : f[x] \in P
  <2>1. \A x \in S : /\ Cardinality(Below(S, x)) \in Nat
                      /\ Cardinality(Below(S, x)) < Cardinality(S)
    BY BelowFacts
  <2> QED
    BY <1>1, <2>1
<1>4. \A x, y \in S : f[x] = f[y] => x = y
  BY BelowOrder
<1>5. f \in Injection(S, P)
  BY <1>3, <1>4 DEF Injection, IsInjective
<1>6. f \in Surjection(S, P)
  <2> HIDE DEF f, P
  <2> QED
    BY <1>2, <1>5, FS_Injection
<1> QED
  BY <1>6 DEF Surjection

(* Max finds the greatest element of a finite set.                         *)
LEMMA FiniteMaxFacts ==
    ASSUME NEW S, S \subseteq Nat, S # {}, IsFiniteSet(S)
    PROVE  Max(S) \in S /\ \A y \in S : y <= Max(S)
<1>1. Cardinality(S) \in Nat \ {0}
  BY FS_CardinalityType, FS_EmptySet
<1>2. PICK x \in S : Cardinality(Below(S, x)) = Cardinality(S) - 1
  <2>1. Cardinality(S) - 1 \in 0..(Cardinality(S) - 1)
    BY <1>1
  <2> QED
    BY <2>1, EveryPlace
<1>3. \A y \in S : y <= x
  <2> SUFFICES ASSUME NEW y \in S, x < y PROVE FALSE
    OBVIOUS
  <2>1. Cardinality(Below(S, x)) < Cardinality(Below(S, y))
    BY BelowMonotone
  <2>2. /\ Cardinality(Below(S, y)) \in Nat
        /\ Cardinality(Below(S, y)) < Cardinality(S)
    BY BelowFacts
  <2> QED
    BY <1>1, <1>2, <2>1, <2>2
<1> QED
  BY <1>3, BoundedMaxFacts

-----------------------------------------------------------------------------
(* A new entry at place i.                                                 *)
LEMMA InsertFacts ==
    ASSUME NEW T, NEW s \in Seq(T), NEW i \in 1..(Len(s) + 1), NEW e \in T
    PROVE  /\ InsertAt(s, i, e) \in Seq(T)
           /\ Len(InsertAt(s, i, e)) = Len(s) + 1
           /\ \A n \in 1..(i - 1) : InsertAt(s, i, e)[n] = s[n]
           /\ InsertAt(s, i, e)[i] = e
           /\ \A n \in (i + 1)..(Len(s) + 1) : InsertAt(s, i, e)[n] = s[n - 1]
<1> DEFINE a == SubSeq(s, 1, i - 1)
           b == SubSeq(s, i, Len(s))
           u == a \o <<e>>
           t == InsertAt(s, i, e)
<1>1. t = u \o b
  BY DEF InsertAt
<1>2. a \in Seq(T) /\ Len(a) = i - 1 /\ \A n \in 1..(i - 1) : a[n] = s[n]
  OBVIOUS
<1>3. /\ b \in Seq(T) /\ Len(b) = Len(s) + 1 - i
      /\ \A n \in 1..(Len(s) + 1 - i) : b[n] = s[i + n - 1]
  OBVIOUS
<1> HIDE DEF a, b, t
<1>4. /\ u \in Seq(T) /\ Len(u) = i
      /\ \A n \in 1..(i - 1) : u[n] = s[n]
      /\ u[i] = e
  BY <1>2
<1> HIDE DEF u
<1>5. /\ t \in Seq(T) /\ Len(t) = Len(u) + Len(b)
      /\ \A n \in 1..(Len(u) + Len(b)) :
            t[n] = IF n <= Len(u) THEN u[n] ELSE b[n - Len(u)]
  BY <1>1, <1>3, <1>4, ConcatProperties
<1>6. Len(s) \in Nat /\ i \in Nat /\ i <= Len(s) + 1
  OBVIOUS
<1>7. /\ Len(t) = Len(s) + 1
      /\ \A n \in 1..i : t[n] = u[n]
      /\ \A n \in (i + 1)..(Len(s) + 1) : t[n] = b[n - i]
  <2>1. Len(u) + Len(b) = Len(s) + 1
    BY <1>3, <1>4, <1>6
  <2>2. \A n \in 1..i : n \in 1..(Len(u) + Len(b)) /\ n <= Len(u)
    BY <1>4, <1>6, <2>1
  <2>3. \A n \in (i + 1)..(Len(s) + 1) : n \in 1..(Len(u) + Len(b)) /\ ~ (n <= Len(u))
    BY <1>4, <1>6, <2>1
  <2> QED
    BY <1>4, <1>5, <2>1, <2>2, <2>3
<1>8. \A n \in (i + 1)..(Len(s) + 1) : t[n] = s[n - 1]
  <2>1. \A n \in (i + 1)..(Len(s) + 1) :
           n - i \in 1..(Len(s) + 1 - i) /\ i + (n - i) - 1 = n - 1
    BY <1>6
  <2> QED
    BY <1>3, <1>7, <2>1
<1>9. \A n \in 1..(i - 1) : t[n] = s[n]
  BY <1>4, <1>6, <1>7
<1>10. t[i] = e
  <2>1. i \in 1..i
    OBVIOUS
  <2> QED
    BY <1>4, <1>7, <2>1
<1> QED
  BY <1>5, <1>7, <1>8, <1>9, <1>10 DEF t

-----------------------------------------------------------------------------
(* FlattenSeq is a recursive function: whatever satisfies its equation is  *)
(* that function.                                                          *)
LEMMA FlattenIs ==
    ASSUME NEW t, Len(t) \in Nat \ {0}, NEW g,
           \A i \in 1..Len(t) : g[i] = IF i = 1 THEN t[i] ELSE g[i - 1] \o t[i]
    PROVE  FlattenSeq(t) = g[Len(t)]
<1> DEFINE N == Len(t)
           Sat(h) == h = [i \in 1..N |-> IF i = 1 THEN t[i] ELSE h[i - 1] \o t[i]]
           f == CHOOSE h : Sat(h)
           d == [i \in 1..N |-> g[i]]
           T == {i \in 1..N : f[i] # g[i]}
<1>1. Sat(d)
  <2>1. \A i \in 1..N : i # 1 => i - 1 \in 1..N
    OBVIOUS
  <2> QED
    BY <2>1 DEF Sat
<1>2. Sat(f)
  <2> HIDE DEF Sat, d
  <2> QED
    BY <1>1
<1>3. FlattenSeq(t) = f[N] /\ N \in Nat \ {0}
  BY DEF FlattenSeq
<1> HIDE DEF f
<1>4. \A i \in 1..N : f[i] = IF i = 1 THEN t[i] ELSE f[i - 1] \o t[i]
  BY <1>2 DEF Sat
<1> HIDE DEF N, Sat, d
<1>5. \A i \in 1..N : g[i] = IF i = 1 THEN t[i] ELSE g[i - 1] \o t[i]
  BY DEF N
<1>6. ASSUME T # {} PROVE FALSE
  <2>1. PICK m \in T : \A i \in T : m <= i
    <3>1. T \subseteq Nat
      BY <1>3
    <3> HIDE DEF T
    <3> QED
      BY <1>6, <3>1, LeastNat
  <2>2. m # 1 => m - 1 \in 1..N /\ m - 1 \notin T
    BY <1>3, <2>1
  <2>3. m # 1 => f[m - 1] = g[m - 1]
    BY <2>2
  <2> QED
    BY <1>4, <1>5, <2>1, <2>3
<1>7. f[N] = g[N]
  BY <1>3, <1>6
<1> QED
  BY <1>3, <1>7 DEF N

(* Two neighbouring pieces of a sequence.                                  *)
LEMMA Pieces ==
    ASSUME NEW T, NEW s \in Seq(T), NEW e \in 0..Len(s), NEW m \in 0..e
    PROVE  SubSeq(s, 1, m) \o SubSeq(s, m + 1, e) = SubSeq(s, 1, e)
OBVIOUS

(* The blocks of a column, one after the other, are the column.            *)
LEMMA FlattenSplit ==
    ASSUME NEW T, NEW s \in Seq(T), NEW B \in Nat \ {0}, s # << >>
    PROVE  FlattenSeq(Split(s, B)) = s
<1> DEFINE end(i) == SmallerOf(i * B, Len(s))
           t == Split(s, B)
           g == [i \in 1..Len(t) |-> SubSeq(s, 1, end(i))]
<1>1. Len(s) \in Nat \ {0}
  OBVIOUS
<1>2. PICK n \in Nat, k \in 1..B : Len(s) = n * B + k
  BY <1>1, LengthInBlocks
<1>3. /\ t = [b \in 1..(n + 1) |-> SubSeq(s, (b - 1) * B + 1, end(b))]
      /\ Len(t) = n + 1
  <2>1. determineBlocks(B, Len(s)) = n + 1
    BY <1>2, CountsOf, ZenonT(30)
  <2> QED
    BY <2>1 DEF Split
<1>4. n * B \in Nat /\ (n + 1) * B = n * B + B
  OBVIOUS
<1>5. end(n + 1) = Len(s)
  BY <1>1, <1>2, <1>4 DEF SmallerOf
<1>6. ASSUME NEW i \in 1..(n + 1)
      PROVE  /\ end(i) \in 0..Len(s) /\ (i - 1) * B \in 0..end(i)
             /\ i # 1 => end(i - 1) = (i - 1) * B
             /\ i = 1 => (i - 1) * B = 0
  <2> DEFINE a == (i - 1) * B
             b == i * B
  <2>1. a \in Nat /\ b \in Nat /\ b = a + B
    OBVIOUS
  <2>2. a <= n * B
    <3>1. CASE i = n + 1
      BY <3>1, <1>4
    <3>2. CASE i # n + 1
      <4>1. i - 1 \in Nat /\ i - 1 < n
        BY <3>2
      <4>2. (i - 1 + 1) * B <= n * B
        BY <4>1, BlockStarts
      <4>3. b <= n * B
        BY <4>2
      <4> HIDE DEF a, b
      <4> QED
        BY <1>4, <2>1, <4>3
    <3> QED
      BY <3>1, <3>2
  <2>3. i = 1 => a = 0
    OBVIOUS
  <2>4. end(i) = SmallerOf(b, Len(s)) /\ end(i - 1) = SmallerOf(a, Len(s))
    OBVIOUS
  <2> HIDE DEF a, b, end
  <2>5. end(i) \in 0..Len(s) /\ a \in 0..end(i) /\ end(i - 1) = a
    BY <1>1, <1>2, <1>4, <2>1, <2>2, <2>4 DEF SmallerOf
  <2> QED
    BY <2>3, <2>5 DEF a
<1> HIDE DEF end, t
<1>7. ASSUME NEW i \in 1..(n + 1)
      PROVE  g[i] = IF i = 1 THEN t[i] ELSE g[i - 1] \o t[i]
  <2>1. g[i] = SubSeq(s, 1, end(i)) /\ t[i] = SubSeq(s, (i - 1) * B + 1, end(i))
    BY <1>3
  <2>2. CASE i = 1
    BY <1>6, <2>1, <2>2
  <2>3. CASE i # 1
    <3> DEFINE m == (i - 1) * B
    <3>1. i - 1 \in 1..Len(t)
      BY <1>3, <2>3
    <3>2. g[i - 1] = SubSeq(s, 1, m) /\ t[i] = SubSeq(s, m + 1, end(i))
          /\ m \in 0..end(i) /\ end(i) \in 0..Len(s)
      BY <1>6, <2>1, <2>3, <3>1
    <3> HIDE DEF m, g
    <3>3. SubSeq(s, 1, m) \o SubSeq(s, m + 1, end(i)) = SubSeq(s, 1, end(i))
      BY <3>2, Pieces
    <3> QED
      BY <2>1, <2>3, <3>2, <3>3
  <2> QED
    BY <2>2, <2>3
<1>8. FlattenSeq(t) = g[n + 1]
  <2> HIDE DEF g
  <2>1. /\ Len(t) \in Nat \ {0} /\ Len(t) = n + 1
        /\ \A i \in 1..Len(t) : g[i] = IF i = 1 THEN t[i] ELSE g[i - 1] \o t[i]
    BY <1>3, <1>7
  <2>2. FlattenSeq(t) = g[Len(t)]
    BY <2>1, FlattenIs
  <2> QED
    BY <2>1, <2>2
<1>9. g[n + 1] = SubSeq(s, 1, Len(s)) /\ SubSeq(s, 1, Len(s)) = s
  BY <1>3, <1>5
<1> HIDE DEF g
<1> QED
  BY <1>8, <1>9 DEF t
=============================================================================
