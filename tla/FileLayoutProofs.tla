-------------------------- MODULE FileLayoutProofs --------------------------
(***************************************************************************)
(* Theorems about the file as bytes: for every input, block size and buffer*)
(* the sections lie in order, no write disturbs what was laid out before   *)
(* it, a complete file reads back, and no file is misread.                 *)
(***************************************************************************)
EXTENDS FileLayout, OrderProofs

(* The powers of Byte up to 2^64 are positive numbers, each greater than   *)
(* the one before it.                                                      *)
LEMMA BytePowers ==
    /\ \A n \in 0..Word : Byte^n \in Nat \ {0}
    /\ Byte^1 = Byte /\ Byte^4 < Wrap /\ Byte < Wrap /\ Byte^2 < Wrap /\ Wrap \in Nat \ {0}
<1>1. /\ Byte \in Nat \ {0, 1} /\ Byte^0 = 1
      /\ \A n \in 0..7 : Byte^(n + 1) = Byte^n * Byte
  BY LayoutAssumption, PowersAssumption DEF Word
<1>2. ASSUME NEW n \in 0..7, Byte^n \in Nat \ {0}
      PROVE  Byte^(n + 1) \in Nat \ {0} /\ Byte^n < Byte^(n + 1)
  <2> DEFINE p == Byte^n
             q == Byte^(n + 1)
  <2>1. q = p * Byte /\ p \in Nat \ {0}
    BY <1>1, <1>2
  <2> HIDE DEF p, q
  <2>2. p * Byte \in Nat \ {0} /\ p < p * Byte
    BY <1>1, <2>1
  <2> QED
    BY <2>1, <2>2 DEF p, q
<1>3. Byte^1 \in Nat \ {0} /\ Byte^0 < Byte^1 /\ Byte^0 \in Nat \ {0}
  <2>1. Byte^0 \in Nat \ {0}
    BY <1>1
  <2>2. Byte^(0 + 1) \in Nat \ {0} /\ Byte^0 < Byte^(0 + 1)
    BY <1>2, <2>1
  <2> QED
    BY <2>1, <2>2, 0 + 1 = 1
<1>4. Byte^2 \in Nat \ {0} /\ Byte^1 < Byte^2
  BY <1>2, <1>3, 1 + 1 = 2
<1>5. Byte^3 \in Nat \ {0} /\ Byte^2 < Byte^3
  BY <1>2, <1>4, 2 + 1 = 3
<1>6. Byte^4 \in Nat \ {0} /\ Byte^3 < Byte^4
  BY <1>2, <1>5, 3 + 1 = 4
<1>7. Byte^5 \in Nat \ {0} /\ Byte^4 < Byte^5
  BY <1>2, <1>6, 4 + 1 = 5
<1>8. Byte^6 \in Nat \ {0} /\ Byte^5 < Byte^6
  BY <1>2, <1>7, 5 + 1 = 6
<1>9. Byte^7 \in Nat \ {0} /\ Byte^6 < Byte^7
  BY <1>2, <1>8, 6 + 1 = 7
<1>10. Byte^8 \in Nat \ {0} /\ Byte^7 < Byte^8
  BY <1>2, <1>9, 7 + 1 = 8
<1>11. Byte^1 = Byte
  <2>1. Byte^1 = 1 * Byte
    BY <1>1, 0 + 1 = 1
  <2> QED
    BY <1>1, <2>1
<1>12. \A n \in 0..8 : n \in {0, 1, 2, 3, 4, 5, 6, 7, 8}
  OBVIOUS
<1>13. \A n \in 0..8 : Byte^n \in Nat \ {0}
  BY <1>3, <1>4, <1>5, <1>6, <1>7, <1>8, <1>9, <1>10, <1>12
<1>14. Byte^4 < Byte^8 /\ Byte^1 < Byte^8 /\ Byte^2 < Byte^8
  BY <1>3, <1>4, <1>5, <1>6, <1>7, <1>8, <1>9, <1>10
<1> QED
  BY <1>10, <1>11, <1>13, <1>14 DEF Word, Wrap

-----------------------------------------------------------------------------
IsStep(F, N, S) == \A i \in 1..N : \A s \in S : F[<<i, s>>] \in S
Follows(e, F, N, base) == e[0] = base /\ \A i \in 1..N : e[i] = F[<<i, e[i - 1]>>]

(* Sequences that are defined by recursion: there is a function that does  *)
(* what the definition says, for any step function F.                      *)
LEMMA RecursionExists ==
    ASSUME NEW S, NEW base \in S, NEW N \in Nat, NEW F, IsStep(F, N, S)
    PROVE  \E e \in [0..N -> S] : Follows(e, F, N, base)
<1> DEFINE T == {m \in 0..N : ~ \E e \in [0..m -> S] : Follows(e, F, m, base)}
<1>1. ASSUME T # {} PROVE FALSE
  <2>1. PICK m \in T : \A n \in T : m <= n
    <3>1. T \subseteq Nat
      OBVIOUS
    <3> HIDE DEF T
    <3> QED
      BY <1>1, <3>1, LeastNat
  <2>2. CASE m = 0
    <3> DEFINE e == [i \in 0..0 |-> base]
    <3>1. e \in [0..0 -> S] /\ e[0] = base /\ \A i \in 1..0 : FALSE
      OBVIOUS
    <3> QED
      BY <2>1, <2>2, <3>1 DEF Follows
  <2>3. CASE m # 0
    <3>1. m - 1 \in 0..N /\ m - 1 < m /\ m \in 1..N
      BY <2>1, <2>3
    <3>2. m - 1 \notin T
      <4>1. m \in Int /\ ~ (m <= m - 1)
        BY <3>1
      <4> HIDE DEF T
      <4> QED
        BY <2>1, <4>1
    <3>3. PICK d \in [0..(m - 1) -> S] : Follows(d, F, m - 1, base)
      BY <3>1, <3>2
    <3> DEFINE e == [i \in 0..m |-> IF i = m THEN F[<<m, d[m - 1]>>] ELSE d[i]]
    <3>4. F[<<m, d[m - 1]>>] \in S
      <4>1. d[m - 1] \in S
        BY <3>1
      <4> QED
        BY <3>1, <4>1 DEF IsStep
    <3>5. e \in [0..m -> S]
      BY <3>1, <3>4
    <3>6. e[0] = base
      BY <3>1, <3>3 DEF Follows
    <3>7. ASSUME NEW i \in 1..m PROVE e[i] = F[<<i, e[i - 1]>>]
      <4>1. CASE i = m
        <5>1. m \in 0..m /\ m - 1 \in 0..m /\ m - 1 # m
          BY <3>1
        <5>2. e[m] = F[<<m, d[m - 1]>>] /\ e[m - 1] = d[m - 1]
          BY <5>1
        <5> QED
          BY <4>1, <5>2
      <4>2. CASE i # m
        <5>1. i \in 1..(m - 1) /\ i \in 0..m /\ i - 1 \in 0..m /\ i - 1 # m
          BY <3>1, <4>2
        <5> QED
          BY <3>3, <4>2, <5>1 DEF Follows
      <4> QED
        BY <4>1, <4>2
    <3> HIDE DEF e
    <3>8. Follows(e, F, m, base)
      BY <3>6, <3>7 DEF Follows
    <3> QED
      BY <2>1, <3>5, <3>8
  <2> QED
    BY <2>2, <2>3
<1>2. N \notin T
  BY <1>1
<1> QED
  BY <1>2
-----------------------------------------------------------------------------
(* The ends of the pieces t: what EndsOf gives, and that the pieces follow *)
(* one another.                                                            *)
LEMMA EndsFacts ==
    ASSUME NEW T, NEW t \in Seq(Seq(T))
    PROVE  /\ EndsOf(t) \in Seq(Nat) /\ Len(EndsOf(t)) = Len(t)
           /\ \A i \in 1..Len(t) :
                 EndsOf(t)[i] = Len(t[i]) + (IF i = 1 THEN 0 ELSE EndsOf(t)[i - 1])
<1> DEFINE N == Len(t)
           F == [p \in (1..N) \X Nat |-> p[2] + Len(t[p[1]])]
           Sat(h) == h = [i \in 1..N |-> Len(t[i]) + (IF i = 1 THEN 0 ELSE h[i - 1])]
           f == CHOOSE h : Sat(h)
<1>1. N \in Nat /\ DOMAIN t = 1..N /\ \A i \in 1..N : Len(t[i]) \in Nat
  OBVIOUS
<1>2. \A i \in 1..N : \A s \in Nat : F[<<i, s>>] \in Nat
  BY <1>1
<1>3. PICK e \in [0..N -> Nat] :
         e[0] = 0 /\ \A i \in 1..N : e[i] = F[<<i, e[i - 1]>>]
  <2>1. 0 \in Nat /\ N \in Nat /\ IsStep(F, N, Nat)
    BY <1>1, <1>2 DEF IsStep
  <2> HIDE DEF F, N
  <2>2. \E e \in [0..N -> Nat] : Follows(e, F, N, 0)
    BY <2>1, RecursionExists
  <2> QED
    BY <2>2 DEF Follows
<1>4. ASSUME NEW i \in 1..N
      PROVE  i - 1 \in 0..N /\ e[i - 1] \in Nat /\ e[i] = e[i - 1] + Len(t[i])
  <2>1. i - 1 \in 0..N
    BY <1>1
  <2>2. e[i - 1] \in Nat
    BY <2>1
  <2>3. F[<<i, e[i - 1]>>] = e[i - 1] + Len(t[i])
    BY <2>2
  <2> QED
    BY <1>3, <2>1, <2>2, <2>3
<1> HIDE DEF F
<1> DEFINE d == [i \in 1..N |-> e[i]]
<1>5. \A i \in 1..N : d[i] = Len(t[i]) + (IF i = 1 THEN 0 ELSE d[i - 1])
  <2> SUFFICES ASSUME NEW i \in 1..N
               PROVE  d[i] = Len(t[i]) + (IF i = 1 THEN 0 ELSE d[i - 1])
    OBVIOUS
  <2>1. i # 1 => i - 1 \in 1..N
    BY <1>1
  <2> QED
    BY <1>1, <1>3, <1>4, <2>1
<1>6. Sat(d)
  <2>1. d = [i \in 1..N |-> d[i]]
    OBVIOUS
  <2> HIDE DEF d
  <2> QED
    BY <1>5, <2>1
<1>7. Sat(f)
  <2> HIDE DEF Sat, d
  <2> QED
    BY <1>6
<1>8. EndsOf(t) = f
  BY <1>1 DEF EndsOf
<1> HIDE DEF f
<1>9. \A i \in 1..N : f[i] = Len(t[i]) + (IF i = 1 THEN 0 ELSE f[i - 1])
  BY <1>7 DEF Sat
<1>10. DOMAIN f = 1..N /\ f = [i \in 1..N |-> f[i]]
  BY <1>7 DEF Sat
<1> DEFINE W == {i \in 1..N : f[i] # d[i]}
<1>11. ASSUME W # {} PROVE FALSE
  <2>1. PICK m \in W : \A i \in W : m <= i
    <3>1. W \subseteq Nat
      BY <1>1
    <3> HIDE DEF W
    <3> QED
      BY <1>11, <3>1, LeastNat
  <2>2. ASSUME m # 1 PROVE m - 1 \in 1..N /\ ~ (m <= m - 1)
    BY <1>1, <2>1, <2>2
  <2>3. ASSUME m # 1 PROVE f[m - 1] = d[m - 1]
    <3>1. m - 1 \notin W
      <4> HIDE DEF W
      <4> QED
        BY <2>1, <2>2, <2>3
    <3> HIDE DEF d
    <3> QED
      BY <2>2, <2>3, <3>1
  <2> HIDE DEF d
  <2> QED
    BY <1>5, <1>9, <2>1, <2>3
<1>12. \A i \in 1..N : f[i] \in Nat
  <2>1. \A i \in 1..N : d[i] \in Nat
    <3>1. \A i \in 1..N : i \in 0..N
      BY <1>1
    <3> QED
      BY <1>3, <3>1
  <2> HIDE DEF d
  <2> QED
    BY <1>11, <2>1
<1>13. f \in Seq(Nat) /\ Len(f) = N
  <2>1. f \in [1..N -> Nat]
    BY <1>10, <1>12
  <2> HIDE DEF N
  <2> QED
    BY <1>1, <2>1
<1> QED
  BY <1>8, <1>9, <1>13

(* ... and they never decrease.                                            *)
LEMMA EndsGrow ==
    ASSUME NEW T, NEW t \in Seq(Seq(T)), NEW i \in 1..Len(t), NEW j \in i..Len(t)
    PROVE  EndsOf(t)[i] <= EndsOf(t)[j]
<1> DEFINE e == EndsOf(t)
           W == {n \in i..Len(t) : ~ (e[i] <= e[n])}
<1>1. \A n \in 1..Len(t) :
         /\ e[n] \in Nat /\ Len(t[n]) \in Nat
         /\ e[n] = Len(t[n]) + (IF n = 1 THEN 0 ELSE e[n - 1])
  <2>1. e \in Seq(Nat) /\ Len(e) = Len(t)
    BY EndsFacts
  <2>2. \A n \in 1..Len(t) : e[n] \in Nat
    <3> HIDE DEF e
    <3> QED
      BY <2>1
  <2> QED
    BY <2>2, EndsFacts
<1> HIDE DEF e
<1>2. ASSUME W # {} PROVE FALSE
  <2>1. PICK m \in W : \A n \in W : m <= n
    <3>1. W \subseteq Nat
      OBVIOUS
    <3> HIDE DEF W
    <3> QED
      BY <1>2, <3>1, LeastNat
  <2>2. m \in 1..Len(t) /\ m # i /\ m # 1
    BY <1>1, <2>1
  <2>3. m - 1 \in i..Len(t) /\ ~ (m <= m - 1)
    BY <2>1, <2>2
  <2>4. e[i] <= e[m - 1]
    BY <2>1, <2>3
  <2>5. e[m] = Len(t[m]) + e[m - 1] /\ e[m - 1] \in Nat /\ Len(t[m]) \in Nat
    BY <1>1, <2>2, <2>3
  <2> QED
    BY <1>1, <2>1, <2>4, <2>5
<1> QED
  BY <1>2 DEF e

(* Where piece i starts.                                                   *)
Begin(t, i) == IF i = 1 THEN 0 ELSE EndsOf(t)[i - 1]

(* Pieces one after the other: how long they are, and each in its place.   *)
LEMMA FlattenFacts ==
    ASSUME NEW T, NEW t \in Seq(Seq(T)), t # << >>
    PROVE  /\ FlattenSeq(t) \in Seq(T)
           /\ Len(FlattenSeq(t)) = EndsOf(t)[Len(t)]
           /\ \A i \in 1..Len(t) : \A k \in 1..Len(t[i]) :
                 FlattenSeq(t)[Begin(t, i) + k] = t[i][k]
<1> DEFINE N == Len(t)
           F == [p \in (1..N) \X Seq(T) |-> p[2] \o t[p[1]]]
           end == EndsOf(t)
<1>1. N \in Nat \ {0} /\ \A i \in 1..N : t[i] \in Seq(T) /\ Len(t[i]) \in Nat
  OBVIOUS
<1>2. ASSUME NEW i \in 1..N, NEW s \in Seq(T)
      PROVE  F[<<i, s>>] = s \o t[i] /\ s \o t[i] \in Seq(T)
  <2>1. <<i, s>> \in (1..N) \X Seq(T)
    OBVIOUS
  <2>2. t[i] \in Seq(T)
    BY <1>1
  <2> DEFINE u == t[i]
  <2>3. s \o u \in Seq(T)
    <3>1. u \in Seq(T)
      BY <2>2
    <3> HIDE DEF u
    <3> QED
      BY <3>1
  <2> QED
    BY <2>1, <2>3
<1>3. PICK g \in [0..N -> Seq(T)] : Follows(g, F, N, << >>)
  <2>1. << >> \in Seq(T) /\ N \in Nat /\ IsStep(F, N, Seq(T))
    <3>1. << >> \in Seq(T)
      OBVIOUS
    <3>2. IsStep(F, N, Seq(T))
      <4> HIDE DEF F
      <4> QED
        BY <1>2 DEF IsStep
    <3> QED
      BY <1>1, <3>1, <3>2
  <2> HIDE DEF F, N
  <2> QED
    BY <2>1, RecursionExists
<1>4. \A i \in 0..N : g[i] \in Seq(T) /\ Len(g[i]) \in Nat
  <2>1. \A i \in 0..N : g[i] \in Seq(T)
    OBVIOUS
  <2> QED
    BY <2>1
<1>5. ASSUME NEW i \in 1..N
      PROVE  i - 1 \in 0..N /\ i \in 0..N /\ g[i] = g[i - 1] \o t[i]
  <2>1. i - 1 \in 0..N /\ i \in 0..N
    BY <1>1
  <2>2. g[i] = F[<<i, g[i - 1]>>]
    BY <1>3 DEF Follows
  <2> HIDE DEF F
  <2> QED
    BY <1>2, <1>4, <2>1, <2>2
<1>6. g[0] = << >>
  BY <1>3 DEF Follows
<1> HIDE DEF F
<1>7. \A i \in 1..N : g[i] = IF i = 1 THEN t[i] ELSE g[i - 1] \o t[i]
  <2> SUFFICES ASSUME NEW i \in 1..N
               PROVE  g[i] = IF i = 1 THEN t[i] ELSE g[i - 1] \o t[i]
    OBVIOUS
  <2>1. CASE i = 1
    <3>1. g[1] = << >> \o t[1]
      BY <1>5, <1>6, <2>1, 1 - 1 = 0
    <3>2. << >> \o t[1] = t[1]
      BY <1>1
    <3> QED
      BY <2>1, <3>1, <3>2
  <2> QED
    BY <1>5, <2>1
<1>8. FlattenSeq(t) = g[N]
  BY <1>1, <1>7, FlattenIs
<1>9. /\ \A i \in 1..N : /\ end[i] \in Nat
                         /\ end[i] = Len(t[i]) + (IF i = 1 THEN 0 ELSE end[i - 1])
  <2>1. end \in Seq(Nat) /\ Len(end) = N
    BY EndsFacts
  <2>2. \A i \in 1..N : end[i] \in Nat
    <3> HIDE DEF end
    <3> QED
      BY <2>1
  <2> QED
    BY <2>2, EndsFacts
<1> DEFINE good(n) == /\ Len(g[n]) = (IF n = 0 THEN 0 ELSE end[n])
                      /\ \A i \in 1..n : \A k \in 1..Len(t[i]) :
                            /\ Begin(t, i) + k \in 1..Len(g[n])
                            /\ g[n][Begin(t, i) + k] = t[i][k]
           W == {n \in 0..N : ~ good(n)}
<1>10. ASSUME NEW n \in 1..N, good(n - 1) PROVE good(n)
  <2> DEFINE h == g[n - 1]
             u == t[n]
  <2>0. /\ n - 1 \in 0..N /\ n \in 0..N /\ g[n] = h \o u
        /\ h \in Seq(T) /\ u \in Seq(T) /\ Len(h) \in Nat /\ Len(u) \in Nat
    BY <1>1, <1>4, <1>5
  <2>5. /\ Len(h \o u) = Len(h) + Len(u)
        /\ \A j \in 1..Len(u) : (h \o u)[Len(h) + j] = u[j]
        /\ \A j \in 1..Len(h) : (h \o u)[j] = h[j]
    <3> HIDE DEF h, u
    <3> QED
      BY <2>0
  <2>1. /\ Len(g[n]) = Len(g[n - 1]) + Len(t[n])
        /\ Len(g[n - 1]) \in Nat /\ Len(t[n]) \in Nat
        /\ \A j \in 1..Len(t[n]) : g[n][Len(g[n - 1]) + j] = t[n][j]
        /\ \A j \in 1..Len(g[n - 1]) : g[n][j] = g[n - 1][j]
    BY <2>0, <2>5
  <2>2. Len(g[n - 1]) = Begin(t, n)
    BY <1>10 DEF Begin
  <2>3. Len(g[n]) = end[n]
    BY <1>9, <2>1, <2>2 DEF Begin
  <2>4. ASSUME NEW i \in 1..n, NEW k \in 1..Len(t[i])
        PROVE  /\ Begin(t, i) + k \in 1..Len(g[n])
               /\ g[n][Begin(t, i) + k] = t[i][k]
    <3>1. CASE i = n
      <4>1. g[n][Begin(t, n) + k] = t[n][k]
        BY <2>1, <2>2, <3>1
      <4>2. Begin(t, n) + k \in 1..Len(g[n])
        BY <2>1, <2>2, <3>1
      <4> QED
        BY <3>1, <4>1, <4>2
    <3>2. CASE i # n
      <4>1. i \in 1..(n - 1)
        BY <3>2
      <4>2. /\ Begin(t, i) + k \in 1..Len(g[n - 1])
            /\ g[n - 1][Begin(t, i) + k] = t[i][k]
        BY <1>10, <4>1
      <4>3. g[n][Begin(t, i) + k] = g[n - 1][Begin(t, i) + k]
        BY <2>1, <4>2
      <4>4. \A j \in 1..Len(g[n - 1]) : j \in 1..Len(g[n])
        <5> DEFINE a == Len(g[n - 1])
                   c == Len(t[n])
                   l == Len(g[n])
        <5>1. a \in Nat /\ c \in Nat /\ l = a + c
          BY <2>1
        <5> HIDE DEF a, c, l
        <5>2. \A j \in 1..a : j \in 1..l
          BY <5>1
        <5> QED
          BY <5>2 DEF a, l
      <4> QED
        BY <4>2, <4>3, <4>4
    <3> QED
      BY <3>1, <3>2
  <2> QED
    BY <2>3, <2>4
<1>11. good(0)
  <2>1. Len(g[0]) = 0 /\ 1..0 = {}
    BY <1>6
  <2> QED
    BY <2>1
<1>12. ASSUME W # {} PROVE FALSE
  <2>1. PICK m \in W : \A n \in W : m <= n
    <3>1. W \subseteq Nat
      BY <1>1
    <3> HIDE DEF W
    <3> QED
      BY <1>12, <3>1, LeastNat
  <2> HIDE DEF good
  <2>2. m \in 1..N /\ m - 1 \in 0..N /\ ~ (m <= m - 1)
    BY <1>1, <1>11, <2>1
  <2>3. m - 1 \notin W
    <3> HIDE DEF W
    <3> QED
      BY <2>1, <2>2
  <2>4. good(m - 1)
    BY <2>2, <2>3
  <2> QED
    BY <1>10, <2>1, <2>2, <2>4
<1>13. N \in 0..N /\ N # 0
  BY <1>1
<1>14. good(N)
  <2> HIDE DEF good
  <2> QED
    BY <1>12, <1>13
<1> QED
  BY <1>4, <1>8, <1>13, <1>14

-----------------------------------------------------------------------------
(* Integers as bytes.                                                      *)

(* A word in little endian is a string of as many bytes as its field has.  *)
LEMMA LittleEndianFacts ==
    ASSUME NEW v \in Nat, NEW w \in 0..Word
    PROVE  LittleEndian(v, w) \in Bytes /\ Len(LittleEndian(v, w)) = w
<1>1. Byte \in Nat \ {0} /\ w \in Nat
  BY LayoutAssumption DEF Word
<1>2. ASSUME NEW k \in 1..w PROVE (v \div Byte^(k - 1)) % Byte \in 0..(Byte - 1)
  <2>1. Byte^(k - 1) \in Nat \ {0}
    BY BytePowers DEF Word
  <2> DEFINE p == Byte^(k - 1)
  <2>2. v \div p \in Nat
    <3> HIDE DEF p
    <3> QED
      BY <2>1 DEF p
  <2> QED
    BY <1>1, <2>2
<1>3. LittleEndian(v, w) \in [1..w -> 0..(Byte - 1)]
  BY <1>2 DEF LittleEndian
<1> QED
  BY <1>1, <1>3 DEF Bytes

(* A string of words: eight bytes for each.                                *)
LEMMA WordsFacts ==
    ASSUME NEW s \in Seq(Nat)
    PROVE  /\ Words(s) \in Bytes /\ Len(Words(s)) = Len(s) * Word
           /\ \A i \in 1..Len(s) : \A k \in 1..Word :
                 Words(s)[(i - 1) * Word + k] = LittleEndian(s[i], Word)[k]
<1> DEFINE t == [i \in DOMAIN s |-> LittleEndian(s[i], Word)]
           N == Len(s)
<1>1. N \in Nat /\ DOMAIN s = 1..N /\ \A i \in 1..N : s[i] \in Nat
  OBVIOUS
<1>2. \A i \in 1..N : t[i] = LittleEndian(s[i], Word) /\ t[i] \in Bytes /\ Len(t[i]) = Word
  BY <1>1, LittleEndianFacts DEF Word
<1>3. t \in Seq(Bytes) /\ Len(t) = N
  <2>1. t \in [1..N -> Bytes]
    BY <1>1, <1>2
  <2> HIDE DEF t, N
  <2> QED
    BY <1>1, <2>1
<1>4. Words(s) = FlattenSeq(t)
  BY DEF Words
<1> HIDE DEF t
<1>5. CASE N = 0
  <2>1. FlattenSeq(t) = t
    BY <1>3, <1>5 DEF FlattenSeq
  <2>2. t \in Bytes
    BY <1>3, <1>5 DEF Bytes
  <2> QED
    BY <1>3, <1>4, <1>5, <2>1, <2>2 DEF Word
<1>6. CASE N # 0
  <2> DEFINE end == EndsOf(t)
             W == {i \in 1..N : end[i] # i * Word}
  <2>1. \A i \in 1..N : end[i] = Word + (IF i = 1 THEN 0 ELSE end[i - 1])
    <3>1. t \in Seq(Seq(0..(Byte - 1)))
      BY <1>3 DEF Bytes
    <3>2. \A i \in 1..Len(t) : end[i] = Len(t[i]) + (IF i = 1 THEN 0 ELSE end[i - 1])
      BY <3>1, EndsFacts
    <3> HIDE DEF end
    <3> QED
      BY <1>2, <1>3, <3>2
  <2>2. ASSUME W # {} PROVE FALSE
    <3>1. PICK m \in W : \A n \in W : m <= n
      <4>1. W \subseteq Nat
        BY <1>1
      <4> HIDE DEF W
      <4> QED
        BY <2>2, <4>1, LeastNat
    <3> HIDE DEF end
    <3>2. ASSUME m # 1 PROVE m - 1 \in 1..N /\ ~ (m <= m - 1)
      BY <1>1, <3>1, <3>2
    <3>3. ASSUME m # 1 PROVE end[m - 1] = (m - 1) * Word
      <4>1. m - 1 \notin W
        <5> HIDE DEF W
        <5> QED
          BY <3>1, <3>2, <3>3
      <4> QED
        BY <3>2, <3>3, <4>1
    <3> QED
      BY <1>1, <2>1, <3>1, <3>3 DEF Word
  <2>3. \A i \in 1..N : end[i] = i * Word /\ Begin(t, i) = (i - 1) * Word
    <3> SUFFICES ASSUME NEW i \in 1..N
                 PROVE  end[i] = i * Word /\ Begin(t, i) = (i - 1) * Word
      OBVIOUS
    <3>1. \A n \in 1..N : end[n] = n * Word
      BY <2>2
    <3> HIDE DEF end
    <3>2. i # 1 => i - 1 \in 1..N
      BY <1>1
    <3> QED
      BY <3>1, <3>2 DEF Begin, Word, end
  <2> HIDE DEF end
  <2>4. /\ FlattenSeq(t) \in Bytes /\ Len(FlattenSeq(t)) = end[N]
        /\ \A i \in 1..N : \A k \in 1..Word :
              FlattenSeq(t)[Begin(t, i) + k] = t[i][k]
    <3>1. t \in Seq(Seq(0..(Byte - 1))) /\ t # << >>
      BY <1>1, <1>3, <1>6 DEF Bytes
    <3> QED
      BY <1>2, <1>3, <3>1, FlattenFacts DEF Bytes, end
  <2> QED
    <3>1. \A i \in 1..N : \A k \in 1..Word :
             Words(s)[(i - 1) * Word + k] = LittleEndian(s[i], Word)[k]
      BY <1>2, <1>4, <2>3, <2>4
    <3>2. N \in 1..N
      BY <1>1, <1>6
    <3>3. Words(s) \in Bytes /\ Len(Words(s)) = N * Word
      BY <1>4, <2>3, <2>4, <3>2
    <3> QED
      BY <3>1, <3>3
<1> QED
  BY <1>5, <1>6

-----------------------------------------------------------------------------
(* The write buffer.                                                       *)
IsBuffer(b) ==
    b.bytes \in Bytes /\ b.pos \in 0..Len(b.bytes) /\ b = [bytes |-> b.bytes, pos |-> b.pos]

(* Its position is never behind its end.                                   *)
LEMMA BufferFacts ==
    ASSUME NEW b, IsBuffer(b)
    PROVE  /\ b.bytes \in Bytes /\ Len(b.bytes) \in Nat
           /\ b.pos \in Nat /\ b.pos <= Len(b.bytes)
BY DEF IsBuffer, Bytes

(* resize appends zeros and nothing else.                                  *)
LEMMA ResizedFacts ==
    ASSUME NEW s \in Bytes, NEW n \in Nat
    PROVE  /\ Resized(s, n) \in Bytes
           /\ Len(Resized(s, n)) = IF n <= Len(s) THEN Len(s) ELSE n
           /\ \A i \in 1..Len(s) : Resized(s, n)[i] = s[i]
<1> DEFINE z == [i \in 1..(n - Len(s)) |-> 0]
           l == n - Len(s)
<1>1. Len(s) \in Nat /\ 0 \in 0..(Byte - 1) /\ s \in Seq(0..(Byte - 1))
  BY LayoutAssumption DEF Bytes
<1>2. z \in Seq(0..(Byte - 1)) /\ Len(z) = IF n <= Len(s) THEN 0 ELSE l
  <2>1. CASE n <= Len(s)
    <3>1. 1..l = 1..0
      BY <1>1, <2>1
    <3>2. z \in [1..0 -> 0..(Byte - 1)]
      BY <1>1, <3>1
    <3> HIDE DEF z
    <3> QED
      BY <2>1, <3>2
  <2>2. CASE ~ (n <= Len(s))
    <3>1. l \in Nat
      BY <1>1, <2>2
    <3>2. z \in [1..l -> 0..(Byte - 1)]
      BY <1>1
    <3>3. z \in Seq(0..(Byte - 1)) /\ Len(z) = l
      <4> DEFINE D == 0..(Byte - 1)
      <4>1. z \in [1..l -> D]
        BY <3>2
      <4> HIDE DEF z, l, D
      <4>2. z \in Seq(D) /\ Len(z) = l
        BY <3>1, <4>1
      <4> QED
        BY <4>2 DEF D
    <3> HIDE DEF z, l
    <3> QED
      BY <2>2, <3>3
  <2> QED
    BY <2>1, <2>2
<1>3. Resized(s, n) = s \o z
  BY DEF Resized
<1> HIDE DEF z
<1>4. /\ s \o z \in Seq(0..(Byte - 1)) /\ Len(s \o z) = Len(s) + Len(z)
      /\ \A i \in 1..Len(s) : (s \o z)[i] = s[i]
  BY <1>1, <1>2
<1>5. Len(s \o z) = IF n <= Len(s) THEN Len(s) ELSE n
  BY <1>1, <1>2, <1>4
<1> QED
  BY <1>3, <1>4, <1>5 DEF Bytes

(* write puts the data at the position, moves it behind them and leaves    *)
(* the other bytes alone.                                                  *)
LEMMA WriteFacts ==
    ASSUME NEW b, IsBuffer(b), NEW data \in Bytes
    PROVE  /\ IsBuffer(Write(b, data))
           /\ Write(b, data).pos = b.pos + Len(data)
           /\ Len(Write(b, data).bytes) >= Len(b.bytes)
           /\ \A i \in 1..b.pos : Write(b, data).bytes[i] = b.bytes[i]
           /\ \A i \in 1..Len(data) : Write(b, data).bytes[b.pos + i] = data[i]
           /\ \A i \in (b.pos + Len(data) + 1)..Len(b.bytes) :
                 Write(b, data).bytes[i] = b.bytes[i]
<1> DEFINE D == 0..(Byte - 1)
           p == b.pos
           n == Len(data)
           end == p + n
           s == Resized(b.bytes, end)
           u == SubSeq(s, 1, p)
           v == SubSeq(s, end + 1, Len(s))
           t == u \o data \o v
<1>1. /\ b.bytes \in Bytes /\ Len(b.bytes) \in Nat /\ p \in 0..Len(b.bytes) /\ p \in Nat
      /\ n \in Nat /\ end \in Nat /\ data \in Seq(D)
  BY DEF IsBuffer, Bytes
<1>2. /\ s \in Bytes /\ Len(s) = IF end <= Len(b.bytes) THEN Len(b.bytes) ELSE end
      /\ \A i \in 1..Len(b.bytes) : s[i] = b.bytes[i]
  <2> HIDE DEF end
  <2> QED
    BY <1>1, ResizedFacts
<1> HIDE DEF s
<1>3. /\ s \in Seq(D) /\ Len(s) \in Nat /\ end <= Len(s) /\ Len(b.bytes) <= Len(s)
      /\ p \in 0..Len(s)
  BY <1>1, <1>2 DEF Bytes
<1>4. Write(b, data) = [bytes |-> t, pos |-> end]
  BY DEF Write, s
<1> HIDE DEF D
<1>5. u \in Seq(D) /\ Len(u) = p /\ \A i \in 1..p : u[i] = s[i]
  <2> HIDE DEF p
  <2> QED
    BY <1>1, <1>3
<1>6. v \in Seq(D) /\ Len(v) = Len(s) - end /\ \A i \in 1..(Len(s) - end) : v[i] = s[end + i]
  <2> HIDE DEF end
  <2> QED
    BY <1>1, <1>3
<1> HIDE DEF u, v
<1>7. /\ u \o data \in Seq(D) /\ Len(u \o data) = p + n
      /\ \A i \in 1..p : (u \o data)[i] = u[i]
      /\ \A i \in 1..n : (u \o data)[p + i] = data[i]
  BY <1>1, <1>5
<1> DEFINE a == u \o data
<1> HIDE DEF a
<1>8. /\ a \o v \in Seq(D) /\ Len(a \o v) = Len(s)
      /\ \A i \in 1..end : (a \o v)[i] = a[i]
      /\ \A i \in 1..(Len(s) - end) : (a \o v)[end + i] = v[i]
  <2>1. a \in Seq(D) /\ Len(a) = end
    BY <1>7 DEF a
  <2> HIDE DEF end
  <2> QED
    BY <1>1, <1>3, <1>6, <2>1
<1>9. t = a \o v
  BY DEF a
<1> HIDE DEF t
<1>10. t \in Seq(D) /\ Len(t) = Len(s)
  BY <1>8, <1>9
<1>11. \A i \in 1..p : t[i] = b.bytes[i]
  <2> SUFFICES ASSUME NEW i \in 1..p PROVE t[i] = b.bytes[i]
    OBVIOUS
  <2>1. i \in 1..end /\ i \in 1..Len(b.bytes)
    BY <1>1
  <2> QED
    BY <1>2, <1>5, <1>7, <1>8, <1>9, <2>1 DEF a
<1>12. \A i \in 1..n : t[p + i] = data[i]
  <2> SUFFICES ASSUME NEW i \in 1..n PROVE t[p + i] = data[i]
    OBVIOUS
  <2>1. p + i \in 1..end
    BY <1>1
  <2> QED
    BY <1>7, <1>8, <1>9, <2>1 DEF a
<1>13. \A i \in (end + 1)..Len(b.bytes) : t[i] = b.bytes[i]
  <2> SUFFICES ASSUME NEW i \in (end + 1)..Len(b.bytes) PROVE t[i] = b.bytes[i]
    OBVIOUS
  <2>1. i - end \in 1..(Len(s) - end) /\ end + (i - end) = i /\ i \in 1..Len(b.bytes)
    <3> DEFINE e == end
               k == Len(b.bytes)
               l == Len(s)
    <3>1. e \in Nat /\ k \in Nat /\ l \in Nat /\ k <= l /\ i \in (e + 1)..k
      BY <1>1, <1>3
    <3> HIDE DEF e, k, l
    <3>2. i - e \in 1..(l - e) /\ e + (i - e) = i /\ i \in 1..k
      BY <3>1
    <3> QED
      BY <3>2 DEF e, k, l
  <2>2. t[i] = v[i - end] /\ v[i - end] = s[i]
    BY <1>6, <1>8, <1>9, <2>1
  <2> QED
    BY <1>2, <2>1, <2>2
<1>14. end \in 0..Len(t)
  BY <1>1, <1>3, <1>10
<1>15. IsBuffer([bytes |-> t, pos |-> end])
  <2> HIDE DEF end
  <2> QED
    BY <1>10, <1>14 DEF IsBuffer, Bytes, D
<1>16. Len(t) >= Len(b.bytes)
  BY <1>3, <1>10
<1> QED
  BY <1>4, <1>11, <1>12, <1>13, <1>15, <1>16

(* seek forward: to the sum, as long as it is below 2^64.                  *)
LEMMA SeekFacts ==
    ASSUME NEW b, IsBuffer(b), NEW n \in Nat, b.pos + n < Wrap
    PROVE  /\ IsBuffer(Seek(b, n)) /\ Seek(b, n).pos = b.pos + n
           /\ Len(Seek(b, n).bytes) >= Len(b.bytes)
           /\ \A i \in 1..Len(b.bytes) : Seek(b, n).bytes[i] = b.bytes[i]
<1> DEFINE p == b.pos + n
           s == Resized(b.bytes, p)
<1>1. b.bytes \in Bytes /\ Len(b.bytes) \in Nat /\ p \in Nat /\ Wrap \in Nat \ {0} /\ p < Wrap
  BY BytePowers DEF IsBuffer, Bytes
<1> HIDE DEF p
<1>2. p % Wrap = p
  <2> DEFINE W == Wrap
  <2>1. W \in Nat \ {0} /\ p \in 0..(W - 1)
    BY <1>1
  <2> HIDE DEF W
  <2>2. (0 * W + p) % W = p /\ 0 * W + p = p
    BY <2>1, DivMod, 0 \in Nat
  <2> QED
    BY <2>2 DEF W
<1>3. Seek(b, n) = [bytes |-> s, pos |-> p]
  BY <1>2 DEF Seek, p
<1>4. /\ s \in Bytes /\ Len(s) = IF p <= Len(b.bytes) THEN Len(b.bytes) ELSE p
      /\ \A i \in 1..Len(b.bytes) : s[i] = b.bytes[i]
  BY <1>1, ResizedFacts
<1> HIDE DEF s
<1>5. p \in 0..Len(s) /\ Len(s) >= Len(b.bytes)
  BY <1>1, <1>4
<1>6. IsBuffer([bytes |-> s, pos |-> p])
  BY <1>4, <1>5 DEF IsBuffer
<1> QED
  BY <1>3, <1>4, <1>5, <1>6 DEF p

(* And backward, by going all the way around.                              *)
LEMMA BackFacts ==
    ASSUME NEW b, IsBuffer(b), b.pos < Wrap, NEW n \in 0..b.pos
    PROVE  Seek(b, Back(n)) = [bytes |-> b.bytes, pos |-> b.pos - n]
           /\ IsBuffer(Seek(b, Back(n)))
<1> DEFINE W == Wrap
           p == b.pos
           q == p - n
<1>1. /\ b.bytes \in Bytes /\ Len(b.bytes) \in Nat /\ p \in 0..Len(b.bytes)
      /\ W \in Nat \ {0} /\ p < W /\ q \in Nat /\ q <= p
  BY BytePowers DEF IsBuffer, Bytes
<1>2. (p + Back(n)) % W = q
  <2> HIDE DEF W, p
  <2>1. CASE n = 0
    <3>1. (0 - n) % W = 0
      <4>1. 0 \in Nat /\ 0 \in 0..(W - 1)
        BY <1>1
      <4>2. (0 * W + 0) % W = 0
        BY <1>1, <4>1, DivMod
      <4> QED
        BY <1>1, <2>1, <4>2
    <3>2. p % W = p
      <4>1. 0 \in Nat /\ p \in 0..(W - 1)
        BY <1>1
      <4>2. (0 * W + p) % W = p
        BY <1>1, <4>1, DivMod
      <4> QED
        BY <1>1, <4>2
    <3> QED
      BY <1>1, <2>1, <3>1, <3>2 DEF Back, W
  <2>2. CASE n # 0
    <3>1. (0 - n) % W = W - n
      <4>1. n \in 1..(W - 1) /\ W \in Nat \ {0}
        BY <1>1, <2>2 DEF p
      <4> HIDE DEF W
      <4> QED
        BY <4>1
    <3>2. (1 * W + q) % W = q
      <4>1. 1 \in Nat /\ q \in 0..(W - 1)
        BY <1>1
      <4> HIDE DEF q
      <4> QED
        BY <1>1, <4>1, DivMod
    <3>3. p + (W - n) = 1 * W + q
      BY <1>1
    <3> QED
      BY <3>1, <3>2, <3>3 DEF Back, W
  <2> QED
    BY <2>1, <2>2
<1> HIDE DEF q
<1>3. Resized(b.bytes, q) = b.bytes
  <2> DEFINE z == [i \in 1..(q - Len(b.bytes)) |-> 0]
  <2>1. Resized(b.bytes, q) = b.bytes \o z
    BY DEF Resized
  <2>2. 1..(q - Len(b.bytes)) = 1..0
    BY <1>1
  <2>3. z \in [1..0 -> Int]
    BY <2>2
  <2> HIDE DEF z
  <2>4. z = << >>
    BY <2>3
  <2>5. b.bytes \in Seq(0..(Byte - 1))
    BY <1>1 DEF Bytes
  <2> QED
    BY <2>1, <2>4, <2>5
<1>4. Seek(b, Back(n)) = [bytes |-> b.bytes, pos |-> q]
  BY <1>2, <1>3 DEF Seek, W
<1>5. q \in 0..Len(b.bytes)
  BY <1>1
<1>6. IsBuffer([bytes |-> b.bytes, pos |-> q])
  BY <1>1, <1>5 DEF IsBuffer
<1> QED
  BY <1>4, <1>6 DEF q, p

-----------------------------------------------------------------------------
(* The bytes of a column: the block index, the block ends, the blocks.     *)
Top(bodies, maxes) == Words(maxes) \o Words(EndsOf(bodies))
Image(bodies, maxes) == Top(bodies, maxes) \o FlattenSeq(bodies)

(* The bytes s lie in bytes behind the first at ones.                      *)
Holds(bytes, at, s) ==
    at + Len(s) <= Len(bytes) /\ \A i \in 1..Len(s) : bytes[at + i] = s[i]

(* How long they are, as the seeks have it.                                *)
LEMMA ImageFacts ==
    ASSUME NEW bodies \in Seq(Bytes), bodies # << >>, NEW maxes \in Seq(Nat)
    PROVE  /\ Top(bodies, maxes) \in Bytes /\ FlattenSeq(bodies) \in Bytes
           /\ Len(Top(bodies, maxes)) = (Len(bodies) + Len(maxes)) * Word
           /\ Len(FlattenSeq(bodies)) = Last(EndsOf(bodies))
           /\ Image(bodies, maxes) \in Bytes
           /\ Len(Image(bodies, maxes))
                = (Len(bodies) + Len(maxes)) * Word + Last(EndsOf(bodies))
           /\ \A i \in 1..Len(Top(bodies, maxes)) :
                 Image(bodies, maxes)[i] = Top(bodies, maxes)[i]
           /\ \A i \in 1..Len(FlattenSeq(bodies)) :
                 Image(bodies, maxes)[Len(Top(bodies, maxes)) + i] = FlattenSeq(bodies)[i]
<1> DEFINE D == 0..(Byte - 1)
           ends == EndsOf(bodies)
           u == Words(maxes)
           v == Words(ends)
           w == FlattenSeq(bodies)
<1>1. bodies \in Seq(Seq(D)) /\ Len(bodies) \in Nat /\ Len(maxes) \in Nat
  BY DEF Bytes
<1>2. ends \in Seq(Nat) /\ Len(ends) = Len(bodies)
  <2> HIDE DEF D
  <2> QED
    BY <1>1, EndsFacts
<1>3. w \in Seq(D) /\ Len(w) = ends[Len(bodies)]
  <2> HIDE DEF D
  <2> QED
    BY <1>1, FlattenFacts
<1>4. Last(ends) = ends[Len(bodies)]
  BY <1>2 DEF Last
<1> HIDE DEF ends
<1>5. /\ u \in Seq(D) /\ Len(u) = Len(maxes) * Word
      /\ v \in Seq(D) /\ Len(v) = Len(bodies) * Word
  BY <1>2, WordsFacts DEF Bytes
<1> HIDE DEF D, u, v, w
<1> DEFINE t == u \o v
<1>6. t \in Seq(D) /\ Len(t) = (Len(bodies) + Len(maxes)) * Word
  <2>1. t \in Seq(D) /\ Len(t) = Len(u) + Len(v)
    <3>1. u \in Seq(D) /\ v \in Seq(D)
      BY <1>5
    <3> QED
      BY <3>1
  <2> QED
    BY <1>1, <1>5, <2>1 DEF Word
<1> HIDE DEF t
<1>7. /\ t \o w \in Seq(D) /\ Len(t \o w) = Len(t) + Len(w)
      /\ \A i \in 1..Len(t) : (t \o w)[i] = t[i]
      /\ \A i \in 1..Len(w) : (t \o w)[Len(t) + i] = w[i]
  <2>1. t \in Seq(D) /\ w \in Seq(D)
    BY <1>3, <1>6
  <2> QED
    BY <2>1
<1>8. Top(bodies, maxes) = t /\ FlattenSeq(bodies) = w /\ Image(bodies, maxes) = t \o w
  BY DEF Top, Image, t, u, v, w, ends
<1> QED
  BY <1>3, <1>4, <1>6, <1>7, <1>8 DEF Bytes, D, ends

(* writeToFile of a column puts its bytes behind the position, moves on by *)
(* the room it takes, and leaves all before the position as it was.        *)
LEMMA ColumnFacts ==
    ASSUME NEW b, IsBuffer(b), NEW bodies \in Seq(Bytes), bodies # << >>,
           NEW maxes \in Seq(Nat), b.pos + Room(bodies, maxes) < Wrap
    PROVE  /\ IsBuffer(writeColumn(b, bodies, maxes).buffer)
           /\ writeColumn(b, bodies, maxes).buffer.pos = b.pos + Room(bodies, maxes)
           /\ writeColumn(b, bodies, maxes).size = Len(Image(bodies, maxes))
           /\ Len(writeColumn(b, bodies, maxes).buffer.bytes) >= Len(b.bytes)
           /\ \A i \in 1..b.pos :
                 writeColumn(b, bodies, maxes).buffer.bytes[i] = b.bytes[i]
           /\ Holds(writeColumn(b, bodies, maxes).buffer.bytes, b.pos, Image(bodies, maxes))
<1> DEFINE P == b.pos
           head == (Len(bodies) + Len(maxes)) * Word
           data == Last(EndsOf(bodies))
           blocks == FlattenSeq(bodies)
           top == Top(bodies, maxes)
           b1 == Seek(b, head)
           b2 == Write(b1, blocks)
           b3 == Seek(b2, Back(data + head))
           b4 == Write(b3, top)
           b5 == Seek(b4, data + head)
<1>1. /\ top \in Bytes /\ blocks \in Bytes /\ Len(top) = head /\ Len(blocks) = data
      /\ Len(Image(bodies, maxes)) = head + data
      /\ \A i \in 1..head : Image(bodies, maxes)[i] = top[i]
      /\ \A i \in 1..data : Image(bodies, maxes)[head + i] = blocks[i]
  <2> HIDE DEF P, b1, b2, b3, b4, b5
  <2>1. top \in Bytes /\ blocks \in Bytes /\ Len(top) = head /\ Len(blocks) = data
    BY ImageFacts
  <2>2. Len(Image(bodies, maxes)) = head + data
    BY ImageFacts
  <2>3. \A i \in 1..head : Image(bodies, maxes)[i] = top[i]
    BY ImageFacts
  <2>4. \A i \in 1..data : Image(bodies, maxes)[head + i] = blocks[i]
    BY ImageFacts, SMTT(30)
  <2> QED
    BY <2>1, <2>2, <2>3, <2>4
<1>2. writeColumn(b, bodies, maxes) = [buffer |-> b5, size |-> head + data]
  BY DEF writeColumn, Top
<1>3. Room(bodies, maxes) = 2 * head + data
  <2>1. Len(bodies) \in Nat /\ Len(maxes) \in Nat
    OBVIOUS
  <2> HIDE DEF data
  <2> QED
    BY <2>1 DEF Room, Word, data
<1> HIDE DEF top, blocks, head, data
<1>4. /\ head \in Nat /\ data \in Nat
  <2>1. \A s \in Bytes : Len(s) \in Nat
    BY DEF Bytes
  <2> QED
    BY <1>1, <2>1
<1>5. P \in Nat /\ P <= Len(b.bytes) /\ Len(b.bytes) \in Nat /\ P + 2 * head + data < Wrap
      /\ Wrap \in Nat
  BY <1>3, <1>4, BytePowers DEF IsBuffer, Bytes
<1> HIDE DEF P
<1>6. /\ IsBuffer(b1) /\ b1.pos = P + head /\ Len(b1.bytes) >= Len(b.bytes)
      /\ \A i \in 1..P : b1.bytes[i] = b.bytes[i]
  <2>1. P + head < Wrap
    BY <1>4, <1>5
  <2>2. \A i \in 1..P : i \in 1..Len(b.bytes)
    BY <1>5
  <2> QED
    BY <1>4, <2>1, <2>2, SeekFacts DEF P
<1> HIDE DEF b1
<1>7. /\ IsBuffer(b2) /\ b2.pos = P + head + data /\ Len(b2.bytes) >= Len(b1.bytes)
      /\ \A i \in 1..(P + head) : b2.bytes[i] = b1.bytes[i]
      /\ \A i \in 1..data : b2.bytes[P + head + i] = blocks[i]
  <2>1. b1.pos = P + head /\ Len(blocks) = data
    BY <1>1, <1>6
  <2>2. /\ IsBuffer(b2) /\ b2.pos = b1.pos + Len(blocks) /\ Len(b2.bytes) >= Len(b1.bytes)
        /\ \A i \in 1..b1.pos : b2.bytes[i] = b1.bytes[i]
        /\ \A i \in 1..Len(blocks) : b2.bytes[b1.pos + i] = blocks[i]
    BY <1>1, <1>6, WriteFacts
  <2> HIDE DEF b2
  <2> QED
    BY <2>1, <2>2
<1> HIDE DEF b2
<1>8. b3 = [bytes |-> b2.bytes, pos |-> P] /\ IsBuffer(b3)
  <2>1. data + head \in 0..b2.pos /\ b2.pos < Wrap /\ b2.pos - (data + head) = P
    <3>1. b2.pos = P + head + data
      BY <1>7
    <3> QED
      BY <1>4, <1>5, <3>1
  <2> QED
    BY <1>7, <2>1, BackFacts
<1> HIDE DEF b3
<1>9. /\ IsBuffer(b4) /\ b4.pos = P + head /\ Len(b4.bytes) >= Len(b2.bytes)
      /\ \A i \in 1..P : b4.bytes[i] = b2.bytes[i]
      /\ \A i \in 1..head : b4.bytes[P + i] = top[i]
      /\ \A i \in (P + head + 1)..Len(b2.bytes) : b4.bytes[i] = b2.bytes[i]
  <2>1. b3.bytes = b2.bytes /\ b3.pos = P
    BY <1>8
  <2> QED
    <3>1. /\ IsBuffer(b4) /\ b4.pos = b3.pos + Len(top) /\ Len(b4.bytes) >= Len(b3.bytes)
          /\ \A i \in 1..b3.pos : b4.bytes[i] = b3.bytes[i]
          /\ \A i \in 1..Len(top) : b4.bytes[b3.pos + i] = top[i]
          /\ \A i \in (b3.pos + Len(top) + 1)..Len(b3.bytes) : b4.bytes[i] = b3.bytes[i]
      <4>1. IsBuffer(b3) /\ top \in Bytes
        BY <1>1, <1>8
      <4> QED
        BY <4>1, WriteFacts
    <3> HIDE DEF b4
    <3> QED
      BY <1>1, <2>1, <3>1
<1> HIDE DEF b4
<1>10. /\ IsBuffer(b5) /\ b5.pos = P + head + (data + head)
       /\ Len(b5.bytes) >= Len(b4.bytes)
       /\ \A i \in 1..Len(b4.bytes) : b5.bytes[i] = b4.bytes[i]
  <2>1. data + head \in Nat /\ b4.pos + (data + head) < Wrap
    BY <1>4, <1>5, <1>9
  <2> QED
    BY <1>9, <2>1, SeekFacts
<1> HIDE DEF b5
<1>11. /\ Len(b1.bytes) \in Nat /\ Len(b2.bytes) \in Nat /\ Len(b4.bytes) \in Nat
       /\ Len(b5.bytes) \in Nat
       /\ P + head <= Len(b1.bytes) /\ P + head + data <= Len(b2.bytes)
  <2>1. \A c : IsBuffer(c) => Len(c.bytes) \in Nat /\ c.pos <= Len(c.bytes)
    BY DEF IsBuffer, Bytes
  <2>2. b1.pos = P + head /\ b2.pos = P + head + data
    BY <1>6, <1>7
  <2> QED
    BY <1>6, <1>7, <1>9, <1>10, <2>1, <2>2
<1>12. b5.pos = P + Room(bodies, maxes)
  BY <1>3, <1>4, <1>5, <1>10
<1>13. /\ Len(b5.bytes) >= Len(b.bytes) /\ P + head + data <= Len(b5.bytes)
       /\ P + head + data <= Len(b4.bytes)
  <2>1. /\ Len(b1.bytes) >= Len(b.bytes) /\ Len(b2.bytes) >= Len(b1.bytes)
        /\ Len(b4.bytes) >= Len(b2.bytes) /\ Len(b5.bytes) >= Len(b4.bytes)
    BY <1>6, <1>7, <1>9, <1>10
  <2> DEFINE x == Len(b.bytes)
             x1 == Len(b1.bytes)
             x2 == Len(b2.bytes)
             x4 == Len(b4.bytes)
             x5 == Len(b5.bytes)
             y == P + head + data
  <2>2. /\ x \in Nat /\ x1 \in Nat /\ x2 \in Nat /\ x4 \in Nat /\ x5 \in Nat /\ y \in Nat
        /\ y <= x2 /\ x1 >= x /\ x2 >= x1 /\ x4 >= x2 /\ x5 >= x4
    BY <1>4, <1>5, <1>11, <2>1
  <2> HIDE DEF x, x1, x2, x4, x5, y
  <2>3. x5 >= x /\ y <= x5 /\ y <= x4
    BY <2>2
  <2> QED
    BY <2>3 DEF x, x4, x5, y
<1>14. \A i \in 1..P : b5.bytes[i] = b.bytes[i]
  <2>1. \A i \in 1..P : i \in 1..Len(b4.bytes) /\ i \in 1..(P + head)
    BY <1>4, <1>5, <1>11, <1>13
  <2> QED
    BY <1>6, <1>7, <1>9, <1>10, <2>1
<1>15. Holds(b5.bytes, P, Image(bodies, maxes))
  <2>1. P + Len(Image(bodies, maxes)) <= Len(b5.bytes)
    BY <1>1, <1>4, <1>5, <1>13
  <2>2. ASSUME NEW i \in 1..(head + data) PROVE b5.bytes[P + i] = Image(bodies, maxes)[i]
    <3>1. P + i \in 1..Len(b4.bytes)
      BY <1>4, <1>5, <1>11, <1>13
    <3>2. CASE i \in 1..head
      BY <1>1, <1>9, <1>10, <3>1, <3>2
    <3>3. CASE i \notin 1..head
      <4> DEFINE j == i - head
      <4>1. j \in 1..data /\ head + j = i /\ P + head + j = P + i
        BY <1>4, <1>5, <3>3
      <4>2. P + head + j \in (P + head + 1)..Len(b2.bytes)
        <5>1. j \in 1..data
          BY <4>1
        <5> HIDE DEF j
        <5> QED
          BY <1>4, <1>5, <1>11, <5>1
      <4> HIDE DEF j
      <4>3. b5.bytes[P + i] = blocks[j]
        BY <1>7, <1>9, <1>10, <3>1, <4>1, <4>2
      <4> QED
        BY <1>1, <4>1, <4>3
    <3> QED
      BY <3>2, <3>3
  <2> QED
    BY <1>1, <2>1, <2>2 DEF Holds
<1>16. /\ writeColumn(b, bodies, maxes).buffer = b5
       /\ writeColumn(b, bodies, maxes).size = Len(Image(bodies, maxes))
  <2>1. head + data = Len(Image(bodies, maxes))
    BY <1>1
  <2> QED
    BY <1>2, <2>1 DEF b5
<1> QED
  BY <1>10, <1>12, <1>13, <1>14, <1>15, <1>16 DEF P

-----------------------------------------------------------------------------
(* What builds have to write.                                              *)

(* A sequence over a set is one over any greater set.                      *)
LEMMA SeqOfMore ==
    ASSUME NEW S, NEW T, S \subseteq T, NEW s \in Seq(S)
    PROVE  s \in Seq(T)
<1>1. Len(s) \in Nat /\ s \in [1..Len(s) -> S]
  OBVIOUS
<1>2. s \in [1..Len(s) -> T]
  BY <1>1
<1> QED
  BY <1>1, <1>2

(* Two sequences joined.                                                   *)
LEMMA ConcatFacts ==
    ASSUME NEW S, NEW s \in Seq(S), NEW t \in Seq(S)
    PROVE  /\ s \o t \in Seq(S) /\ Len(s \o t) = Len(s) + Len(t)
           /\ \A i \in 1..Len(s) : (s \o t)[i] = s[i]
           /\ \A i \in 1..Len(t) : (s \o t)[Len(s) + i] = t[i]
OBVIOUS

(* Two strings of bytes joined are as long as both together.               *)
LEMMA JoinedBytes ==
    ASSUME NEW s \in Bytes, NEW t \in Bytes
    PROVE  s \o t \in Bytes /\ Len(s \o t) = Len(s) + Len(t)
BY ConcatFacts DEF Bytes

(* The blocks of a column, none of them empty.                             *)
LEMMA SplitBlocks ==
    ASSUME NEW T, NEW s \in Seq(T), s # << >>
    PROVE  /\ Split(s, BlockSize) \in Seq(Seq(T))
           /\ Len(Split(s, BlockSize)) \in Nat \ {0}
           /\ DOMAIN Split(s, BlockSize) = 1..Len(Split(s, BlockSize))
           /\ \A b \in 1..Len(Split(s, BlockSize)) :
                 Split(s, BlockSize)[b] \in Seq(T) /\ Split(s, BlockSize)[b] # << >>
<1> DEFINE t == Split(s, BlockSize)
<1>1. BlockSize \in Nat \ {0} /\ Len(s) \in Nat \ {0}
  BY LayoutAssumption, BytePowers DEF Word
<1>2. PICK n \in Nat, k \in 1..BlockSize : Len(s) = n * BlockSize + k
  BY <1>1, LengthInBlocks
<1>3. t \in Seq(Seq(T)) /\ InBlocks(t, s, BlockSize, n, k)
  BY <1>1, <1>2, SplitFacts
<1> HIDE DEF t
<1>4. /\ Len(t) = n + 1 /\ DOMAIN t = 1..Len(t)
      /\ \A b \in 1..Len(t) : t[b] \in Seq(T) /\ Len(t[b]) # 0
  <2>1. Len(t) = n + 1 /\ \A b \in 1..(n + 1) : Len(t[b]) # 0
    <3>1. ASSUME NEW b \in 1..(n + 1) PROVE Len(t[b]) # 0
      <4>1. CASE b = n + 1
        BY <1>1, <1>3, <4>1 DEF InBlocks
      <4>2. CASE b # n + 1
        <5>1. b \in 1..n
          BY <4>2
        <5> QED
          BY <1>1, <1>3, <5>1 DEF InBlocks
      <4> QED
        BY <4>1, <4>2
    <3> QED
      BY <1>3, <3>1 DEF InBlocks
  <2>2. DOMAIN t = 1..Len(t) /\ \A b \in 1..Len(t) : t[b] \in Seq(T)
    BY <1>3
  <2> QED
    BY <2>1, <2>2
<1> QED
  BY <1>3, <1>4 DEF t

(* A block of values of their own sizes is a column of them without index. *)
LEMMA VarBlockIs ==
    ASSUME NEW values \in Seq(Bytes), values # << >>
    PROVE  VarBlock(values) = Image(values, << >>) /\ << >> \in Seq(Nat)
<1>1. << >> \in Seq(Nat)
  OBVIOUS
<1>2. Words(<< >>) = << >>
  <2>1. Words(<< >>) \in Bytes /\ Len(Words(<< >>)) = 0
    <3>1. Len(<< >>) = 0 /\ 0 * Word = 0
      BY DEF Word
    <3> QED
      BY <1>1, <3>1, WordsFacts
  <2> QED
    BY <2>1 DEF Bytes
<1>3. Words(EndsOf(values)) \in Seq(0..(Byte - 1))
  <2>1. EndsOf(values) \in Seq(Nat)
    BY EndsFacts DEF Bytes
  <2> QED
    BY <2>1, WordsFacts DEF Bytes
<1>4. << >> \o Words(EndsOf(values)) = Words(EndsOf(values))
  BY <1>3
<1> QED
  BY <1>1, <1>2, <1>4 DEF Image, Top, VarBlock

(* Blocks are strings of bytes.                                            *)
LEMMA BlockBytes ==
    /\ \A v \in Seq(Bytes) : v # << >> =>
          VarBlocks(v) \in Seq(Bytes) /\ VarBlocks(v) # << >>
    /\ \A v \in Seq(0..(Wrap - 1)) : v # << >> =>
          /\ FixedBlocks(v) \in Seq(Bytes) /\ FixedBlocks(v) # << >>
          /\ BlockMaxes(v) \in Seq(0..(Wrap - 1))
          /\ Len(BlockMaxes(v)) = Len(FixedBlocks(v))
<1>1. ASSUME NEW v \in Seq(Bytes), v # << >>
      PROVE  VarBlocks(v) \in Seq(Bytes) /\ VarBlocks(v) # << >>
  <2> DEFINE t == Split(v, BlockSize)
             u == [b \in DOMAIN t |-> VarBlock(t[b])]
  <2>1. /\ Len(t) \in Nat \ {0} /\ DOMAIN t = 1..Len(t)
        /\ \A b \in 1..Len(t) : t[b] \in Seq(Bytes) /\ t[b] # << >>
    BY <1>1, SplitBlocks
  <2> HIDE DEF t
  <2>2. ASSUME NEW b \in 1..Len(t) PROVE VarBlock(t[b]) \in Bytes
    <3>1. t[b] \in Seq(Bytes) /\ t[b] # << >> /\ << >> \in Seq(Nat)
      BY <2>1
    <3>2. Top(t[b], << >>) \in Bytes /\ Image(t[b], << >>) \in Bytes
      BY <3>1, ImageFacts
    <3>3. Image(t[b], << >>) = VarBlock(t[b])
      BY <3>1, VarBlockIs
    <3> QED
      BY <3>2, <3>3
  <2>3. u \in [1..Len(t) -> Bytes]
    BY <2>1, <2>2
  <2>4. u \in Seq(Bytes) /\ u # << >>
    <3> HIDE DEF u
    <3> QED
      BY <2>1, <2>3
  <2> QED
    BY <2>4 DEF VarBlocks, t
<1>2. ASSUME NEW v \in Seq(0..(Wrap - 1)), v # << >>
      PROVE  /\ FixedBlocks(v) \in Seq(Bytes) /\ FixedBlocks(v) # << >>
             /\ BlockMaxes(v) \in Seq(0..(Wrap - 1))
             /\ Len(BlockMaxes(v)) = Len(FixedBlocks(v))
  <2> DEFINE V == 0..(Wrap - 1)
             t == Split(v, BlockSize)
             u == [b \in DOMAIN t |-> FixedBlock(t[b])]
             m == [b \in DOMAIN t |-> Last(t[b])]
  <2>1. /\ Len(t) \in Nat \ {0} /\ DOMAIN t = 1..Len(t)
        /\ \A b \in 1..Len(t) : t[b] \in Seq(V) /\ t[b] # << >>
    BY <1>2, SplitBlocks
  <2> HIDE DEF t
  <2>2. V \subseteq Nat
    OBVIOUS
  <2> HIDE DEF V
  <2>3. ASSUME NEW b \in 1..Len(t) PROVE FixedBlock(t[b]) \in Bytes /\ Last(t[b]) \in V
    <3>1. t[b] \in Seq(V) /\ t[b] # << >>
      BY <2>1
    <3>2. t[b] \in Seq(Nat)
      BY <2>2, <3>1, SeqOfMore
    <3>3. Last(t[b]) \in V
      BY <3>1 DEF Last
    <3> QED
      BY <3>2, <3>3, WordsFacts DEF FixedBlock
  <2>4. u \in [1..Len(t) -> Bytes] /\ m \in [1..Len(t) -> V]
    BY <2>1, <2>3
  <2>5. u \in Seq(Bytes) /\ u # << >> /\ m \in Seq(V) /\ Len(m) = Len(u)
    <3> HIDE DEF u, m
    <3>1. u \in Seq(Bytes) /\ Len(u) = Len(t)
      BY <2>1, <2>4
    <3>2. m \in Seq(V) /\ Len(m) = Len(t)
      BY <2>1, <2>4
    <3> QED
      BY <2>1, <3>1, <3>2
  <2> QED
    BY <2>5 DEF FixedBlocks, BlockMaxes, t, V
<1> QED
  BY <1>1, <1>2

(* The sections of an input: their blocks, and the order of their places.  *)
LEMMA InputFacts ==
    ASSUME NEW w \in Input
    PROVE  /\ w.filter \in Bytes /\ w.levelRange \in Nat /\ Len(w.filter) \in Nat
           /\ w.keys \in Seq(Bytes) /\ w.keys # << >>
           /\ w.cells \in Seq(0..(Wrap - 1)) /\ w.cells # << >>
           /\ w.bitmaps \in Seq(Bytes) /\ w.bitmaps # << >>
           /\ Len(w.keys) \in 0..(Byte^4 - 1) /\ Len(w.cells) \in 0..(Byte^4 - 1)
           /\ VarBlocks(w.keys) \in Seq(Bytes) /\ VarBlocks(w.keys) # << >>
           /\ FixedBlocks(w.cells) \in Seq(Bytes) /\ FixedBlocks(w.cells) # << >>
           /\ BlockMaxes(w.cells) \in Seq(Nat)
           /\ VarBlocks(w.bitmaps) \in Seq(Bytes) /\ VarBlocks(w.bitmaps) # << >>
<1>1. /\ w \in [filter: Bytes, levelRange: Nat, keys: Seq(Bytes),
                cells: Seq(0..(Wrap - 1)), bitmaps: Seq(Bytes)]
      /\ w.keys # << >> /\ w.cells # << >> /\ Len(w.cells) = Len(w.bitmaps)
      /\ Len(w.keys) < Byte^4 /\ Len(w.cells) < Byte^4
  BY InputAssumption
<1>2. /\ w.filter \in Bytes /\ w.levelRange \in Nat /\ w.keys \in Seq(Bytes)
      /\ w.cells \in Seq(0..(Wrap - 1)) /\ w.bitmaps \in Seq(Bytes)
  BY <1>1
<1>3. Len(w.filter) \in Nat /\ Len(w.keys) \in Nat /\ Len(w.cells) \in Nat
  BY <1>2 DEF Bytes
<1>4. w.bitmaps # << >>
  <2>1. Len(w.cells) # 0
    BY <1>1, <1>2
  <2> QED
    BY <1>1, <2>1
<1>5. Len(w.keys) \in 0..(Byte^4 - 1) /\ Len(w.cells) \in 0..(Byte^4 - 1)
  <2>1. Byte^4 \in Nat
    BY BytePowers DEF Word
  <2> QED
    BY <1>1, <1>3, <2>1
<1>6. BlockMaxes(w.cells) \in Seq(0..(Wrap - 1))
  BY <1>1, <1>2, BlockBytes
<1>7. BlockMaxes(w.cells) \in Seq(Nat)
  <2>1. 0..(Wrap - 1) \subseteq Nat
    OBVIOUS
  <2> QED
    BY <1>6, <2>1, SeqOfMore
<1> QED
  BY <1>1, <1>2, <1>3, <1>4, <1>5, <1>7, BlockBytes

(* A column takes at least the room of its bytes.                          *)
LEMMA RoomFacts ==
    ASSUME NEW bodies \in Seq(Bytes), bodies # << >>, NEW maxes \in Seq(Nat)
    PROVE  /\ Room(bodies, maxes) \in Nat /\ Len(Image(bodies, maxes)) \in Nat
           /\ Len(Image(bodies, maxes)) <= Room(bodies, maxes)
<1>1. Len(bodies) \in Nat /\ Len(maxes) \in Nat
  OBVIOUS
<1>2. Last(EndsOf(bodies)) \in Nat
  <2>1. /\ FlattenSeq(bodies) \in Bytes
        /\ Len(FlattenSeq(bodies)) = Last(EndsOf(bodies))
    BY ImageFacts
  <2>2. \A s \in Bytes : Len(s) \in Nat
    BY DEF Bytes
  <2> QED
    BY <2>1, <2>2
<1>3. Len(Image(bodies, maxes)) = (Len(bodies) + Len(maxes)) * Word + Last(EndsOf(bodies))
  BY ImageFacts
<1> QED
  BY <1>1, <1>2, <1>3 DEF Room, Word

(* The images of an input's columns.                                       *)
KeysImage(w) == Image(VarBlocks(w.keys), << >>)
CellsImage(w) == Image(FixedBlocks(w.cells), BlockMaxes(w.cells))
BitmapsImage(w) == Image(VarBlocks(w.bitmaps), << >>)

(* The sections of an input lie in order, and none reaches 2^64.           *)
LEMMA PlaceFacts ==
    ASSUME NEW w \in Input
    PROVE  /\ HeaderSize \in Nat /\ 88 <= HeaderSize
           /\ KeysAt(w) \in Nat /\ CellsAt(w) \in Nat /\ BitmapsAt(w) \in Nat
           /\ EndAt(w) \in Nat /\ Wrap \in Nat /\ Len(w.filter) \in Nat
           /\ KeysAt(w) = HeaderSize + Len(w.filter)
           /\ CellsAt(w) = KeysAt(w) + Room(VarBlocks(w.keys), << >>)
           /\ BitmapsAt(w) = CellsAt(w) + Room(FixedBlocks(w.cells), BlockMaxes(w.cells))
           /\ EndAt(w) = BitmapsAt(w) + Room(VarBlocks(w.bitmaps), << >>)
           /\ Len(KeysImage(w)) \in Nat /\ Len(CellsImage(w)) \in Nat
           /\ Len(BitmapsImage(w)) \in Nat
           /\ KeysAt(w) + Len(KeysImage(w)) <= CellsAt(w)
           /\ CellsAt(w) + Len(CellsImage(w)) <= BitmapsAt(w)
           /\ BitmapsAt(w) + Len(BitmapsImage(w)) <= EndAt(w)
           /\ KeysAt(w) <= CellsAt(w) /\ CellsAt(w) <= BitmapsAt(w) /\ BitmapsAt(w) <= EndAt(w)
           /\ EndAt(w) < Wrap
<1> DEFINE r1 == Room(VarBlocks(w.keys), << >>)
           r2 == Room(FixedBlocks(w.cells), BlockMaxes(w.cells))
           r3 == Room(VarBlocks(w.bitmaps), << >>)
<1>1. << >> \in Seq(Nat)
  OBVIOUS
<1>2. r1 \in Nat /\ Len(KeysImage(w)) \in Nat /\ Len(KeysImage(w)) <= r1
  BY <1>1, InputFacts, RoomFacts DEF KeysImage
<1>3. r2 \in Nat /\ Len(CellsImage(w)) \in Nat /\ Len(CellsImage(w)) <= r2
  BY InputFacts, RoomFacts DEF CellsImage
<1>4. r3 \in Nat /\ Len(BitmapsImage(w)) \in Nat /\ Len(BitmapsImage(w)) <= r3
  BY <1>1, InputFacts, RoomFacts DEF BitmapsImage
<1>5. HeaderSize \in Nat /\ 88 <= HeaderSize /\ Len(w.filter) \in Nat /\ Wrap \in Nat
  BY LayoutAssumption, BytePowers, InputFacts
<1>6. /\ KeysAt(w) = HeaderSize + Len(w.filter) /\ CellsAt(w) = KeysAt(w) + r1
      /\ BitmapsAt(w) = CellsAt(w) + r2 /\ EndAt(w) = BitmapsAt(w) + r3
      /\ EndAt(w) < Wrap
  BY InputAssumption DEF KeysAt, CellsAt, BitmapsAt, EndAt
<1> HIDE DEF r1, r2, r3
<1>7. KeysAt(w) \in Nat /\ CellsAt(w) \in Nat /\ BitmapsAt(w) \in Nat /\ EndAt(w) \in Nat
  BY <1>2, <1>3, <1>4, <1>5, <1>6, SMTT(30)
<1>8. /\ KeysAt(w) + Len(KeysImage(w)) <= CellsAt(w)
      /\ CellsAt(w) + Len(CellsImage(w)) <= BitmapsAt(w)
      /\ BitmapsAt(w) + Len(BitmapsImage(w)) <= EndAt(w)
      /\ KeysAt(w) <= CellsAt(w) /\ CellsAt(w) <= BitmapsAt(w) /\ BitmapsAt(w) <= EndAt(w)
  BY <1>2, <1>3, <1>4, <1>5, <1>6, <1>7
<1> QED
  BY <1>2, <1>3, <1>4, <1>5, <1>6, <1>7, <1>8 DEF r1, r2, r3

-----------------------------------------------------------------------------
(* The header.                                                             *)
HeaderFields ==
    {"cellIdFilterOffset", "cellIdFilterSize", "keyIndexOffset", "keyIndexSize",
     "cellIndexOffset", "cellIndexSize", "roaringIndexOffset", "roaringIndexSize",
     "keyIndexEntries", "cellIndexEntries", "levelIndexBucketRange", "blockSize"}
IsHeader(h) == h \in [HeaderFields -> 0..(Wrap - 1)]

(* Its members are those of a new header.                                  *)
LEMMA NewHeaderFacts ==
    /\ DOMAIN NewHeader(1) = HeaderFields
    /\ \A n \in Nat : IsHeader(NewHeader(n))
<1>1. DOMAIN NewHeader(1) = HeaderFields
  BY DEF NewHeader, HeaderFields
<1>2. ASSUME NEW n \in Nat PROVE IsHeader(NewHeader(n))
  <2>1. n % Byte \in 0..(Wrap - 1) /\ BlockSize \in 0..(Wrap - 1) /\ 0 \in 0..(Wrap - 1)
    <3>1. Byte \in Nat \ {0} /\ Byte < Wrap /\ Wrap \in Nat
      BY LayoutAssumption, BytePowers
    <3>2. n % Byte \in 0..(Byte - 1)
      BY <3>1
    <3>3. BlockSize \in Nat /\ BlockSize < Wrap
      <4>1. Byte^2 \in Nat /\ Byte^2 < Wrap
        BY BytePowers DEF Word
      <4> QED
        BY <3>1, <4>1, LayoutAssumption
    <3> QED
      BY <3>1, <3>2, <3>3
  <2> QED
    BY <2>1 DEF IsHeader, NewHeader, HeaderFields
<1> QED
  BY <1>1, <1>2

(* What it writes are 88 bytes.                                            *)
LEMMA HeaderBytesFacts ==
    ASSUME NEW h, IsHeader(h)
    PROVE  HeaderBytes(h) \in Bytes /\ Len(HeaderBytes(h)) = 88
<1> DEFINE s == <<HeaderSize, h.cellIdFilterOffset, h.cellIdFilterSize,
                  h.keyIndexOffset, h.keyIndexSize, h.cellIndexOffset,
                  h.cellIndexSize, h.roaringIndexOffset, h.roaringIndexSize>>
           a == Words(s)
           b == LittleEndian(h.keyIndexEntries, 4)
           c == LittleEndian(h.cellIndexEntries, 4)
           d == LittleEndian(h.levelIndexBucketRange, 1)
           e == LittleEndian(h.blockSize, 2)
           z == <<0, 0, 0, 0, 0>>
           ab == a \o b
           abc == ab \o c
           abcd == abc \o d
           abcde == abcd \o e
<1>1. \A x \in HeaderFields : h[x] \in Nat
  BY DEF IsHeader
<1>2. s \in Seq(Nat) /\ Len(s) = 9
  <2>1. HeaderSize \in Nat
    BY LayoutAssumption
  <2> QED
    BY <1>1, <2>1 DEF HeaderFields
<1>3. a \in Bytes /\ Len(a) = 72
  <2> HIDE DEF s
  <2>1. Words(s) \in Bytes /\ Len(Words(s)) = 9 * Word
    BY <1>2, WordsFacts
  <2> QED
    BY <2>1 DEF Word
<1>4. /\ b \in Bytes /\ Len(b) = 4 /\ c \in Bytes /\ Len(c) = 4
      /\ d \in Bytes /\ Len(d) = 1 /\ e \in Bytes /\ Len(e) = 2
  <2>1. \A v \in Nat : \A w \in 0..8 :
           LittleEndian(v, w) \in Bytes /\ Len(LittleEndian(v, w)) = w
    BY LittleEndianFacts DEF Word
  <2>2. /\ h.keyIndexEntries \in Nat /\ h.cellIndexEntries \in Nat
        /\ h.levelIndexBucketRange \in Nat /\ h.blockSize \in Nat
    BY <1>1 DEF HeaderFields
  <2>3. 1 \in 0..8 /\ 2 \in 0..8 /\ 4 \in 0..8
    OBVIOUS
  <2> QED
    BY <2>1, <2>2, <2>3
<1>5. z \in Bytes /\ Len(z) = 5
  BY LayoutAssumption DEF Bytes
<1>6. HeaderBytes(h) = abcde \o z
  BY DEF HeaderBytes
<1> HIDE DEF a, b, c, d, e, z, ab, abc, abcd, abcde
<1>7. ab \in Bytes /\ Len(ab) = 76
  <2>1. a \o b \in Bytes /\ Len(a \o b) = Len(a) + Len(b)
    BY <1>3, <1>4, JoinedBytes
  <2> QED
    BY <1>3, <1>4, <2>1 DEF ab
<1>8. abc \in Bytes /\ Len(abc) = 80
  <2>1. ab \o c \in Bytes /\ Len(ab \o c) = Len(ab) + Len(c)
    BY <1>4, <1>7, JoinedBytes
  <2> QED
    BY <1>4, <1>7, <2>1 DEF abc
<1>9. abcd \in Bytes /\ Len(abcd) = 81
  <2>1. abc \o d \in Bytes /\ Len(abc \o d) = Len(abc) + Len(d)
    BY <1>4, <1>8, JoinedBytes
  <2> QED
    BY <1>4, <1>8, <2>1 DEF abcd
<1>10. abcde \in Bytes /\ Len(abcde) = 83
  <2>1. abcd \o e \in Bytes /\ Len(abcd \o e) = Len(abcd) + Len(e)
    BY <1>4, <1>9, JoinedBytes, ZenonT(30)
  <2> QED
    BY <1>4, <1>9, <2>1 DEF abcde
<1>11. abcde \o z \in Bytes /\ Len(abcde \o z) = 88
  <2>1. abcde \o z \in Bytes /\ Len(abcde \o z) = Len(abcde) + Len(z)
    <3>1. abcde \in Bytes /\ z \in Bytes
      BY <1>5, <1>10
    <3> QED
      BY <3>1, JoinedBytes
  <2> QED
    BY <1>5, <1>10, <2>1
<1> QED
  BY <1>6, <1>11

-----------------------------------------------------------------------------
(* The invariant.  What lies in the buffer, section by section, and what   *)
(* the header says of it ...                                               *)
Settings == /\ header.levelIndexBucketRange = input.levelRange % Byte
            /\ header.blockSize = BlockSize
FilterLaid == /\ header.cellIdFilterOffset = HeaderSize
              /\ header.cellIdFilterSize = Len(input.filter)
              /\ Holds(buffer.bytes, HeaderSize, input.filter)
KeysLaid == /\ header.keyIndexOffset = KeysAt(input)
            /\ header.keyIndexSize = Len(KeysImage(input)) % Byte^4
            /\ header.keyIndexEntries = Len(input.keys)
            /\ Holds(buffer.bytes, KeysAt(input), KeysImage(input))
CellsLaid == /\ header.cellIndexOffset = CellsAt(input)
             /\ header.cellIndexSize = Len(CellsImage(input))
             /\ header.cellIndexEntries = Len(input.cells)
             /\ Holds(buffer.bytes, CellsAt(input), CellsImage(input))
BitmapsLaid == /\ header.roaringIndexOffset = BitmapsAt(input)
               /\ header.roaringIndexSize = Len(BitmapsImage(input))
               /\ Holds(buffer.bytes, BitmapsAt(input), BitmapsImage(input))
HeaderLaid == Holds(buffer.bytes, 0, HeaderBytes(header))
Complete == /\ Settings /\ FilterLaid /\ KeysLaid /\ CellsLaid /\ BitmapsLaid
            /\ HeaderLaid

(* ... where the next one goes, by the section a build writes next ...     *)
Laid == /\ pc = "filter" => buffer.pos = HeaderSize
        /\ pc = "keys" => buffer.pos = KeysAt(input)
        /\ pc = "cells" => buffer.pos = CellsAt(input)
        /\ pc = "bitmaps" => buffer.pos = BitmapsAt(input)
        /\ pc # "idle" => Settings
        /\ pc \in {"keys", "cells", "bitmaps", "header", "flush"} => FilterLaid
        /\ pc \in {"cells", "bitmaps", "header", "flush"} => KeysLaid
        /\ pc \in {"bitmaps", "header", "flush"} => CellsLaid
        /\ pc \in {"header", "flush"} => BitmapsLaid
        /\ pc = "flush" => HeaderLaid

(* ... the file, a prefix of a complete buffer or nothing ...              *)
Prefix(s, t) == Len(s) <= Len(t) /\ \A i \in 1..Len(s) : s[i] = t[i]
Stored == disk # NoFile =>
              /\ HeaderSize <= Len(buffer.bytes)
              /\ Prefix(disk, buffer.bytes)
              /\ pc \notin {"idle", "flush"} => Len(disk) = 0
              /\ Len(disk) # 0 => Complete

(* ... and what a reader has read of the file that is still there.         *)
Read == reader.step # "closed" =>
            /\ disk # NoFile /\ reader.since <= builds
            /\ Len(reader.data) <= reader.size
            /\ reader.since = builds => Prefix(reader.data, disk)

LayoutInv == TypeOK /\ IsBuffer(buffer) /\ Laid /\ Stored /\ Read

-----------------------------------------------------------------------------
(* Steps.  b and c have the same bytes from the m-th to the n-th.          *)
Same(b, c, m, n) == \A i \in m..n : c[i] = b[i]

(* What lies between them still lies there.                                *)
LEMMA HoldsStays ==
    ASSUME NEW b, NEW c, NEW at \in Nat, NEW s, NEW m \in Nat, NEW n \in Nat,
           Len(s) \in Nat, Len(b) \in Nat, Len(c) \in Nat, Len(b) <= Len(c),
           m <= at + 1, at + Len(s) <= n, Same(b, c, m, n), Holds(b, at, s)
    PROVE  Holds(c, at, s)
<1>1. at + Len(s) <= Len(c)
  BY DEF Holds
<1>2. ASSUME NEW i \in 1..Len(s) PROVE c[at + i] = s[i]
  <2>1. at + i \in m..n
    OBVIOUS
  <2>2. c[at + i] = b[at + i]
    BY <2>1 DEF Same
  <2> QED
    BY <2>2 DEF Holds
<1> QED
  BY <1>1, <1>2 DEF Holds

(* The same buffer and header, seen from the type invariant.               *)
LEMMA TypedFacts ==
    TypeOK => /\ IsHeader(header) /\ input \in Input /\ buffer.pos < Wrap
              /\ buffer.bytes \in Bytes /\ buffer.pos \in Nat
<1>1. Wrap \in Nat
  BY BytePowers
<1> QED
  BY <1>1, NewHeaderFacts DEF TypeOK, IsHeader

(* A step that writes a section keeps what does not depend on it.          *)
LEMMA SectionKeeps ==
    ASSUME LayoutInv, pc \in {"filter", "keys", "cells", "bitmaps"},
           UNCHANGED <<input, result, disk, builds, reader>>,
           pc' \in {"keys", "cells", "bitmaps", "header"},
           IsBuffer(buffer'), Len(buffer'.bytes) >= Len(buffer.bytes),
           buffer'.pos < Wrap, IsHeader(header')
    PROVE  TypeOK' /\ Stored' /\ Read'
<1>1. /\ Len(buffer.bytes) \in Nat /\ Len(buffer'.bytes) \in Nat
      /\ buffer' \in [bytes: Bytes, pos: 0..(Wrap - 1)]
  <2>1. /\ buffer'.bytes \in Bytes /\ buffer'.pos \in 0..Len(buffer'.bytes)
        /\ buffer' = [bytes |-> buffer'.bytes, pos |-> buffer'.pos]
        /\ buffer.bytes \in Bytes
    BY DEF IsBuffer, LayoutInv
  <2>2. buffer'.pos \in 0..(Wrap - 1)
    BY <2>1, BytePowers DEF Bytes
  <2> QED
    BY <2>1, <2>2 DEF Bytes
<1>2. TypeOK'
  BY <1>1, NewHeaderFacts DEF LayoutInv, TypeOK, IsHeader
<1>3. Read'
  BY DEF LayoutInv, Read
<1>4. Stored'
  <2>1. ASSUME disk # NoFile
        PROVE  HeaderSize <= Len(buffer'.bytes) /\ Prefix(disk, buffer'.bytes) /\ Len(disk) = 0
    <3>1. HeaderSize <= Len(buffer.bytes) /\ Len(disk) = 0 /\ HeaderSize \in Nat
      BY <2>1, LayoutAssumption DEF LayoutInv, Stored
    <3> QED
      BY <1>1, <3>1 DEF Prefix
  <2> QED
    BY <2>1 DEF Stored
<1> QED
  BY <1>2, <1>3, <1>4

(* The filter goes behind the room of the header.                          *)
LEMMA FilterStep ==
    ASSUME LayoutInv, WriteFilter
    PROVE  /\ LayoutInv' /\ Same(buffer.bytes, buffer'.bytes, 1, buffer.pos)
           /\ Len(buffer'.bytes) >= Len(buffer.bytes)
<1>1. /\ pc = "filter" /\ pc' = "keys" /\ buffer' = Write(buffer, input.filter)
      /\ header' = [header EXCEPT !.cellIdFilterOffset = buffer.pos,
                                  !.cellIdFilterSize = Len(input.filter)]
      /\ UNCHANGED <<input, result, disk, builds, reader>>
  BY DEF WriteFilter
<1>2. /\ IsBuffer(buffer) /\ IsHeader(header) /\ input \in Input
      /\ buffer.pos = HeaderSize /\ buffer.pos < Wrap /\ Settings
  BY <1>1, TypedFacts DEF LayoutInv, Laid
<1>3. /\ input.filter \in Bytes /\ Len(input.filter) \in Nat
      /\ HeaderSize \in Nat /\ Wrap \in Nat
      /\ KeysAt(input) = HeaderSize + Len(input.filter) /\ KeysAt(input) < Wrap
  BY <1>2, InputFacts, PlaceFacts, SMTT(30)
<1>4. /\ IsBuffer(buffer') /\ buffer'.pos = KeysAt(input)
      /\ Len(buffer'.bytes) >= Len(buffer.bytes)
      /\ Same(buffer.bytes, buffer'.bytes, 1, buffer.pos)
      /\ \A i \in 1..Len(input.filter) : buffer'.bytes[HeaderSize + i] = input.filter[i]
  BY <1>1, <1>2, <1>3, WriteFacts DEF Same
<1>5. /\ IsHeader(header')
      /\ header'.cellIdFilterOffset = HeaderSize
      /\ header'.cellIdFilterSize = Len(input.filter)
      /\ header'.levelIndexBucketRange = header.levelIndexBucketRange
      /\ header'.blockSize = header.blockSize
  <2>1. buffer.pos \in 0..(Wrap - 1) /\ Len(input.filter) \in 0..(Wrap - 1)
    BY <1>2, <1>3
  <2> QED
    BY <1>1, <1>2, <2>1 DEF HeaderFields, IsHeader
<1>6. Holds(buffer'.bytes, HeaderSize, input.filter)
  <2>1. HeaderSize + Len(input.filter) <= Len(buffer'.bytes)
    BY <1>3, <1>4 DEF IsBuffer
  <2> QED
    BY <1>4, <2>1 DEF Holds
<1>7. Laid'
  BY <1>1, <1>2, <1>4, <1>5, <1>6 DEF Laid, Settings, FilterLaid
<1>8. TypeOK' /\ Stored' /\ Read'
  BY <1>1, <1>3, <1>4, <1>5, SectionKeeps
<1> QED
  BY <1>4, <1>7, <1>8 DEF LayoutInv

(* The keys go behind the filter.                                          *)
LEMMA KeysStep ==
    ASSUME LayoutInv, WriteKeys
    PROVE  /\ LayoutInv' /\ Same(buffer.bytes, buffer'.bytes, 1, buffer.pos)
           /\ Len(buffer'.bytes) >= Len(buffer.bytes)
<1> DEFINE w == input
           bodies == VarBlocks(input.keys)
           none == << >>
           c == writeColumn(buffer, bodies, none)
           image == Image(bodies, none)
<1>1. /\ pc = "keys" /\ pc' = "cells" /\ buffer' = c.buffer
      /\ header' = [header EXCEPT !.keyIndexOffset = buffer.pos,
                                  !.keyIndexSize = c.size % Byte^4,
                                  !.keyIndexEntries = Len(input.keys)]
      /\ UNCHANGED <<input, result, disk, builds, reader>>
  BY DEF WriteKeys, VarColumn
<1>2. /\ IsBuffer(buffer) /\ IsHeader(header) /\ input \in Input
      /\ buffer.pos = KeysAt(input) /\ buffer.pos < Wrap /\ Settings /\ FilterLaid
  BY <1>1, TypedFacts DEF LayoutInv, Laid
<1> HIDE DEF none
<1>3. /\ bodies \in Seq(Bytes) /\ bodies # << >>
      /\ KeysAt(w) \in Nat /\ CellsAt(w) \in Nat /\ CellsAt(w) < Wrap /\ Wrap \in Nat
      /\ CellsAt(w) = KeysAt(w) + Room(bodies, none)
      /\ KeysAt(w) = HeaderSize + Len(w.filter) /\ HeaderSize \in Nat
      /\ Len(w.filter) \in Nat /\ KeysImage(w) = image /\ Len(image) \in Nat
  <2>1. bodies \in Seq(Bytes) /\ bodies # << >>
    BY <1>2, InputFacts
  <2>2. KeysImage(w) = image
    BY DEF KeysImage, none
  <2> HIDE DEF image, bodies
  <2> QED
    BY <1>2, <2>1, <2>2, PlaceFacts DEF bodies, none
<1>9. none \in Seq(Nat)
  BY DEF none
<1>4. /\ IsBuffer(buffer') /\ buffer'.pos = CellsAt(w) /\ c.size = Len(image)
      /\ Len(buffer'.bytes) >= Len(buffer.bytes)
      /\ Same(buffer.bytes, buffer'.bytes, 1, buffer.pos)
      /\ Holds(buffer'.bytes, KeysAt(w), image)
  <2> HIDE DEF bodies, image, w
  <2> QED
    BY <1>1, <1>2, <1>3, <1>9, ColumnFacts DEF Same, image, w
<1>5. /\ IsHeader(header')
      /\ header'.keyIndexOffset = KeysAt(w)
      /\ header'.keyIndexSize = Len(image) % Byte^4
      /\ header'.keyIndexEntries = Len(w.keys)
      /\ header'.cellIdFilterOffset = header.cellIdFilterOffset
      /\ header'.cellIdFilterSize = header.cellIdFilterSize
      /\ header'.levelIndexBucketRange = header.levelIndexBucketRange
      /\ header'.blockSize = header.blockSize
  <2>1. /\ KeysAt(w) \in 0..(Wrap - 1) /\ Len(image) % Byte^4 \in 0..(Wrap - 1)
        /\ Len(w.keys) \in 0..(Wrap - 1)
    <3>1. Byte^4 \in Nat \ {0} /\ Byte^4 < Wrap
      BY BytePowers DEF Word
    <3>2. Len(w.keys) \in 0..(Byte^4 - 1)
      BY <1>2, InputFacts
    <3> DEFINE p == Byte^4
               l == Len(image)
    <3>3. l % p \in 0..(p - 1)
      <4>1. l \in Nat /\ p \in Nat \ {0}
        BY <1>3, <3>1
      <4> HIDE DEF l, p
      <4> QED
        BY <4>1
    <3> HIDE DEF l
    <3> QED
      BY <1>2, <1>3, <3>1, <3>2, <3>3, SMTT(30) DEF l
  <2> HIDE DEF image, bodies
  <2> QED
    BY <1>1, <1>2, <1>4, <2>1 DEF HeaderFields, IsHeader
<1>6. Holds(buffer'.bytes, HeaderSize, w.filter)
  <2>1. Len(buffer.bytes) \in Nat /\ Len(buffer'.bytes) \in Nat
    BY <1>2, <1>4 DEF IsBuffer, Bytes
  <2>2. Holds(buffer.bytes, HeaderSize, w.filter)
    BY <1>2 DEF FilterLaid
  <2>3. 1 <= HeaderSize + 1 /\ HeaderSize + Len(w.filter) <= buffer.pos
    BY <1>2, <1>3
  <2> QED
    BY <1>2, <1>3, <1>4, <2>1, <2>2, <2>3, HoldsStays
<1>7. Laid'
  <2> HIDE DEF image, bodies
  <2> QED
    BY <1>1, <1>2, <1>3, <1>4, <1>5, <1>6 DEF Laid, Settings, FilterLaid, KeysLaid
<1>8. TypeOK' /\ Stored' /\ Read'
  BY <1>1, <1>3, <1>4, <1>5, SectionKeeps
<1> QED
  BY <1>4, <1>7, <1>8 DEF LayoutInv

(* The cells go behind the keys.                                           *)
LEMMA CellsStep ==
    ASSUME LayoutInv, WriteCells
    PROVE  /\ LayoutInv' /\ Same(buffer.bytes, buffer'.bytes, 1, buffer.pos)
           /\ Len(buffer'.bytes) >= Len(buffer.bytes)
<1> DEFINE w == input
           bodies == FixedBlocks(input.cells)
           maxes == BlockMaxes(input.cells)
           c == writeColumn(buffer, bodies, maxes)
           image == Image(bodies, maxes)
<1>1. /\ pc = "cells" /\ pc' = "bitmaps" /\ buffer' = c.buffer
      /\ header' = [header EXCEPT !.cellIndexOffset = buffer.pos,
                                  !.cellIndexSize = c.size,
                                  !.cellIndexEntries = Len(input.cells)]
      /\ UNCHANGED <<input, result, disk, builds, reader>>
  BY DEF WriteCells, CellColumn
<1>2. /\ IsBuffer(buffer) /\ IsHeader(header) /\ input \in Input
      /\ buffer.pos = CellsAt(input) /\ buffer.pos < Wrap /\ Settings
      /\ FilterLaid /\ KeysLaid
  BY <1>1, TypedFacts DEF LayoutInv, Laid
<1>3. /\ bodies \in Seq(Bytes) /\ bodies # << >> /\ maxes \in Seq(Nat)
      /\ CellsAt(w) \in Nat /\ BitmapsAt(w) \in Nat /\ BitmapsAt(w) < Wrap /\ Wrap \in Nat
      /\ BitmapsAt(w) = CellsAt(w) + Room(bodies, maxes)
      /\ CellsImage(w) = image /\ Len(image) \in Nat
      /\ CellsAt(w) + Len(image) <= BitmapsAt(w)
  BY <1>2, InputFacts, PlaceFacts, SMTT(30) DEF CellsImage
<1>4. /\ IsBuffer(buffer') /\ buffer'.pos = BitmapsAt(w) /\ c.size = Len(image)
      /\ Len(buffer'.bytes) >= Len(buffer.bytes)
      /\ Same(buffer.bytes, buffer'.bytes, 1, buffer.pos)
      /\ Holds(buffer'.bytes, CellsAt(w), image)
  <2> HIDE DEF bodies, maxes, image, w
  <2> QED
    BY <1>1, <1>2, <1>3, ColumnFacts DEF Same, image, w
<1>5. /\ IsHeader(header')
      /\ header'.cellIndexOffset = CellsAt(w)
      /\ header'.cellIndexSize = Len(image)
      /\ header'.cellIndexEntries = Len(w.cells)
      /\ \A k \in HeaderFields \ {"cellIndexOffset", "cellIndexSize", "cellIndexEntries"} :
            header'[k] = header[k]
  <2>1. /\ CellsAt(w) \in 0..(Wrap - 1) /\ Len(image) \in 0..(Wrap - 1)
        /\ Len(w.cells) \in 0..(Wrap - 1)
    <3>1. Byte^4 \in Nat \ {0} /\ Byte^4 < Wrap
      BY BytePowers DEF Word
    <3>2. Len(w.cells) \in 0..(Byte^4 - 1)
      BY <1>2, InputFacts
    <3> HIDE DEF image
    <3> QED
      BY <1>2, <1>3, <3>1, <3>2
  <2> HIDE DEF image, bodies, maxes
  <2> QED
    BY <1>1, <1>2, <1>4, <2>1 DEF HeaderFields, IsHeader
<1>6. Holds(buffer'.bytes, HeaderSize, w.filter) /\ Holds(buffer'.bytes, KeysAt(w), KeysImage(w))
  <2>1. Len(buffer.bytes) \in Nat /\ Len(buffer'.bytes) \in Nat
    BY <1>2, <1>4 DEF IsBuffer, Bytes
  <2>2. Holds(buffer.bytes, HeaderSize, w.filter) /\ Holds(buffer.bytes, KeysAt(w), KeysImage(w))
    BY <1>2 DEF FilterLaid, KeysLaid
  <2>3. /\ HeaderSize \in Nat /\ Len(w.filter) \in Nat
        /\ 1 <= HeaderSize + 1 /\ HeaderSize + Len(w.filter) <= buffer.pos
        /\ KeysAt(w) \in Nat /\ Len(KeysImage(w)) \in Nat
        /\ 1 <= KeysAt(w) + 1 /\ KeysAt(w) + Len(KeysImage(w)) <= buffer.pos
    BY <1>2, PlaceFacts
  <2> QED
    BY <1>2, <1>3, <1>4, <2>1, <2>2, <2>3, HoldsStays
<1>7. Laid'
  <2> HIDE DEF image, bodies, maxes
  <2> QED
    BY <1>1, <1>2, <1>3, <1>4, <1>5, <1>6
    DEF Laid, Settings, FilterLaid, KeysLaid, CellsLaid, HeaderFields
<1>8. TypeOK' /\ Stored' /\ Read'
  BY <1>1, <1>3, <1>4, <1>5, SectionKeeps
<1> QED
  BY <1>4, <1>7, <1>8 DEF LayoutInv

(* The bitmaps go behind the cells.                                        *)
LEMMA BitmapsStep ==
    ASSUME LayoutInv, WriteBitmaps
    PROVE  /\ LayoutInv' /\ Same(buffer.bytes, buffer'.bytes, 1, buffer.pos)
           /\ Len(buffer'.bytes) >= Len(buffer.bytes)
<1> DEFINE w == input
           bodies == VarBlocks(input.bitmaps)
           none == << >>
           c == writeColumn(buffer, bodies, none)
           image == Image(bodies, none)
<1> HIDE DEF none
<1>1. /\ pc = "bitmaps" /\ pc' = "header" /\ buffer' = c.buffer
      /\ header' = [header EXCEPT !.roaringIndexOffset = buffer.pos,
                                  !.roaringIndexSize = c.size]
      /\ UNCHANGED <<input, result, disk, builds, reader>>
  BY DEF WriteBitmaps, VarColumn, none
<1>2. /\ IsBuffer(buffer) /\ IsHeader(header) /\ input \in Input
      /\ buffer.pos = BitmapsAt(input) /\ buffer.pos < Wrap /\ Settings
      /\ FilterLaid /\ KeysLaid /\ CellsLaid
  BY <1>1, TypedFacts DEF LayoutInv, Laid
<1>3. /\ bodies \in Seq(Bytes) /\ bodies # << >> /\ none \in Seq(Nat)
      /\ BitmapsAt(w) \in Nat /\ EndAt(w) \in Nat /\ EndAt(w) < Wrap /\ Wrap \in Nat
      /\ EndAt(w) = BitmapsAt(w) + Room(bodies, none)
      /\ BitmapsImage(w) = image /\ Len(image) \in Nat
      /\ BitmapsAt(w) + Len(image) <= EndAt(w)
  <2>1. bodies \in Seq(Bytes) /\ bodies # << >>
    BY <1>2, InputFacts
  <2>2. BitmapsImage(w) = image
    BY DEF BitmapsImage, none
  <2>3. none \in Seq(Nat)
    BY DEF none
  <2> HIDE DEF image, bodies
  <2> QED
    BY <1>2, <2>1, <2>2, <2>3, PlaceFacts DEF bodies, none
<1>4. /\ IsBuffer(buffer') /\ buffer'.pos = EndAt(w) /\ c.size = Len(image)
      /\ Len(buffer'.bytes) >= Len(buffer.bytes)
      /\ Same(buffer.bytes, buffer'.bytes, 1, buffer.pos)
      /\ Holds(buffer'.bytes, BitmapsAt(w), image)
  <2> HIDE DEF bodies, image, w
  <2> QED
    BY <1>1, <1>2, <1>3, ColumnFacts DEF Same, image, w
<1>5. /\ IsHeader(header')
      /\ header'.roaringIndexOffset = BitmapsAt(w)
      /\ header'.roaringIndexSize = Len(image)
      /\ \A k \in HeaderFields \ {"roaringIndexOffset", "roaringIndexSize"} :
            header'[k] = header[k]
  <2>1. BitmapsAt(w) \in 0..(Wrap - 1) /\ Len(image) \in 0..(Wrap - 1)
    <3> HIDE DEF image
    <3> QED
      BY <1>3
  <2> HIDE DEF image, bodies
  <2> QED
    BY <1>1, <1>2, <1>4, <2>1 DEF HeaderFields, IsHeader
<1>6. /\ Holds(buffer'.bytes, HeaderSize, w.filter)
      /\ Holds(buffer'.bytes, KeysAt(w), KeysImage(w))
      /\ Holds(buffer'.bytes, CellsAt(w), CellsImage(w))
  <2>1. Len(buffer.bytes) \in Nat /\ Len(buffer'.bytes) \in Nat
    BY <1>2, <1>4 DEF IsBuffer, Bytes
  <2>2. /\ Holds(buffer.bytes, HeaderSize, w.filter)
        /\ Holds(buffer.bytes, KeysAt(w), KeysImage(w))
        /\ Holds(buffer.bytes, CellsAt(w), CellsImage(w))
    BY <1>2 DEF FilterLaid, KeysLaid, CellsLaid
  <2>3. /\ HeaderSize \in Nat /\ Len(w.filter) \in Nat
        /\ 1 <= HeaderSize + 1 /\ HeaderSize + Len(w.filter) <= buffer.pos
        /\ KeysAt(w) \in Nat /\ Len(KeysImage(w)) \in Nat
        /\ 1 <= KeysAt(w) + 1 /\ KeysAt(w) + Len(KeysImage(w)) <= buffer.pos
        /\ CellsAt(w) \in Nat /\ Len(CellsImage(w)) \in Nat
        /\ 1 <= CellsAt(w) + 1 /\ CellsAt(w) + Len(CellsImage(w)) <= buffer.pos
    <3>1. /\ HeaderSize \in Nat /\ Len(w.filter) \in Nat
          /\ KeysAt(w) \in Nat /\ Len(KeysImage(w)) \in Nat
          /\ CellsAt(w) \in Nat /\ Len(CellsImage(w)) \in Nat /\ BitmapsAt(w) \in Nat
          /\ HeaderSize + Len(w.filter) = KeysAt(w)
          /\ KeysAt(w) + Len(KeysImage(w)) <= CellsAt(w)
          /\ CellsAt(w) + Len(CellsImage(w)) <= BitmapsAt(w)
          /\ KeysAt(w) <= CellsAt(w) /\ CellsAt(w) <= BitmapsAt(w)
      BY <1>2, PlaceFacts
    <3>2. buffer.pos = BitmapsAt(w)
      BY <1>2
    <3> HIDE DEF w
    <3> QED
      BY <3>1, <3>2
  <2> QED
    BY <1>2, <1>3, <1>4, <2>1, <2>2, <2>3, HoldsStays
<1>7. Laid'
  <2> HIDE DEF image, bodies
  <2> QED
    BY <1>1, <1>2, <1>3, <1>4, <1>5, <1>6
    DEF Laid, Settings, FilterLaid, KeysLaid, CellsLaid, BitmapsLaid, HeaderFields
<1>8. TypeOK' /\ Stored' /\ Read'
  BY <1>1, <1>3, <1>4, <1>5, SectionKeeps
<1> QED
  BY <1>4, <1>7, <1>8 DEF LayoutInv

(* The header goes over its own room and nothing else.                     *)
LEMMA HeaderStep ==
    ASSUME LayoutInv, WriteHeader
    PROVE  /\ LayoutInv'
           /\ Same(buffer.bytes, buffer'.bytes, HeaderSize + 1, Len(buffer.bytes))
           /\ Len(buffer'.bytes) >= Len(buffer.bytes)
<1> DEFINE w == input
           data == HeaderBytes(header)
           b == [buffer EXCEPT !.pos = 0]
<1>1. /\ pc = "header" /\ pc' = "flush" /\ buffer' = Write(b, data)
      /\ UNCHANGED <<input, header, result, disk, builds, reader>>
  BY DEF WriteHeader
<1>2. /\ IsBuffer(buffer) /\ IsHeader(header) /\ input \in Input /\ Settings
      /\ FilterLaid /\ KeysLaid /\ CellsLaid /\ BitmapsLaid
  BY <1>1, TypedFacts DEF LayoutInv, Laid
<1>3. data \in Bytes /\ Len(data) = 88
  BY <1>2, HeaderBytesFacts
<1>4. IsBuffer(b) /\ b.pos = 0 /\ b.bytes = buffer.bytes
  <2>1. b = [bytes |-> buffer.bytes, pos |-> 0]
    BY <1>2 DEF IsBuffer
  <2>2. 0 \in 0..Len(buffer.bytes) /\ buffer.bytes \in Bytes
    BY <1>2 DEF IsBuffer, Bytes
  <2> QED
    BY <2>1, <2>2 DEF IsBuffer
<1> HIDE DEF b, data
<1>5. /\ IsBuffer(buffer') /\ buffer'.pos = 88
      /\ Len(buffer'.bytes) >= Len(buffer.bytes)
      /\ \A i \in 1..88 : buffer'.bytes[i] = data[i]
      /\ Same(buffer.bytes, buffer'.bytes, 89, Len(buffer.bytes))
  <2> DEFINE r == Write(b, data)
  <2>1. /\ IsBuffer(r) /\ r.pos = b.pos + Len(data)
        /\ Len(r.bytes) >= Len(b.bytes)
        /\ \A i \in 1..Len(data) : r.bytes[b.pos + i] = data[i]
        /\ \A i \in (b.pos + Len(data) + 1)..Len(b.bytes) : r.bytes[i] = b.bytes[i]
    <3>1. IsBuffer(b) /\ data \in Bytes
      BY <1>3, <1>4
    <3> QED
      BY <3>1, WriteFacts
  <2>3. buffer' = r
    BY <1>1 DEF b, data
  <2> HIDE DEF r
  <2>2. 0 + 88 = 88 /\ 0 + 88 + 1 = 89 /\ \A i \in 1..88 : 0 + i = i
    OBVIOUS
  <2> QED
    BY <1>3, <1>4, <2>1, <2>2, <2>3 DEF Same
<1>6. HeaderSize \in Nat /\ 88 <= HeaderSize /\ HeaderSize < Wrap /\ Wrap \in Nat
  BY LayoutAssumption, BytePowers
<1>7. Len(buffer.bytes) \in Nat /\ Len(buffer'.bytes) \in Nat
  BY <1>2, <1>5, BufferFacts
<1>8. HeaderLaid'
  <2>1. 0 + 88 <= Len(buffer'.bytes)
    BY <1>5, <1>7 DEF IsBuffer
  <2>2. \A i \in 1..88 : 0 + i = i
    OBVIOUS
  <2>3. Holds(buffer'.bytes, 0, data)
    BY <1>3, <1>5, <2>1, <2>2 DEF Holds
  <2> QED
    BY <1>1, <2>3 DEF HeaderLaid, data
<1>9. FilterLaid' /\ KeysLaid' /\ CellsLaid' /\ BitmapsLaid'
  <2>1. /\ HeaderSize \in Nat /\ Len(w.filter) \in Nat
        /\ KeysAt(w) \in Nat /\ Len(KeysImage(w)) \in Nat
        /\ CellsAt(w) \in Nat /\ Len(CellsImage(w)) \in Nat
        /\ BitmapsAt(w) \in Nat /\ Len(BitmapsImage(w)) \in Nat
        /\ 89 <= HeaderSize + 1 /\ 89 <= KeysAt(w) + 1
        /\ 89 <= CellsAt(w) + 1 /\ 89 <= BitmapsAt(w) + 1
    <3>1. /\ HeaderSize \in Nat /\ Len(w.filter) \in Nat
          /\ KeysAt(w) \in Nat /\ Len(KeysImage(w)) \in Nat
          /\ CellsAt(w) \in Nat /\ Len(CellsImage(w)) \in Nat
          /\ BitmapsAt(w) \in Nat /\ Len(BitmapsImage(w)) \in Nat
          /\ HeaderSize + Len(w.filter) = KeysAt(w) /\ 88 <= HeaderSize
          /\ KeysAt(w) <= CellsAt(w) /\ CellsAt(w) <= BitmapsAt(w)
      BY <1>2, PlaceFacts
    <3> HIDE DEF w
    <3> QED
      BY <3>1
  <2>2. /\ Holds(buffer.bytes, HeaderSize, w.filter)
        /\ Holds(buffer.bytes, KeysAt(w), KeysImage(w))
        /\ Holds(buffer.bytes, CellsAt(w), CellsImage(w))
        /\ Holds(buffer.bytes, BitmapsAt(w), BitmapsImage(w))
    BY <1>2 DEF FilterLaid, KeysLaid, CellsLaid, BitmapsLaid
  <2>3. /\ HeaderSize + Len(w.filter) <= Len(buffer.bytes)
        /\ KeysAt(w) + Len(KeysImage(w)) <= Len(buffer.bytes)
        /\ CellsAt(w) + Len(CellsImage(w)) <= Len(buffer.bytes)
        /\ BitmapsAt(w) + Len(BitmapsImage(w)) <= Len(buffer.bytes)
    BY <2>2 DEF Holds
  <2>4. 89 \in Nat
    OBVIOUS
  <2>5. /\ Holds(buffer'.bytes, HeaderSize, w.filter)
        /\ Holds(buffer'.bytes, KeysAt(w), KeysImage(w))
        /\ Holds(buffer'.bytes, CellsAt(w), CellsImage(w))
        /\ Holds(buffer'.bytes, BitmapsAt(w), BitmapsImage(w))
    <3> DEFINE f == buffer.bytes
               g == buffer'.bytes
    <3>1. /\ Len(f) \in Nat /\ Len(g) \in Nat /\ Len(f) <= Len(g)
          /\ Same(f, g, 89, Len(f))
      BY <1>5, <1>7
    <3> HIDE DEF f, g
    <3>2. \A at \in Nat : \A s :
             /\ Len(s) \in Nat /\ 89 <= at + 1
             /\ at + Len(s) <= Len(f) /\ Holds(f, at, s)
             => Holds(g, at, s)
      BY <2>4, <3>1, HoldsStays
    <3> QED
      BY <2>1, <2>2, <2>3, <3>2 DEF f, g
  <2> QED
    BY <1>1, <1>2, <2>5 DEF FilterLaid, KeysLaid, CellsLaid, BitmapsLaid
<1>10. Laid'
  <2>1. Settings'
    BY <1>1, <1>2 DEF Settings
  <2> QED
    BY <1>1, <1>8, <1>9, <2>1 DEF Laid
<1>11. TypeOK'
  <2>1. 88 \in 0..(Wrap - 1)
    BY <1>6
  <2>2. buffer' \in [bytes: Bytes, pos: 0..(Wrap - 1)]
    BY <1>5, <2>1 DEF IsBuffer
  <2> QED
    BY <1>1, <2>2 DEF LayoutInv, TypeOK
<1>12. Stored' /\ Read'
  <2>1. ASSUME disk # NoFile
        PROVE  HeaderSize <= Len(buffer'.bytes) /\ Prefix(disk, buffer'.bytes) /\ Len(disk) = 0
    <3>1. HeaderSize <= Len(buffer.bytes) /\ Len(disk) = 0
      BY <1>1, <2>1 DEF LayoutInv, Stored
    <3>2. Prefix(disk, buffer'.bytes)
      BY <1>7, <3>1 DEF Prefix
    <3>3. Len(buffer'.bytes) >= Len(buffer.bytes)
      BY <1>5
    <3> QED
      BY <1>6, <1>7, <3>1, <3>2, <3>3
  <2>2. Read'
    BY <1>1 DEF LayoutInv, Read
  <2> QED
    BY <1>1, <2>1, <2>2 DEF Stored
<1>13. Same(buffer.bytes, buffer'.bytes, HeaderSize + 1, Len(buffer.bytes))
  <2>1. \A i \in (HeaderSize + 1)..Len(buffer.bytes) : i \in 89..Len(buffer.bytes)
    BY <1>6, <1>7
  <2> QED
    BY <1>5, <2>1 DEF Same
<1> QED
  BY <1>5, <1>10, <1>11, <1>12, <1>13 DEF LayoutInv

(* A build starts: a zeroed buffer, behind the room of the header.         *)
LEMMA CreateStep ==
    ASSUME LayoutInv, CreateFile
    PROVE  LayoutInv'
<1> DEFINE z == Resized(<< >>, InitialSize)
           b == [bytes |-> z, pos |-> 0]
           room == Resized(<< >>, HeaderSize)
<1>1. /\ pc = "idle" /\ builds < MaxBuilds /\ input' \in Input
      /\ buffer' = Write(b, room) /\ header' = NewHeader(input'.levelRange)
      /\ disk' = << >> /\ builds' = builds + 1 /\ pc' = "filter" /\ result' = "none"
      /\ reader' = reader
  BY DEF CreateFile
<1>2. /\ z \in Bytes /\ Len(z) \in Nat /\ room \in Bytes /\ Len(room) = HeaderSize
  <2> DEFINE e == << >>
  <2>1. e \in Bytes /\ Len(e) = 0 /\ InitialSize \in Nat /\ HeaderSize \in Nat
    BY LayoutAssumption, BytePowers DEF Bytes
  <2> HIDE DEF e
  <2>2. /\ Resized(e, InitialSize) \in Bytes /\ Resized(e, HeaderSize) \in Bytes
        /\ Len(Resized(e, HeaderSize)) = IF HeaderSize <= Len(e) THEN Len(e) ELSE HeaderSize
    BY <2>1, ResizedFacts
  <2>3. Len(Resized(e, HeaderSize)) = HeaderSize
    BY <2>1, <2>2
  <2>4. Len(Resized(e, InitialSize)) \in Nat
    BY <2>2 DEF Bytes
  <2> QED
    BY <2>2, <2>3, <2>4 DEF e
<1> HIDE DEF z, room
<1>3. IsBuffer(b) /\ b.pos = 0
  BY <1>2 DEF IsBuffer
<1> HIDE DEF b
<1>4. IsBuffer(buffer') /\ buffer'.pos = HeaderSize
  <2>1. IsBuffer(Write(b, room)) /\ Write(b, room).pos = b.pos + Len(room)
    BY <1>2, <1>3, WriteFacts
  <2>2. HeaderSize \in Nat
    BY LayoutAssumption
  <2> QED
    BY <1>1, <1>2, <1>3, <2>1, <2>2
<1>5. /\ HeaderSize \in Nat /\ HeaderSize \in 0..(Wrap - 1) /\ Wrap \in Nat
      /\ buffer'.bytes \in Bytes /\ Len(buffer'.bytes) \in Nat
      /\ HeaderSize <= Len(buffer'.bytes)
  <2>1. buffer'.bytes \in Bytes /\ Len(buffer'.bytes) \in Nat /\ buffer'.pos <= Len(buffer'.bytes)
    BY <1>4, BufferFacts
  <2>2. HeaderSize \in 0..(Wrap - 1) /\ Wrap \in Nat /\ HeaderSize \in Nat
    BY LayoutAssumption, BytePowers
  <2> QED
    BY <1>4, <2>1, <2>2
<1>6. input'.levelRange \in Nat /\ IsHeader(header') /\ Settings'
  <2>1. input'.levelRange \in Nat
    BY <1>1, InputFacts
  <2>2. IsHeader(header')
    BY <1>1, <2>1, NewHeaderFacts
  <2>3. Settings'
    BY <1>1 DEF Settings, NewHeader
  <2> QED
    BY <2>1, <2>2, <2>3
<1>7. Laid'
  BY <1>1, <1>4, <1>6 DEF Laid
<1>8. << >> \in Bytes /\ Len(<< >>) = 0
  BY DEF Bytes
<1>9. TypeOK'
  <2>1. buffer' \in [bytes: Bytes, pos: 0..(Wrap - 1)]
    <3>1. buffer' = [bytes |-> buffer'.bytes, pos |-> buffer'.pos]
      BY <1>4 DEF IsBuffer
    <3> QED
      BY <1>4, <1>5, <3>1
  <2>2. builds' \in 0..MaxBuilds
    BY <1>1, LayoutAssumption DEF LayoutInv, TypeOK
  <2>3. header' \in [DOMAIN NewHeader(1) -> 0..(Wrap - 1)]
    BY <1>6, NewHeaderFacts DEF IsHeader
  <2> QED
    BY <1>1, <1>8, <2>1, <2>2, <2>3 DEF LayoutInv, TypeOK
<1>10. Stored'
  <2>1. Prefix(disk', buffer'.bytes) /\ Len(disk') = 0
    BY <1>1, <1>5, <1>8 DEF Prefix
  <2> QED
    BY <1>1, <1>5, <2>1 DEF Stored
<1>11. Read'
  <2>1. disk' # NoFile
    BY <1>1, <1>8, LayoutAssumption
  <2>2. ASSUME reader.step # "closed"
        PROVE  reader.since <= builds + 1 /\ reader.since # builds + 1
    BY <2>2 DEF LayoutInv, Read, TypeOK
  <2> QED
    BY <1>1, <2>1, <2>2 DEF LayoutInv, Read
<1> QED
  BY <1>4, <1>7, <1>9, <1>10, <1>11 DEF LayoutInv

(* The first n bytes of t.                                                 *)
LEMMA PrefixFacts ==
    ASSUME NEW t \in Bytes, NEW n \in 0..Len(t)
    PROVE  /\ SubSeq(t, 1, n) \in Bytes /\ Len(SubSeq(t, 1, n)) = n
           /\ Prefix(SubSeq(t, 1, n), t)
<1>1. Len(t) \in Nat /\ t \in Seq(0..(Byte - 1))
  BY DEF Bytes
<1>2. /\ SubSeq(t, 1, n) \in Seq(0..(Byte - 1)) /\ Len(SubSeq(t, 1, n)) = n
      /\ \A i \in 1..n : SubSeq(t, 1, n)[i] = t[i]
  <2> DEFINE D == 0..(Byte - 1)
  <2> HIDE DEF D
  <2>1. t \in Seq(D)
    BY <1>1 DEF D
  <2>2. SubSeq(t, 1, n) \in Seq(D) /\ Len(SubSeq(t, 1, n)) = n
    BY <1>1, <2>1
  <2>3. \A i \in 1..n : SubSeq(t, 1, n)[i] = t[i]
    BY <1>1, <2>1
  <2> QED
    BY <2>2, <2>3 DEF D
<1> QED
  BY <1>1, <1>2 DEF Prefix, Bytes

(* The first bytes of t, s, and then more of them.                         *)
LEMMA PrefixLonger ==
    ASSUME NEW s \in Bytes, NEW t \in Bytes, Prefix(s, t),
           NEW n \in Len(s)..Len(t)
    PROVE  /\ s \o SubSeq(t, Len(s) + 1, n) \in Bytes
           /\ Len(s \o SubSeq(t, Len(s) + 1, n)) = n
           /\ Prefix(s \o SubSeq(t, Len(s) + 1, n), t)
<1> DEFINE D == 0..(Byte - 1)
           u == SubSeq(t, Len(s) + 1, n)
           v == s \o u
<1>1. s \in Seq(D) /\ t \in Seq(D) /\ Len(s) \in Nat /\ Len(t) \in Nat /\ n \in Nat
  BY DEF Bytes
<1> HIDE DEF D
<1>2. u \in Seq(D) /\ Len(u) = n - Len(s) /\ \A i \in 1..(n - Len(s)) : u[i] = t[Len(s) + i]
  BY <1>1
<1> HIDE DEF u
<1>3. /\ v \in Seq(D) /\ Len(v) = Len(s) + Len(u)
      /\ \A i \in 1..Len(s) : v[i] = s[i]
      /\ \A i \in 1..Len(u) : v[Len(s) + i] = u[i]
  BY <1>1, <1>2, ConcatFacts
<1> HIDE DEF v
<1>4. Len(v) = n
  BY <1>1, <1>2, <1>3
<1>5. ASSUME NEW i \in 1..n PROVE v[i] = t[i]
  <2>1. CASE i \in 1..Len(s)
    BY <1>3, <2>1 DEF Prefix
  <2>2. CASE i \notin 1..Len(s)
    <3>1. i - Len(s) \in 1..(n - Len(s)) /\ Len(s) + (i - Len(s)) = i
      BY <1>1, <2>2
    <3> QED
      BY <1>2, <1>3, <3>1
  <2> QED
    BY <2>1, <2>2
<1>6. Prefix(v, t)
  BY <1>1, <1>4, <1>5 DEF Prefix
<1> QED
  BY <1>3, <1>4, <1>6 DEF v, u, D, Bytes

(* A prefix of a prefix.                                                   *)
LEMMA PrefixOfPrefix ==
    ASSUME NEW s \in Bytes, NEW t \in Bytes, NEW u \in Bytes, Prefix(s, t), Prefix(t, u)
    PROVE  Prefix(s, u)
<1>1. Len(s) \in Nat /\ Len(t) \in Nat /\ Len(u) \in Nat
  BY DEF Bytes
<1> QED
  BY <1>1 DEF Prefix

(* The flush carries the file on: what it stores is of a complete buffer.  *)
LEMMA FlushStep ==
    ASSUME LayoutInv, FlushSome
    PROVE  LayoutInv'
<1>1. PICK n \in Cuts \cup {Len(buffer.bytes)} :
         Len(disk) < n /\ n <= Len(buffer.bytes) /\ disk' = SubSeq(buffer.bytes, 1, n)
  BY DEF FlushSome
<1>2. /\ pc = "flush" /\ UNCHANGED <<pc, input, buffer, header, result, builds, reader>>
  BY DEF FlushSome
<1>3. /\ buffer.bytes \in Bytes /\ Len(buffer.bytes) \in Nat /\ n \in 0..Len(buffer.bytes)
  <2>1. buffer.bytes \in Bytes /\ Len(buffer.bytes) \in Nat
    BY BufferFacts DEF LayoutInv
  <2>2. n \in Nat
    BY <2>1, LayoutAssumption
  <2> QED
    BY <1>1, <2>1, <2>2
<1>4. disk' \in Bytes /\ Len(disk') = n /\ Prefix(disk', buffer.bytes)
  BY <1>1, <1>3, PrefixFacts
<1>5. TypeOK'
  BY <1>2, <1>4 DEF LayoutInv, TypeOK
<1>6. Laid' /\ IsBuffer(buffer')
  <2>1. Laid'
    BY <1>2 DEF LayoutInv, Laid, Settings, FilterLaid, KeysLaid, CellsLaid, BitmapsLaid, HeaderLaid
  <2> QED
    BY <1>2, <2>1 DEF LayoutInv
<1>7. Stored'
  <2>1. HeaderSize <= Len(buffer.bytes)
    <3>1. Laid
      BY DEF LayoutInv
    <3>2. FilterLaid /\ input \in Input
      BY <1>2, <3>1 DEF Laid, LayoutInv, TypeOK
    <3>3. HeaderSize \in Nat /\ Len(input.filter) \in Nat
      BY <3>2, PlaceFacts
    <3> QED
      BY <1>3, <3>2, <3>3 DEF FilterLaid, Holds
  <2>2. Complete'
    BY <1>2, <1>6 DEF Laid, Complete
  <2> QED
    BY <1>2, <1>4, <2>1, <2>2 DEF Stored
<1>8. Read'
  <2>1. ASSUME reader.step # "closed"
        PROVE  /\ disk' # NoFile /\ reader.since <= builds
               /\ Len(reader.data) <= reader.size
               /\ reader.since = builds => Prefix(reader.data, disk')
    <3>1. disk # NoFile /\ reader.since <= builds /\ Len(reader.data) <= reader.size
      BY <2>1 DEF LayoutInv, Read
    <3>2. disk' # NoFile
      BY <1>4, LayoutAssumption
    <3>3. ASSUME reader.since = builds PROVE Prefix(reader.data, disk')
      <4>1. /\ Prefix(reader.data, disk) /\ Prefix(disk, buffer.bytes)
            /\ disk \in Bytes /\ reader.data \in Bytes
        BY <2>1, <3>1, <3>3 DEF LayoutInv, Read, Stored, TypeOK
      <4>2. Len(disk) \in Nat /\ Len(reader.data) \in Nat
        BY <4>1 DEF Bytes
      <4>3. Prefix(reader.data, buffer.bytes)
        BY <1>3, <4>1, PrefixOfPrefix
      <4>4. Len(reader.data) <= n /\ n \in Nat
        BY <1>1, <1>3, <4>1, <4>2 DEF Prefix
      <4> QED
        BY <1>3, <1>4, <4>2, <4>3, <4>4 DEF Prefix
    <3> QED
      BY <3>1, <3>2, <3>3
  <2> QED
    BY <1>2, <2>1 DEF Read
<1> QED
  BY <1>5, <1>6, <1>7, <1>8 DEF LayoutInv

(* A build that ends, one way or the other, leaves all but pc as it was.   *)
LEMMA EndStep ==
    ASSUME LayoutInv, Return \/ Crash \/ CannotOpen
    PROVE  LayoutInv'
<1>1. /\ pc' = "idle" /\ result' \in {"true", "crashed", "throws"}
      /\ UNCHANGED <<input, buffer, header, disk, builds, reader>>
  BY DEF Return, Crash, CannotOpen
<1>2. TypeOK'
  BY <1>1 DEF LayoutInv, TypeOK
<1>3. Laid' /\ IsBuffer(buffer')
  BY <1>1 DEF LayoutInv, Laid
<1>4. Stored'
  BY <1>1
  DEF LayoutInv, Stored, Complete, Settings, FilterLaid, KeysLaid, CellsLaid,
      BitmapsLaid, HeaderLaid
<1>5. Read'
  BY <1>1 DEF LayoutInv, Read
<1> QED
  BY <1>2, <1>3, <1>4, <1>5 DEF LayoutInv

(* A reader takes the size of the file, then as many of its bytes.         *)
LEMMA ReaderStep ==
    ASSUME LayoutInv, OpenFile \/ ReadSome \/ OpenIndex
    PROVE  LayoutInv'
<1>1. UNCHANGED <<pc, input, buffer, header, result, disk, builds>>
  BY DEF OpenFile, ReadSome, OpenIndex
<1>2. Laid' /\ IsBuffer(buffer')
  <2>1. Laid'
    BY <1>1 DEF LayoutInv, Laid, Settings, FilterLaid, KeysLaid, CellsLaid, BitmapsLaid, HeaderLaid
  <2> QED
    BY <1>1, <2>1 DEF LayoutInv
<1>3. Stored'
  BY <1>1
  DEF LayoutInv, Stored, Complete, Settings, FilterLaid, KeysLaid, CellsLaid,
      BitmapsLaid, HeaderLaid
<1> DEFINE R == [step: {"closed", "reading", "open"}, size: Nat,
                 data: Bytes, since: 0..MaxBuilds]
<1>4. reader \in R /\ builds \in 0..MaxBuilds /\ disk \in Bytes \cup {NoFile} /\ Read
  BY DEF LayoutInv, TypeOK
<1>5. << >> \in Bytes /\ Len(<< >>) = 0
  BY DEF Bytes
<1>6. NoReader \in R /\ NoReader.step = "closed"
  <2>1. 0 \in 0..MaxBuilds
    BY LayoutAssumption
  <2> QED
    BY <1>5, <2>1 DEF NoReader
<1>7. CASE reader' = NoReader
  <2>1. reader' \in R /\ Read'
    BY <1>6, <1>7 DEF Read
  <2> QED
    BY <1>1, <1>2, <1>3, <2>1 DEF LayoutInv, TypeOK
<1>8. CASE OpenFile
  <2>1. disk # NoFile /\ disk \in Bytes /\ Len(disk) \in Nat
    BY <1>4, <1>8 DEF OpenFile, Bytes
  <2>2. reader' = [step |-> "reading", size |-> Len(disk), data |-> << >>, since |-> builds]
    BY <1>8 DEF OpenFile
  <2>3. Prefix(<< >>, disk)
    BY <2>1 DEF Prefix
  <2>4. reader' \in R
    BY <1>4, <1>5, <2>1, <2>2
  <2>5. Read'
    BY <1>1, <1>4, <1>5, <2>1, <2>2, <2>3 DEF Read
  <2> QED
    BY <1>1, <1>2, <1>3, <2>4, <2>5 DEF LayoutInv, TypeOK
<1>9. CASE ReadSome /\ reader' # NoReader
  <2>1. PICK n \in Cuts \cup {reader.size} :
           /\ Len(reader.data) < n /\ n <= reader.size /\ n <= Len(disk)
           /\ reader' = [reader EXCEPT !.data = reader.data \o
                             SubSeq(disk, Len(reader.data) + 1, n)]
    <3>1. PICK n \in Cuts \cup {reader.size} :
             /\ Len(reader.data) < n /\ n <= reader.size
             /\ reader' = IF n > Len(disk)
                          THEN NoReader
                          ELSE [reader EXCEPT !.data = reader.data \o
                                   SubSeq(disk, Len(reader.data) + 1, n)]
      BY <1>9 DEF ReadSome
    <3>2. ~ (n > Len(disk))
      BY <1>9, <3>1
    <3>3. disk \in Bytes /\ Len(disk) \in Nat /\ n \in Nat
      <4>1. disk # NoFile
        BY <1>9 DEF ReadSome, LayoutInv, Read
      <4>2. disk \in Bytes
        BY <1>4, <4>1
      <4> QED
        BY <1>4, <4>2, LayoutAssumption DEF Bytes
    <3>4. n <= Len(disk)
      BY <3>2, <3>3
    <3> QED
      BY <3>1, <3>2, <3>4
  <2>2. reader.step = "reading"
    BY <1>9 DEF ReadSome
  <2>3. /\ disk # NoFile /\ disk \in Bytes /\ Len(disk) \in Nat
        /\ reader.data \in Bytes /\ Len(reader.data) \in Nat /\ reader.size \in Nat
        /\ reader.since <= builds /\ n \in Nat
    <3>1. disk # NoFile /\ reader.since <= builds
      BY <1>4, <2>2 DEF Read
    <3>2. disk \in Bytes /\ reader.data \in Bytes /\ reader.size \in Nat
      BY <1>4, <3>1
    <3> QED
      BY <3>1, <3>2, LayoutAssumption DEF Bytes
  <2> DEFINE more == reader.data \o SubSeq(disk, Len(reader.data) + 1, n)
  <2>4. more \in Bytes /\ Len(more) = n
    <3>1. SubSeq(disk, Len(reader.data) + 1, n) \in Bytes
          /\ Len(SubSeq(disk, Len(reader.data) + 1, n)) = n - Len(reader.data)
      <4> DEFINE D == 0..(Byte - 1)
      <4>1. disk \in Seq(D)
        BY <2>3 DEF Bytes
      <4> HIDE DEF D
      <4>2. SubSeq(disk, Len(reader.data) + 1, n) \in Seq(D)
            /\ Len(SubSeq(disk, Len(reader.data) + 1, n)) = n - Len(reader.data)
        BY <2>1, <2>3, <4>1
      <4> QED
        BY <4>2 DEF Bytes, D
    <3> DEFINE u == SubSeq(disk, Len(reader.data) + 1, n)
    <3> HIDE DEF u
    <3>2. reader.data \o u \in Bytes /\ Len(reader.data \o u) = Len(reader.data) + Len(u)
      BY <2>3, <3>1, JoinedBytes DEF u
    <3>3. Len(reader.data) + Len(u) = n
      BY <2>1, <2>3, <3>1 DEF u
    <3> QED
      BY <3>2, <3>3 DEF u
  <2>5. reader.since = builds => Prefix(more, disk)
    <3> SUFFICES ASSUME reader.since = builds PROVE Prefix(more, disk)
      OBVIOUS
    <3>1. Prefix(reader.data, disk)
      BY <1>4, <2>2 DEF Read
    <3>2. n \in Len(reader.data)..Len(disk)
      BY <2>1, <2>3
    <3> QED
      BY <2>3, <3>1, <3>2, PrefixLonger
  <2> HIDE DEF more
  <2>6. /\ reader' \in R /\ reader'.data = more /\ reader'.since = reader.since
        /\ reader'.size = reader.size
    BY <1>4, <2>1, <2>4 DEF more
  <2>7. Read'
    BY <1>1, <2>1, <2>3, <2>4, <2>5, <2>6 DEF Read
  <2> QED
    BY <1>1, <1>2, <1>3, <2>6, <2>7 DEF LayoutInv, TypeOK
<1>10. CASE OpenIndex /\ reader' # NoReader
  <2>1. reader.step = "reading" /\ reader' = [reader EXCEPT !.step = "open"]
    BY <1>10 DEF OpenIndex
  <2>2. /\ reader' \in R /\ reader'.data = reader.data /\ reader'.since = reader.since
        /\ reader'.size = reader.size
    BY <1>4, <2>1
  <2>3. Read'
    BY <1>1, <1>4, <2>1, <2>2 DEF Read
  <2> QED
    BY <1>1, <1>2, <1>3, <2>2, <2>3 DEF LayoutInv, TypeOK
<1> QED
  BY <1>7, <1>8, <1>9, <1>10

-----------------------------------------------------------------------------
(* Before the first build there is no file, no buffer and no reader.       *)
LEMMA LayoutInit == Init => LayoutInv
<1> SUFFICES ASSUME Init PROVE LayoutInv
  OBVIOUS
<1>1. << >> \in Bytes /\ Len(<< >>) = 0
  BY DEF Bytes
<1>2. Wrap \in Nat \ {0} /\ 0 \in 0..MaxBuilds
  BY BytePowers, LayoutAssumption
<1>3. IsBuffer(buffer)
  BY <1>1 DEF Init, IsBuffer
<1>4. TypeOK
  <2>1. header \in [DOMAIN NewHeader(1) -> 0..(Wrap - 1)]
    BY NewHeaderFacts DEF Init, IsHeader
  <2>2. buffer \in [bytes: Bytes, pos: 0..(Wrap - 1)]
    BY <1>1, <1>2 DEF Init
  <2>3. reader \in [step: {"closed", "reading", "open"}, size: Nat,
                    data: Bytes, since: 0..MaxBuilds]
    BY <1>1, <1>2 DEF Init, NoReader
  <2> QED
    BY <1>2, <2>1, <2>2, <2>3 DEF Init, TypeOK
<1>5. Laid /\ Stored /\ Read
  BY DEF Init, Laid, Stored, Read, NoReader
<1> QED
  BY <1>3, <1>4, <1>5 DEF LayoutInv

(* Every step keeps the invariant.                                         *)
LEMMA LayoutStep == LayoutInv /\ [Next]_vars => LayoutInv'
<1> SUFFICES ASSUME LayoutInv, [Next]_vars PROVE LayoutInv'
  OBVIOUS
<1>1. CASE UNCHANGED vars
  BY <1>1
  DEF vars, LayoutInv, TypeOK, Laid, Stored, Read, Complete, Settings, FilterLaid,
      KeysLaid, CellsLaid, BitmapsLaid, HeaderLaid
<1>2. CASE Next
  BY <1>2, CreateStep, FilterStep, KeysStep, CellsStep, BitmapsStep, HeaderStep,
     FlushStep, EndStep, ReaderStep
  DEF Next
<1> QED
  BY <1>1, <1>2

(* In every state the buffer holds, section after section, the image of    *)
(* what the build has to write, and the file is a prefix of a complete one.*)
THEOREM LayoutInvariant == Spec => []LayoutInv
<1>1. Init => LayoutInv
  BY LayoutInit
<1>2. LayoutInv /\ [Next]_vars => LayoutInv'
  BY LayoutStep
<1> QED
  BY <1>1, <1>2, PTL DEF Spec

(* The types hold, whatever builds write: in particular no position and no *)
(* member of the header reaches 2^64.                                      *)
THEOREM FileTypeOK == Spec => []TypeOK
<1>1. LayoutInv => TypeOK
  BY DEF LayoutInv
<1> QED
  BY <1>1, LayoutInvariant, PTL

(* The header's sections follow one another without overlap, behind the    *)
(* header itself, for every input, block size and size of the buffer.      *)
THEOREM SectionsLieInOrder == Spec => []SectionsInOrder
<1>1. ASSUME LayoutInv PROVE SectionsInOrder
  <2> SUFFICES ASSUME pc = "flush"
               PROVE  /\ Len(HeaderBytes(header)) <= HeaderSize
                      /\ HeaderSize <= header.cellIdFilterOffset
                      /\ header.cellIdFilterOffset + header.cellIdFilterSize <= header.keyIndexOffset
                      /\ header.keyIndexOffset + header.keyIndexSize <= header.cellIndexOffset
                      /\ header.cellIndexOffset + header.cellIndexSize <= header.roaringIndexOffset
                      /\ header.roaringIndexOffset + header.roaringIndexSize <= Len(buffer.bytes)
    BY DEF SectionsInOrder
  <2>1. FilterLaid /\ KeysLaid /\ CellsLaid /\ BitmapsLaid /\ IsHeader(header) /\ input \in Input
    BY <1>1, TypedFacts DEF LayoutInv, Laid
  <2>2. Len(HeaderBytes(header)) = 88
    BY <2>1, HeaderBytesFacts
  <2>3. Len(KeysImage(input)) \in Nat /\ Len(KeysImage(input)) % Byte^4 <= Len(KeysImage(input))
        /\ Len(KeysImage(input)) % Byte^4 \in Nat
    <3> DEFINE l == Len(KeysImage(input))
               p == Byte^4
    <3>1. l \in Nat /\ p \in Nat \ {0}
      BY <2>1, PlaceFacts, BytePowers DEF Word
    <3> HIDE DEF l, p
    <3>2. l % p \in Nat /\ l % p <= l
      BY <3>1
    <3> QED
      BY <3>1, <3>2 DEF l, p
  <2>4. BitmapsAt(input) + Len(BitmapsImage(input)) <= Len(buffer.bytes)
    BY <2>1 DEF BitmapsLaid, Holds
  <2> DEFINE l == Len(KeysImage(input)) % Byte^4
  <2> HIDE DEF l
  <2>5. KeysAt(input) + l <= CellsAt(input)
    BY <2>1, <2>3, PlaceFacts DEF l
  <2>6. /\ 88 <= HeaderSize /\ HeaderSize \in Nat /\ Len(input.filter) \in Nat
        /\ HeaderSize + Len(input.filter) <= KeysAt(input)
        /\ CellsAt(input) + Len(CellsImage(input)) <= BitmapsAt(input)
    BY <2>1, PlaceFacts
  <2> QED
    BY <2>1, <2>2, <2>4, <2>5, <2>6 DEF FilterLaid, KeysLaid, CellsLaid, BitmapsLaid, l
<1> QED
  BY <1>1, LayoutInvariant, PTL

(* The same bytes from the m-th to the n-th: the same part of both.        *)
LEMMA SameParts ==
    ASSUME NEW b \in Bytes, NEW c \in Bytes, NEW m \in Nat \ {0}, NEW n \in Nat,
           n <= Len(b), n <= Len(c), Same(b, c, m, n)
    PROVE  SubSeq(c, m, n) = SubSeq(b, m, n)
<1> DEFINE D == 0..(Byte - 1)
<1>1. b \in Seq(D) /\ c \in Seq(D) /\ Len(b) \in Nat /\ Len(c) \in Nat
  BY DEF Bytes
<1> HIDE DEF D
<1>2. CASE n < m
  <2>1. SubSeq(c, m, n) = << >> /\ SubSeq(b, m, n) = << >>
    BY <1>1, <1>2
  <2> QED
    BY <2>1
<1>3. CASE ~ (n < m)
  <2> DEFINE x == SubSeq(b, m, n)
             y == SubSeq(c, m, n)
             l == n - m + 1
  <2>1. x \in Seq(D) /\ Len(x) = l /\ y \in Seq(D) /\ Len(y) = l
    BY <1>1, <1>3
  <2>2. ASSUME NEW i \in 1..l PROVE x[i] = y[i]
    <3>1. m + i - 1 \in m..n
      BY <1>1, <1>3
    <3>2. x[i] = b[m + i - 1] /\ y[i] = c[m + i - 1]
      BY <1>1, <1>3
    <3> QED
      BY <3>1, <3>2 DEF Same
  <2> HIDE DEF x, y
  <2>3. x = y
    BY <2>1, <2>2
  <2> QED
    BY <2>3 DEF x, y
<1> QED
  BY <1>2, <1>3

(* No section is written over what was laid out before it: the seeks of a  *)
(* column, the one around 2^64 included, never lead it there, and the      *)
(* header only goes over its own room.                                     *)
THEOREM BytesStay == Spec => WrittenBytesStay
<1> DEFINE end == IF pc = "header" THEN Len(buffer.bytes) ELSE buffer.pos
           Stay == pc \notin {"idle", "flush"} =>
                       SubSeq(buffer'.bytes, HeaderSize + 1, end)
                           = SubSeq(buffer.bytes, HeaderSize + 1, end)
<1>1. ASSUME LayoutInv, [Next]_vars PROVE [Stay]_vars
  <2> SUFFICES ASSUME pc \notin {"idle", "flush"}
               PROVE  SubSeq(buffer'.bytes, HeaderSize + 1, end)
                        = SubSeq(buffer.bytes, HeaderSize + 1, end)
    OBVIOUS
  <2>1. CASE buffer' = buffer
    BY <2>1
  <2>2. CASE WriteFilter \/ WriteKeys \/ WriteCells \/ WriteBitmaps \/ WriteHeader
    <3>1. LayoutInv'
      BY <1>1, LayoutStep
    <3>2. /\ buffer.bytes \in Bytes /\ Len(buffer.bytes) \in Nat
          /\ buffer.pos \in Nat /\ buffer.pos <= Len(buffer.bytes)
          /\ buffer'.bytes \in Bytes
      BY <1>1, <3>1, BufferFacts DEF LayoutInv
    <3>3. /\ end \in Nat /\ end <= Len(buffer.bytes) /\ HeaderSize + 1 \in Nat \ {0}
          /\ HeaderSize \in Nat
      BY <3>2, LayoutAssumption
    <3>4. Same(buffer.bytes, buffer'.bytes, HeaderSize + 1, end)
      <4>1. CASE pc = "header"
        <5>1. WriteHeader
          BY <2>2, <4>1 DEF WriteFilter, WriteKeys, WriteCells, WriteBitmaps
        <5> QED
          BY <1>1, <4>1, <5>1, HeaderStep
      <4>2. CASE pc # "header"
        <5>1. Same(buffer.bytes, buffer'.bytes, 1, buffer.pos)
          BY <1>1, <2>2, <4>2, FilterStep, KeysStep, CellsStep, BitmapsStep DEF WriteHeader
        <5>2. \A i \in (HeaderSize + 1)..buffer.pos : i \in 1..buffer.pos
          BY <3>2, <3>3
        <5> QED
          BY <4>2, <5>1, <5>2 DEF Same
      <4> QED
        BY <4>1, <4>2
    <3>5. Len(buffer'.bytes) >= Len(buffer.bytes)
      BY <1>1, <2>2, FilterStep, KeysStep, CellsStep, BitmapsStep, HeaderStep
    <3>6. Len(buffer'.bytes) \in Nat /\ end <= Len(buffer'.bytes)
      <4>1. Len(buffer'.bytes) \in Nat
        BY <3>2 DEF Bytes
      <4> QED
        BY <3>2, <3>3, <3>5, <4>1
    <3> QED
      BY <3>2, <3>3, <3>4, <3>6, SameParts
  <2> QED
    BY <1>1, <2>1, <2>2
    DEF Next, vars, CannotOpen, CreateFile, FlushSome, Return, Crash, OpenFile,
        ReadSome, OpenIndex
<1>2. LayoutInv /\ [Next]_vars => [Stay]_vars
  BY <1>1
<1> HIDE DEF Stay
<1>3. Spec => [][Stay]_vars
  BY <1>2, LayoutInvariant, PTL DEF Spec
<1> QED
  BY <1>3 DEF WrittenBytesStay, Stay

-----------------------------------------------------------------------------
(* Reading back.  One digit more of v in base B, where p is the weight of  *)
(* the next one.                                                           *)
LEMMA DigitStep ==
    ASSUME NEW v \in Nat, NEW p \in Nat \ {0}, NEW B \in Nat \ {0}
    PROVE  v % (p * B) = (v % p) + ((v \div p) % B) * p
<1> DEFINE q == v \div p
           r == v % p
           m == q \div B
           d == q % B
<1>1. q \in Nat /\ r \in 0..(p - 1) /\ v = q * p + r
  BY DivModExact
<1> HIDE DEF q, r
<1>2. m \in Nat /\ d \in 0..(B - 1) /\ q = m * B + d
  BY <1>1, DivModExact
<1> HIDE DEF m, d
<1>3. p * B \in Nat \ {0} /\ d * p \in Nat /\ d * p + p <= p * B
  <2>1. d \in Nat /\ d + 1 <= B
    BY <1>2
  <2>2. (d + 1) * p <= B * p
    BY <2>1
  <2>3. (d + 1) * p = d * p + p /\ B * p = p * B
    BY <2>1
  <2>4. p * B \in Nat \ {0} /\ d * p \in Nat
    BY <2>1
  <2> QED
    BY <2>2, <2>3, <2>4
<1>4. d * p + r \in 0..(p * B - 1)
  BY <1>1, <1>3
<1>5. v = m * (p * B) + (d * p + r)
  <2>1. (m * B + d) * p = m * (p * B) + d * p
    <3>1. m \in Nat /\ d \in Nat
      BY <1>2
    <3> QED
      BY <3>1
  <2>2. m * (p * B) \in Nat
    BY <1>2, <1>3
  <2> QED
    BY <1>1, <1>2, <1>3, <2>1, <2>2
<1>6. (m * (p * B) + (d * p + r)) % (p * B) = d * p + r
  BY <1>2, <1>3, <1>4, DivMod
<1>7. v % (p * B) = r + d * p
  BY <1>1, <1>3, <1>5, <1>6
<1> QED
  BY <1>7 DEF r, d, m, q

(* What was written in little endian is read back, if it fits its field.   *)
LEMMA RoundTrip ==
    ASSUME NEW w \in 1..Word, NEW v \in 0..(Byte^w - 1), NEW s,
           Len(s) = w, \A k \in 1..w : s[k] = LittleEndian(v, w)[k]
    PROVE  FromLittleEndian(s) = v
<1> DEFINE Sat(h) == h = [k \in 0..w |-> IF k = 0 THEN 0
                                         ELSE h[k - 1] + s[k] * Byte^(k - 1)]
           f == CHOOSE h : Sat(h)
           d == [k \in 0..w |-> v % Byte^k]
<1>1. /\ w \in Nat /\ v \in Nat /\ Byte \in Nat \ {0}
      /\ \A k \in 0..w : k \in Nat /\ Byte^k \in Nat \ {0}
      /\ \A k \in 1..w : k - 1 \in 0..w /\ k \in 0..w /\ k # 0
  <2>1. \A k \in 0..w : k \in 0..Word
    BY DEF Word
  <2>2. \A k \in 0..w : Byte^k \in Nat \ {0}
    BY <2>1, BytePowers
  <2>3. w \in Nat /\ w \in 0..w
    BY DEF Word
  <2>4. v \in Nat
    BY <2>2, <2>3
  <2> QED
    BY <2>2, <2>3, <2>4, LayoutAssumption
<1>2. ASSUME NEW k \in 1..w
      PROVE  v % Byte^k = (v % Byte^(k - 1)) + s[k] * Byte^(k - 1)
  <2> DEFINE p == Byte^(k - 1)
             a == Byte^k
  <2>1. p \in Nat \ {0}
    BY <1>1
  <2>2. a = p * Byte
    <3>1. k - 1 \in 0..(Word - 1) /\ (k - 1) + 1 = k
      BY DEF Word
    <3> QED
      BY <3>1, PowersAssumption
  <2>3. s[k] = (v \div p) % Byte
    BY DEF LittleEndian
  <2> HIDE DEF p, a
  <2>4. v % (p * Byte) = (v % p) + ((v \div p) % Byte) * p
    BY <1>1, <2>1, DigitStep
  <2> QED
    BY <2>2, <2>3, <2>4 DEF p, a
<1>3. v % Byte^0 = 0
  <2>1. v % 1 = 0
    BY <1>1
  <2> QED
    BY <2>1, PowersAssumption
<1>4. Sat(d)
  <2>1. \A k \in 0..w : d[k] = IF k = 0 THEN 0 ELSE d[k - 1] + s[k] * Byte^(k - 1)
    <3> SUFFICES ASSUME NEW k \in 0..w
                 PROVE  d[k] = IF k = 0 THEN 0 ELSE d[k - 1] + s[k] * Byte^(k - 1)
      OBVIOUS
    <3>1. CASE k = 0
      BY <1>3, <3>1
    <3>2. CASE k # 0
      <4>1. k \in 1..w /\ k - 1 \in 0..w
        BY <1>1, <3>2
      <4>2. d[k] = v % Byte^k /\ d[k - 1] = v % Byte^(k - 1)
        BY <4>1
      <4> HIDE DEF d
      <4> QED
        BY <1>2, <3>2, <4>1, <4>2
    <3> QED
      BY <3>1, <3>2
  <2>2. d = [k \in 0..w |-> d[k]]
    OBVIOUS
  <2> HIDE DEF d
  <2> QED
    BY <2>1, <2>2
<1>5. Sat(f)
  <2> HIDE DEF Sat, d
  <2> QED
    BY <1>4
<1>6. FromLittleEndian(s) = f[w]
  BY DEF FromLittleEndian
<1> HIDE DEF f
<1>7. \A k \in 0..w : f[k] = IF k = 0 THEN 0 ELSE f[k - 1] + s[k] * Byte^(k - 1)
  BY <1>5 DEF Sat
<1> DEFINE W == {k \in 0..w : f[k] # v % Byte^k}
<1>8. ASSUME W # {} PROVE FALSE
  <2>1. PICK m \in W : \A n \in W : m <= n
    <3>1. W \subseteq Nat
      BY <1>1
    <3> HIDE DEF W
    <3> QED
      BY <1>8, <3>1, LeastNat
  <2>2. m \in 0..w /\ f[m] # v % Byte^m
    OBVIOUS
  <2>3. m # 0
    <3>1. f[0] = 0
      BY <1>1, <1>7
    <3> QED
      BY <1>3, <2>2, <3>1
  <2>4. m \in 1..w /\ m - 1 \in 0..w /\ ~ (m <= m - 1)
    BY <1>1, <2>2, <2>3
  <2>5. m - 1 \notin W
    <3> HIDE DEF W
    <3> QED
      BY <2>1, <2>4
  <2>6. f[m - 1] = v % Byte^(m - 1)
    BY <2>4, <2>5
  <2> QED
    BY <1>2, <1>7, <2>2, <2>3, <2>4, <2>6
<1>9. f[w] = v % Byte^w
  BY <1>1, <1>8
<1>10. v % Byte^w = v
  <2> DEFINE p == Byte^w
  <2>1. p \in Nat \ {0} /\ v \in 0..(p - 1)
    BY <1>1
  <2> HIDE DEF p
  <2>2. (0 * p + v) % p = v /\ 0 * p + v = v
    BY <2>1, DivMod
  <2> QED
    BY <2>2 DEF p
<1> QED
  BY <1>6, <1>9, <1>10

(* view finds what lies there, or throws if it was not read.               *)
LEMMA ViewFacts ==
    ASSUME NEW f \in Bytes, NEW b \in Bytes, Prefix(f, b), NEW at \in Nat,
           NEW s \in Bytes, Holds(b, at, s)
    PROVE  /\ view(f, at, Len(s)) \subseteq {s}
           /\ at + Len(s) <= Len(f) => view(f, at, Len(s)) = {s}
<1> DEFINE D == 0..(Byte - 1)
           n == Len(s)
           u == SubSeq(f, at + 1, at + n)
<1>1. f \in Seq(D) /\ s \in Seq(D) /\ Len(f) \in Nat /\ n \in Nat
  BY DEF Bytes
<1> HIDE DEF D
<1>2. ASSUME at + n <= Len(f) PROVE u = s
  <2>1. u \in Seq(D) /\ Len(u) = n /\ \A i \in 1..n : u[i] = f[at + i]
    <3>1. n \in Nat /\ at + n <= Len(f) /\ f \in Seq(D) /\ Len(f) \in Nat
      BY <1>1, <1>2
    <3> HIDE DEF n
    <3>2. u \in Seq(D) /\ Len(u) = n
      BY <3>1
    <3>3. \A i \in 1..n : u[i] = f[at + i]
      BY <3>1
    <3> QED
      BY <3>2, <3>3
  <2>2. ASSUME NEW i \in 1..n PROVE f[at + i] = s[i]
    <3>1. at + i \in 1..Len(f)
      BY <1>1, <1>2
    <3> QED
      BY <3>1 DEF Prefix, Holds
  <2> HIDE DEF u
  <2> QED
    BY <1>1, <2>1, <2>2
<1>3. view(f, at, n) = IF at + n > Len(f) THEN {} ELSE {u}
  BY DEF view
<1> HIDE DEF u, n
<1>4. CASE at + n > Len(f)
  BY <1>1, <1>3, <1>4 DEF n
<1>5. CASE ~ (at + n > Len(f))
  BY <1>1, <1>2, <1>3, <1>5 DEF n
<1> QED
  BY <1>4, <1>5

(* A VectorView of words is the first of the integers that were written.   *)
LEMMA WordsView ==
    ASSUME NEW f \in Bytes, NEW b \in Bytes, Prefix(f, b), NEW at \in Nat,
           NEW u \in Seq(0..(Wrap - 1)), NEW n \in 0..Len(u), Holds(b, at, Words(u))
    PROVE  /\ VectorView(f, at, n) \subseteq {SubSeq(u, 1, n)}
           /\ at + n * Word <= Len(f) => VectorView(f, at, n) = {SubSeq(u, 1, n)}
<1> DEFINE D == 0..(Byte - 1)
           V == 0..(Wrap - 1)
           l == n * Word
           v == SubSeq(f, at + 1, at + l)
           x == [i \in 1..n |-> FromLittleEndian(SubSeq(v, (i - 1) * Word + 1, i * Word))]
<1>1. /\ f \in Seq(D) /\ Len(f) \in Nat /\ Len(u) \in Nat /\ n \in Nat /\ l \in Nat
      /\ u \in Seq(V) /\ u \in Seq(Nat)
  <2>1. V \subseteq Nat
    OBVIOUS
  <2>2. u \in Seq(V)
    OBVIOUS
  <2> HIDE DEF V
  <2>3. u \in Seq(Nat)
    BY <2>1, <2>2, SeqOfMore
  <2> QED
    BY <2>2, <2>3 DEF Bytes, Word
<1>2. /\ Words(u) \in Bytes /\ Len(Words(u)) = Len(u) * Word
      /\ \A i \in 1..Len(u) : \A k \in 1..Word :
            Words(u)[(i - 1) * Word + k] = LittleEndian(u[i], Word)[k]
  BY <1>1, WordsFacts
<1> HIDE DEF D, V, l
<1>3. ASSUME at + l <= Len(f) PROVE x = SubSeq(u, 1, n)
  <2>1. v \in Seq(D) /\ Len(v) = l /\ \A i \in 1..l : v[i] = f[at + i]
    BY <1>1, <1>3
  <2> HIDE DEF v
  <2>2. ASSUME NEW i \in 1..n
        PROVE  FromLittleEndian(SubSeq(v, (i - 1) * Word + 1, i * Word)) = u[i]
    <3> DEFINE m == (i - 1) * Word
               w == SubSeq(v, m + 1, i * Word)
    <3>1. i * Word = m + Word /\ m \in Nat /\ m + Word <= l /\ i \in 1..Len(u)
          /\ m + Word <= Len(u) * Word
      BY <1>1 DEF Word, l
    <3>2. Len(w) = Word /\ \A k \in 1..Word : w[k] = v[m + k]
      <4>1. w = SubSeq(v, m + 1, m + Word)
        BY <3>1
      <4> HIDE DEF m, w
      <4> QED
        BY <1>1, <2>1, <3>1, <4>1 DEF Word
    <3>3. ASSUME NEW k \in 1..Word PROVE w[k] = LittleEndian(u[i], Word)[k]
      <4>1. m + k \in 1..l /\ m + k \in 1..Len(Words(u))
        <5> HIDE DEF m
        <5> QED
          BY <1>1, <1>2, <3>1, SMTT(30) DEF Word
      <4>2. at + (m + k) \in 1..Len(f)
        <5> HIDE DEF m
        <5> QED
          BY <1>1, <1>3, <4>1
      <4>3. w[k] = f[at + (m + k)]
        BY <2>1, <3>2, <4>1
      <4>4. f[at + (m + k)] = b[at + (m + k)]
        BY <4>2 DEF Prefix
      <4>5. b[at + (m + k)] = Words(u)[m + k]
        BY <4>1 DEF Holds
      <4>6. Words(u)[m + k] = LittleEndian(u[i], Word)[k]
        BY <1>2, <3>1
      <4> QED
        BY <4>3, <4>4, <4>5, <4>6
    <3>4. u[i] \in 0..(Byte^Word - 1)
      <4>1. u[i] \in V
        BY <1>1, <3>1
      <4> QED
        BY <4>1 DEF V, Wrap
    <3>5. Word \in 1..Word
      BY DEF Word
    <3> HIDE DEF w
    <3>6. FromLittleEndian(w) = u[i]
      BY <3>2, <3>3, <3>4, <3>5, RoundTrip
    <3> QED
      BY <3>6 DEF w
  <2>3. x = [i \in 1..n |-> u[i]]
    BY <2>2
  <2>4. SubSeq(u, 1, n) = [i \in 1..n |-> u[i]]
    <3> DEFINE y == SubSeq(u, 1, n)
    <3>1. y \in Seq(V) /\ Len(y) = n /\ \A i \in 1..n : y[i] = u[i]
      BY <1>1
    <3> HIDE DEF y
    <3>2. y = [i \in 1..n |-> y[i]]
      BY <3>1
    <3> QED
      BY <3>1, <3>2 DEF y
  <2> QED
    BY <2>3, <2>4
<1>4. VectorView(f, at, n) = IF at + l > Len(f) THEN {} ELSE {x}
  <2>1. view(f, at, l) = IF at + l > Len(f) THEN {} ELSE {v}
    BY DEF view
  <2> HIDE DEF v
  <2> QED
    BY <2>1 DEF VectorView, l
<1> HIDE DEF x, v
<1>5. CASE at + l > Len(f)
  BY <1>1, <1>4, <1>5 DEF l
<1>6. CASE ~ (at + l > Len(f))
  BY <1>1, <1>3, <1>4, <1>6 DEF l
<1> QED
  BY <1>5, <1>6

(* Where two strings lie one behind the other.                             *)
LEMMA HoldsParts ==
    ASSUME NEW b, NEW at \in Nat, NEW s \in Bytes, NEW t \in Bytes,
           Len(b) \in Nat, Holds(b, at, s \o t)
    PROVE  Holds(b, at, s) /\ Holds(b, at + Len(s), t)
<1>1. Len(s) \in Nat /\ Len(t) \in Nat
  BY DEF Bytes
<1>2. /\ Len(s \o t) = Len(s) + Len(t)
      /\ \A i \in 1..Len(s) : (s \o t)[i] = s[i]
      /\ \A i \in 1..Len(t) : (s \o t)[Len(s) + i] = t[i]
  BY ConcatFacts DEF Bytes
<1> DEFINE u == s \o t
<1>3. at + Len(u) <= Len(b) /\ \A i \in 1..Len(u) : b[at + i] = u[i]
  BY DEF Holds
<1> HIDE DEF u
<1>4. Len(u) = Len(s) + Len(t)
  BY <1>2 DEF u
<1>5. ASSUME NEW i \in 1..Len(s) PROVE b[at + i] = s[i]
  <2>1. i \in 1..Len(u)
    BY <1>1, <1>4
  <2> QED
    BY <1>2, <1>3, <2>1 DEF u
<1>6. ASSUME NEW i \in 1..Len(t) PROVE b[(at + Len(s)) + i] = t[i]
  <2>1. Len(s) + i \in 1..Len(u) /\ at + (Len(s) + i) = (at + Len(s)) + i
    BY <1>1, <1>4
  <2>2. b[at + (Len(s) + i)] = u[Len(s) + i]
    BY <1>3, <2>1
  <2> QED
    BY <1>2, <2>1, <2>2 DEF u
<1>7. at + Len(s) <= Len(b) /\ (at + Len(s)) + Len(t) <= Len(b)
  BY <1>1, <1>3, <1>4
<1> QED
  BY <1>5, <1>6, <1>7 DEF Holds

(* Where pieces lie one behind the other.                                  *)
LEMMA HoldsPiece ==
    ASSUME NEW b, NEW at \in Nat, NEW t \in Seq(Bytes), t # << >>,
           Len(b) \in Nat, Holds(b, at, FlattenSeq(t)), NEW i \in 1..Len(t)
    PROVE  /\ Begin(t, i) \in Nat /\ Len(t[i]) \in Nat
           /\ Begin(t, i) + Len(t[i]) = EndsOf(t)[i]
           /\ EndsOf(t)[i] \in Nat /\ EndsOf(t)[i] <= EndsOf(t)[Len(t)]
           /\ Holds(b, at + Begin(t, i), t[i])
<1> DEFINE D == 0..(Byte - 1)
           end == EndsOf(t)
           s == FlattenSeq(t)
<1>1. t \in Seq(Seq(D)) /\ Len(t) \in Nat /\ t[i] \in Seq(D) /\ Len(t[i]) \in Nat
  BY DEF Bytes
<1> HIDE DEF D
<1>2. /\ end \in Seq(Nat) /\ Len(end) = Len(t)
      /\ \A j \in 1..Len(t) : end[j] = Len(t[j]) + (IF j = 1 THEN 0 ELSE end[j - 1])
  BY <1>1, EndsFacts
<1>3. /\ Len(s) = end[Len(t)]
      /\ \A j \in 1..Len(t) : \A k \in 1..Len(t[j]) : s[Begin(t, j) + k] = t[j][k]
  BY <1>1, FlattenFacts
<1>4. end[i] <= end[Len(t)]
  <2>1. Len(t) \in i..Len(t)
    BY <1>1
  <2> QED
    BY <1>1, <2>1, EndsGrow
<1> HIDE DEF end, s
<1>5. \A j \in 1..Len(t) : end[j] \in Nat
  BY <1>2
<1>6. Begin(t, i) \in Nat /\ Begin(t, i) + Len(t[i]) = end[i]
  <2>1. i # 1 => i - 1 \in 1..Len(t)
    BY <1>1
  <2>2. Begin(t, i) = IF i = 1 THEN 0 ELSE end[i - 1]
    BY DEF Begin, end
  <2> QED
    BY <1>1, <1>2, <1>5, <2>1, <2>2
<1>7. Len(t) \in 1..Len(t) /\ end[Len(t)] \in Nat /\ end[i] \in Nat
  <2>1. Len(t) \in 1..Len(t)
    BY <1>1
  <2> QED
    BY <1>5, <2>1
<1>8. at + Len(s) <= Len(b) /\ \A k \in 1..Len(s) : b[at + k] = s[k]
  BY DEF Holds, s
<1>9. (at + Begin(t, i)) + Len(t[i]) <= Len(b)
  BY <1>1, <1>3, <1>4, <1>6, <1>7, <1>8
<1>10. ASSUME NEW k \in 1..Len(t[i]) PROVE b[(at + Begin(t, i)) + k] = t[i][k]
  <2>1. Begin(t, i) + k \in 1..Len(s) /\ at + (Begin(t, i) + k) = (at + Begin(t, i)) + k
    BY <1>1, <1>3, <1>4, <1>6, <1>7, SMTT(30)
  <2>2. b[at + (Begin(t, i) + k)] = s[Begin(t, i) + k]
    BY <1>8, <2>1
  <2> QED
    BY <1>3, <2>1, <2>2
<1>11. Holds(b, at + Begin(t, i), t[i])
  BY <1>9, <1>10 DEF Holds
<1> QED
  BY <1>1, <1>4, <1>6, <1>7, <1>11 DEF end

(* Where the parts of a column lie.                                        *)
LEMMA ColumnHolds ==
    ASSUME NEW b, Len(b) \in Nat, NEW at \in Nat,
           NEW bodies \in Seq(Bytes), bodies # << >>, NEW maxes \in Seq(Nat),
           Holds(b, at, Image(bodies, maxes)), Len(Image(bodies, maxes)) < Wrap
    PROVE  /\ EndsOf(bodies) \in Seq(0..(Wrap - 1)) /\ Len(EndsOf(bodies)) = Len(bodies)
           /\ Holds(b, at, Words(maxes))
           /\ Holds(b, at + Len(maxes) * Word, Words(EndsOf(bodies)))
           /\ \A i \in 1..Len(bodies) :
                 /\ Begin(bodies, i) \in Nat /\ Len(bodies[i]) \in Nat
                 /\ Begin(bodies, i) + Len(bodies[i]) = EndsOf(bodies)[i]
                 /\ Len(bodies[i]) < Wrap
                 /\ Holds(b, at + (Len(bodies) + Len(maxes)) * Word + Begin(bodies, i),
                          bodies[i])
<1> DEFINE end == EndsOf(bodies)
           top == Top(bodies, maxes)
           all == FlattenSeq(bodies)
           n == Len(bodies)
           m == Len(maxes)
           head == (n + m) * Word
<1>1. /\ n \in Nat \ {0} /\ m \in Nat /\ head \in Nat
      /\ end \in Seq(Nat) /\ Len(end) = n
  <2>1. n \in Nat \ {0} /\ m \in Nat
    OBVIOUS
  <2>2. end \in Seq(Nat) /\ Len(end) = n
    BY EndsFacts DEF Bytes
  <2> QED
    BY <2>1, <2>2 DEF Word
<1>2. /\ top \in Bytes /\ all \in Bytes /\ Len(top) = head /\ Len(all) = Last(end)
      /\ Image(bodies, maxes) = top \o all
      /\ Len(Image(bodies, maxes)) = head + Last(end)
  BY ImageFacts DEF Image
<1>3. Last(end) = end[n] /\ end[n] \in Nat
  <2> HIDE DEF end
  <2> QED
    BY <1>1 DEF Last
<1> HIDE DEF end, top, all
<1>4. Holds(b, at, top) /\ Holds(b, at + head, all)
  <2>1. Holds(b, at, top \o all) /\ top \in Bytes /\ all \in Bytes
    BY <1>2
  <2>2. Holds(b, at, top) /\ Holds(b, at + Len(top), all)
    BY <2>1, HoldsParts
  <2> HIDE DEF head
  <2> QED
    BY <1>2, <2>2
<1>5. Holds(b, at, Words(maxes)) /\ Holds(b, at + m * Word, Words(end))
  <2>1. /\ Words(maxes) \in Bytes /\ Len(Words(maxes)) = m * Word
        /\ Words(end) \in Bytes
    BY <1>1, WordsFacts
  <2>2. top = Words(maxes) \o Words(end)
    BY DEF top, Top, end
  <2> QED
    BY <1>4, <2>1, <2>2, HoldsParts
<1>6. end[n] < Wrap
  BY <1>1, <1>2, <1>3, BytePowers
<1>7. ASSUME NEW i \in 1..n
      PROVE  /\ Begin(bodies, i) \in Nat /\ Len(bodies[i]) \in Nat
             /\ Begin(bodies, i) + Len(bodies[i]) = end[i]
             /\ end[i] \in Nat /\ end[i] <= end[n]
             /\ Holds(b, at + head + Begin(bodies, i), bodies[i])
  <2>1. at + head \in Nat
    BY <1>1
  <2> HIDE DEF head
  <2>2. Holds(b, at + head, FlattenSeq(bodies))
    BY <1>4 DEF all
  <2> QED
    BY <2>1, <2>2, HoldsPiece DEF end
<1>8. end \in Seq(0..(Wrap - 1))
  <2> DEFINE V == 0..(Wrap - 1)
  <2>1. \A i \in 1..n : end[i] \in V
    BY <1>3, <1>6, <1>7, BytePowers
  <2> HIDE DEF V
  <2>2. end \in [1..n -> V]
    BY <1>1, <2>1
  <2>3. end \in Seq(V)
    <3>1. n \in Nat
      BY <1>1
    <3> HIDE DEF n
    <3> QED
      BY <2>2, <3>1
  <2> QED
    BY <2>3 DEF V
<1>9. ASSUME NEW i \in 1..n PROVE Len(bodies[i]) < Wrap
  <2>1. Wrap \in Nat
    BY BytePowers
  <2> HIDE DEF n
  <2> QED
    BY <1>3, <1>6, <1>7, <2>1
<1> QED
  BY <1>1, <1>5, <1>7, <1>8, <1>9 DEF end

(* The readers' counts are those of the blocks, and the cell column reader *)
(* counts no more.                                                         *)
LEMMA BlockCounts ==
    ASSUME NEW T, NEW s \in Seq(T), s # << >>
    PROVE  /\ determineBlocks(BlockSize, Len(s)) = Len(Split(s, BlockSize))
           /\ \A q \in 0..(Len(Split(s, BlockSize)) - 1) :
                 /\ BlockEntries(q, BlockSize, Len(s)) = Len(Split(s, BlockSize)[q + 1])
                 /\ CellBlockEntries(q, BlockSize, Len(s))
                       \in 0..Len(Split(s, BlockSize)[q + 1])
<1> DEFINE t == Split(s, BlockSize)
<1>1. BlockSize \in Nat \ {0} /\ Len(s) \in Nat \ {0}
  BY LayoutAssumption, BytePowers DEF Word
<1>2. PICK n \in Nat, k \in 1..BlockSize : Len(s) = n * BlockSize + k
  BY <1>1, LengthInBlocks
<1>3. t \in Seq(Seq(T)) /\ InBlocks(t, s, BlockSize, n, k)
  BY <1>1, <1>2, SplitFacts
<1> HIDE DEF t
<1>4. /\ Len(t) = n + 1 /\ Len(t[n + 1]) = k /\ \A b \in 1..n : Len(t[b]) = BlockSize
  BY <1>3 DEF InBlocks
<1>5. /\ determineBlocks(BlockSize, Len(s)) = n + 1
      /\ \A b \in 0..(n - 1) : BlockEntries(b, BlockSize, Len(s)) = BlockSize
      /\ BlockEntries(n, BlockSize, Len(s)) = k
      /\ \A b \in 0..(n - 1) : CellBlockEntries(b, BlockSize, Len(s)) = BlockSize
      /\ CellBlockEntries(n, BlockSize, Len(s)) = IF k < BlockSize THEN k ELSE 0
  <2> DEFINE l == n * BlockSize + k
  <2>1. /\ determineBlocks(BlockSize, l) = n + 1
        /\ \A b \in 0..(n - 1) : BlockEntries(b, BlockSize, l) = BlockSize
        /\ BlockEntries(n, BlockSize, l) = k
    <3>1. BlockSize \in Nat \ {0} /\ n \in Nat /\ k \in 1..BlockSize
      BY <1>1
    <3>2. determineBlocks(BlockSize, l) = n + 1
      BY <3>1, CountsOf, ZenonT(30)
    <3>3. \A b \in 0..(n - 1) : BlockEntries(b, BlockSize, l) = BlockSize
      BY <3>1, CountsOf, ZenonT(30)
    <3>4. BlockEntries(n, BlockSize, l) = k
      BY <3>1, CountsOf, ZenonT(30)
    <3> QED
      BY <3>2, <3>3, <3>4
  <2>2. /\ \A b \in 0..(n - 1) : CellBlockEntries(b, BlockSize, l) = BlockSize
        /\ CellBlockEntries(n, BlockSize, l) = IF k < BlockSize THEN k ELSE 0
    BY <1>1, CellCountsOf
  <2>3. Len(s) = l
    BY <1>2
  <2> HIDE DEF l
  <2> QED
    BY <2>1, <2>2, <2>3
<1>6. ASSUME NEW q \in 0..n
      PROVE  /\ BlockEntries(q, BlockSize, Len(s)) = Len(t[q + 1])
             /\ CellBlockEntries(q, BlockSize, Len(s)) \in 0..Len(t[q + 1])
  <2>1. CASE q = n
    BY <1>1, <1>4, <1>5, <2>1
  <2>2. CASE q # n
    <3>1. q \in 0..(n - 1) /\ q + 1 \in 1..n
      BY <1>2, <2>2
    <3> QED
      BY <1>1, <1>4, <1>5, <3>1
  <2> QED
    BY <2>1, <2>2
<1> QED
  BY <1>2, <1>4, <1>5, <1>6 DEF t

(* A whole sequence.                                                       *)
LEMMA WholeSeq ==
    ASSUME NEW S, NEW s \in Seq(S)
    PROVE  SubSeq(s, 1, Len(s)) = s
<1> DEFINE u == SubSeq(s, 1, Len(s))
<1>1. Len(s) \in Nat
  OBVIOUS
<1>2. u \in Seq(S) /\ Len(u) = Len(s)
  BY <1>1
<1>3. \A i \in 1..Len(s) : u[i] = s[i]
  BY <1>1
<1> HIDE DEF u
<1>4. u = s
  BY <1>2, <1>3
<1> QED
  BY <1>4 DEF u

(* Value number i of a column comes back, or the reader throws; of a whole *)
(* file it comes back.                                                     *)
LEMMA VarValueRead ==
    ASSUME NEW f \in Bytes, NEW b \in Bytes, Prefix(f, b), NEW at \in Nat,
           NEW values \in Seq(Bytes), values # << >>,
           Holds(b, at, Image(VarBlocks(values), << >>)),
           Len(Image(VarBlocks(values), << >>)) < Wrap, NEW i \in 1..Len(values)
    PROVE  /\ ReadVarValue(f, at, EndsOf(VarBlocks(values)), BlockSize, Len(values), i - 1)
                 \subseteq {values[i]}
           /\ f = b =>
                 ReadVarValue(f, at, EndsOf(VarBlocks(values)), BlockSize, Len(values), i - 1)
                     # {}
<1> DEFINE t == Split(values, BlockSize)
           bodies == VarBlocks(values)
           none == << >>
           q == BlockOf(i - 1, BlockSize)
           k == OffsetInBlock(i - 1, BlockSize)
           block == t[q + 1]
           n == Len(block)
           start == at + Len(bodies) * Word + Begin(bodies, q + 1)
           ends == EndsOf(block)
           place == start + n * Word + Begin(block, k + 1)
<1>1. /\ Len(t) \in Nat \ {0} /\ DOMAIN t = 1..Len(t)
      /\ \A j \in 1..Len(t) : t[j] \in Seq(Bytes) /\ t[j] # << >>
  BY SplitBlocks
<1>2. BlockSize \in Nat \ {0} /\ Len(values) \in Nat \ {0}
  BY LayoutAssumption, BytePowers DEF Word
<1>3. /\ q + 1 \in 1..Len(t) /\ k + 1 \in 1..n /\ block[k + 1] = values[i]
      /\ q \in Nat /\ k \in Nat
  <2>1. i - 1 \in 0..(Len(values) - 1) /\ (i - 1) + 1 = i
    BY <1>2
  <2>2. q + 1 \in 1..Len(t) /\ k + 1 \in 1..n /\ block[k + 1] = values[(i - 1) + 1]
    BY <1>2, <2>1, ItemInBlock
  <2>3. q \in Nat /\ k \in Nat
    <3>1. i - 1 \in Nat
      BY <2>1
    <3>2. BlockOf(i - 1, BlockSize) \in Nat
          /\ OffsetInBlock(i - 1, BlockSize) \in 0..(BlockSize - 1)
      BY <1>2, <3>1, AddressIsExact
    <3> QED
      BY <1>2, <3>2
  <2> QED
    BY <2>1, <2>2, <2>3
<1>4. BlockEntries(q, BlockSize, Len(values)) = n
  <2>1. q \in 0..(Len(t) - 1)
    <3> HIDE DEF q, t
    <3> QED
      BY <1>1, <1>3
  <2> QED
    BY <2>1, BlockCounts
<1>5. bodies \in Seq(Bytes) /\ bodies # << >>
  BY BlockBytes
<1>6. Len(bodies) = Len(t) /\ \A j \in 1..Len(t) : bodies[j] = VarBlock(t[j])
  <2>1. bodies = [j \in 1..Len(t) |-> VarBlock(t[j])]
    BY <1>1 DEF VarBlocks
  <2> HIDE DEF bodies, t
  <2> QED
    BY <1>1, <2>1
<1>7. block \in Seq(Bytes) /\ block # << >>
  BY <1>1, <1>3
<1>8. none \in Seq(Nat) /\ Len(none) = 0 /\ Len(b) \in Nat
  BY DEF Bytes
<1>9. bodies[q + 1] = Image(block, none)
  <2>1. bodies[q + 1] = VarBlock(block)
    BY <1>3, <1>6
  <2> QED
    BY <1>7, <2>1, VarBlockIs
<1> HIDE DEF none
<1>10. Holds(b, at, Image(bodies, none)) /\ Len(Image(bodies, none)) < Wrap
  BY DEF none
<1> HIDE DEF bodies, t, q, k, block, n
<1>11. /\ EndsOf(bodies) \in Seq(0..(Wrap - 1)) /\ Len(EndsOf(bodies)) = Len(bodies)
       /\ \A j \in 1..Len(bodies) :
             /\ Begin(bodies, j) \in Nat /\ Len(bodies[j]) < Wrap
             /\ Holds(b, at + (Len(bodies) + Len(none)) * Word + Begin(bodies, j), bodies[j])
  BY <1>5, <1>8, <1>10, ColumnHolds
<1>12. /\ Holds(b, start, Image(block, none)) /\ start \in Nat
       /\ Len(Image(block, none)) < Wrap
  <2>1. q + 1 \in 1..Len(bodies)
    BY <1>3, <1>6
  <2>2. Len(bodies) + Len(none) = Len(bodies) /\ Len(bodies) \in Nat
    BY <1>5, <1>8
  <2>3. /\ Begin(bodies, q + 1) \in Nat /\ Len(bodies[q + 1]) < Wrap
        /\ Holds(b, start, bodies[q + 1])
    BY <1>11, <2>1, <2>2
  <2> QED
    BY <1>9, <2>2, <2>3 DEF Word
<1> HIDE DEF start
<1>13. /\ ends \in Seq(0..(Wrap - 1)) /\ Len(ends) = Len(block)
       /\ Holds(b, start + Len(none) * Word, Words(ends))
       /\ \A j \in 1..Len(block) :
             /\ Begin(block, j) \in Nat /\ Len(block[j]) \in Nat
             /\ Begin(block, j) + Len(block[j]) = ends[j]
             /\ Holds(b, start + (Len(block) + Len(none)) * Word + Begin(block, j), block[j])
  <2>1. /\ block \in Seq(Bytes) /\ block # << >> /\ none \in Seq(Nat) /\ Len(b) \in Nat
        /\ start \in Nat /\ Holds(b, start, Image(block, none))
        /\ Len(Image(block, none)) < Wrap
    BY <1>7, <1>8, <1>12
  <2> QED
    BY <2>1, ColumnHolds
<1>14. n \in Nat /\ Holds(b, start, Words(ends)) /\ ends \in Seq(0..(Wrap - 1)) /\ Len(ends) = n
  <2>1. n \in Nat
    BY <1>7 DEF n
  <2>2. start + Len(none) * Word = start
    BY <1>8, <1>12 DEF Word
  <2> QED
    BY <1>13, <2>1, <2>2 DEF n
<1>15. /\ Begin(block, k + 1) \in Nat /\ Len(values[i]) \in Nat
       /\ Begin(block, k + 1) + Len(values[i]) = ends[k + 1]
       /\ Holds(b, place, values[i]) /\ place \in Nat
  <2>1. k + 1 \in 1..Len(block)
    BY <1>3 DEF n
  <2>2. Len(block) + Len(none) = n
    BY <1>8, <1>14 DEF n
  <2>3. /\ Begin(block, k + 1) \in Nat /\ Len(values[i]) \in Nat
        /\ Begin(block, k + 1) + Len(values[i]) = ends[k + 1]
        /\ Holds(b, place, values[i])
    BY <1>3, <1>13, <2>1, <2>2
  <2>4. place \in Nat
    BY <1>12, <1>14, <2>3 DEF Word
  <2> QED
    BY <2>3, <2>4
<1>16. /\ StartOf(EndsOf(bodies), q) = Begin(bodies, q + 1)
       /\ StartOf(ends, k) = Begin(block, k + 1)
  <2>1. (q + 1 = 1) = (q = 0) /\ (q + 1) - 1 = q /\ (k + 1 = 1) = (k = 0) /\ (k + 1) - 1 = k
    BY <1>3
  <2> QED
    BY <2>1 DEF StartOf, Begin
<1> HIDE DEF ends
<1>17. VectorView(f, start, n) \subseteq {ends} /\ (f = b => VectorView(f, start, n) = {ends})
  <2>1. SubSeq(ends, 1, n) = ends
    BY <1>14, WholeSeq
  <2>2. n \in 0..Len(ends)
    BY <1>14
  <2>3. /\ VectorView(f, start, n) \subseteq {SubSeq(ends, 1, n)}
        /\ start + n * Word <= Len(f) => VectorView(f, start, n) = {SubSeq(ends, 1, n)}
    BY <1>12, <1>14, <2>2, WordsView
  <2>4. f = b => start + n * Word <= Len(f)
    <3>1. Len(Words(ends)) = n * Word
      <4>1. ends \in Seq(Nat)
        <5>1. 0..(Wrap - 1) \subseteq Nat
          OBVIOUS
        <5> QED
          BY <1>14, <5>1, SeqOfMore
      <4> QED
        BY <1>14, <4>1, WordsFacts
    <3> QED
      BY <1>14, <3>1 DEF Holds
  <2> QED
    BY <2>1, <2>3, <2>4
<1>18. /\ view(f, place, Len(values[i])) \subseteq {values[i]}
       /\ f = b => view(f, place, Len(values[i])) = {values[i]}
  <2>1. values[i] \in Bytes
    OBVIOUS
  <2>2. f = b => place + Len(values[i]) <= Len(f)
    BY <1>15 DEF Holds
  <2> HIDE DEF place
  <2> QED
    BY <1>15, <2>1, <2>2, ViewFacts
<1>19. ReadVarValue(f, at, EndsOf(bodies), BlockSize, Len(values), i - 1)
         = UNION {view(f, start + n * Word + StartOf(e, k), e[k + 1] - StartOf(e, k)) :
                     e \in VectorView(f, start, n)}
  <2>1. start = at + Len(EndsOf(bodies)) * Word + StartOf(EndsOf(bodies), q)
    BY <1>11, <1>16 DEF start
  <2> HIDE DEF start
  <2> QED
    BY <1>4, <2>1 DEF ReadVarValue, q, k
<1>20. start + n * Word + StartOf(ends, k) = place /\ ends[k + 1] - StartOf(ends, k) = Len(values[i])
  <2>1. ends[k + 1] - Begin(block, k + 1) = Len(values[i])
    BY <1>15
  <2> QED
    BY <1>16, <2>1
<1> HIDE DEF place
<1>21. ReadVarValue(f, at, EndsOf(bodies), BlockSize, Len(values), i - 1) \subseteq {values[i]}
  BY <1>17, <1>18, <1>19, <1>20
<1>22. f = b => ReadVarValue(f, at, EndsOf(bodies), BlockSize, Len(values), i - 1) # {}
  BY <1>17, <1>18, <1>19, <1>20
<1> QED
  BY <1>21, <1>22 DEF bodies

(* A block of cells comes back, as far as the reader counts it.            *)
LEMMA CellsRead ==
    ASSUME NEW f \in Bytes, NEW b \in Bytes, Prefix(f, b), NEW at \in Nat,
           NEW cells \in Seq(0..(Wrap - 1)), cells # << >>,
           Holds(b, at, Image(FixedBlocks(cells), BlockMaxes(cells))),
           Len(Image(FixedBlocks(cells), BlockMaxes(cells))) < Wrap,
           NEW q \in 0..(Len(Split(cells, BlockSize)) - 1),
           NEW pos, pos = at + (Len(BlockMaxes(cells)) + Len(EndsOf(FixedBlocks(cells)))) * Word
                             + StartOf(EndsOf(FixedBlocks(cells)), q),
           NEW m, m = CellBlockEntries(q, BlockSize, Len(cells))
    PROVE  /\ VectorView(f, pos, m) \subseteq {SubSeq(Split(cells, BlockSize)[q + 1], 1, m)}
           /\ f = b => VectorView(f, pos, m) = {SubSeq(Split(cells, BlockSize)[q + 1], 1, m)}
<1> DEFINE V == 0..(Wrap - 1)
           t == Split(cells, BlockSize)
           bodies == FixedBlocks(cells)
           maxes == BlockMaxes(cells)
           block == t[q + 1]
<1>1. /\ Len(t) \in Nat \ {0} /\ DOMAIN t = 1..Len(t)
      /\ \A j \in 1..Len(t) : t[j] \in Seq(V) /\ t[j] # << >>
  BY SplitBlocks
<1>2. q \in Nat /\ q + 1 \in 1..Len(t)
  <2>1. q \in 0..(Len(t) - 1)
    OBVIOUS
  <2> HIDE DEF t
  <2> QED
    BY <1>1, <2>1
<1>3. m \in 0..Len(block)
  BY BlockCounts
<1>4. V \subseteq Nat /\ Len(b) \in Nat /\ cells \in Seq(V)
  BY DEF Bytes
<1>5. bodies \in Seq(Bytes) /\ bodies # << >> /\ maxes \in Seq(V) /\ Len(maxes) = Len(bodies)
  BY BlockBytes
<1> HIDE DEF V
<1>6. maxes \in Seq(Nat)
  BY <1>4, <1>5, SeqOfMore
<1>7. Len(bodies) = Len(t) /\ bodies[q + 1] = Words(block)
  <2>1. bodies = [j \in 1..Len(t) |-> FixedBlock(t[j])]
    BY <1>1 DEF FixedBlocks
  <2> HIDE DEF bodies, t
  <2> QED
    BY <1>1, <1>2, <2>1 DEF FixedBlock
<1>8. block \in Seq(V) /\ block \in Seq(Nat)
  <2>1. block \in Seq(V)
    BY <1>1, <1>2
  <2> HIDE DEF block
  <2> QED
    BY <1>4, <2>1, SeqOfMore
<1>9. Holds(b, at, Image(bodies, maxes)) /\ Len(Image(bodies, maxes)) < Wrap
  OBVIOUS
<1>10. pos = at + (Len(maxes) + Len(EndsOf(bodies))) * Word + StartOf(EndsOf(bodies), q)
  OBVIOUS
<1> HIDE DEF t, bodies, maxes, block
<1>11. /\ Len(EndsOf(bodies)) = Len(bodies)
       /\ \A j \in 1..Len(bodies) :
             /\ Begin(bodies, j) \in Nat
             /\ Holds(b, at + (Len(bodies) + Len(maxes)) * Word + Begin(bodies, j), bodies[j])
  BY <1>4, <1>5, <1>6, <1>9, ColumnHolds
<1>12. pos \in Nat /\ Holds(b, pos, Words(block))
  <2>1. q + 1 \in 1..Len(bodies)
    BY <1>2, <1>7
  <2>2. StartOf(EndsOf(bodies), q) = Begin(bodies, q + 1)
    <3>1. (q + 1 = 1) = (q = 0) /\ (q + 1) - 1 = q
      BY <1>2
    <3> QED
      BY <3>1 DEF StartOf, Begin
  <2>3. Len(bodies) \in Nat /\ Len(maxes) = Len(bodies)
    BY <1>5
  <2>4. pos = at + (Len(bodies) + Len(maxes)) * Word + Begin(bodies, q + 1)
    BY <1>10, <1>11, <2>2, <2>3
  <2>5. Begin(bodies, q + 1) \in Nat /\ Holds(b, pos, Words(block))
    BY <1>7, <1>11, <2>1, <2>4
  <2> QED
    BY <2>3, <2>4, <2>5 DEF Word
<1>13. /\ VectorView(f, pos, m) \subseteq {SubSeq(block, 1, m)}
       /\ pos + m * Word <= Len(f) => VectorView(f, pos, m) = {SubSeq(block, 1, m)}
  BY <1>3, <1>8, <1>12, WordsView, SMTT(30) DEF V
<1>14. f = b => pos + m * Word <= Len(f)
  <2>1. Len(Words(block)) = Len(block) * Word /\ Len(block) \in Nat
    BY <1>8, WordsFacts
  <2>2. pos + Len(Words(block)) <= Len(b)
    BY <1>12 DEF Holds
  <2> QED
    BY <1>3, <1>4, <1>12, <2>1, <2>2, SMTT(30) DEF Word
<1> QED
  BY <1>13, <1>14 DEF block, t

(* A member of the header comes back, if it fits its field.                *)
LEMMA FieldRead ==
    ASSUME NEW f \in Bytes, NEW b \in Bytes, Prefix(f, b), NEW p \in Nat, NEW w \in 1..Word,
           NEW v \in 0..(Byte^w - 1), Holds(b, p, LittleEndian(v, w)), p + w <= Len(f)
    PROVE  FromLittleEndian(SubSeq(f, p + 1, p + w)) = v
<1> DEFINE s == LittleEndian(v, w)
<1>1. w \in 0..Word /\ w \in Nat
  BY DEF Word
<1>2. v \in Nat
  <2>1. Byte^w \in Nat
    BY <1>1, BytePowers
  <2> QED
    BY <2>1
<1>3. s \in Bytes /\ Len(s) = w
  BY <1>1, <1>2, LittleEndianFacts
<1>4. FromLittleEndian(s) = v
  BY <1>3, RoundTrip
<1> HIDE DEF s
<1>5. view(f, p, w) = {s}
  <2>1. Holds(b, p, s)
    BY DEF s
  <2>2. p + Len(s) <= Len(f) => view(f, p, Len(s)) = {s}
    BY <1>3, <2>1, ViewFacts
  <2> QED
    BY <1>3, <2>2
<1>6. ~ (p + w > Len(f))
  <2>1. Len(f) \in Nat
    BY DEF Bytes
  <2> QED
    BY <1>1, <2>1
<1>7. SubSeq(f, p + 1, p + w) = s
  BY <1>5, <1>6 DEF view
<1> QED
  BY <1>4, <1>7

(* Where the words of a string of words lie.                               *)
LEMMA HoldsWord ==
    ASSUME NEW b, Len(b) \in Nat, NEW at \in Nat, NEW u \in Seq(Nat), Holds(b, at, Words(u)),
           NEW i \in 1..Len(u)
    PROVE  Holds(b, at + (i - 1) * Word, LittleEndian(u[i], Word))
<1> DEFINE m == (i - 1) * Word
           s == LittleEndian(u[i], Word)
<1>1. u[i] \in Nat /\ Len(u) \in Nat
  OBVIOUS
<1>2. Len(s) = Word
  BY <1>1, LittleEndianFacts DEF Word
<1>3. /\ Len(Words(u)) = Len(u) * Word
      /\ \A k \in 1..Word : Words(u)[m + k] = s[k]
  BY WordsFacts
<1>4. m \in Nat /\ m + Word <= Len(u) * Word
  BY <1>1 DEF Word
<1>5. at + Len(Words(u)) <= Len(b) /\ \A j \in 1..Len(Words(u)) : b[at + j] = Words(u)[j]
  BY DEF Holds
<1> HIDE DEF m, s
<1>6. (at + m) + Word <= Len(b)
  BY <1>1, <1>3, <1>4, <1>5 DEF Word
<1>7. ASSUME NEW k \in 1..Word PROVE b[(at + m) + k] = s[k]
  <2>1. m + k \in 1..(Len(u) * Word) /\ at + (m + k) = (at + m) + k
    BY <1>1, <1>4 DEF Word
  <2>2. b[at + (m + k)] = Words(u)[m + k]
    BY <1>3, <1>5, <2>1
  <2> QED
    BY <1>3, <2>1, <2>2
<1>8. Holds(b, at + m, s)
  BY <1>2, <1>6, <1>7 DEF Holds
<1> QED
  BY <1>8 DEF m, s

(* Where the members of a header lie that a buffer holds.                  *)
LEMMA HeaderParts ==
    ASSUME NEW b, Len(b) \in Nat, NEW h, IsHeader(h), Holds(b, 0, HeaderBytes(h))
    PROVE  /\ Holds(b, 8, LittleEndian(h.cellIdFilterOffset, 8))
           /\ Holds(b, 16, LittleEndian(h.cellIdFilterSize, 8))
           /\ Holds(b, 24, LittleEndian(h.keyIndexOffset, 8))
           /\ Holds(b, 32, LittleEndian(h.keyIndexSize, 8))
           /\ Holds(b, 40, LittleEndian(h.cellIndexOffset, 8))
           /\ Holds(b, 48, LittleEndian(h.cellIndexSize, 8))
           /\ Holds(b, 56, LittleEndian(h.roaringIndexOffset, 8))
           /\ Holds(b, 64, LittleEndian(h.roaringIndexSize, 8))
           /\ Holds(b, 72, LittleEndian(h.keyIndexEntries, 4))
           /\ Holds(b, 76, LittleEndian(h.cellIndexEntries, 4))
           /\ Holds(b, 80, LittleEndian(h.levelIndexBucketRange, 1))
           /\ Holds(b, 81, LittleEndian(h.blockSize, 2))
<1> DEFINE s == <<HeaderSize, h.cellIdFilterOffset, h.cellIdFilterSize,
                  h.keyIndexOffset, h.keyIndexSize, h.cellIndexOffset,
                  h.cellIndexSize, h.roaringIndexOffset, h.roaringIndexSize>>
           a == Words(s)
           k == LittleEndian(h.keyIndexEntries, 4)
           c == LittleEndian(h.cellIndexEntries, 4)
           d == LittleEndian(h.levelIndexBucketRange, 1)
           e == LittleEndian(h.blockSize, 2)
           z == <<0, 0, 0, 0, 0>>
           ak == a \o k
           akc == ak \o c
           akcd == akc \o d
           akcde == akcd \o e
<1>1. \A x \in HeaderFields : h[x] \in Nat
  BY DEF IsHeader
<1>2. s \in Seq(Nat) /\ Len(s) = 9
  <2>1. HeaderSize \in Nat
    BY LayoutAssumption
  <2> QED
    BY <1>1, <2>1 DEF HeaderFields
<1>3. a \in Bytes /\ Len(a) = 72
  <2> HIDE DEF s
  <2>1. Words(s) \in Bytes /\ Len(Words(s)) = 9 * Word
    BY <1>2, WordsFacts
  <2> QED
    BY <2>1 DEF Word
<1>4. /\ k \in Bytes /\ Len(k) = 4 /\ c \in Bytes /\ Len(c) = 4
      /\ d \in Bytes /\ Len(d) = 1 /\ e \in Bytes /\ Len(e) = 2
  <2>1. \A v \in Nat : \A w \in 0..8 :
           LittleEndian(v, w) \in Bytes /\ Len(LittleEndian(v, w)) = w
    BY LittleEndianFacts DEF Word
  <2>2. /\ h.keyIndexEntries \in Nat /\ h.cellIndexEntries \in Nat
        /\ h.levelIndexBucketRange \in Nat /\ h.blockSize \in Nat
    BY <1>1 DEF HeaderFields
  <2>3. 1 \in 0..8 /\ 2 \in 0..8 /\ 4 \in 0..8
    OBVIOUS
  <2> QED
    BY <2>1, <2>2, <2>3
<1>5. z \in Bytes
  BY LayoutAssumption DEF Bytes
<1>6. Holds(b, 0, akcde \o z)
  BY DEF HeaderBytes
<1>7. Holds(b, 0, a) => /\ Holds(b, 8, LittleEndian(h.cellIdFilterOffset, 8))
                        /\ Holds(b, 16, LittleEndian(h.cellIdFilterSize, 8))
                        /\ Holds(b, 24, LittleEndian(h.keyIndexOffset, 8))
                        /\ Holds(b, 32, LittleEndian(h.keyIndexSize, 8))
                        /\ Holds(b, 40, LittleEndian(h.cellIndexOffset, 8))
                        /\ Holds(b, 48, LittleEndian(h.cellIndexSize, 8))
                        /\ Holds(b, 56, LittleEndian(h.roaringIndexOffset, 8))
                        /\ Holds(b, 64, LittleEndian(h.roaringIndexSize, 8))
  <2> SUFFICES ASSUME Holds(b, 0, a)
               PROVE  /\ Holds(b, 8, LittleEndian(s[2], 8))
                      /\ Holds(b, 16, LittleEndian(s[3], 8))
                      /\ Holds(b, 24, LittleEndian(s[4], 8))
                      /\ Holds(b, 32, LittleEndian(s[5], 8))
                      /\ Holds(b, 40, LittleEndian(s[6], 8))
                      /\ Holds(b, 48, LittleEndian(s[7], 8))
                      /\ Holds(b, 56, LittleEndian(s[8], 8))
                      /\ Holds(b, 64, LittleEndian(s[9], 8))
    OBVIOUS
  <2> HIDE DEF s
  <2>1. Holds(b, 0, Words(s))
    OBVIOUS
  <2>2. \A i \in 1..Len(s) : Holds(b, 0 + (i - 1) * Word, LittleEndian(s[i], Word))
    BY <1>2, <2>1, HoldsWord
  <2>3. ASSUME NEW i \in 1..9 PROVE Holds(b, (i - 1) * 8, LittleEndian(s[i], 8))
    <3>1. 0 + (i - 1) * Word = (i - 1) * 8
      BY DEF Word
    <3>2. Holds(b, 0 + (i - 1) * Word, LittleEndian(s[i], Word))
      BY <1>2, <2>2
    <3> QED
      BY <3>1, <3>2 DEF Word
  <2>4. /\ Holds(b, (2 - 1) * 8, LittleEndian(s[2], 8))
        /\ Holds(b, (3 - 1) * 8, LittleEndian(s[3], 8))
        /\ Holds(b, (4 - 1) * 8, LittleEndian(s[4], 8))
        /\ Holds(b, (5 - 1) * 8, LittleEndian(s[5], 8))
        /\ Holds(b, (6 - 1) * 8, LittleEndian(s[6], 8))
        /\ Holds(b, (7 - 1) * 8, LittleEndian(s[7], 8))
        /\ Holds(b, (8 - 1) * 8, LittleEndian(s[8], 8))
        /\ Holds(b, (9 - 1) * 8, LittleEndian(s[9], 8))
    BY <2>3
  <2>5. /\ (2 - 1) * 8 = 8 /\ (3 - 1) * 8 = 16 /\ (4 - 1) * 8 = 24 /\ (5 - 1) * 8 = 32
        /\ (6 - 1) * 8 = 40 /\ (7 - 1) * 8 = 48 /\ (8 - 1) * 8 = 56 /\ (9 - 1) * 8 = 64
    OBVIOUS
  <2> QED
    BY <2>4, <2>5
<1> HIDE DEF a, k, c, d, e, z, ak, akc, akcd, akcde
<1>8. ak \in Bytes /\ Len(ak) = 76
  <2>1. a \o k \in Bytes /\ Len(a \o k) = Len(a) + Len(k)
    BY <1>3, <1>4, JoinedBytes
  <2> QED
    BY <1>3, <1>4, <2>1 DEF ak
<1>9. akc \in Bytes /\ Len(akc) = 80
  <2>1. ak \o c \in Bytes /\ Len(ak \o c) = Len(ak) + Len(c)
    BY <1>4, <1>8, JoinedBytes
  <2> QED
    BY <1>4, <1>8, <2>1 DEF akc
<1>10. akcd \in Bytes /\ Len(akcd) = 81
  <2>1. akc \o d \in Bytes /\ Len(akc \o d) = Len(akc) + Len(d)
    BY <1>4, <1>9, JoinedBytes
  <2> QED
    BY <1>4, <1>9, <2>1 DEF akcd
<1>11. akcde \in Bytes
  <2>1. akcd \o e \in Bytes
    BY <1>4, <1>10, JoinedBytes
  <2> QED
    BY <2>1 DEF akcde
<1>12. Holds(b, 0, akcde)
  BY <1>5, <1>6, <1>11, HoldsParts
<1>13. Holds(b, 0, akcd) /\ Holds(b, 81, e)
  <2>1. Holds(b, 0, akcd \o e)
    BY <1>12 DEF akcde
  <2>2. Holds(b, 0, akcd) /\ Holds(b, 0 + Len(akcd), e)
    BY <1>4, <1>10, <2>1, HoldsParts
  <2> QED
    BY <1>10, <2>2, 0 + 81 = 81
<1>14. Holds(b, 0, akc) /\ Holds(b, 80, d)
  <2>1. Holds(b, 0, akc \o d)
    BY <1>13 DEF akcd
  <2>2. Holds(b, 0, akc) /\ Holds(b, 0 + Len(akc), d)
    BY <1>4, <1>9, <2>1, HoldsParts
  <2> QED
    BY <1>9, <2>2, 0 + 80 = 80
<1>15. Holds(b, 0, ak) /\ Holds(b, 76, c)
  <2>1. Holds(b, 0, ak \o c)
    BY <1>14 DEF akc
  <2>2. Holds(b, 0, ak) /\ Holds(b, 0 + Len(ak), c)
    BY <1>4, <1>8, <2>1, HoldsParts
  <2> QED
    BY <1>8, <2>2, 0 + 76 = 76
<1>16. Holds(b, 0, a) /\ Holds(b, 72, k)
  <2>1. Holds(b, 0, a \o k)
    BY <1>15 DEF ak
  <2>2. Holds(b, 0, a) /\ Holds(b, 0 + Len(a), k)
    BY <1>3, <1>4, <2>1, HoldsParts
  <2> QED
    BY <1>3, <2>2, 0 + 72 = 72
<1> QED
  BY <1>7, <1>13, <1>14, <1>15, <1>16 DEF k, c, d, e

(* A header whose members fit their fields ...                             *)
Fits(h) == /\ IsHeader(h)
           /\ h.keyIndexSize \in 0..(Byte^4 - 1) /\ h.keyIndexEntries \in 0..(Byte^4 - 1)
           /\ h.cellIndexEntries \in 0..(Byte^4 - 1)
           /\ h.levelIndexBucketRange \in 0..(Byte^1 - 1) /\ h.blockSize \in 0..(Byte^2 - 1)

(* ... comes back, or the reader throws; of a whole file it comes back.    *)
LEMMA HeaderRead ==
    ASSUME NEW f \in Bytes, NEW b \in Bytes, Prefix(f, b), NEW h, Fits(h),
           Holds(b, 0, HeaderBytes(h))
    PROVE  readFromFile(f) \subseteq {h} /\ (f = b => readFromFile(f) = {h})
<1> DEFINE at(p, w) == FromLittleEndian(SubSeq(f, p + 1, p + w))
           x == [cellIdFilterOffset |-> at(8, 8), cellIdFilterSize |-> at(16, 8),
                 keyIndexOffset |-> at(24, 8), keyIndexSize |-> at(32, 8) % Byte^4,
                 cellIndexOffset |-> at(40, 8), cellIndexSize |-> at(48, 8),
                 roaringIndexOffset |-> at(56, 8), roaringIndexSize |-> at(64, 8),
                 keyIndexEntries |-> at(72, 4), cellIndexEntries |-> at(76, 4),
                 levelIndexBucketRange |-> at(80, 1), blockSize |-> at(81, 2)]
<1>1. readFromFile(f) = {x : last \in view(f, 83, 1)}
  BY DEF readFromFile
<1>2. Len(f) \in Nat /\ Len(b) \in Nat /\ IsHeader(h)
  BY DEF Bytes, Fits
<1>3. Len(HeaderBytes(h)) = 88 /\ 88 <= Len(b)
  <2>1. Len(HeaderBytes(h)) = 88
    BY <1>2, HeaderBytesFacts
  <2> QED
    BY <1>2, <2>1 DEF Holds
<1>4. ASSUME 84 <= Len(f) PROVE x = h
  <2>1. ASSUME NEW p \in Nat, NEW w \in 1..Word, NEW v \in 0..(Byte^w - 1),
               Holds(b, p, LittleEndian(v, w)), p + w <= 84
        PROVE  at(p, w) = v
    <3>1. p + w <= Len(f)
      BY <1>2, <1>4, <2>1
    <3> QED
      BY <2>1, <3>1, FieldRead
  <2> HIDE DEF at
  <2> DEFINE V == 0..(Byte^8 - 1)
  <2>2. /\ h.cellIdFilterOffset \in V /\ h.cellIdFilterSize \in V
        /\ h.keyIndexOffset \in V /\ h.keyIndexSize \in V
        /\ h.cellIndexOffset \in V /\ h.cellIndexSize \in V
        /\ h.roaringIndexOffset \in V /\ h.roaringIndexSize \in V
    <3>1. \A n \in HeaderFields : h[n] \in V
      BY <1>2 DEF IsHeader, Wrap, Word
    <3> HIDE DEF V
    <3> QED
      BY <3>1 DEF HeaderFields
  <2>3. ASSUME NEW p \in 0..64, NEW v \in V, Holds(b, p, LittleEndian(v, 8))
        PROVE  at(p, 8) = v
    <3>1. 8 \in 1..Word /\ p \in Nat /\ p + 8 <= 84
      BY DEF Word
    <3> QED
      BY <2>1, <2>3, <3>1
  <2> HIDE DEF V
  <2>4. /\ at(8, 8) = h.cellIdFilterOffset /\ at(16, 8) = h.cellIdFilterSize
        /\ at(24, 8) = h.keyIndexOffset /\ at(32, 8) = h.keyIndexSize
        /\ at(40, 8) = h.cellIndexOffset /\ at(48, 8) = h.cellIndexSize
        /\ at(56, 8) = h.roaringIndexOffset /\ at(64, 8) = h.roaringIndexSize
    <3>1. at(8, 8) = h.cellIdFilterOffset
      BY <1>2, <2>2, <2>3, HeaderParts
    <3>2. at(16, 8) = h.cellIdFilterSize
      BY <1>2, <2>2, <2>3, HeaderParts
    <3>3. at(24, 8) = h.keyIndexOffset
      BY <1>2, <2>2, <2>3, HeaderParts
    <3>4. at(32, 8) = h.keyIndexSize
      BY <1>2, <2>2, <2>3, HeaderParts
    <3>5. at(40, 8) = h.cellIndexOffset
      BY <1>2, <2>2, <2>3, HeaderParts
    <3>6. at(48, 8) = h.cellIndexSize
      BY <1>2, <2>2, <2>3, HeaderParts
    <3>7. at(56, 8) = h.roaringIndexOffset
      BY <1>2, <2>2, <2>3, HeaderParts
    <3>8. at(64, 8) = h.roaringIndexSize
      BY <1>2, <2>2, <2>3, HeaderParts
    <3> QED
      BY <3>1, <3>2, <3>3, <3>4, <3>5, <3>6, <3>7, <3>8
  <2>5. at(72, 4) = h.keyIndexEntries /\ at(76, 4) = h.cellIndexEntries
    <3>1. /\ 4 \in 1..Word /\ 72 \in Nat /\ 76 \in Nat /\ 72 + 4 <= 84 /\ 76 + 4 <= 84
          /\ h.keyIndexEntries \in 0..(Byte^4 - 1) /\ h.cellIndexEntries \in 0..(Byte^4 - 1)
      BY DEF Word, Fits
    <3>2. /\ Holds(b, 72, LittleEndian(h.keyIndexEntries, 4))
          /\ Holds(b, 76, LittleEndian(h.cellIndexEntries, 4))
      BY <1>2, HeaderParts
    <3> QED
      BY <2>1, <3>1, <3>2
  <2>6. at(80, 1) = h.levelIndexBucketRange /\ at(81, 2) = h.blockSize
    <3>1. /\ 1 \in 1..Word /\ 2 \in 1..Word /\ 80 \in Nat /\ 81 \in Nat
          /\ 80 + 1 <= 84 /\ 81 + 2 <= 84
          /\ h.levelIndexBucketRange \in 0..(Byte^1 - 1) /\ h.blockSize \in 0..(Byte^2 - 1)
      BY DEF Word, Fits
    <3>2. /\ Holds(b, 80, LittleEndian(h.levelIndexBucketRange, 1))
          /\ Holds(b, 81, LittleEndian(h.blockSize, 2))
      BY <1>2, HeaderParts
    <3> QED
      BY <2>1, <3>1, <3>2
  <2>7. h.keyIndexSize % Byte^4 = h.keyIndexSize
    <3> DEFINE v == h.keyIndexSize
               p == Byte^4
    <3>1. p \in Nat \ {0} /\ v \in 0..(p - 1)
      BY BytePowers DEF Word, Fits
    <3> HIDE DEF v, p
    <3>2. v % p = v
      BY <3>1
    <3> QED
      BY <3>2 DEF v, p
  <2>8. h = [cellIdFilterOffset |-> h.cellIdFilterOffset,
             cellIdFilterSize |-> h.cellIdFilterSize,
             keyIndexOffset |-> h.keyIndexOffset, keyIndexSize |-> h.keyIndexSize,
             cellIndexOffset |-> h.cellIndexOffset, cellIndexSize |-> h.cellIndexSize,
             roaringIndexOffset |-> h.roaringIndexOffset,
             roaringIndexSize |-> h.roaringIndexSize,
             keyIndexEntries |-> h.keyIndexEntries, cellIndexEntries |-> h.cellIndexEntries,
             levelIndexBucketRange |-> h.levelIndexBucketRange, blockSize |-> h.blockSize]
    BY <1>2 DEF IsHeader, HeaderFields
  <2> QED
    BY <2>4, <2>5, <2>6, <2>7, <2>8
<1> HIDE DEF x
<1>5. view(f, 83, 1) # {} <=> 84 <= Len(f)
  <2> DEFINE l == Len(f)
             u == SubSeq(f, 83 + 1, 83 + 1)
  <2>1. view(f, 83, 1) = IF 83 + 1 > l THEN {} ELSE {u}
    BY DEF view
  <2>2. l \in Nat
    BY <1>2
  <2> HIDE DEF l, u
  <2>3. (83 + 1 > l) <=> ~ (84 <= l)
    BY <2>2
  <2>4. {u} # {}
    OBVIOUS
  <2> QED
    BY <2>1, <2>3, <2>4 DEF l
<1>6. f = b => 84 <= Len(f)
  BY <1>2, <1>3
<1> QED
  BY <1>1, <1>4, <1>5, <1>6

(* All words of a string of words come back, or the reader throws.         *)
LEMMA AllWords ==
    ASSUME NEW f \in Bytes, NEW b \in Bytes, Prefix(f, b), NEW at \in Nat,
           NEW u \in Seq(0..(Wrap - 1)), Holds(b, at, Words(u))
    PROVE  /\ VectorView(f, at, Len(u)) \subseteq {u}
           /\ f = b => VectorView(f, at, Len(u)) = {u}
<1> DEFINE V == 0..(Wrap - 1)
           n == Len(u)
<1>1. V \subseteq Nat /\ u \in Seq(V)
  OBVIOUS
<1> HIDE DEF V
<1>2. u \in Seq(Nat)
  BY <1>1, SeqOfMore
<1>3. Len(Words(u)) = n * Word
  BY <1>2, WordsFacts
<1>4. n \in 0..Len(u) /\ SubSeq(u, 1, n) = u
  <2>1. n \in Nat
    BY <1>1
  <2>2. SubSeq(u, 1, n) = u
    BY <1>1, WholeSeq
  <2> QED
    BY <2>1, <2>2
<1>5. f = b => at + n * Word <= Len(f)
  BY <1>3 DEF Holds
<1> HIDE DEF n
<1>6. /\ VectorView(f, at, n) \subseteq {SubSeq(u, 1, n)}
      /\ at + n * Word <= Len(f) => VectorView(f, at, n) = {SubSeq(u, 1, n)}
  BY <1>4, WordsView
<1> QED
  BY <1>4, <1>5, <1>6 DEF n

(* What the constructor reads of a column comes back, or it throws.        *)
LEMMA ColumnOpened ==
    ASSUME NEW f \in Bytes, NEW b \in Bytes, Prefix(f, b), NEW at \in Nat,
           NEW bodies \in Seq(Bytes), bodies # << >>, NEW maxes \in Seq(0..(Wrap - 1)),
           Holds(b, at, Image(bodies, maxes)), Len(Image(bodies, maxes)) < Wrap
    PROVE  /\ VectorView(f, at, Len(maxes)) \subseteq {maxes}
           /\ f = b => VectorView(f, at, Len(maxes)) = {maxes}
           /\ VectorView(f, at + Len(maxes) * Word, Len(bodies)) \subseteq {EndsOf(bodies)}
           /\ f = b => VectorView(f, at + Len(maxes) * Word, Len(bodies)) = {EndsOf(bodies)}
<1> DEFINE V == 0..(Wrap - 1)
           end == EndsOf(bodies)
<1>1. V \subseteq Nat /\ maxes \in Seq(V) /\ Len(b) \in Nat
  BY DEF Bytes
<1> HIDE DEF V
<1>2. maxes \in Seq(Nat)
  BY <1>1, SeqOfMore
<1>3. /\ end \in Seq(V) /\ Len(end) = Len(bodies)
      /\ Holds(b, at, Words(maxes)) /\ Holds(b, at + Len(maxes) * Word, Words(end))
  BY <1>1, <1>2, ColumnHolds DEF V
<1>4. at + Len(maxes) * Word \in Nat
  <2>1. Len(maxes) \in Nat
    BY <1>2
  <2> QED
    BY <2>1 DEF Word
<1> HIDE DEF end
<1>5. /\ VectorView(f, at, Len(maxes)) \subseteq {maxes}
      /\ f = b => VectorView(f, at, Len(maxes)) = {maxes}
  BY <1>1, <1>3, AllWords DEF V
<1>6. /\ VectorView(f, at + Len(maxes) * Word, Len(end)) \subseteq {end}
      /\ f = b => VectorView(f, at + Len(maxes) * Word, Len(end)) = {end}
  BY <1>1, <1>3, <1>4, AllWords DEF V
<1> QED
  BY <1>3, <1>5, <1>6 DEF end

(* The header of a complete buffer fits its fields.                        *)
LEMMA HeaderFits ==
    ASSUME LayoutInv, Complete
    PROVE  Fits(header)
<1>1. IsHeader(header) /\ input \in Input
  BY TypedFacts DEF LayoutInv
<1>2. header.keyIndexSize \in 0..(Byte^4 - 1)
  <2> DEFINE l == Len(KeysImage(input))
             p == Byte^4
  <2>1. l \in Nat /\ p \in Nat \ {0}
    BY <1>1, PlaceFacts, BytePowers DEF Word
  <2>2. header.keyIndexSize = l % p
    BY DEF Complete, KeysLaid
  <2> HIDE DEF l, p
  <2>3. l % p \in 0..(p - 1)
    BY <2>1
  <2> QED
    BY <2>2, <2>3 DEF p
<1>3. /\ header.keyIndexEntries \in 0..(Byte^4 - 1)
      /\ header.cellIndexEntries \in 0..(Byte^4 - 1)
  BY <1>1, InputFacts DEF Complete, KeysLaid, CellsLaid
<1>4. header.levelIndexBucketRange \in 0..(Byte^1 - 1)
  <2>1. header.levelIndexBucketRange = input.levelRange % Byte
    BY DEF Complete, Settings
  <2>2. input.levelRange \in Nat /\ Byte \in Nat \ {0} /\ Byte^1 = Byte
    BY <1>1, InputFacts, LayoutAssumption, BytePowers
  <2>3. input.levelRange % Byte \in 0..(Byte - 1)
    BY <2>2
  <2> QED
    BY <2>1, <2>2, <2>3
<1>5. header.blockSize \in 0..(Byte^2 - 1)
  <2>1. header.blockSize = BlockSize
    BY DEF Complete, Settings
  <2>2. Byte^2 \in Nat
    BY BytePowers DEF Word
  <2> DEFINE p == Byte^2
  <2>3. BlockSize \in 1..(p - 1)
    BY LayoutAssumption
  <2>4. p \in Nat
    BY <2>2
  <2> HIDE DEF p
  <2>5. BlockSize \in 0..(p - 1)
    BY <2>3, <2>4
  <2> QED
    BY <2>1, <2>5 DEF p
<1> QED
  BY <1>1, <1>2, <1>3, <1>4, <1>5 DEF Fits

(* What a reader keeps that has opened a file of input w with header h.    *)
OpenedOf(w, h) ==
    [header |-> h, filter |-> w.filter, keyEnds |-> EndsOf(VarBlocks(w.keys)),
     index |-> BlockMaxes(w.cells), cellEnds |-> EndsOf(FixedBlocks(w.cells)),
     bitmapEnds |-> EndsOf(VarBlocks(w.bitmaps))]

(* The counts of the blocks, and what the columns of an input start with.  *)
LEMMA InputCounts ==
    ASSUME NEW w \in Input
    PROVE  /\ determineBlocks(BlockSize, Len(w.keys)) = Len(VarBlocks(w.keys))
           /\ determineBlocks(BlockSize, Len(w.cells)) = Len(FixedBlocks(w.cells))
           /\ determineBlocks(BlockSize, Len(w.cells)) = Len(VarBlocks(w.bitmaps))
           /\ Len(BlockMaxes(w.cells)) = Len(FixedBlocks(w.cells))
           /\ BlockMaxes(w.cells) \in Seq(0..(Wrap - 1))
           /\ Len(w.bitmaps) = Len(w.cells)
<1>1. /\ w.keys \in Seq(Bytes) /\ w.keys # << >> /\ w.cells \in Seq(0..(Wrap - 1))
      /\ w.cells # << >> /\ w.bitmaps \in Seq(Bytes) /\ w.bitmaps # << >>
  BY InputFacts
<1>2. Len(w.bitmaps) = Len(w.cells)
  BY InputAssumption
<1>3. /\ determineBlocks(BlockSize, Len(w.keys)) = Len(Split(w.keys, BlockSize))
      /\ determineBlocks(BlockSize, Len(w.cells)) = Len(Split(w.cells, BlockSize))
      /\ determineBlocks(BlockSize, Len(w.bitmaps)) = Len(Split(w.bitmaps, BlockSize))
  BY <1>1, BlockCounts
<1>4. BlockMaxes(w.cells) \in Seq(0..(Wrap - 1)) /\ Len(BlockMaxes(w.cells)) = Len(FixedBlocks(w.cells))
  BY <1>1, BlockBytes
<1>5. \A s \in Seq(Bytes) : s # << >> => Len(VarBlocks(s)) = Len(Split(s, BlockSize))
  <2> SUFFICES ASSUME NEW s \in Seq(Bytes), s # << >>
               PROVE  Len(VarBlocks(s)) = Len(Split(s, BlockSize))
    OBVIOUS
  <2> DEFINE t == Split(s, BlockSize)
             u == VarBlocks(s)
  <2>1. Len(t) \in Nat /\ DOMAIN t = 1..Len(t)
    BY SplitBlocks
  <2>2. u = [j \in 1..Len(t) |-> VarBlock(t[j])]
    BY <2>1 DEF VarBlocks
  <2>3. u \in Seq(Bytes)
    BY BlockBytes
  <2> HIDE DEF u, t
  <2>4. DOMAIN u = 1..Len(t)
    BY <2>2
  <2>5. Len(u) = Len(t)
    BY <2>1, <2>3, <2>4
  <2> QED
    BY <2>5 DEF u, t
<1>6. Len(FixedBlocks(w.cells)) = Len(Split(w.cells, BlockSize))
  <2> DEFINE t == Split(w.cells, BlockSize)
             u == FixedBlocks(w.cells)
  <2>1. Len(t) \in Nat /\ DOMAIN t = 1..Len(t)
    BY <1>1, SplitBlocks
  <2>2. u = [j \in 1..Len(t) |-> FixedBlock(t[j])]
    BY <2>1 DEF FixedBlocks
  <2>3. u \in Seq(Bytes)
    BY <1>1, BlockBytes
  <2> HIDE DEF u, t
  <2>4. DOMAIN u = 1..Len(t)
    BY <2>2
  <2>5. Len(u) = Len(t)
    BY <2>1, <2>3, <2>4
  <2> QED
    BY <2>5 DEF u, t
<1> QED
  BY <1>1, <1>2, <1>3, <1>4, <1>5, <1>6

(* What the columns of a complete buffer hold, and where.                  *)
LEMMA ColumnsLaid ==
    ASSUME LayoutInv, Complete
    PROVE  /\ input \in Input /\ buffer.bytes \in Bytes
           /\ KeysAt(input) \in Nat /\ CellsAt(input) \in Nat /\ BitmapsAt(input) \in Nat
           /\ HeaderSize \in Nat
           /\ Holds(buffer.bytes, KeysAt(input), Image(VarBlocks(input.keys), << >>))
           /\ Len(Image(VarBlocks(input.keys), << >>)) < Wrap
           /\ Holds(buffer.bytes, CellsAt(input),
                    Image(FixedBlocks(input.cells), BlockMaxes(input.cells)))
           /\ Len(Image(FixedBlocks(input.cells), BlockMaxes(input.cells))) < Wrap
           /\ Holds(buffer.bytes, BitmapsAt(input), Image(VarBlocks(input.bitmaps), << >>))
           /\ Len(Image(VarBlocks(input.bitmaps), << >>)) < Wrap
<1>1. input \in Input /\ buffer.bytes \in Bytes
  <2>1. input \in Input
    BY TypedFacts DEF LayoutInv
  <2> QED
    BY <2>1 DEF LayoutInv, TypeOK
<1>2. /\ Len(KeysImage(input)) < Wrap /\ Len(CellsImage(input)) < Wrap
      /\ Len(BitmapsImage(input)) < Wrap
  <2> DEFINE k == Len(KeysImage(input))
             c == Len(CellsImage(input))
             m == Len(BitmapsImage(input))
  <2>1. /\ KeysAt(input) \in Nat /\ CellsAt(input) \in Nat /\ BitmapsAt(input) \in Nat
        /\ EndAt(input) \in Nat /\ k \in Nat /\ c \in Nat /\ m \in Nat /\ Wrap \in Nat
        /\ KeysAt(input) + k <= CellsAt(input) /\ CellsAt(input) + c <= BitmapsAt(input)
        /\ BitmapsAt(input) + m <= EndAt(input) /\ EndAt(input) < Wrap
    BY <1>1, PlaceFacts
  <2> HIDE DEF k, c, m
  <2>2. k < Wrap /\ c < Wrap /\ m < Wrap
    BY <2>1
  <2> QED
    BY <2>2 DEF k, c, m
<1>3. /\ KeysAt(input) \in Nat /\ CellsAt(input) \in Nat /\ BitmapsAt(input) \in Nat
      /\ HeaderSize \in Nat
  BY <1>1, PlaceFacts
<1> QED
  BY <1>1, <1>2, <1>3
  DEF Complete, KeysLaid, CellsLaid, BitmapsLaid, KeysImage, CellsImage, BitmapsImage

(* Opening a prefix of a complete buffer throws or finds everything.       *)
LEMMA OpenedFacts ==
    ASSUME LayoutInv, Complete, NEW f \in Bytes, Prefix(f, buffer.bytes)
    PROVE  /\ Opened(f) \subseteq {OpenedOf(input, header)}
           /\ f = buffer.bytes => Opened(f) = {OpenedOf(input, header)}
<1> DEFINE b == buffer.bytes
           w == input
           n(h) == determineBlocks(h.blockSize, h.keyIndexEntries)
           m(h) == determineBlocks(h.blockSize, h.cellIndexEntries)
           F(h) == view(f, h.cellIdFilterOffset, h.cellIdFilterSize)
           K(h) == VectorView(f, h.keyIndexOffset, n(h))
           I(h) == VectorView(f, h.cellIndexOffset, m(h))
           C(h) == VectorView(f, h.cellIndexOffset + m(h) * Word, m(h))
           M(h) == VectorView(f, h.roaringIndexOffset, m(h))
           Of(h) == {[header |-> h, filter |-> x, keyEnds |-> k, index |-> i,
                      cellEnds |-> c, bitmapEnds |-> e] :
                        x \in F(h), k \in K(h), i \in I(h), c \in C(h), e \in M(h)}
<1>1. Opened(f) = UNION {Of(h) : h \in readFromFile(f)}
  BY DEF Opened
<1>2. /\ w \in Input /\ b \in Bytes /\ Prefix(f, b)
      /\ KeysAt(w) \in Nat /\ CellsAt(w) \in Nat /\ BitmapsAt(w) \in Nat /\ HeaderSize \in Nat
      /\ Holds(b, KeysAt(w), Image(VarBlocks(w.keys), << >>))
      /\ Len(Image(VarBlocks(w.keys), << >>)) < Wrap
      /\ Holds(b, CellsAt(w), Image(FixedBlocks(w.cells), BlockMaxes(w.cells)))
      /\ Len(Image(FixedBlocks(w.cells), BlockMaxes(w.cells))) < Wrap
      /\ Holds(b, BitmapsAt(w), Image(VarBlocks(w.bitmaps), << >>))
      /\ Len(Image(VarBlocks(w.bitmaps), << >>)) < Wrap
  BY ColumnsLaid
<1>3. /\ readFromFile(f) \subseteq {header}
      /\ f = b => readFromFile(f) = {header}
  <2>1. Fits(header) /\ Holds(b, 0, HeaderBytes(header))
    BY HeaderFits DEF Complete, HeaderLaid
  <2> QED
    BY <1>2, <2>1, HeaderRead
<1>4. /\ header.blockSize = BlockSize /\ header.keyIndexEntries = Len(w.keys)
      /\ header.cellIndexEntries = Len(w.cells) /\ header.cellIdFilterOffset = HeaderSize
      /\ header.cellIdFilterSize = Len(w.filter) /\ Holds(b, HeaderSize, w.filter)
      /\ header.keyIndexOffset = KeysAt(w) /\ header.cellIndexOffset = CellsAt(w)
      /\ header.roaringIndexOffset = BitmapsAt(w)
  BY DEF Complete, Settings, FilterLaid, KeysLaid, CellsLaid, BitmapsLaid
<1> HIDE DEF b, w
<1>5. F(header) \subseteq {w.filter} /\ (f = b => F(header) = {w.filter})
  <2>1. w.filter \in Bytes
    BY <1>2, InputFacts
  <2>2. f = b => HeaderSize + Len(w.filter) <= Len(f)
    BY <1>4 DEF Holds
  <2>3. /\ view(f, HeaderSize, Len(w.filter)) \subseteq {w.filter}
        /\ HeaderSize + Len(w.filter) <= Len(f) =>
              view(f, HeaderSize, Len(w.filter)) = {w.filter}
    BY <1>2, <1>4, <2>1, ViewFacts
  <2> QED
    BY <1>4, <2>2, <2>3
<1>6. n(header) = Len(VarBlocks(w.keys))
  BY <1>2, <1>4, InputCounts
<1>7. /\ m(header) = Len(FixedBlocks(w.cells)) /\ m(header) = Len(VarBlocks(w.bitmaps))
      /\ m(header) = Len(BlockMaxes(w.cells)) /\ BlockMaxes(w.cells) \in Seq(0..(Wrap - 1))
  BY <1>2, <1>4, InputCounts
<1>8. ASSUME NEW at \in Nat, NEW bodies \in Seq(Bytes), bodies # << >>,
             Holds(b, at, Image(bodies, << >>)), Len(Image(bodies, << >>)) < Wrap
      PROVE  /\ VectorView(f, at, Len(bodies)) \subseteq {EndsOf(bodies)}
             /\ f = b => VectorView(f, at, Len(bodies)) = {EndsOf(bodies)}
  <2> DEFINE none == << >>
  <2>1. none \in Seq(0..(Wrap - 1)) /\ Len(none) = 0
    OBVIOUS
  <2>2. Holds(b, at, Image(bodies, none)) /\ Len(Image(bodies, none)) < Wrap
    BY <1>8
  <2> HIDE DEF none
  <2>3. /\ VectorView(f, at + Len(none) * Word, Len(bodies)) \subseteq {EndsOf(bodies)}
        /\ f = b => VectorView(f, at + Len(none) * Word, Len(bodies)) = {EndsOf(bodies)}
    <3>1. /\ b \in Bytes /\ Prefix(f, b) /\ at \in Nat /\ bodies \in Seq(Bytes)
          /\ bodies # << >> /\ none \in Seq(0..(Wrap - 1)) /\ Holds(b, at, Image(bodies, none))
          /\ Len(Image(bodies, none)) < Wrap
      BY <1>2, <1>8, <2>1, <2>2
    <3> QED
      BY <3>1, ColumnOpened
  <2>4. at + Len(none) * Word = at
    BY <1>8, <2>1 DEF Word
  <2> QED
    BY <2>3, <2>4
<1>9. /\ K(header) \subseteq {EndsOf(VarBlocks(w.keys))}
      /\ f = b => K(header) = {EndsOf(VarBlocks(w.keys))}
  <2>1. VarBlocks(w.keys) \in Seq(Bytes) /\ VarBlocks(w.keys) # << >>
    BY <1>2, InputFacts
  <2>2. /\ VectorView(f, KeysAt(w), Len(VarBlocks(w.keys))) \subseteq {EndsOf(VarBlocks(w.keys))}
        /\ f = b => VectorView(f, KeysAt(w), Len(VarBlocks(w.keys)))
                      = {EndsOf(VarBlocks(w.keys))}
    BY <1>2, <1>8, <2>1
  <2> QED
    BY <1>4, <1>6, <2>2
<1>10. /\ M(header) \subseteq {EndsOf(VarBlocks(w.bitmaps))}
       /\ f = b => M(header) = {EndsOf(VarBlocks(w.bitmaps))}
  <2>1. VarBlocks(w.bitmaps) \in Seq(Bytes) /\ VarBlocks(w.bitmaps) # << >>
    BY <1>2, InputFacts
  <2>2. /\ VectorView(f, BitmapsAt(w), Len(VarBlocks(w.bitmaps)))
             \subseteq {EndsOf(VarBlocks(w.bitmaps))}
        /\ f = b => VectorView(f, BitmapsAt(w), Len(VarBlocks(w.bitmaps)))
                      = {EndsOf(VarBlocks(w.bitmaps))}
    BY <1>2, <1>8, <2>1
  <2> QED
    BY <1>4, <1>7, <2>2
<1>11. /\ I(header) \subseteq {BlockMaxes(w.cells)} /\ C(header) \subseteq {EndsOf(FixedBlocks(w.cells))}
       /\ f = b => /\ I(header) = {BlockMaxes(w.cells)}
                   /\ C(header) = {EndsOf(FixedBlocks(w.cells))}
  <2>1. FixedBlocks(w.cells) \in Seq(Bytes) /\ FixedBlocks(w.cells) # << >>
    BY <1>2, InputFacts
  <2> DEFINE maxes == BlockMaxes(w.cells)
             bodies == FixedBlocks(w.cells)
             at == CellsAt(w)
  <2>2. /\ bodies \in Seq(Bytes) /\ bodies # << >> /\ maxes \in Seq(0..(Wrap - 1)) /\ at \in Nat
        /\ Holds(b, at, Image(bodies, maxes)) /\ Len(Image(bodies, maxes)) < Wrap
        /\ m(header) = Len(bodies) /\ m(header) = Len(maxes) /\ header.cellIndexOffset = at
    BY <1>2, <1>4, <1>7, <2>1
  <2> HIDE DEF maxes, bodies, at, m
  <2>3. /\ VectorView(f, at, Len(maxes)) \subseteq {maxes}
        /\ f = b => VectorView(f, at, Len(maxes)) = {maxes}
        /\ VectorView(f, at + Len(maxes) * Word, Len(bodies)) \subseteq {EndsOf(bodies)}
        /\ f = b => VectorView(f, at + Len(maxes) * Word, Len(bodies)) = {EndsOf(bodies)}
    <3>1. /\ b \in Bytes /\ Prefix(f, b) /\ at \in Nat /\ bodies \in Seq(Bytes)
          /\ bodies # << >> /\ maxes \in Seq(0..(Wrap - 1)) /\ Holds(b, at, Image(bodies, maxes))
          /\ Len(Image(bodies, maxes)) < Wrap
      BY <1>2, <2>2
    <3> QED
      BY <3>1, ColumnOpened
  <2> QED
    BY <2>2, <2>3 DEF maxes, bodies
<1> HIDE DEF F, K, I, C, M
<1> DEFINE o == OpenedOf(w, header)
<1>12. Of(header) \subseteq {o} /\ (f = b => Of(header) = {o})
  <2>1. o = [header |-> header, filter |-> w.filter, keyEnds |-> EndsOf(VarBlocks(w.keys)),
             index |-> BlockMaxes(w.cells), cellEnds |-> EndsOf(FixedBlocks(w.cells)),
             bitmapEnds |-> EndsOf(VarBlocks(w.bitmaps))]
    BY DEF OpenedOf
  <2> HIDE DEF o
  <2> DEFINE x0 == w.filter
             k0 == EndsOf(VarBlocks(w.keys))
             i0 == BlockMaxes(w.cells)
             c0 == EndsOf(FixedBlocks(w.cells))
             e0 == EndsOf(VarBlocks(w.bitmaps))
  <2>2. /\ F(header) \subseteq {x0} /\ K(header) \subseteq {k0} /\ I(header) \subseteq {i0}
        /\ C(header) \subseteq {c0} /\ M(header) \subseteq {e0}
    BY <1>5, <1>9, <1>10, <1>11
  <2>3. f = b => /\ F(header) = {x0} /\ K(header) = {k0} /\ I(header) = {i0}
                 /\ C(header) = {c0} /\ M(header) = {e0}
    BY <1>5, <1>9, <1>10, <1>11
  <2>4. o = [header |-> header, filter |-> x0, keyEnds |-> k0, index |-> i0, cellEnds |-> c0,
             bitmapEnds |-> e0]
    BY <2>1
  <2> HIDE DEF x0, k0, i0, c0, e0
  <2>5. \A y \in Of(header) : y = o
    BY <2>2, <2>4
  <2>6. f = b => o \in Of(header)
    BY <2>3, <2>4
  <2> HIDE DEF Of
  <2> QED
    BY <2>5, <2>6
<1> HIDE DEF Of, o
<1>13. Opened(f) \subseteq {o} /\ (f = b => Opened(f) = {o})
  BY <1>1, <1>3, <1>12
<1> QED
  BY <1>13 DEF o, w, b

(* Whoever opens a prefix of a complete buffer reads what was written, or  *)
(* the reader throws; whoever opens the whole buffer reads all of it.      *)
LEMMA PrefixReads ==
    ASSUME LayoutInv, Complete, NEW f \in Bytes, Prefix(f, buffer.bytes)
    PROVE  /\ NothingMisread(f, input)
           /\ f = buffer.bytes => NothingRefused(f, input)
<1> DEFINE b == buffer.bytes
           w == input
           h == header
           o == OpenedOf(w, h)
<1>1. /\ w \in Input /\ b \in Bytes /\ Prefix(f, b)
      /\ KeysAt(w) \in Nat /\ CellsAt(w) \in Nat /\ BitmapsAt(w) \in Nat
      /\ Holds(b, KeysAt(w), Image(VarBlocks(w.keys), << >>))
      /\ Len(Image(VarBlocks(w.keys), << >>)) < Wrap
      /\ Holds(b, CellsAt(w), Image(FixedBlocks(w.cells), BlockMaxes(w.cells)))
      /\ Len(Image(FixedBlocks(w.cells), BlockMaxes(w.cells))) < Wrap
      /\ Holds(b, BitmapsAt(w), Image(VarBlocks(w.bitmaps), << >>))
      /\ Len(Image(VarBlocks(w.bitmaps), << >>)) < Wrap
  BY ColumnsLaid
<1>2. /\ h.blockSize = BlockSize /\ h.keyIndexEntries = Len(w.keys)
      /\ h.cellIndexEntries = Len(w.cells) /\ h.keyIndexOffset = KeysAt(w)
      /\ h.cellIndexOffset = CellsAt(w) /\ h.roaringIndexOffset = BitmapsAt(w)
      /\ h.levelIndexBucketRange = w.levelRange % Byte
  BY DEF Complete, Settings, KeysLaid, CellsLaid, BitmapsLaid
<1>3. Opened(f) \subseteq {o} /\ (f = b => Opened(f) = {o})
  BY OpenedFacts
<1>4. /\ w.keys \in Seq(Bytes) /\ w.keys # << >> /\ w.bitmaps \in Seq(Bytes) /\ w.bitmaps # << >>
      /\ w.cells \in Seq(0..(Wrap - 1)) /\ w.cells # << >> /\ Len(w.bitmaps) = Len(w.cells)
  BY <1>1, InputFacts, InputCounts
<1> HIDE DEF b, w, h
<1>5. /\ o.header = h /\ o.filter = w.filter /\ o.keyEnds = EndsOf(VarBlocks(w.keys))
      /\ o.index = BlockMaxes(w.cells) /\ o.cellEnds = EndsOf(FixedBlocks(w.cells))
      /\ o.bitmapEnds = EndsOf(VarBlocks(w.bitmaps))
  BY DEF OpenedOf
<1> HIDE DEF o
<1>6. ASSUME NEW i \in DOMAIN w.keys
      PROVE  /\ ReadKey(f, o, i - 1) \subseteq {w.keys[i]}
             /\ f = b => ReadKey(f, o, i - 1) # {}
  <2>1. ReadKey(f, o, i - 1)
          = ReadVarValue(f, KeysAt(w), EndsOf(VarBlocks(w.keys)), BlockSize, Len(w.keys), i - 1)
    BY <1>2, <1>5 DEF ReadKey
  <2>2. i \in 1..Len(w.keys)
    BY <1>4
  <2> QED
    BY <1>1, <1>4, <2>1, <2>2, VarValueRead
<1>7. ASSUME NEW i \in DOMAIN w.bitmaps
      PROVE  /\ ReadBitmap(f, o, i - 1) \subseteq {w.bitmaps[i]}
             /\ f = b => ReadBitmap(f, o, i - 1) # {}
  <2>1. ReadBitmap(f, o, i - 1)
          = ReadVarValue(f, BitmapsAt(w), EndsOf(VarBlocks(w.bitmaps)), BlockSize,
                         Len(w.bitmaps), i - 1)
    BY <1>2, <1>4, <1>5 DEF ReadBitmap
  <2>2. i \in 1..Len(w.bitmaps)
    BY <1>4
  <2> QED
    BY <1>1, <1>4, <2>1, <2>2, VarValueRead
<1> DEFINE t == Split(w.cells, BlockSize)
           maxes == BlockMaxes(w.cells)
<1>8. /\ DOMAIN t = 1..Len(t) /\ Len(t) \in Nat
      /\ maxes = [q \in DOMAIN t |-> Last(t[q])]
  <2>1. DOMAIN t = 1..Len(t) /\ Len(t) \in Nat
    BY <1>4, SplitBlocks
  <2> QED
    BY <2>1 DEF BlockMaxes
<1>9. o.index = [q \in DOMAIN o.index |-> Last(t[q])] /\ DOMAIN o.index = 1..Len(t)
  <2> HIDE DEF t, maxes
  <2>1. o.index = maxes
    BY <1>5 DEF maxes
  <2> QED
    BY <1>8, <2>1
<1>10. ASSUME NEW q \in DOMAIN o.index
       PROVE  /\ ReadCells(f, o, q - 1) \subseteq {CellsCounted(w, q - 1)}
              /\ f = b => ReadCells(f, o, q - 1) # {}
  <2> DEFINE pos == CellsAt(w) + (Len(maxes) + Len(EndsOf(FixedBlocks(w.cells)))) * Word
                      + StartOf(EndsOf(FixedBlocks(w.cells)), q - 1)
             m == CellBlockEntries(q - 1, BlockSize, Len(w.cells))
  <2>1. ReadCells(f, o, q - 1) = VectorView(f, pos, m)
    BY <1>2, <1>5 DEF ReadCells
  <2>2. q - 1 \in 0..(Len(t) - 1)
    <3> HIDE DEF t
    <3> QED
      BY <1>8, <1>9
  <2>3. /\ VectorView(f, pos, m) \subseteq {SubSeq(t[(q - 1) + 1], 1, m)}
        /\ f = b => VectorView(f, pos, m) = {SubSeq(t[(q - 1) + 1], 1, m)}
    <3> DEFINE at == CellsAt(w)
               cells == w.cells
               p == q - 1
               counted == SubSeq(Split(cells, BlockSize)[p + 1], 1, m)
    <3>1. /\ at \in Nat /\ cells \in Seq(0..(Wrap - 1)) /\ cells # << >>
          /\ b \in Bytes /\ Prefix(f, b)
          /\ Holds(b, at, Image(FixedBlocks(cells), BlockMaxes(cells)))
          /\ Len(Image(FixedBlocks(cells), BlockMaxes(cells))) < Wrap
          /\ p \in 0..(Len(Split(cells, BlockSize)) - 1)
          /\ pos = at + (Len(BlockMaxes(cells)) + Len(EndsOf(FixedBlocks(cells)))) * Word
                      + StartOf(EndsOf(FixedBlocks(cells)), p)
          /\ m = CellBlockEntries(p, BlockSize, Len(cells))
      BY <1>1, <1>4, <2>2
    <3>2. t = Split(cells, BlockSize) /\ counted = SubSeq(t[(q - 1) + 1], 1, m)
      OBVIOUS
    <3>3. counted = SubSeq(Split(cells, BlockSize)[p + 1], 1, m)
      OBVIOUS
    <3> HIDE DEF at, cells, pos, m, p, counted, t
    <3>4. /\ VectorView(f, pos, m) \subseteq {counted}
          /\ f = b => VectorView(f, pos, m) = {counted}
      BY <3>1, <3>3, CellsRead
    <3> QED
      BY <3>2, <3>4
  <2>4. CellsCounted(w, q - 1) = SubSeq(t[(q - 1) + 1], 1, m)
    BY DEF CellsCounted
  <2> HIDE DEF t, m, pos
  <2> QED
    BY <2>1, <2>3, <2>4
<1>11. NothingMisread(f, w)
  <2> SUFFICES ASSUME NEW r \in Opened(f)
               PROVE  /\ r.filter = w.filter
                      /\ r.header.levelIndexBucketRange = w.levelRange % Byte
                      /\ r.header.blockSize = BlockSize
                      /\ r.header.keyIndexEntries = Len(w.keys)
                      /\ r.header.cellIndexEntries = Len(w.cells)
                      /\ \A i \in DOMAIN w.keys : ReadKey(f, r, i - 1) \subseteq {w.keys[i]}
                      /\ \A i \in DOMAIN w.bitmaps :
                            ReadBitmap(f, r, i - 1) \subseteq {w.bitmaps[i]}
                      /\ r.index = [q \in DOMAIN r.index |-> Last(t[q])]
                      /\ \A q \in DOMAIN r.index :
                            ReadCells(f, r, q - 1) \subseteq {CellsCounted(w, q - 1)}
    BY DEF NothingMisread
  <2>1. r = o
    BY <1>3
  <2> HIDE DEF t
  <2>2. \A i \in DOMAIN w.keys : ReadKey(f, r, i - 1) \subseteq {w.keys[i]}
    BY <1>6, <2>1
  <2>3. \A i \in DOMAIN w.bitmaps : ReadBitmap(f, r, i - 1) \subseteq {w.bitmaps[i]}
    BY <1>7, <2>1
  <2>4. \A q \in DOMAIN r.index : ReadCells(f, r, q - 1) \subseteq {CellsCounted(w, q - 1)}
    BY <1>10, <2>1
  <2>5. r.index = [q \in DOMAIN r.index |-> Last(t[q])]
    BY <1>9, <2>1
  <2> QED
    BY <1>2, <1>5, <2>1, <2>2, <2>3, <2>4, <2>5
<1>12. f = b => NothingRefused(f, w)
  <2> SUFFICES ASSUME f = b
               PROVE  \E r \in Opened(f) :
                         /\ \A i \in DOMAIN w.keys : ReadKey(f, r, i - 1) # {}
                         /\ \A i \in DOMAIN w.bitmaps : ReadBitmap(f, r, i - 1) # {}
                         /\ \A q \in DOMAIN r.index : ReadCells(f, r, q - 1) # {}
    BY DEF NothingRefused
  <2>1. o \in Opened(f)
    BY <1>3
  <2>2. /\ \A i \in DOMAIN w.keys : ReadKey(f, o, i - 1) # {}
        /\ \A i \in DOMAIN w.bitmaps : ReadBitmap(f, o, i - 1) # {}
        /\ \A q \in DOMAIN o.index : ReadCells(f, o, q - 1) # {}
    BY <1>6, <1>7, <1>10
  <2> QED
    BY <2>1, <2>2
<1> QED
  BY <1>11, <1>12 DEF b, w

(* A file that is written to its end reads back: the filter, the header,   *)
(* every key and bitmap by its number, and every block of cells as far as  *)
(* the cell reader counts it, for every input, block size and buffer size  *)
(* (build against the reader's constructor and its views).                 *)
THEOREM CompleteReadsBack == Spec => []CompleteFileReadsBack
<1>1. ASSUME LayoutInv PROVE CompleteFileReadsBack
  <2> SUFFICES ASSUME disk = buffer.bytes
               PROVE  NothingMisread(disk, input) /\ NothingRefused(disk, input)
    BY DEF CompleteFileReadsBack
  <2>1. buffer.bytes \in Bytes /\ Len(disk) \in Nat
    BY <1>1 DEF LayoutInv, TypeOK, Bytes
  <2>2. disk # NoFile
    BY <2>1, LayoutAssumption
  <2>3. Complete
    <3>1. HeaderSize <= Len(disk)
      BY <1>1, <2>2 DEF LayoutInv, Stored
    <3>2. Len(disk) # 0
      BY <2>1, <3>1, LayoutAssumption
    <3> QED
      BY <1>1, <2>2, <3>2 DEF LayoutInv, Stored
  <2>4. disk \in Bytes /\ Prefix(disk, buffer.bytes)
    BY <2>1 DEF Prefix
  <2> QED
    BY <1>1, <2>3, <2>4, PrefixReads
<1> QED
  BY <1>1, LayoutInvariant, PTL

(* Fewer bytes than a header are not opened.                               *)
LEMMA NothingOpened ==
    ASSUME NEW f, Len(f) = 0
    PROVE  Opened(f) = {}
<1>1. view(f, 83, 1) = {}
  BY DEF view
<1>2. readFromFile(f) = {}
  BY <1>1 DEF readFromFile
<1> QED
  BY <1>2 DEF Opened

(* A reader never misreads: whatever a crash, a full disk or a build that  *)
(* is still flushing left of the file, each reading throws or gives what   *)
(* the build wrote, if no other build truncated the file while it was read *)
(* (FileReadBuffer::view against flush).                                   *)
THEOREM NeverMisread == Spec => []ReaderNeverMisreads
<1>1. ASSUME LayoutInv PROVE ReaderNeverMisreads
  <2> SUFFICES ASSUME reader.step = "open", reader.since = builds
               PROVE  NothingMisread(reader.data, input)
    BY DEF ReaderNeverMisreads
  <2> DEFINE f == reader.data
  <2>1. f \in Bytes /\ disk # NoFile /\ Prefix(f, disk)
    BY <1>1 DEF LayoutInv, Read, TypeOK
  <2>2. disk \in Bytes /\ buffer.bytes \in Bytes /\ Prefix(disk, buffer.bytes)
    BY <1>1, <2>1 DEF LayoutInv, Stored, TypeOK
  <2> HIDE DEF f
  <2>3. Len(f) \in Nat /\ Len(disk) \in Nat
    BY <2>1, <2>2 DEF Bytes
  <2>4. CASE Len(f) = 0
    BY <2>4, NothingOpened DEF NothingMisread, f
  <2>5. CASE Len(f) # 0
    <3>1. Len(disk) # 0
      BY <2>1, <2>3, <2>5 DEF Prefix
    <3>2. Complete
      BY <1>1, <2>1, <3>1 DEF LayoutInv, Stored
    <3>3. Prefix(f, buffer.bytes)
      BY <2>1, <2>2, PrefixOfPrefix
    <3> QED
      BY <1>1, <2>1, <3>2, <3>3, PrefixReads DEF f
  <2> QED
    BY <2>4, <2>5
<1> QED
  BY <1>1, LayoutInvariant, PTL
=============================================================================
