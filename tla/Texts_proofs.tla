---------------------------- MODULE Texts_proofs ----------------------------
(***************************************************************************)
(* A JSON value as a text and back, for every text, any depth and any       *)
(* indentation: the two passes over a string agree, a dump without          *)
(* indentation is one line, and what is dumped of a value is read as that    *)
(* value again.  And the calculator: every expression, however deep, is      *)
(* calculated to what it means.                                             *)
(*                                                                          *)
(* The parsers and the writer are recursive functions.  That each has a     *)
(* solution, and so satisfies its equation, is proved first, from the ranks *)
(* of what the recursion asks for.                                          *)
(***************************************************************************)
EXTENDS JsonText, Calculator, SequenceFacts

-----------------------------------------------------------------------------
(* Recursions.                                                              *)

\* f has, on every element of a rank below n, the value that G gives it.
SolvesBelow(f, S, rank, G, n) ==
    \A x \in S : rank[x] < n => f[x] = G[<<f, x>>]

\* G asks f only for elements of a lower rank.
AsksBelow(S, V, rank, G) ==
    \A f, g \in [S -> V] : \A x \in S :
       (\A y \in S : rank[y] < rank[x] => f[y] = g[y]) => G[<<f, x>>] = G[<<g, x>>]

\* f is what G makes of it.
Solves(f, S, G) == \A x \in S : f[x] = G[<<f, x>>]

\* A recursion that asks only for elements of a lower rank has a solution.
LEMMA Recursion ==
    ASSUME NEW S, NEW V, NEW v0 \in V,
           NEW rank \in [S -> Nat], NEW G \in [[S -> V] \X S -> V],
           AsksBelow(S, V, rank, G)
    PROVE  \E f \in [S -> V] : Solves(f, S, G)
<1>0. ASSUME NEW f \in [S -> V], NEW g \in [S -> V], NEW x \in S,
             \A y \in S : rank[y] < rank[x] => f[y] = g[y]
      PROVE  G[<<f, x>>] = G[<<g, x>>]
  BY <1>0 DEF AsksBelow
<1> DEFINE Sol(n) == {f \in [S -> V] : SolvesBelow(f, S, rank, G, n)}
<1>1. \A n \in Nat : Sol(n) # {}
  <2> DEFINE Without == {n \in Nat : Sol(n) = {}}
  <2> SUFFICES ASSUME Without # {}
               PROVE  FALSE
    OBVIOUS
  <2>1. PICK n \in Without : \A k \in Without : n <= k
    BY Smallest
  <2>2. n # 0
    <3>1. [x \in S |-> v0] \in Sol(0)
      BY DEF SolvesBelow
    <3> QED
      BY <2>1, <3>1
  <2>3. n - 1 \in Nat /\ n - 1 \notin Without
    BY <2>1, <2>2
  <2>4. PICK f \in [S -> V] : SolvesBelow(f, S, rank, G, n - 1)
    BY <2>3
  <2> DEFINE g == [x \in S |-> IF rank[x] < n - 1 THEN f[x] ELSE G[<<f, x>>]]
  <2>5. g \in [S -> V]
    OBVIOUS
  <2>6. \A x \in S : rank[x] < n - 1 => g[x] = f[x]
    OBVIOUS
  <2>7. \A x \in S : ~(rank[x] < n - 1) => g[x] = G[<<f, x>>]
    OBVIOUS
  <2> HIDE DEF g
  <2>8. SolvesBelow(g, S, rank, G, n)
    <3> SUFFICES ASSUME NEW x \in S, rank[x] < n
                 PROVE  g[x] = G[<<g, x>>]
      BY DEF SolvesBelow
    <3>1. \A y \in S : rank[y] < rank[x] => g[y] = f[y]
      <4> SUFFICES ASSUME NEW y \in S, rank[y] < rank[x]
                   PROVE  g[y] = f[y]
        OBVIOUS
      <4>1. rank[y] \in Nat /\ rank[x] \in Nat /\ n \in Nat
        BY <2>1
      <4>2. rank[y] < n - 1
        BY <4>1
      <4> QED
        BY <2>6, <4>2
    <3>2. G[<<g, x>>] = G[<<f, x>>]
      BY <1>0, <2>5, <3>1
    <3>3. CASE rank[x] < n - 1
      BY <2>4, <2>6, <3>2, <3>3 DEF SolvesBelow
    <3> QED
      BY <2>7, <3>2, <3>3
  <2> QED
    BY <2>1, <2>5, <2>8
<1>2. \A n, m \in Nat : \A f \in Sol(n), g \in Sol(m) : \A x \in S :
         rank[x] < n /\ rank[x] < m => f[x] = g[x]
  <2> SUFFICES ASSUME NEW n \in Nat, NEW m \in Nat, NEW f \in Sol(n), NEW g \in Sol(m)
               PROVE  \A x \in S : rank[x] < n /\ rank[x] < m => f[x] = g[x]
    OBVIOUS
  <2> DEFINE D == {x \in S : rank[x] < n /\ rank[x] < m /\ f[x] # g[x]}
             R == {rank[x] : x \in D}
  <2> SUFFICES ASSUME D # {}
               PROVE  FALSE
    OBVIOUS
  <2>1. R \subseteq Nat /\ R # {}
    <3>1. \A x \in D : rank[x] \in Nat
      OBVIOUS
    <3> HIDE DEF D
    <3> QED
      BY <3>1
  <2>2. PICK r \in R : \A k \in R : r <= k
    BY <2>1, Smallest
  <2>3. PICK x \in D : r = rank[x]
    BY <2>2
  <2>4. \A y \in S : rank[y] < rank[x] => f[y] = g[y]
    <3> SUFFICES ASSUME NEW y \in S, rank[y] < rank[x], f[y] # g[y]
                 PROVE  FALSE
      OBVIOUS
    <3>1. rank[y] \in Nat /\ rank[x] \in Nat
      OBVIOUS
    <3>2. y \in D
      BY <3>1
    <3>3. rank[x] <= rank[y]
      BY <2>2, <2>3, <3>2
    <3> QED
      BY <3>1, <3>3
  <2>5. G[<<f, x>>] = G[<<g, x>>]
    BY <1>0, <2>4
  <2> QED
    BY <2>5 DEF SolvesBelow
<1> DEFINE pick == [n \in Nat |-> CHOOSE f \in Sol(n) : TRUE]
<1>3. \A n \in Nat : pick[n] \in Sol(n)
  BY <1>1
<1> HIDE DEF pick
<1> DEFINE F == [x \in S |-> pick[rank[x] + 1][x]]
<1>4. F \in [S -> V]
  <2> SUFFICES ASSUME NEW x \in S
               PROVE  pick[rank[x] + 1][x] \in V
    OBVIOUS
  <2>1. rank[x] + 1 \in Nat
    OBVIOUS
  <2> QED
    BY <1>3, <2>1
<1>5. ASSUME NEW x \in S
      PROVE  F[x] = G[<<F, x>>]
  <2> DEFINE n == rank[x] + 1
  <2>1. n \in Nat /\ rank[x] < n /\ pick[n] \in Sol(n)
    BY <1>3
  <2>2. \A y \in S : rank[y] < rank[x] => F[y] = pick[n][y]
    <3> SUFFICES ASSUME NEW y \in S, rank[y] < rank[x]
                 PROVE  F[y] = pick[n][y]
      OBVIOUS
    <3>1. /\ rank[y] + 1 \in Nat /\ rank[y] < rank[y] + 1 /\ rank[y] < n
          /\ pick[rank[y] + 1] \in Sol(rank[y] + 1)
      BY <1>3
    <3>2. pick[rank[y] + 1][y] = pick[n][y]
      BY <1>2, <2>1, <3>1
    <3> QED
      BY <3>2
  <2>3. G[<<F, x>>] = G[<<pick[n], x>>]
    BY <1>0, <1>4, <2>1, <2>2
  <2>4. F[x] = pick[n][x]
    OBVIOUS
  <2>5. pick[n][x] = G[<<pick[n], x>>]
    BY <2>1 DEF SolvesBelow
  <2> QED
    BY <2>3, <2>4, <2>5
<1> QED
  BY <1>4, <1>5 DEF Solves

\* Of the elements of a set one has a rank below which there is none.
LEMMA LeastRank ==
    ASSUME NEW S, NEW rank \in [S -> Nat], NEW D, D \subseteq S, D # {}
    PROVE  \E x \in D : \A y \in S : rank[y] < rank[x] => y \notin D
<1> DEFINE R == {rank[x] : x \in D}
<1>1. R \subseteq Nat /\ R # {}
  OBVIOUS
<1>2. PICK r \in R : \A k \in R : r <= k
  BY <1>1, Smallest
<1>3. PICK x \in D : r = rank[x]
  BY <1>2
<1>4. ASSUME NEW y \in S, rank[y] < rank[x], y \in D
      PROVE  FALSE
  <2>1. rank[y] \in Nat /\ rank[x] \in Nat /\ rank[y] \in R
    BY <1>4
  <2>2. rank[x] <= rank[y]
    BY <1>2, <1>3, <2>1
  <2> QED
    BY <1>4, <2>1, <2>2
<1> QED
  BY <1>3, <1>4

-----------------------------------------------------------------------------
(* Sequences put behind each other.                                         *)

\* Where each of them begins.
Offsets(ss, w, off) ==
    /\ off \in [0 .. Len(ss) -> Nat]
    /\ off[0] = 0 /\ off[Len(ss)] = Len(w)
    /\ \A i \in 1 .. Len(ss) :
          /\ off[i] = off[i - 1] + Len(ss[i])
          /\ \A k \in 1 .. Len(ss[i]) : w[off[i - 1] + k] = ss[i][k]

\* Of no sequences the offsets are clear.
LEMMA OffsetsEmpty ==
    ASSUME NEW ss, NEW w, Len(ss) = 0, Len(w) = 0
    PROVE  Offsets(ss, w, [i \in {0} |-> 0])
<1>1. 0 .. 0 = {0} /\ 1 .. 0 = {}
  OBVIOUS
<1> QED
  BY <1>1 DEF Offsets

\* One more sequence at the end.
LEMMA OffsetsAppend ==
    ASSUME NEW S, NEW ss \in Seq(Seq(S)), NEW w \in Seq(S), NEW off, Offsets(ss, w, off),
           NEW s \in Seq(S)
    PROVE  \E next : Offsets(Append(ss, s), w \o s, next)
<1> DEFINE n == Len(ss)
           all == Append(ss, s)
           next == [i \in 0 .. n + 1 |-> IF i = n + 1 THEN Len(w) + Len(s) ELSE off[i]]
           v == w \o s
<1>1. /\ n \in Nat /\ Len(w) \in Nat /\ Len(s) \in Nat
      /\ off \in [0 .. n -> Nat] /\ off[0] = 0 /\ off[n] = Len(w)
  BY LenProperties DEF Offsets
<1>2. /\ Len(all) = n + 1 /\ all[n + 1] = s
      /\ \A i \in 1 .. n : all[i] = ss[i]
  BY AppendProperties
<1>3. /\ Len(v) = Len(w) + Len(s)
      /\ \A k \in 1 .. Len(w) : v[k] = w[k]
      /\ \A k \in 1 .. Len(s) : v[Len(w) + k] = s[k]
  <2>1. /\ Len(v) = Len(w) + Len(s)
        /\ \A i \in 1 .. Len(w) + Len(s) : v[i] = IF i <= Len(w) THEN w[i] ELSE s[i - Len(w)]
    BY ConcatProperties
  <2> HIDE DEF v
  <2> SUFFICES ASSUME NEW k \in 1 .. Len(s)
               PROVE  v[Len(w) + k] = s[k]
    BY <1>1, <2>1
  <2>2. /\ Len(w) + k \in 1 .. Len(w) + Len(s) /\ ~(Len(w) + k <= Len(w))
        /\ (Len(w) + k) - Len(w) = k
    BY <1>1
  <2> QED
    BY <2>1, <2>2
<1> HIDE DEF n, all, v
<1>4. /\ next \in [0 .. n + 1 -> Nat] /\ next[0] = 0 /\ next[n + 1] = Len(w) + Len(s)
      /\ \A i \in 0 .. n : next[i] = off[i]
  BY <1>1
<1> HIDE DEF next
<1>5. ASSUME NEW i \in 1 .. n
      PROVE  /\ next[i] = next[i - 1] + Len(all[i])
             /\ \A k \in 1 .. Len(all[i]) : v[next[i - 1] + k] = all[i][k]
  <2>1. /\ i \in 0 .. n /\ i - 1 \in 0 .. n /\ all[i] = ss[i]
        /\ next[i] = off[i] /\ next[i - 1] = off[i - 1]
    BY <1>1, <1>2, <1>4
  <2>2. /\ off[i] = off[i - 1] + Len(ss[i])
        /\ \A k \in 1 .. Len(ss[i]) : w[off[i - 1] + k] = ss[i][k]
    BY DEF Offsets, n
  <2>3. ss[i] \in Seq(S) /\ Len(ss[i]) \in Nat
    BY ElementOfSeq, LenProperties DEF n
  <2>4. off[i] <= Len(w)
    <3> DEFINE Over == {j \in 0 .. n : ~(off[j] <= Len(w))}
               Back == {n - j : j \in Over}
    <3> SUFFICES ASSUME Over # {}
                 PROVE  FALSE
      BY <2>1
    <3>1. Back \subseteq Nat /\ Back # {}
      BY <1>1
    <3>2. PICK b \in Back : \A c \in Back : b <= c
      BY <3>1, Smallest
    <3>3. PICK j \in Over : b = n - j
      BY <3>2
    <3>4. j \in 0 .. n /\ j # n /\ ~(off[j] <= Len(w))
      BY <1>1, <3>3
    <3>5. j + 1 \in 1 .. n /\ j + 1 \in 0 .. n /\ (j + 1) - 1 = j
      BY <1>1, <3>4
    <3>6. off[j + 1] = off[j] + Len(ss[j + 1])
      BY <3>5 DEF Offsets, n
    <3>7. Len(ss[j + 1]) \in Nat
      BY <3>5, ElementOfSeq, LenProperties DEF n
    <3>8. off[j] \in Nat /\ off[j + 1] \in Nat
      BY <1>1, <3>4, <3>5
    <3>9. j + 1 \in Over
      <4>1. Len(w) \in Nat /\ ~(off[j] + Len(ss[j + 1]) <= Len(w))
        <5> DEFINE a == off[j]
                   d == Len(ss[j + 1])
                   c == Len(w)
        <5>1. a \in Nat /\ d \in Nat /\ c \in Nat /\ ~(a <= c)
          BY <1>1, <3>4, <3>7, <3>8
        <5> HIDE DEF a, d, c
        <5>2. ~(a + d <= c)
          BY <5>1
        <5> QED
          BY <1>1, <5>2 DEF a, d, c
      <4>2. ~(off[j + 1] <= Len(w))
        BY <3>6, <4>1
      <4> QED
        BY <3>5, <4>2
    <3>10. b <= n - (j + 1)
      BY <3>2, <3>9
    <3> QED
      BY <1>1, <3>3, <3>4, <3>10
  <2>5. ASSUME NEW k \in 1 .. Len(ss[i])
        PROVE  v[off[i - 1] + k] = ss[i][k]
    <3>1. off[i - 1] \in Nat /\ off[i - 1] + k \in 1 .. Len(w)
      <4> DEFINE a == off[i - 1]
                 b == Len(ss[i])
                 c == Len(w)
      <4>1. a \in Nat /\ b \in Nat /\ c \in Nat /\ a + b <= c /\ k \in 1 .. b
        BY <1>1, <2>1, <2>2, <2>3, <2>4
      <4> HIDE DEF a, b, c
      <4>2. a + k \in 1 .. c
        BY <4>1
      <4> QED
        BY <4>1, <4>2 DEF a, b, c
    <3> QED
      BY <1>3, <2>2, <3>1
  <2> QED
    BY <2>1, <2>2, <2>5
<1>6. /\ next[n + 1] = next[(n + 1) - 1] + Len(all[n + 1])
      /\ \A k \in 1 .. Len(all[n + 1]) : v[next[(n + 1) - 1] + k] = all[n + 1][k]
  <2>1. (n + 1) - 1 = n /\ n \in 0 .. n
    BY <1>1
  <2>2. next[(n + 1) - 1] = Len(w)
    BY <1>1, <1>4, <2>1
  <2> QED
    BY <1>2, <1>3, <1>4, <2>2
<1>7. Offsets(all, v, next)
  <2>1. Len(all) = n + 1 /\ next[Len(all)] = Len(v)
    BY <1>2, <1>3, <1>4
  <2> SUFFICES ASSUME NEW i \in 1 .. n + 1
               PROVE  /\ next[i] = next[i - 1] + Len(all[i])
                      /\ \A k \in 1 .. Len(all[i]) : v[next[i - 1] + k] = all[i][k]
    BY <1>4, <2>1 DEF Offsets
  <2>2. i = n + 1 \/ i \in 1 .. n
    BY <1>1
  <2>3. CASE i = n + 1
    BY <1>6, <2>3
  <2> QED
    BY <1>5, <2>2, <2>3
<1> QED
  BY <1>7 DEF all, v

\* The recursion of FlattenSeq has a solution.
LEMMA FlattenSolved ==
    ASSUME NEW S, NEW ss \in Seq(Seq(S)), ss # <<>>
    PROVE  \E f \in [1 .. Len(ss) -> Seq(S)] :
              /\ FlattenSeq(ss) = f[Len(ss)]
              /\ \A i \in 1 .. Len(ss) : f[i] = IF i = 1 THEN ss[i] ELSE f[i - 1] \o ss[i]
<1> DEFINE n == Len(ss)
           I == 1 .. n
           V == Seq(S)
           rank == [i \in I |-> i]
           G == [a \in [I -> V] \X I |-> IF a[2] = 1 THEN ss[a[2]] ELSE a[1][a[2] - 1] \o ss[a[2]]]
           Def(f) == f = [i \in I |-> IF i = 1 THEN ss[i] ELSE f[i - 1] \o ss[i]]
<1>1. n \in Nat /\ n # 0 /\ \A i \in I : ss[i] \in V
  BY ElementOfSeq, LenProperties, EmptySeq
<1>2. <<>> \in V /\ rank \in [I -> Nat]
  BY <1>1
<1>3. ASSUME NEW f \in [I -> V], NEW i \in I
      PROVE  G[<<f, i>>] = IF i = 1 THEN ss[i] ELSE f[i - 1] \o ss[i]
  OBVIOUS
<1>4. G \in [[I -> V] \X I -> V]
  <2> SUFFICES ASSUME NEW f \in [I -> V], NEW i \in I
               PROVE  (IF i = 1 THEN ss[i] ELSE f[i - 1] \o ss[i]) \in V
    OBVIOUS
  <2>1. CASE i # 1
    <3>1. i - 1 \in I
      BY <1>1, <2>1
    <3>2. f[i - 1] \in V /\ ss[i] \in V
      BY <1>1, <3>1
    <3> QED
      BY <2>1, <3>2, ConcatProperties
  <2> QED
    BY <1>1, <2>1
<1>5. ASSUME NEW f \in [I -> V], NEW g \in [I -> V], NEW i \in I,
             \A j \in I : rank[j] < rank[i] => f[j] = g[j]
      PROVE  G[<<f, i>>] = G[<<g, i>>]
  <2>1. i # 1 => i - 1 \in I /\ rank[i - 1] < rank[i]
    BY <1>1
  <2>2. i # 1 => f[i - 1] = g[i - 1]
    BY <1>5, <2>1
  <2>3. /\ G[<<f, i>>] = IF i = 1 THEN ss[i] ELSE f[i - 1] \o ss[i]
        /\ G[<<g, i>>] = IF i = 1 THEN ss[i] ELSE g[i - 1] \o ss[i]
    BY <1>3
  <2> HIDE DEF G, V, rank, I
  <2> QED
    BY <2>2, <2>3
<1>6. AsksBelow(I, V, rank, G)
  <2> HIDE DEF G, rank, V, I
  <2> QED
    BY <1>5 DEF AsksBelow
<1> HIDE DEF G, rank, V, I
<1>60. PICK f \in [I -> V] : Solves(f, I, G)
  BY <1>2, <1>4, <1>6, Recursion
<1>7. \A i \in I : f[i] = IF i = 1 THEN ss[i] ELSE f[i - 1] \o ss[i]
  BY <1>3, <1>60 DEF Solves
<1>8. Def(f)
  BY <1>7
<1>9. \A h : Def(h) => h = f
  <2> SUFFICES ASSUME NEW h, Def(h), h # f
               PROVE  FALSE
    OBVIOUS
  <2>1. \A i \in I : h[i] = IF i = 1 THEN ss[i] ELSE h[i - 1] \o ss[i]
    OBVIOUS
  <2> DEFINE D == {i \in I : h[i] # f[i]}
  <2>2. D # {}
    <3>1. h = [i \in I |-> h[i]]
      OBVIOUS
    <3>2. f = [i \in I |-> f[i]]
      OBVIOUS
    <3> QED
      BY <3>1, <3>2
  <2>3. D \subseteq Nat
    <3>1. I \subseteq Nat
      BY <1>1 DEF I
    <3>2. D \subseteq I
      OBVIOUS
    <3> QED
      BY <3>1, <3>2
  <2>4. PICK i \in D : \A j \in D : i <= j
    BY <2>2, <2>3, Smallest
  <2>5. i \in I /\ (i # 1 => i - 1 \in I /\ ~(i <= i - 1))
    BY <1>1, <2>4 DEF I
  <2>6. i # 1 => h[i - 1] = f[i - 1]
    BY <2>4, <2>5
  <2>7. /\ h[i] = IF i = 1 THEN ss[i] ELSE h[i - 1] \o ss[i]
        /\ f[i] = IF i = 1 THEN ss[i] ELSE f[i - 1] \o ss[i]
    BY <1>7, <2>1, <2>5
  <2>8. h[i] # f[i]
    BY <2>4
  <2> QED
    BY <2>6, <2>7, <2>8
<1>10. (CHOOSE h : Def(h)) = f
  BY <1>8, <1>9
<1>11. FlattenSeq(ss) = f[n]
  BY <1>1, <1>10 DEF FlattenSeq, I
<1> QED
  BY <1>7, <1>11 DEF I, V

\* What FlattenSeq returns.
LEMMA FlattenParts ==
    ASSUME NEW S, NEW ss \in Seq(Seq(S))
    PROVE  /\ FlattenSeq(ss) \in Seq(S)
           /\ \E off : Offsets(ss, FlattenSeq(ss), off)
<1>1. CASE ss = <<>>
  <2>1. Len(ss) = 0 /\ FlattenSeq(ss) = ss /\ ss \in Seq(S)
    BY <1>1 DEF FlattenSeq
  <2>2. Offsets(ss, ss, [i \in {0} |-> 0])
    BY <2>1, OffsetsEmpty
  <2> QED
    BY <2>1, <2>2
<1>2. CASE ss # <<>>
  <2> DEFINE n == Len(ss)
  <2>1. n \in Nat /\ n # 0 /\ \A i \in 1 .. n : ss[i] \in Seq(S)
    BY <1>2, ElementOfSeq, LenProperties, EmptySeq
  <2>2. PICK f \in [1 .. n -> Seq(S)] :
           /\ FlattenSeq(ss) = f[n]
           /\ \A i \in 1 .. n : f[i] = IF i = 1 THEN ss[i] ELSE f[i - 1] \o ss[i]
    BY <1>2, FlattenSolved
  <2> DEFINE upTo(i) == SubSeq(ss, 1, i)
             Failing == {i \in 1 .. n : ~\E off : Offsets(upTo(i), f[i], off)}
  <2>3. ASSUME NEW i \in 1 .. n
        PROVE  /\ upTo(i) \in Seq(Seq(S)) /\ Len(upTo(i)) = i
               /\ \A j \in 1 .. i : upTo(i)[j] = ss[j]
    BY <2>1, SubSeqProperties
  <2>4. Failing = {}
    <3> SUFFICES ASSUME Failing # {}
                 PROVE  FALSE
      OBVIOUS
    <3>1. PICK i \in Failing : \A j \in Failing : i <= j
      <4>1. Failing \subseteq 1 .. n
        OBVIOUS
      <4>2. Failing \subseteq Nat
        BY <2>1, <4>1
      <4> HIDE DEF Failing
      <4> QED
        BY <4>2, Smallest
    <3>2. i \in 1 .. n /\ f[i] \in Seq(S) /\ ss[i] \in Seq(S)
      BY <2>1
    <3>3. CASE i = 1
      <4>1. upTo(1) = Append(<<>>, ss[1])
        <5> DEFINE b == Append(<<>>, ss[1])
        <5>1. <<>> \in Seq(Seq(S)) /\ Len(<<>>) = 0
          OBVIOUS
        <5>2. b \in Seq(Seq(S)) /\ Len(b) = 0 + 1 /\ b[0 + 1] = ss[1]
          BY <3>2, <3>3, <5>1, AppendProperties
        <5>3. upTo(1) \in Seq(Seq(S)) /\ Len(upTo(1)) = 1 /\ upTo(1)[1] = ss[1]
          BY <2>3, <3>2, <3>3
        <5> HIDE DEF b, upTo
        <5>4. \A k \in 1 .. 1 : upTo(1)[k] = b[k]
          BY <5>2, <5>3
        <5>5. upTo(1) = b
          BY <5>2, <5>3, <5>4, SeqEqual
        <5> QED
          BY <5>5 DEF b
      <4>2. f[1] = <<>> \o ss[1]
        <5>1. f[1] = ss[1] /\ ss[1] \in Seq(S)
          BY <2>2, <3>2, <3>3
        <5> QED
          BY <5>1, ConcatEmptySeq
      <4>3. \E off : Offsets(Append(<<>>, ss[1]), <<>> \o ss[1], off)
        <5> DEFINE e == <<>>
        <5>1. Len(e) = 0 /\ e \in Seq(S) /\ e \in Seq(Seq(S)) /\ ss[1] \in Seq(S)
          BY <3>2, <3>3
        <5> HIDE DEF e
        <5>2. Offsets(e, e, [j \in {0} |-> 0])
          BY <5>1, OffsetsEmpty
        <5>3. \E off : Offsets(Append(e, ss[1]), e \o ss[1], off)
          BY <5>1, <5>2, OffsetsAppend
        <5> QED
          BY <5>3 DEF e
      <4> QED
        BY <3>1, <3>3, <4>1, <4>2, <4>3
    <3>4. CASE i # 1
      <4>1. i - 1 \in 1 .. n /\ ~(i <= i - 1) /\ i = (i - 1) + 1
        BY <2>1, <3>2, <3>4
      <4>2. PICK off : Offsets(upTo(i - 1), f[i - 1], off)
        BY <3>1, <4>1
      <4>3. f[i] = f[i - 1] \o ss[i] /\ f[i - 1] \in Seq(S)
        BY <2>2, <3>2, <3>4, <4>1
      <4>4. upTo(i) = Append(upTo(i - 1), ss[i])
        <5> DEFINE b == Append(upTo(i - 1), ss[i])
        <5>1. b \in Seq(Seq(S)) /\ Len(b) = (i - 1) + 1 /\ b[(i - 1) + 1] = ss[i]
              /\ \A j \in 1 .. i - 1 : b[j] = upTo(i - 1)[j]
          BY <2>3, <3>2, <4>1, AppendProperties
        <5>2. upTo(i - 1) \in Seq(Seq(S)) /\ \A j \in 1 .. i - 1 : upTo(i - 1)[j] = ss[j]
          BY <2>3, <4>1
        <5>3. upTo(i) \in Seq(Seq(S)) /\ Len(upTo(i)) = i /\ \A j \in 1 .. i : upTo(i)[j] = ss[j]
          BY <2>3, <3>2
        <5> HIDE DEF b, upTo
        <5>4. \A j \in 1 .. i : upTo(i)[j] = b[j]
          <6> SUFFICES ASSUME NEW j \in 1 .. i
                       PROVE  upTo(i)[j] = b[j]
            OBVIOUS
          <6>1. j = i \/ j \in 1 .. i - 1
            BY <4>1
          <6> QED
            BY <4>1, <5>1, <5>2, <5>3, <6>1
        <5>5. upTo(i) = b
          BY <4>1, <5>1, <5>3, <5>4, SeqEqual
        <5> QED
          BY <5>5 DEF b
      <4>5. upTo(i - 1) \in Seq(Seq(S))
        BY <2>3, <4>1
      <4>6. \E o : Offsets(Append(upTo(i - 1), ss[i]), f[i - 1] \o ss[i], o)
        <5> HIDE DEF upTo
        <5> QED
          BY <3>2, <4>2, <4>3, <4>5, OffsetsAppend
      <4> QED
        BY <3>1, <4>3, <4>4, <4>6
    <3> QED
      BY <3>3, <3>4
  <2>5. upTo(n) = ss
    <3>1. n \in 1 .. n
      BY <2>1
    <3>2. upTo(n) \in Seq(Seq(S)) /\ Len(upTo(n)) = n /\ \A j \in 1 .. n : upTo(n)[j] = ss[j]
      BY <2>3, <3>1
    <3> HIDE DEF upTo
    <3> QED
      BY <3>2, SeqEqual
  <2>6. n \in 1 .. n
    BY <2>1
  <2> QED
    BY <2>2, <2>4, <2>5, <2>6
<1> QED
  BY <1>1, <1>2

\* What holds of a position when it holds of all behind it holds of all.
LEMMA Downward ==
    ASSUME NEW m \in Nat, NEW D, D \subseteq 1 .. m,
           \A p \in 1 .. m : (\A q \in p + 1 .. m : q \in D) => p \in D
    PROVE  D = 1 .. m
<1> DEFINE Out == {p \in 1 .. m : p \notin D}
           Back == {m - p : p \in Out}
<1> SUFFICES ASSUME Out # {}
             PROVE  FALSE
  OBVIOUS
<1>1. Back \subseteq Nat /\ Back # {}
  OBVIOUS
<1>2. PICK b \in Back : \A c \in Back : b <= c
  BY <1>1, Smallest
<1>3. PICK p \in Out : b = m - p
  BY <1>2
<1>4. PICK q \in p + 1 .. m : q \notin D
  BY <1>3
<1>5. q \in Out /\ m - q \in Back
  BY <1>3, <1>4
<1>6. m - p <= m - q
  BY <1>2, <1>3, <1>5
<1> QED
  BY <1>3, <1>4, <1>6

\* The bytes of a text, with the 0 behind it.
LEMMA AtFacts ==
    ASSUME NEW t \in Seq(Bytes), NEW p \in Int
    PROVE  /\ Len(t) \in Nat /\ Cursors(t) = 1 .. Len(t) + 1
           /\ At(t, p) \in 0 .. 255
           /\ At(t, p) # 0 <=> p \in 1 .. Len(t)
           /\ p \in 1 .. Len(t) => At(t, p) = t[p]
<1>1. Len(t) \in Nat /\ DOMAIN t = 1 .. Len(t)
  OBVIOUS
<1>2. \A i \in 1 .. Len(t) : t[i] \in 1 .. 255
  BY ElementOfSeq DEF Bytes
<1>3. Cursors(t) = 1 .. Len(t) + 1
  BY DEF Cursors
<1>4. CASE p \in 1 .. Len(t)
  <2>1. At(t, p) = t[p] /\ t[p] \in 1 .. 255
    BY <1>1, <1>2, <1>4 DEF At
  <2>2. At(t, p) \in 0 .. 255 /\ At(t, p) # 0
    <3> DEFINE b == At(t, p)
    <3>1. b \in 1 .. 255
      BY <2>1
    <3> HIDE DEF b
    <3>2. b \in 0 .. 255 /\ b # 0
      BY <3>1
    <3> QED
      BY <3>2 DEF b
  <2>3. Len(t) \in Nat
    BY <1>1
  <2> QED
    BY <1>3, <1>4, <2>1, <2>2, <2>3, Zenon
<1>5. CASE p \notin 1 .. Len(t)
  BY <1>1, <1>3, <1>5 DEF At
<1> QED
  BY <1>4, <1>5

-----------------------------------------------------------------------------
(* The first pass.                                                          *)

Scans(t) == [cursor : Cursors(t), escape : Nat, len : Nat]
Counts(t) == {Bad} \cup [ok : {TRUE}, escape : Nat, len : Nat, end : Cursors(t)]

\* A step of the first pass, which goes on with f.
CountStep(t, f, c) ==
    CASE At(t, c.cursor) = Quote ->
            [ok |-> TRUE, escape |-> c.escape, len |-> c.len, end |-> c.cursor]
      [] At(t, c.cursor) = Backslash /\ At(t, c.cursor + 1) # 0 ->
            f[[cursor |-> c.cursor + 2, escape |-> c.escape + 1, len |-> c.len + 1]]
      [] OTHER ->
            IF At(t, c.cursor) < 32 \/ At(t, c.cursor) = Backslash THEN Bad
            ELSE f[[cursor |-> c.cursor + 1, escape |-> c.escape, len |-> c.len + 1]]

\* The steps go forwards.
LEMMA CountForward ==
    ASSUME NEW t \in Seq(Bytes), NEW c \in Scans(t)
    PROVE  /\ At(t, c.cursor) \in 0 .. 255 /\ c.cursor \in Cursors(t) /\ c.cursor \in Nat
           /\ c.escape \in Nat /\ c.len \in Nat
           /\ At(t, c.cursor) = Backslash /\ At(t, c.cursor + 1) # 0
                 => [cursor |-> c.cursor + 2, escape |-> c.escape + 1, len |-> c.len + 1]
                        \in Scans(t)
           /\ ~(At(t, c.cursor) < 32)
                 => [cursor |-> c.cursor + 1, escape |-> c.escape, len |-> c.len + 1]
                        \in Scans(t)
<1>1. c.cursor \in Cursors(t) /\ c.escape \in Nat /\ c.len \in Nat
  BY DEF Scans
<1>2. /\ Len(t) \in Nat /\ Cursors(t) = 1 .. Len(t) + 1 /\ c.cursor \in Nat
  BY <1>1, AtFacts
<1>3. /\ At(t, c.cursor) \in 0 .. 255
      /\ At(t, c.cursor) # 0 <=> c.cursor \in 1 .. Len(t)
  BY <1>2, AtFacts
<1>4. At(t, c.cursor + 1) # 0 <=> c.cursor + 1 \in 1 .. Len(t)
  BY <1>2, AtFacts
<1>5. At(t, c.cursor + 1) # 0 => c.cursor + 2 \in Cursors(t)
  BY <1>1, <1>2, <1>4
<1>6. ~(At(t, c.cursor) < 32) => c.cursor + 1 \in Cursors(t)
  BY <1>1, <1>2, <1>3
<1> QED
  BY <1>1, <1>2, <1>3, <1>5, <1>6 DEF Scans

\* The first pass is a function of the cursor and of what was counted before
\* (JsonParser.c:65-98): the recursion always goes forwards.
LEMMA CountSolved ==
    ASSUME NEW t \in Seq(Bytes)
    PROVE  /\ json_string_length(t) \in [Scans(t) -> Counts(t)]
           /\ \A c \in Scans(t) :
                 json_string_length(t)[c] = CountStep(t, json_string_length(t), c)
<1> DEFINE S == Scans(t)
           V == Counts(t)
           m == Len(t) + 1
           rank == [c \in S |-> m - c.cursor]
           G == [a \in [S -> V] \X S |-> CountStep(t, a[1], a[2])]
<1>1. Bad \in V
  BY DEF Counts
<1>2. rank \in [S -> Nat] /\ \A c \in S : rank[c] = m - c.cursor
  <2> SUFFICES ASSUME NEW c \in S
               PROVE  m - c.cursor \in Nat
    OBVIOUS
  <2>1. c.cursor \in Cursors(t)
    BY DEF Scans
  <2> QED
    BY <2>1 DEF Cursors
<1>3. ASSUME NEW f \in [S -> V], NEW c \in S
      PROVE  CountStep(t, f, c) \in V
  <2>1. CASE At(t, c.cursor) = Quote
    BY <2>1, CountForward DEF CountStep, Counts
  <2>2. CASE At(t, c.cursor) # Quote /\ At(t, c.cursor) = Backslash /\ At(t, c.cursor + 1) # 0
    <3> DEFINE d == [cursor |-> c.cursor + 2, escape |-> c.escape + 1, len |-> c.len + 1]
    <3>1. d \in S
      BY <2>2, CountForward
    <3>2. CountStep(t, f, c) = f[d]
      BY <2>2 DEF CountStep
    <3> HIDE DEF d, S, V
    <3> QED
      BY <3>1, <3>2
  <2>3. CASE /\ At(t, c.cursor) # Quote
             /\ ~(At(t, c.cursor) = Backslash /\ At(t, c.cursor + 1) # 0)
    <3>1. CASE At(t, c.cursor) < 32 \/ At(t, c.cursor) = Backslash
      BY <2>3, <3>1, <1>1 DEF CountStep
    <3>2. CASE ~(At(t, c.cursor) < 32 \/ At(t, c.cursor) = Backslash)
      <4> DEFINE d == [cursor |-> c.cursor + 1, escape |-> c.escape, len |-> c.len + 1]
      <4>1. d \in S
        BY <3>2, CountForward
      <4>2. CountStep(t, f, c) = f[d]
        BY <2>3, <3>2 DEF CountStep
      <4> HIDE DEF d, S, V
      <4> QED
        BY <4>1, <4>2
    <3> QED
      BY <3>1, <3>2
  <2> QED
    BY <2>1, <2>2, <2>3
<1>4. G \in [[S -> V] \X S -> V]
      /\ \A f \in [S -> V] : \A c \in S : G[<<f, c>>] = CountStep(t, f, c)
  <2> HIDE DEF S, V
  <2> QED
    BY <1>3
<1>5. ASSUME NEW f, NEW g, NEW c \in S,
             \A d \in S : rank[d] < rank[c] => f[d] = g[d]
      PROVE  CountStep(t, f, c) = CountStep(t, g, c)
  <2> DEFINE d1 == [cursor |-> c.cursor + 1, escape |-> c.escape, len |-> c.len + 1]
             d2 == [cursor |-> c.cursor + 2, escape |-> c.escape + 1, len |-> c.len + 1]
  <2>1. c.cursor \in Nat /\ m \in Nat
    <3>1. c.cursor \in Cursors(t)
      BY DEF Scans
    <3> QED
      BY <3>1 DEF Cursors
  <2>2. At(t, c.cursor) = Backslash /\ At(t, c.cursor + 1) # 0 => f[d2] = g[d2]
    <3> SUFFICES ASSUME d2 \in S
                 PROVE  f[d2] = g[d2]
      BY CountForward
    <3>1. d2.cursor = c.cursor + 2 /\ rank[d2] < rank[c]
      BY <1>2, <2>1
    <3> QED
      BY <1>5, <3>1
  <2>3. ~(At(t, c.cursor) < 32) => f[d1] = g[d1]
    <3> SUFFICES ASSUME d1 \in S
                 PROVE  f[d1] = g[d1]
      BY CountForward
    <3>1. d1.cursor = c.cursor + 1 /\ rank[d1] < rank[c]
      BY <1>2, <2>1
    <3> QED
      BY <1>5, <3>1
  <2> HIDE DEF S, V, rank, G
  <2> QED
    BY <2>2, <2>3 DEF CountStep
<1>6. AsksBelow(S, V, rank, G)
  <2> HIDE DEF S, V, rank, G
  <2> SUFFICES ASSUME NEW f \in [S -> V], NEW g \in [S -> V], NEW c \in S,
                      \A d \in S : rank[d] < rank[c] => f[d] = g[d]
               PROVE  G[<<f, c>>] = G[<<g, c>>]
    BY DEF AsksBelow
  <2>1. CountStep(t, f, c) = CountStep(t, g, c)
    BY <1>5
  <2> QED
    BY <1>4, <2>1
<1>7. json_string_length(t) = CHOOSE f : f = [c \in S |-> CountStep(t, f, c)]
  BY DEF json_string_length, CountStep, Scans
<1> HIDE DEF S, V, rank, G
<1>8. PICK f \in [S -> V] : Solves(f, S, G)
  BY <1>1, <1>2, <1>4, <1>6, Recursion
<1>9. f = [c \in S |-> CountStep(t, f, c)]
  BY <1>4, <1>8 DEF Solves
<1>10. \E h : h = [c \in S |-> CountStep(t, h, c)]
  BY <1>9
<1> DEFINE l == json_string_length(t)
<1>11. l = [c \in S |-> CountStep(t, l, c)]
  BY <1>7, <1>10
<1> HIDE DEF l
<1>12. \A c \in S : l[c] = CountStep(t, l, c)
  BY <1>11
<1> DEFINE D == {c \in S : l[c] # f[c]}
<1>13. D = {}
  <2> SUFFICES ASSUME D # {}
               PROVE  FALSE
    OBVIOUS
  <2>1. D \subseteq S
    OBVIOUS
  <2>2. PICK c \in D : \A d \in S : rank[d] < rank[c] => d \notin D
    <3> HIDE DEF D
    <3> QED
      BY <1>2, <2>1, LeastRank
  <2>3. \A d \in S : rank[d] < rank[c] => l[d] = f[d]
    BY <2>2
  <2>4. c \in S /\ l[c] # f[c]
    BY <2>2
  <2>5. CountStep(t, l, c) = CountStep(t, f, c)
    BY <1>5, <2>3, <2>4
  <2> QED
    BY <1>9, <1>12, <2>4, <2>5
<1>14. \A c \in S : l[c] \in V
  BY <1>13
<1>15. l \in [S -> V]
  BY <1>11, <1>14
<1> QED
  BY <1>12, <1>15 DEF l, S, V

\* A count with what was counted before.
Longer(r, escape, len) ==
    IF r.ok
    THEN [ok |-> TRUE, escape |-> r.escape + escape, len |-> r.len + len, end |-> r.end]
    ELSE Bad

\* Counts are added up.
LEMMA LongerTwice ==
    ASSUME NEW t, NEW r \in Counts(t), NEW a \in Nat, NEW b \in Nat, NEW e \in Nat, NEW n \in Nat
    PROVE  /\ Longer(Longer(r, a, b), e, n) = Longer(r, e + a, n + b)
           /\ Longer(r, a, b) \in Counts(t)
<1>1. CASE r = Bad
  <2>1. ~Bad.ok
    BY DEF Bad
  <2> QED
    BY <1>1, <2>1 DEF Longer, Counts
<1>2. CASE r # Bad
  <2>1. r \in [ok : {TRUE}, escape : Nat, len : Nat, end : Cursors(t)]
    BY <1>2 DEF Counts
  <2>2. r.ok /\ r.escape \in Nat /\ r.len \in Nat /\ r.end \in Cursors(t)
    BY <2>1
  <2> DEFINE s == [ok |-> TRUE, escape |-> r.escape + a, len |-> r.len + b, end |-> r.end]
  <2>3. Longer(r, a, b) = s /\ s.ok /\ s.escape = r.escape + a /\ s.len = r.len + b
        /\ s.end = r.end
    BY <2>2 DEF Longer
  <2>4. /\ (r.escape + a) + e = r.escape + (e + a)
        /\ (r.len + b) + n = r.len + (n + b)
    BY <2>2
  <2>5. Longer(s, e, n) = [ok |-> TRUE, escape |-> (r.escape + a) + e,
                           len |-> (r.len + b) + n, end |-> r.end]
    BY <2>3 DEF Longer
  <2>6. Longer(r, e + a, n + b) = [ok |-> TRUE, escape |-> r.escape + (e + a),
                                   len |-> r.len + (n + b), end |-> r.end]
    BY <2>2 DEF Longer
  <2>7. s \in Counts(t)
    BY <2>2 DEF Counts
  <2> QED
    BY <2>3, <2>4, <2>5, <2>6, <2>7
<1> QED
  BY <1>1, <1>2

\* The first pass at the quote.
Reached(escape, len, p) == [ok |-> TRUE, escape |-> escape, len |-> len, end |-> p]

\* What the first pass distinguishes at a cursor.
Ends(t, p) == At(t, p) = Quote
Escapes(t, p) == At(t, p) = Backslash /\ At(t, p + 1) # 0
Plain(t, p) == At(t, p) >= 32 /\ At(t, p) \notin {Quote, Backslash}
Broken(t, p) == At(t, p) < 32 \/ (At(t, p) = Backslash /\ At(t, p + 1) = 0)

\* What can be at a cursor for the first pass.
LEMMA CursorCases ==
    ASSUME NEW t \in Seq(Bytes), NEW p \in Cursors(t)
    PROVE  /\ p \in Nat /\ Len(t) \in Nat /\ Cursors(t) = 1 .. Len(t) + 1
           /\ Ends(t, p) \/ Escapes(t, p) \/ Plain(t, p) \/ Broken(t, p)
           /\ Ends(t, p) => p + 1 \in Cursors(t)
           /\ Escapes(t, p) => p + 1 \in Cursors(t) /\ p + 2 \in Cursors(t)
           /\ Plain(t, p) => p + 1 \in Cursors(t)
<1>1. Len(t) \in Nat /\ Cursors(t) = 1 .. Len(t) + 1 /\ p \in Nat
  <2>1. Len(t) \in Nat /\ Cursors(t) = 1 .. Len(t) + 1
    BY LenProperties DEF Cursors
  <2> QED
    BY <2>1
<1>2. PICK b \in 0 .. 255 : b = At(t, p) /\ (b # 0 <=> p \in 1 .. Len(t))
  <2>1. p \in Int
    BY <1>1
  <2>2. At(t, p) \in 0 .. 255 /\ (At(t, p) # 0 <=> p \in 1 .. Len(t))
    BY <2>1, AtFacts
  <2> QED
    BY <2>2
<1>3. PICK c \in 0 .. 255 : c = At(t, p + 1) /\ (c # 0 <=> p + 1 \in 1 .. Len(t))
  <2>1. p + 1 \in Int
    BY <1>1
  <2> QED
    BY <2>1, AtFacts
<1>4. Quote = 34 /\ Backslash = 92
  BY DEF Quote, Backslash
<1>5. /\ Ends(t, p) <=> b = 34
      /\ Escapes(t, p) <=> b = 92 /\ c # 0
      /\ Plain(t, p) <=> b >= 32 /\ b \notin {34, 92}
      /\ Broken(t, p) <=> b < 32 \/ (b = 92 /\ c = 0)
  BY <1>2, <1>3, <1>4 DEF Ends, Escapes, Plain, Broken
<1>6. b # 0 => p + 1 \in Cursors(t)
  BY <1>1, <1>2
<1>7. c # 0 => p + 2 \in Cursors(t)
  BY <1>1, <1>3
<1>8. (b = 34 => b # 0) /\ (b = 92 => b # 0) /\ (b >= 32 => b # 0)
  OBVIOUS
<1>9. b = 34 \/ (b = 92 /\ c # 0) \/ (b >= 32 /\ b \notin {34, 92}) \/ b < 32 \/ (b = 92 /\ c = 0)
  OBVIOUS
<1> QED
  BY <1>1, <1>5, <1>6, <1>7, <1>8, <1>9

\* The count from p on, behind what was counted before.
CountFrom(t, p, e, n) == json_string_length(t)[[cursor |-> p, escape |-> e, len |-> n]]

\* A step of the first pass, by what is at the cursor.
LEMMA CountCases ==
    ASSUME NEW t \in Seq(Bytes), NEW p \in Cursors(t), NEW e \in Nat, NEW n \in Nat
    PROVE  /\ CountFrom(t, p, e, n) \in Counts(t)
           /\ Ends(t, p) => CountFrom(t, p, e, n) = Reached(e, n, p)
           /\ Escapes(t, p) => CountFrom(t, p, e, n) = CountFrom(t, p + 2, e + 1, n + 1)
           /\ Plain(t, p) => CountFrom(t, p, e, n) = CountFrom(t, p + 1, e, n + 1)
           /\ Broken(t, p) => CountFrom(t, p, e, n) = Bad
<1> DEFINE c == [cursor |-> p, escape |-> e, len |-> n]
           l == json_string_length(t)
           L == CountFrom(t, p, e, n)
           one == CountFrom(t, p + 1, e, n + 1)
           two == CountFrom(t, p + 2, e + 1, n + 1)
<1>1. c \in Scans(t) /\ c.cursor = p /\ c.escape = e /\ c.len = n
  BY DEF Scans
<1>2. L \in Counts(t) /\ L = CountStep(t, l, c)
  BY <1>1, CountSolved DEF CountFrom
<1>3. L = CASE At(t, p) = Quote -> Reached(e, n, p)
            [] At(t, p) = Backslash /\ At(t, p + 1) # 0 -> two
            [] OTHER -> IF At(t, p) < 32 \/ At(t, p) = Backslash THEN Bad ELSE one
  BY <1>1, <1>2 DEF CountStep, Reached, CountFrom
<1>4. Quote = 34 /\ Backslash = 92
  BY DEF Quote, Backslash
<1>5. PICK b \in 0 .. 255 : b = At(t, p)
  <2>1. p \in Int
    BY CursorCases
  <2> QED
    BY <2>1, AtFacts
<1> HIDE DEF l, c, one, two, L
<1>6. L = CASE b = 34 -> Reached(e, n, p)
            [] b = 92 /\ At(t, p + 1) # 0 -> two
            [] OTHER -> IF b < 32 \/ b = 92 THEN Bad ELSE one
  BY <1>3, <1>4, <1>5
<1>7. /\ Ends(t, p) <=> b = 34
      /\ Escapes(t, p) <=> b = 92 /\ At(t, p + 1) # 0
      /\ Plain(t, p) <=> b >= 32 /\ b \notin {34, 92}
      /\ Broken(t, p) <=> b < 32 \/ (b = 92 /\ At(t, p + 1) = 0)
  BY <1>4, <1>5 DEF Ends, Escapes, Plain, Broken
<1>8. /\ Ends(t, p) => L = Reached(e, n, p)
      /\ Escapes(t, p) => L = two
  BY <1>6, <1>7
<1>9. ASSUME Plain(t, p) PROVE L = one
  <2>1. b >= 32 /\ b \notin {34, 92}
    BY <1>7, <1>9
  <2>2. b # 34 /\ b # 92 /\ ~(b < 32)
    BY <2>1
  <2> QED
    BY <1>6, <2>2
<1>10. Broken(t, p) => L = Bad
  BY <1>6, <1>7
<1> QED
  BY <1>2, <1>8, <1>9, <1>10 DEF L, one, two

\* What is counted from a cursor on does not depend on what was counted before.
LEMMA CountShift ==
    ASSUME NEW t \in Seq(Bytes), NEW p \in Cursors(t), NEW e \in Nat, NEW n \in Nat
    PROVE  CountFrom(t, p, e, n) = Longer(CountFrom(t, p, 0, 0), e, n)
<1> DEFINE L(q, x, y) == CountFrom(t, q, x, y)
           m == Len(t) + 1
           D == {q \in 1 .. m : \A x, y \in Nat : L(q, x, y) = Longer(L(q, 0, 0), x, y)}
<1>1. m \in Nat /\ Cursors(t) = 1 .. m
  BY CursorCases
<1>2. ASSUME NEW q \in 1 .. m, \A r \in q + 1 .. m : r \in D, NEW x \in Nat, NEW y \in Nat
      PROVE  L(q, x, y) = Longer(L(q, 0, 0), x, y)
  <2>0. 0 \in Nat /\ 0 + 1 = 1 /\ 0 + x = x /\ 0 + y = y /\ x + 0 = x
        /\ q \in Nat /\ x + 1 \in Nat /\ y + 1 \in Nat /\ 1 \in Nat
    BY <1>1
  <2>1. q \in Cursors(t)
    BY <1>1
  <2>2. \A u, v \in Nat :
           /\ L(q, u, v) \in Counts(t)
           /\ Ends(t, q) => L(q, u, v) = Reached(u, v, q)
           /\ Escapes(t, q) => L(q, u, v) = L(q + 2, u + 1, v + 1)
           /\ Plain(t, q) => L(q, u, v) = L(q + 1, u, v + 1)
           /\ Broken(t, q) => L(q, u, v) = Bad
    BY <2>1, CountCases
  <2>3. CASE Ends(t, q)
    <3>1. L(q, x, y) = Reached(x, y, q) /\ L(q, 0, 0) = Reached(0, 0, q)
      BY <2>0, <2>2, <2>3
    <3>2. Longer(Reached(0, 0, q), x, y) = Reached(x, y, q)
      BY DEF Longer, Reached
    <3> QED
      BY <3>1, <3>2
  <2>4. CASE Escapes(t, q)
    <3>1. L(q, x, y) = L(q + 2, x + 1, y + 1) /\ L(q, 0, 0) = L(q + 2, 0 + 1, 0 + 1)
      BY <2>0, <2>2, <2>4, Zenon
    <3> DEFINE K == L(q + 2, 0, 0)
    <3>2. L(q + 2, x + 1, y + 1) = Longer(K, x + 1, y + 1) /\ L(q + 2, 1, 1) = Longer(K, 1, 1)
      <4>1. q + 2 \in Cursors(t)
        BY <2>1, <2>4, CursorCases
      <4>2. q + 2 \in q + 1 .. m
        BY <1>1, <2>0, <4>1
      <4>3. q + 2 \in D
        BY <1>2, <4>2
      <4> QED
        BY <2>0, <4>3
    <3>3. K \in Counts(t)
      <4>1. q + 2 \in Cursors(t)
        BY <2>1, <2>4, CursorCases
      <4> QED
        BY <2>0, <4>1, CountCases
    <3> HIDE DEF K, L
    <3>4. Longer(Longer(K, 1, 1), x, y) = Longer(K, x + 1, y + 1)
      BY <3>3, LongerTwice
    <3> QED
      BY <2>0, <3>1, <3>2, <3>4
  <2>5. CASE Broken(t, q)
    <3>1. L(q, x, y) = Bad /\ L(q, 0, 0) = Bad
      BY <2>0, <2>2, <2>5
    <3>2. Longer(Bad, x, y) = Bad
      BY DEF Longer, Bad
    <3> QED
      BY <3>1, <3>2
  <2>6. CASE Plain(t, q)
    <3>1. L(q, x, y) = L(q + 1, x, y + 1) /\ L(q, 0, 0) = L(q + 1, 0, 0 + 1)
      BY <2>0, <2>2, <2>6, Zenon
    <3> DEFINE K == L(q + 1, 0, 0)
    <3>2. L(q + 1, x, y + 1) = Longer(K, x, y + 1) /\ L(q + 1, 0, 1) = Longer(K, 0, 1)
      <4>1. q + 1 \in Cursors(t)
        BY <2>1, <2>6, CursorCases
      <4>2. q + 1 \in q + 1 .. m
        BY <1>1, <2>0, <4>1
      <4>3. q + 1 \in D
        BY <1>2, <4>2
      <4> QED
        BY <2>0, <4>3
    <3>3. K \in Counts(t)
      <4>1. q + 1 \in Cursors(t)
        BY <2>1, <2>6, CursorCases
      <4> QED
        BY <2>0, <4>1, CountCases
    <3> HIDE DEF K, L
    <3>4. Longer(Longer(K, 0, 1), x, y) = Longer(K, x + 0, y + 1)
      BY <2>0, <3>3, LongerTwice
    <3> QED
      BY <2>0, <3>1, <3>2, <3>4
  <2> QED
    BY <2>1, <2>3, <2>4, <2>5, <2>6, CursorCases
<1>3. D \subseteq 1 .. m
  OBVIOUS
<1>4. \A q \in 1 .. m : (\A r \in q + 1 .. m : r \in D) => q \in D
  BY <1>2
<1>5. D = 1 .. m
  <2> HIDE DEF D, m
  <2> QED
    BY <1>1, <1>3, <1>4, Downward
<1> QED
  BY <1>1, <1>5

\* What the first pass counts, by what is at the cursor.
LEMMA CountedAt ==
    ASSUME NEW t \in Seq(Bytes), NEW p \in Cursors(t)
    PROVE  /\ Counted(t, p) \in Counts(t)
           /\ Ends(t, p) => Counted(t, p) = Reached(0, 0, p)
           /\ Escapes(t, p) => Counted(t, p) = Longer(Counted(t, p + 2), 1, 1)
           /\ Plain(t, p) => Counted(t, p) = Longer(Counted(t, p + 1), 0, 1)
           /\ Broken(t, p) => Counted(t, p) = Bad
<1>1. \A q : Counted(t, q) = CountFrom(t, q, 0, 0)
  BY DEF Counted, CountFrom
<1>2. 0 \in Nat /\ 1 \in Nat /\ 0 + 1 = 1
  OBVIOUS
<1>3. /\ CountFrom(t, p, 0, 0) \in Counts(t)
      /\ Ends(t, p) => CountFrom(t, p, 0, 0) = Reached(0, 0, p)
      /\ Escapes(t, p) => CountFrom(t, p, 0, 0) = CountFrom(t, p + 2, 0 + 1, 0 + 1)
      /\ Plain(t, p) => CountFrom(t, p, 0, 0) = CountFrom(t, p + 1, 0, 0 + 1)
      /\ Broken(t, p) => CountFrom(t, p, 0, 0) = Bad
  BY <1>2, CountCases, Zenon
<1>4. Escapes(t, p) => CountFrom(t, p + 2, 1, 1) = Longer(CountFrom(t, p + 2, 0, 0), 1, 1)
  BY <1>2, CountShift, CursorCases
<1>5. Plain(t, p) => CountFrom(t, p + 1, 0, 1) = Longer(CountFrom(t, p + 1, 0, 0), 0, 1)
  BY <1>2, CountShift, CursorCases
<1> QED
  BY <1>1, <1>2, <1>3, <1>4, <1>5

\* A hex digit is neither a quote nor a backslash.
LEMMA HexByte ==
    ASSUME NEW c \in 0 .. 255
    PROVE  /\ Hex(c) \in -1 .. 15
           /\ Hex(c) >= 0 => c >= 48 /\ c # 34 /\ c # 92
<1>1. CASE c \in 48 .. 57
  <2>1. Hex(c) = c - 48
    BY <1>1 DEF Hex, DigitBytes
  <2> QED
    BY <1>1, <2>1
<1>2. CASE c \in 65 .. 70
  <2>1. Hex(c) = c - 55
    BY <1>2 DEF Hex, DigitBytes
  <2> QED
    BY <1>2, <2>1
<1>3. CASE c \in 97 .. 102
  <2>1. Hex(c) = c - 87
    BY <1>3 DEF Hex, DigitBytes
  <2> QED
    BY <1>3, <2>1
<1>4. CASE c \notin 48 .. 57 /\ c \notin 65 .. 70 /\ c \notin 97 .. 102
  <2>1. Hex(c) = -1
    BY <1>4 DEF Hex, DigitBytes
  <2> QED
    BY <2>1
<1> QED
  BY <1>1, <1>2, <1>3, <1>4

\* The largest code, U+10FFFF, and the largest of four hex digits.
MaxCode == 1114111
SmallCode == 65535

\* Four hex digits.
LEMMA Hex4Facts ==
    ASSUME NEW t \in Seq(Bytes), NEW p \in Nat, IsHex4(t, p)
    PROVE  /\ Hex4(t, p) \in Nat /\ Hex4(t, p) <= SmallCode
           /\ \A i \in 0 .. 3 : Plain(t, p + i) /\ p + i \in 1 .. Len(t)
<1>1. ASSUME NEW i \in 0 .. 3
      PROVE  /\ Hex(At(t, p + i)) \in 0 .. 15
             /\ Plain(t, p + i) /\ p + i \in 1 .. Len(t)
  <2>1. p + i \in Int
    OBVIOUS
  <2>2. At(t, p + i) \in 0 .. 255 /\ (At(t, p + i) # 0 <=> p + i \in 1 .. Len(t))
    BY <2>1, AtFacts
  <2>3. PICK c \in 0 .. 255 : c = At(t, p + i)
    BY <2>2
  <2>4. PICK h \in -1 .. 15 : h = Hex(c)
    BY HexByte
  <2>5. h >= 0
    BY <2>3, <2>4 DEF IsHex4
  <2>6. c >= 48 /\ c # 34 /\ c # 92
    BY <2>4, <2>5, HexByte
  <2>7. h \in 0 .. 15 /\ c # 0 /\ c >= 32
    BY <2>5, <2>6
  <2>8. Plain(t, p + i)
    BY <2>3, <2>6, <2>7 DEF Plain, Quote, Backslash
  <2> QED
    BY <2>2, <2>3, <2>4, <2>7, <2>8
<1>2. p + 0 = p
  OBVIOUS
<1>3. /\ Hex(At(t, p)) \in 0 .. 15 /\ Hex(At(t, p + 1)) \in 0 .. 15
      /\ Hex(At(t, p + 2)) \in 0 .. 15 /\ Hex(At(t, p + 3)) \in 0 .. 15
  <2>1. 0 \in 0 .. 3 /\ 1 \in 0 .. 3 /\ 2 \in 0 .. 3 /\ 3 \in 0 .. 3
    OBVIOUS
  <2> QED
    BY <1>1, <1>2, <2>1
<1>4. PICK a \in 0 .. 15, b \in 0 .. 15, c \in 0 .. 15, d \in 0 .. 15 :
         a = Hex(At(t, p)) /\ b = Hex(At(t, p + 1)) /\ c = Hex(At(t, p + 2))
         /\ d = Hex(At(t, p + 3))
  BY <1>3
<1>5. Hex4(t, p) = 4096 * a + 256 * b + 16 * c + d
  BY <1>4 DEF Hex4
<1>6. /\ 4096 * a + 256 * b + 16 * c + d \in Nat
      /\ 4096 * a + 256 * b + 16 * c + d <= SmallCode
  <2>1. /\ a \in Nat /\ b \in Nat /\ c \in Nat /\ d \in Nat
        /\ a <= 15 /\ b <= 15 /\ c <= 15 /\ d <= 15
    OBVIOUS
  <2> QED
    BY <2>1, SMT DEF SmallCode
<1> QED
  BY <1>1, <1>5, <1>6

\* The code of a pair of surrogates.
PairCode(a, b) == ((a % 1024) * 1024) + (b % 1024) + 65536

\* A pair of surrogates is a code behind the first 2^16 (JsonParser.c:150).
LEMMA WholeCode ==
    ASSUME NEW a \in Nat, NEW b \in Nat
    PROVE  PairCode(a, b) \in Nat /\ PairCode(a, b) <= MaxCode /\ PairCode(a, b) > 65535
<1>1. /\ a % 1024 \in Nat /\ a % 1024 <= 1023
      /\ b % 1024 \in Nat /\ b % 1024 <= 1023
  BY SMT
<1>2. PICK k \in Nat, l \in Nat : k = a % 1024 /\ l = b % 1024 /\ k <= 1023 /\ l <= 1023
  BY <1>1
<1>3. /\ (k * 1024) + l + 65536 \in Nat /\ (k * 1024) + l + 65536 <= MaxCode
      /\ (k * 1024) + l + 65536 > 65535
  BY <1>2, SMT DEF MaxCode
<1> QED
  BY <1>2, <1>3, SMT DEF PairCode

\* The bytes of a code.
LEMMA Utf8Facts ==
    ASSUME NEW code \in Nat, code <= MaxCode
    PROVE  /\ Utf8(code) \in Seq(0 .. 255)
           /\ code <= 65535 => Len(Utf8(code)) \in 1 .. 3
           /\ code > 65535 => Len(Utf8(code)) = 4
<1> DEFINE Low(k) == 128 + ((code \div k) % 64)
<1>1. /\ Low(1) \in 0 .. 255 /\ Low(64) \in 0 .. 255 /\ Low(4096) \in 0 .. 255
  OBVIOUS
<1>2. CASE code <= 127
  <2>1. Utf8(code) = <<code>>
    BY <1>2 DEF Utf8
  <2>2. code \in 0 .. 255
    BY <1>2
  <2> QED
    BY <1>2, <2>1, <2>2
<1>3. CASE ~(code <= 127) /\ code <= 2047
  <2> DEFINE a == 192 + (code \div 64)
  <2>1. a \in 0 .. 255
    BY <1>3
  <2>2. Utf8(code) = <<a, Low(1)>>
    BY <1>3, <2>1 DEF Utf8
  <2> HIDE DEF a, Low
  <2>3. <<a, Low(1)>> \in Seq(0 .. 255) /\ Len(<<a, Low(1)>>) = 2
    BY <1>1, <2>1
  <2> QED
    BY <1>3, <2>2, <2>3
<1>4. CASE ~(code <= 2047) /\ code <= 65535
  <2> DEFINE a == 224 + (code \div 4096)
  <2>1. ~(code <= 127) /\ a \in 0 .. 255
    BY <1>4
  <2>2. Utf8(code) = <<a, Low(64), Low(1)>>
    BY <1>4, <2>1 DEF Utf8
  <2> HIDE DEF a, Low
  <2>3. <<a, Low(64), Low(1)>> \in Seq(0 .. 255) /\ Len(<<a, Low(64), Low(1)>>) = 3
    BY <1>1, <2>1
  <2> QED
    BY <1>4, <2>2, <2>3
<1>5. CASE code > 65535
  <2> DEFINE a == 240 + (code \div 262144)
  <2>1. ~(code <= 127) /\ ~(code <= 2047) /\ ~(code <= 65535) /\ a \in 0 .. 255
    BY <1>5, SMT DEF MaxCode
  <2>2. Utf8(code) = <<a, Low(4096), Low(64), Low(1)>>
    BY <1>5, <2>1 DEF Utf8
  <2> HIDE DEF a, Low
  <2>3. /\ <<a, Low(4096), Low(64), Low(1)>> \in Seq(0 .. 255)
        /\ Len(<<a, Low(4096), Low(64), Low(1)>>) = 4
    BY <1>1, <2>1
  <2> QED
    BY <1>5, <2>2, <2>3
<1>6. code > 65535 \/ code <= 65535
  BY SMT
<1> QED
  BY <1>2, <1>3, <1>4, <1>5, <1>6

\* What an escape at p can be: one character, a code, or a pair of surrogates.
ShortEscape(t, p, v) == Len(v) = 1 /\ Unescaped(t, p) = Good(v, p + 2)
CodeEscape(t, p, v) ==
    /\ Len(v) \in 1 .. 3 /\ Unescaped(t, p) = Good(v, p + 6)
    /\ \A i \in 2 .. 5 : Plain(t, p + i)
PairEscape(t, p, v) ==
    /\ Len(v) = 4 /\ Unescaped(t, p) = Good(v, p + 12)
    /\ Escapes(t, p + 6)
    /\ \A i \in (2 .. 5) \cup (8 .. 11) : Plain(t, p + i)

\* An escape is broken, or it goes forwards and stands for some bytes
\* (JsonParser.c:192-232).
LEMMA UnescapedFacts ==
    ASSUME NEW t \in Seq(Bytes), NEW p \in Cursors(t), At(t, p) = Backslash
    PROVE  \/ Unescaped(t, p) = Bad
           \/ /\ Escapes(t, p)
              /\ \E v \in Seq(0 .. 255) :
                    /\ ShortEscape(t, p, v) \/ CodeEscape(t, p, v) \/ PairEscape(t, p, v)
                    /\ \E q \in Cursors(t) : p < q /\ Unescaped(t, p) = Good(v, q)
<1>1. p \in Nat /\ Len(t) \in Nat /\ Cursors(t) = 1 .. Len(t) + 1
  BY CursorCases
<1>2. p + 1 \in Int
  BY <1>1
<1>3. PICK c \in 0 .. 255 : c = At(t, p + 1) /\ (c # 0 <=> p + 1 \in 1 .. Len(t))
  BY <1>2, AtFacts
<1>4. CASE c = 117
  <2> DEFINE code == Hex4(t, p + 2)
             next == Hex4(t, p + 8)
  <2>0. At(t, p + 1) = 117
    BY <1>3, <1>4
  <2>00. At(t, p + 1) \notin DOMAIN Escaped
    BY <2>0 DEF Escaped
  <2>1. Unescaped(t, p) = parse_json_unicode(t, p + 2)
    BY <2>0, <2>00 DEF Unescaped
  <2>2. Escapes(t, p)
    BY <1>3, <1>4 DEF Escapes
  <2>3. (p + 2) + 6 = p + 8 /\ (p + 2) + 4 = p + 6 /\ (p + 2) + 5 = p + 7 /\ (p + 2) + 10 = p + 12
        /\ p + 2 \in Nat /\ p + 8 \in Nat
    BY <1>1
  <2>4. CASE ~IsHex4(t, p + 2)
    BY <2>1, <2>4 DEF parse_json_unicode
  <2>5. CASE IsHex4(t, p + 2)
    <3>1. /\ code \in Nat /\ code <= SmallCode
          /\ \A i \in 0 .. 3 : Plain(t, (p + 2) + i) /\ (p + 2) + i \in 1 .. Len(t)
      <4>1. p + 2 \in Nat
        BY <1>1
      <4> QED
        BY <2>5, <4>1, Hex4Facts
    <3>2. \A i \in 2 .. 5 : Plain(t, p + i)
      <4> SUFFICES ASSUME NEW i \in 2 .. 5
                   PROVE  Plain(t, p + i)
        OBVIOUS
      <4>1. i - 2 \in 0 .. 3 /\ (p + 2) + (i - 2) = p + i
        BY <1>1
      <4> QED
        BY <3>1, <4>1
    <3>3. p + 6 \in Cursors(t)
      <4>1. 3 \in 0 .. 3 /\ (p + 2) + 3 = p + 5
        BY <1>1
      <4>2. p + 5 \in 1 .. Len(t)
        BY <3>1, <4>1
      <4> QED
        BY <1>1, <4>2
    <3>40. CASE SecondOfPair(code)
      BY <2>1, <3>40 DEF parse_json_unicode
    <3>4. CASE ~SecondOfPair(code) /\ FirstOfPair(code)
      <4> DEFINE both == /\ At(t, p + 6) = Backslash /\ At(t, p + 7) = 117
                         /\ IsHex4(t, p + 8) /\ SecondOfPair(next)
                 whole == ((code % 1024) * 1024) + (next % 1024) + 65536
      <4>1. parse_json_unicode(t, p + 2) = IF both THEN Good(Utf8(whole), p + 12) ELSE Bad
        BY <2>3, <2>5, <3>4 DEF parse_json_unicode
      <4>2. CASE ~both
        BY <2>1, <4>1, <4>2
      <4>3. CASE both
        <5>1. next \in Nat /\ code \in Nat
          <6>1. p + 8 \in Nat /\ IsHex4(t, p + 8)
            BY <1>1, <4>3
          <6> QED
            BY <3>1, <6>1, Hex4Facts
        <5>2. whole \in Nat /\ whole <= MaxCode /\ whole > 65535
          <6>0. PICK a \in Nat, b \in Nat : a = code /\ b = next
            BY <5>1
          <6>1. whole = PairCode(a, b)
            BY <6>0 DEF PairCode
          <6> HIDE DEF whole
          <6> QED
            BY <6>1, WholeCode
        <5> HIDE DEF whole
        <5>4. Utf8(whole) \in Seq(0 .. 255) /\ Len(Utf8(whole)) = 4
          BY <5>2, Utf8Facts
        <5>5. \A i \in 0 .. 3 : Plain(t, (p + 8) + i) /\ (p + 8) + i \in 1 .. Len(t)
          <6>1. p + 8 \in Nat /\ IsHex4(t, p + 8)
            BY <1>1, <4>3
          <6> QED
            BY <6>1, Hex4Facts
        <5>6. \A i \in 8 .. 11 : Plain(t, p + i)
          <6> SUFFICES ASSUME NEW i \in 8 .. 11
                       PROVE  Plain(t, p + i)
            OBVIOUS
          <6>1. i - 8 \in 0 .. 3 /\ (p + 8) + (i - 8) = p + i
            BY <1>1
          <6> QED
            BY <5>5, <6>1
        <5>7. p + 12 \in Cursors(t) /\ p < p + 12
          <6>1. 3 \in 0 .. 3 /\ (p + 8) + 3 = p + 11
            BY <1>1
          <6>2. p + 11 \in 1 .. Len(t)
            BY <5>5, <6>1
          <6> QED
            BY <1>1, <6>2
        <5>8. Escapes(t, p + 6)
          <6>1. (p + 6) + 1 = p + 7
            BY <1>1
          <6> QED
            BY <4>3, <6>1 DEF Escapes
        <5>9. Unescaped(t, p) = Good(Utf8(whole), p + 12)
          BY <2>1, <4>1, <4>3
        <5>10. PairEscape(t, p, Utf8(whole))
          BY <3>2, <5>4, <5>6, <5>8, <5>9 DEF PairEscape
        <5> QED
          BY <2>2, <5>4, <5>7, <5>9, <5>10
      <4> QED
        BY <4>2, <4>3
    <3>5. CASE ~SecondOfPair(code) /\ ~FirstOfPair(code)
      <4>0. parse_json_unicode(t, p + 2) = Good(Utf8(code), (p + 2) + 4)
        BY <2>5, <3>5 DEF parse_json_unicode
      <4>1. code \in Nat /\ code <= MaxCode /\ code <= 65535
        BY <3>1, SMT DEF MaxCode, SmallCode
      <4> HIDE DEF code
      <4>2. Utf8(code) \in Seq(0 .. 255) /\ Len(Utf8(code)) \in 1 .. 3
        BY <4>1, Utf8Facts
      <4>3. Unescaped(t, p) = Good(Utf8(code), p + 6)
        BY <2>1, <2>3, <4>0
      <4>4. CodeEscape(t, p, Utf8(code))
        BY <3>2, <4>2, <4>3 DEF CodeEscape
      <4>5. p < p + 6
        BY <1>1
      <4> QED
        BY <2>2, <3>3, <4>2, <4>3, <4>4, <4>5
    <3> QED
      BY <3>40, <3>4, <3>5
  <2> QED
    BY <2>4, <2>5
<1>5. CASE c # 117 /\ c \in DOMAIN Escaped
  <2>1. Unescaped(t, p) = Good(<<Escaped[c]>>, p + 2)
    BY <1>3, <1>5 DEF Unescaped
  <2>2. Escaped[c] \in 0 .. 255 /\ c # 0
    BY <1>5 DEF Escaped
  <2> DEFINE v == <<Escaped[c]>>
  <2>3. v \in Seq(0 .. 255) /\ Len(v) = 1
    BY <2>2
  <2>4. Escapes(t, p) /\ p + 2 \in Cursors(t) /\ p < p + 2
    <3>1. Escapes(t, p)
      BY <1>3, <2>2 DEF Escapes
    <3>2. p + 1 \in 1 .. Len(t)
      BY <1>3, <2>2
    <3> QED
      BY <1>1, <3>1, <3>2
  <2> HIDE DEF v
  <2>5. Unescaped(t, p) = Good(v, p + 2)
    BY <2>1 DEF v
  <2>6. ShortEscape(t, p, v)
    BY <2>3, <2>5 DEF ShortEscape
  <2> QED
    BY <2>3, <2>4, <2>5, <2>6
<1>6. CASE c # 117 /\ c \notin DOMAIN Escaped
  BY <1>3, <1>6 DEF Unescaped
<1> QED
  BY <1>4, <1>5, <1>6

-----------------------------------------------------------------------------
(* The second pass.                                                         *)

Reads(t) == [cursor : Cursors(t), escape : Int, str : Seq(0 .. 255)]
Results(t) == [ok : BOOLEAN, str : Seq(0 .. 255), end : Cursors(t), over : BOOLEAN]

Halted(c, over) == [ok |-> FALSE, str |-> c.str, end |-> c.cursor, over |-> over]
Finished(c) == [ok |-> TRUE, str |-> c.str, end |-> c.cursor + 1, over |-> FALSE]

\* Behind a byte, and behind an escape.
PastByte(t, c) ==
    [cursor |-> c.cursor + 1, escape |-> c.escape, str |-> Append(c.str, At(t, c.cursor))]
PastEscape(c, u) ==
    [cursor |-> u.end, escape |-> c.escape - EscapesOf(u.val), str |-> c.str \o u.val]

\* A step of the second pass, which goes on with f.
ReadEscape(t, f, c) ==
    IF ~Unescaped(t, c.cursor).ok THEN Halted(c, FALSE)
    ELSE f[PastEscape(c, Unescaped(t, c.cursor))]

ReadStep(t, f, c) ==
    CASE At(t, c.cursor) = 0 -> Halted(c, TRUE)
      [] At(t, c.cursor) = Quote /\ c.escape = 0 -> Finished(c)
      [] At(t, c.cursor) = Backslash /\ c.escape # 0 -> ReadEscape(t, f, c)
      [] OTHER -> f[PastByte(t, c)]

\* The steps go forwards.
LEMMA ReadForward ==
    ASSUME NEW t \in Seq(Bytes), NEW c \in Reads(t)
    PROVE  /\ At(t, c.cursor) \in 0 .. 255 /\ c.cursor \in Cursors(t) /\ c.cursor \in Nat
           /\ c.escape \in Int /\ c.str \in Seq(0 .. 255)
           /\ At(t, c.cursor) # 0 => PastByte(t, c) \in Reads(t)
           /\ At(t, c.cursor) # 0 => c.cursor + 1 \in Cursors(t)
           /\ At(t, c.cursor) = Backslash /\ Unescaped(t, c.cursor).ok
                 => /\ PastEscape(c, Unescaped(t, c.cursor)) \in Reads(t)
                    /\ PastEscape(c, Unescaped(t, c.cursor)).cursor > c.cursor
<1>1. c.cursor \in Cursors(t) /\ c.escape \in Int /\ c.str \in Seq(0 .. 255)
  BY DEF Reads
<1>2. c.cursor \in Nat /\ Len(t) \in Nat /\ Cursors(t) = 1 .. Len(t) + 1
  <2>1. Len(t) \in Nat /\ Cursors(t) = 1 .. Len(t) + 1
    BY LenProperties DEF Cursors
  <2> QED
    BY <1>1, <2>1
<1>3. PICK b \in 0 .. 255 : b = At(t, c.cursor) /\ (b # 0 <=> c.cursor \in 1 .. Len(t))
  <2>1. c.cursor \in Int
    BY <1>2
  <2>2. At(t, c.cursor) \in 0 .. 255 /\ (At(t, c.cursor) # 0 <=> c.cursor \in 1 .. Len(t))
    BY <2>1, AtFacts
  <2> QED
    BY <2>2
<1>4. b # 0 => c.cursor + 1 \in Cursors(t)
  BY <1>2, <1>3
<1>5. Append(c.str, b) \in Seq(0 .. 255)
  BY <1>1, AppendProperties
<1>6. b # 0 => PastByte(t, c) \in Reads(t)
  BY <1>1, <1>3, <1>4, <1>5 DEF PastByte, Reads
<1>7. ASSUME At(t, c.cursor) = Backslash, Unescaped(t, c.cursor).ok
      PROVE  /\ PastEscape(c, Unescaped(t, c.cursor)) \in Reads(t)
             /\ PastEscape(c, Unescaped(t, c.cursor)).cursor > c.cursor
  <2>1. ~Bad.ok
    BY DEF Bad
  <2>2. PICK v \in Seq(0 .. 255), q \in Cursors(t) :
           c.cursor < q /\ Unescaped(t, c.cursor) = Good(v, q)
    BY <1>1, <1>7, <2>1, UnescapedFacts
  <2>3. Unescaped(t, c.cursor).end = q /\ Unescaped(t, c.cursor).val = v
    BY <2>2 DEF Good
  <2>4. EscapesOf(v) \in 1 .. 2
    BY DEF EscapesOf
  <2>5. c.escape - EscapesOf(v) \in Int /\ c.str \o v \in Seq(0 .. 255)
    BY <1>1, <2>4, ConcatProperties
  <2>6. q \in Nat
    BY <1>2
  <2> DEFINE d == [cursor |-> q, escape |-> c.escape - EscapesOf(v), str |-> c.str \o v]
  <2>7. PastEscape(c, Unescaped(t, c.cursor)) = d
    BY <2>3 DEF PastEscape
  <2>8. d \in Reads(t) /\ d.cursor > c.cursor
    BY <1>2, <2>2, <2>5, <2>6 DEF Reads
  <2> QED
    BY <2>7, <2>8
<1> QED
  BY <1>1, <1>2, <1>3, <1>4, <1>6, <1>7

\* The second pass is a function of the cursor, of the escapes that are left and
\* of what was written before (JsonParser.c:180-260).
LEMMA ReadSolved ==
    ASSUME NEW t \in Seq(Bytes)
    PROVE  /\ parse_json_string(t) \in [Reads(t) -> Results(t)]
           /\ \A c \in Reads(t) :
                 parse_json_string(t)[c] = ReadStep(t, parse_json_string(t), c)
<1> DEFINE S == Reads(t)
           V == Results(t)
           m == Len(t) + 1
           rank == [c \in S |-> m - c.cursor]
           G == [a \in [S -> V] \X S |-> ReadStep(t, a[1], a[2])]
<1>0. Quote = 34 /\ Backslash = 92
  BY DEF Quote, Backslash
<1>1. [ok |-> FALSE, str |-> <<>>, end |-> 1, over |-> FALSE] \in V
  <2>1. 1 \in Cursors(t)
    BY LenProperties DEF Cursors
  <2>2. <<>> \in Seq(0 .. 255)
    OBVIOUS
  <2> QED
    BY <2>1, <2>2 DEF Results
<1>2. rank \in [S -> Nat] /\ \A c \in S : rank[c] = m - c.cursor
  <2> SUFFICES ASSUME NEW c \in S
               PROVE  m - c.cursor \in Nat
    OBVIOUS
  <2>1. c.cursor \in Cursors(t)
    BY DEF Reads
  <2> QED
    BY <2>1 DEF Cursors
<1>3. ASSUME NEW f \in [S -> V], NEW c \in S
      PROVE  ReadStep(t, f, c) \in V
  <2>0. /\ c.cursor \in Cursors(t) /\ c.cursor \in Nat /\ c.str \in Seq(0 .. 255)
        /\ (At(t, c.cursor) # 0 => PastByte(t, c) \in S /\ c.cursor + 1 \in Cursors(t))
    BY ReadForward
  <2>1. \A over \in BOOLEAN : Halted(c, over) \in V
    BY <2>0 DEF Halted, Results
  <2>2. At(t, c.cursor) = 0 => ReadStep(t, f, c) = Halted(c, TRUE)
    BY <1>0 DEF ReadStep
  <2>3. CASE At(t, c.cursor) = Quote /\ c.escape = 0
    <3>1. At(t, c.cursor) # 0 /\ At(t, c.cursor) # Backslash
      BY <1>0, <2>3
    <3>2. ReadStep(t, f, c) = Finished(c)
      BY <2>3, <3>1 DEF ReadStep
    <3>3. Finished(c) \in V
      BY <2>0, <3>1 DEF Finished, Results
    <3> QED
      BY <3>2, <3>3
  <2>4. CASE At(t, c.cursor) = Backslash /\ c.escape # 0
    <3>1. At(t, c.cursor) # 0 /\ At(t, c.cursor) # Quote
      BY <1>0, <2>4
    <3>2. ReadStep(t, f, c) = ReadEscape(t, f, c)
      BY <2>4, <3>1 DEF ReadStep
    <3>3. Unescaped(t, c.cursor).ok => PastEscape(c, Unescaped(t, c.cursor)) \in S
      BY <2>4, ReadForward
    <3> HIDE DEF S, V
    <3>4. Unescaped(t, c.cursor).ok => f[PastEscape(c, Unescaped(t, c.cursor))] \in V
      BY <3>3
    <3> QED
      BY <2>1, <3>2, <3>4 DEF ReadEscape
  <2>5. CASE /\ At(t, c.cursor) # 0 /\ ~(At(t, c.cursor) = Quote /\ c.escape = 0)
             /\ ~(At(t, c.cursor) = Backslash /\ c.escape # 0)
    <3>1. ReadStep(t, f, c) = f[PastByte(t, c)]
      BY <2>5 DEF ReadStep
    <3> HIDE DEF S, V
    <3> QED
      BY <2>0, <2>5, <3>1
  <2>6. TRUE \in BOOLEAN
    OBVIOUS
  <2> HIDE DEF S, V
  <2> QED
    BY <2>1, <2>2, <2>3, <2>4, <2>5, <2>6
<1>4. G \in [[S -> V] \X S -> V]
      /\ \A f \in [S -> V] : \A c \in S : G[<<f, c>>] = ReadStep(t, f, c)
  <2> HIDE DEF S, V
  <2> QED
    BY <1>3
<1>5. ASSUME NEW f, NEW g, NEW c \in S,
             \A d \in S : rank[d] < rank[c] => f[d] = g[d]
      PROVE  ReadStep(t, f, c) = ReadStep(t, g, c)
  <2>1. c.cursor \in Nat /\ m \in Nat /\ c.cursor \in Cursors(t)
    BY ReadForward, AtFacts
  <2>10. \A d \in S : d.cursor > c.cursor => f[d] = g[d]
    <3> SUFFICES ASSUME NEW d \in S, d.cursor > c.cursor
                 PROVE  f[d] = g[d]
      OBVIOUS
    <3>1. d.cursor \in Nat
      BY ReadForward
    <3>2. rank[d] < rank[c]
      BY <1>2, <2>1, <3>1
    <3> QED
      BY <1>5, <3>2
  <2>2. At(t, c.cursor) # 0 => f[PastByte(t, c)] = g[PastByte(t, c)]
    <3>1. PastByte(t, c).cursor > c.cursor
      BY <2>1 DEF PastByte
    <3> HIDE DEF S
    <3>2. At(t, c.cursor) # 0 => PastByte(t, c) \in S
      BY ReadForward DEF S
    <3> QED
      BY <2>10, <3>1, <3>2
  <2>3. At(t, c.cursor) = Backslash => ReadEscape(t, f, c) = ReadEscape(t, g, c)
    <3> SUFFICES ASSUME At(t, c.cursor) = Backslash, Unescaped(t, c.cursor).ok
                 PROVE  f[PastEscape(c, Unescaped(t, c.cursor))]
                           = g[PastEscape(c, Unescaped(t, c.cursor))]
      BY DEF ReadEscape
    <3>1. /\ PastEscape(c, Unescaped(t, c.cursor)) \in S
          /\ PastEscape(c, Unescaped(t, c.cursor)).cursor > c.cursor
      BY ReadForward
    <3> HIDE DEF S
    <3> QED
      BY <2>10, <3>1
  <2> HIDE DEF S, V, rank, G
  <2>4. CASE At(t, c.cursor) = 0
    BY <1>0, <2>4 DEF ReadStep
  <2>5. CASE At(t, c.cursor) # 0
    BY <1>0, <2>2, <2>3, <2>5 DEF ReadStep
  <2> QED
    BY <2>4, <2>5
<1>6. AsksBelow(S, V, rank, G)
  <2> HIDE DEF S, V, rank, G
  <2> SUFFICES ASSUME NEW f \in [S -> V], NEW g \in [S -> V], NEW c \in S,
                      \A d \in S : rank[d] < rank[c] => f[d] = g[d]
               PROVE  G[<<f, c>>] = G[<<g, c>>]
    BY DEF AsksBelow
  <2>1. ReadStep(t, f, c) = ReadStep(t, g, c)
    BY <1>5
  <2> QED
    BY <1>4, <2>1
<1>7. parse_json_string(t) = CHOOSE f : f = [c \in S |-> ReadStep(t, f, c)]
  BY DEF parse_json_string, ReadStep, ReadEscape, Reads, Halted, Finished, PastByte, PastEscape
<1> HIDE DEF S, V, rank, G
<1>8. PICK f \in [S -> V] : Solves(f, S, G)
  BY <1>1, <1>2, <1>4, <1>6, Recursion
<1>9. f = [c \in S |-> ReadStep(t, f, c)]
  BY <1>4, <1>8 DEF Solves
<1>10. \E h : h = [c \in S |-> ReadStep(t, h, c)]
  BY <1>9
<1> DEFINE l == parse_json_string(t)
<1>11. l = [c \in S |-> ReadStep(t, l, c)]
  BY <1>7, <1>10
<1> HIDE DEF l
<1>12. \A c \in S : l[c] = ReadStep(t, l, c)
  BY <1>11
<1> DEFINE D == {c \in S : l[c] # f[c]}
<1>13. D = {}
  <2> SUFFICES ASSUME D # {}
               PROVE  FALSE
    OBVIOUS
  <2>1. D \subseteq S
    OBVIOUS
  <2>2. PICK c \in D : \A d \in S : rank[d] < rank[c] => d \notin D
    <3> HIDE DEF D
    <3> QED
      BY <1>2, <2>1, LeastRank
  <2>3. \A d \in S : rank[d] < rank[c] => l[d] = f[d]
    BY <2>2
  <2>4. c \in S /\ l[c] # f[c]
    BY <2>2
  <2>5. ReadStep(t, l, c) = ReadStep(t, f, c)
    BY <1>5, <2>3, <2>4
  <2> QED
    BY <1>9, <1>12, <2>4, <2>5
<1>14. \A c \in S : l[c] \in V
  BY <1>13
<1>15. l \in [S -> V]
  BY <1>11, <1>14
<1> QED
  BY <1>12, <1>15 DEF l, S, V

\* A result with what was written before.
Prefixed(s, r) == [ok |-> r.ok, str |-> s \o r.str, end |-> r.end, over |-> r.over]

\* The results that are not read on.
Overrun(s, p) == [ok |-> FALSE, str |-> s, end |-> p, over |-> TRUE]
Refused(s, p) == [ok |-> FALSE, str |-> s, end |-> p, over |-> FALSE]
Complete(s, p) == [ok |-> TRUE, str |-> s, end |-> p, over |-> FALSE]

\* Results are put behind each other.
LEMMA PrefixedTwice ==
    ASSUME NEW t, NEW r \in Results(t), NEW a \in Seq(0 .. 255), NEW b \in Seq(0 .. 255)
    PROVE  /\ Prefixed(a, Prefixed(b, r)) = Prefixed(a \o b, r)
           /\ Prefixed(a, r) \in Results(t)
<1>1. /\ r.str \in Seq(0 .. 255) /\ r.ok \in BOOLEAN /\ r.over \in BOOLEAN /\ r.end \in Cursors(t)
  BY DEF Results
<1> DEFINE c == b \o r.str
<1>2. /\ Prefixed(b, r).ok = r.ok /\ Prefixed(b, r).str = c
      /\ Prefixed(b, r).end = r.end /\ Prefixed(b, r).over = r.over
  BY DEF Prefixed
<1>3. a \o c = (a \o b) \o r.str
  <2>1. PICK w \in Seq(0 .. 255) : w = r.str
    BY <1>1
  <2>2. a \o (b \o w) = (a \o b) \o w
    BY ConcatAssociative
  <2> QED
    BY <2>1, <2>2
<1>4. a \o r.str \in Seq(0 .. 255)
  BY <1>1, ConcatProperties
<1>5. Prefixed(a, r) \in Results(t)
  <2> DEFINE d == a \o r.str
  <2> HIDE DEF d
  <2>1. d \in Seq(0 .. 255)
    BY <1>4 DEF d
  <2>2. [ok |-> r.ok, str |-> d, end |-> r.end, over |-> r.over] \in Results(t)
    BY <1>1, <2>1 DEF Results
  <2> QED
    BY <2>2 DEF d, Prefixed
<1> HIDE DEF c
<1> QED
  BY <1>2, <1>3, <1>5 DEF Prefixed

\* The three ends of the second pass.
LEMMA PrefixedEnds ==
    ASSUME NEW s \in Seq(0 .. 255), NEW p
    PROVE  /\ Prefixed(s, Overrun(<<>>, p)) = Overrun(s, p)
           /\ Prefixed(s, Refused(<<>>, p)) = Refused(s, p)
           /\ Prefixed(s, Complete(<<>>, p)) = Complete(s, p)
<1> DEFINE e == s \o <<>>
<1>1. e = s
  BY ConcatEmptySeq
<1>2. /\ Prefixed(s, Overrun(<<>>, p)) = Overrun(e, p)
      /\ Prefixed(s, Refused(<<>>, p)) = Refused(e, p)
      /\ Prefixed(s, Complete(<<>>, p)) = Complete(e, p)
  BY DEF Prefixed, Overrun, Refused, Complete
<1> QED
  BY <1>1, <1>2

\* What is written from p on, with so many escapes left, behind s.
ReadFrom(t, p, e, s) == parse_json_string(t)[[cursor |-> p, escape |-> e, str |-> s]]

\* What the second pass distinguishes.
EscapeHere(t, p, e) == At(t, p) = Backslash /\ e # 0
EndHere(t, p, e) == At(t, p) = Quote /\ e = 0
ByteHere(t, p, e) == At(t, p) # 0 /\ ~EscapeHere(t, p, e) /\ ~EndHere(t, p, e)

\* A step of the second pass, by what is at the cursor.
LEMMA ReadCases ==
    ASSUME NEW t \in Seq(Bytes), NEW p \in Cursors(t), NEW e \in Int, NEW s \in Seq(0 .. 255)
    PROVE  /\ ReadFrom(t, p, e, s) \in Results(t)
           /\ At(t, p) = 0 => ReadFrom(t, p, e, s) = Overrun(s, p)
           /\ EndHere(t, p, e) => ReadFrom(t, p, e, s) = Complete(s, p + 1)
           /\ EscapeHere(t, p, e) /\ ~Unescaped(t, p).ok => ReadFrom(t, p, e, s) = Refused(s, p)
           /\ EscapeHere(t, p, e) /\ Unescaped(t, p).ok =>
                 ReadFrom(t, p, e, s) =
                    ReadFrom(t, Unescaped(t, p).end, e - EscapesOf(Unescaped(t, p).val),
                             s \o Unescaped(t, p).val)
           /\ ByteHere(t, p, e) => ReadFrom(t, p, e, s) = ReadFrom(t, p + 1, e, Append(s, At(t, p)))
<1> DEFINE c == [cursor |-> p, escape |-> e, str |-> s]
           l == parse_json_string(t)
           R == ReadFrom(t, p, e, s)
<1>1. c \in Reads(t) /\ c.cursor = p /\ c.escape = e /\ c.str = s
  BY DEF Reads
<1>2. R \in Results(t) /\ R = ReadStep(t, l, c)
  BY <1>1, ReadSolved DEF ReadFrom
<1> HIDE DEF c
<1>3. /\ Halted(c, TRUE) = Overrun(s, p) /\ Halted(c, FALSE) = Refused(s, p)
      /\ Finished(c) = Complete(s, p + 1)
  BY <1>1 DEF Halted, Finished, Overrun, Refused, Complete
<1>4. l[PastByte(t, c)] = ReadFrom(t, p + 1, e, Append(s, At(t, p)))
  BY <1>1 DEF PastByte, ReadFrom
<1>5. \A u : l[PastEscape(c, u)] = ReadFrom(t, u.end, e - EscapesOf(u.val), s \o u.val)
  BY <1>1 DEF PastEscape, ReadFrom
<1>6. ReadEscape(t, l, c) = IF ~Unescaped(t, p).ok THEN Refused(s, p)
                            ELSE l[PastEscape(c, Unescaped(t, p))]
  BY <1>1, <1>3 DEF ReadEscape
<1>7. R = CASE At(t, p) = 0 -> Overrun(s, p)
            [] At(t, p) = Quote /\ e = 0 -> Complete(s, p + 1)
            [] At(t, p) = Backslash /\ e # 0 -> ReadEscape(t, l, c)
            [] OTHER -> l[PastByte(t, c)]
  BY <1>1, <1>2, <1>3 DEF ReadStep
<1>8. Quote = 34 /\ Backslash = 92
  BY DEF Quote, Backslash
<1> HIDE DEF l, R
<1>9. At(t, p) = 0 => R = Overrun(s, p)
  BY <1>7, <1>8
<1>10. EndHere(t, p, e) => R = Complete(s, p + 1)
  <2> SUFFICES ASSUME At(t, p) = Quote, e = 0
               PROVE  R = Complete(s, p + 1)
    BY DEF EndHere
  <2>1. At(t, p) # 0 /\ At(t, p) # Backslash
    BY <1>8
  <2> QED
    BY <1>7, <2>1
<1>11. EscapeHere(t, p, e) => R = ReadEscape(t, l, c)
  <2> SUFFICES ASSUME At(t, p) = Backslash, e # 0
               PROVE  R = ReadEscape(t, l, c)
    BY DEF EscapeHere
  <2>1. At(t, p) # 0 /\ At(t, p) # Quote
    BY <1>8
  <2> QED
    BY <1>7, <2>1
<1>12. ByteHere(t, p, e) => R = l[PastByte(t, c)]
  BY <1>7 DEF ByteHere, EscapeHere, EndHere
<1>13. EscapeHere(t, p, e) /\ ~Unescaped(t, p).ok => R = Refused(s, p)
  BY <1>6, <1>11
<1>14. EscapeHere(t, p, e) /\ Unescaped(t, p).ok =>
          R = ReadFrom(t, Unescaped(t, p).end, e - EscapesOf(Unescaped(t, p).val),
                       s \o Unescaped(t, p).val)
  BY <1>5, <1>6, <1>11
<1> QED
  BY <1>2, <1>4, <1>9, <1>10, <1>12, <1>13, <1>14 DEF R

\* What an escape stands for, when it is one.
LEMMA UnescapedGood ==
    ASSUME NEW t \in Seq(Bytes), NEW p \in Cursors(t), At(t, p) = Backslash, Unescaped(t, p).ok
    PROVE  \E v \in Seq(0 .. 255), q \in Cursors(t) :
              /\ p < q /\ Unescaped(t, p) = Good(v, q) /\ Escapes(t, p)
              /\ Unescaped(t, p).val = v /\ Unescaped(t, p).end = q
              /\ ShortEscape(t, p, v) \/ CodeEscape(t, p, v) \/ PairEscape(t, p, v)
<1>1. ~Bad.ok
  BY DEF Bad
<1>2. PICK v \in Seq(0 .. 255), q \in Cursors(t) :
         /\ p < q /\ Unescaped(t, p) = Good(v, q) /\ Escapes(t, p)
         /\ ShortEscape(t, p, v) \/ CodeEscape(t, p, v) \/ PairEscape(t, p, v)
  BY <1>1, UnescapedFacts
<1>3. Unescaped(t, p).val = v /\ Unescaped(t, p).end = q
  BY <1>2 DEF Good
<1> QED
  BY <1>2, <1>3

\* What is written from a cursor on does not depend on what was written before.
LEMMA ReadShift ==
    ASSUME NEW t \in Seq(Bytes), NEW p \in Cursors(t), NEW e \in Int, NEW s \in Seq(0 .. 255)
    PROVE  ReadFrom(t, p, e, s) = Prefixed(s, ReadFrom(t, p, e, <<>>))
<1> DEFINE R(q, x, w) == ReadFrom(t, q, x, w)
           m == Len(t) + 1
           D == {q \in 1 .. m : \A x \in Int, w \in Seq(0 .. 255) :
                                   R(q, x, w) = Prefixed(w, R(q, x, <<>>))}
<1>1. m \in Nat /\ Cursors(t) = 1 .. m
  BY CursorCases
<1>2. ASSUME NEW q \in 1 .. m, \A r \in q + 1 .. m : r \in D,
             NEW x \in Int, NEW w \in Seq(0 .. 255)
      PROVE  R(q, x, w) = Prefixed(w, R(q, x, <<>>))
  <2>1. q \in Cursors(t) /\ q \in Nat
    BY <1>1
  <2>2. <<>> \in Seq(0 .. 255)
    OBVIOUS
  <2>20. \A v \in Seq(0 .. 255) : <<>> \o v = v
    BY ConcatEmptySeq
  <2>21. ASSUME NEW r \in Cursors(t), q < r, NEW y \in Int, NEW v \in Seq(0 .. 255)
         PROVE  R(r, y, w \o v) = Prefixed(w, R(r, y, <<>> \o v))
    <3>1. r \in q + 1 .. m
      BY <1>1, <2>1, <2>21
    <3>2. r \in D /\ w \o v \in Seq(0 .. 255) /\ <<>> \o v = v
      BY <1>2, <2>20, <3>1, ConcatProperties
    <3>3. R(r, y, w \o v) = Prefixed(w \o v, R(r, y, <<>>)) /\ R(r, y, v) = Prefixed(v, R(r, y, <<>>))
      BY <3>2
    <3>4. R(r, y, <<>>) \in Results(t)
      BY <2>2, ReadCases
    <3> HIDE DEF R
    <3>5. Prefixed(w, Prefixed(v, R(r, y, <<>>))) = Prefixed(w \o v, R(r, y, <<>>))
      BY <3>4, PrefixedTwice
    <3> QED
      BY <3>2, <3>3, <3>5
  <2>3. \A z \in Seq(0 .. 255) :
           /\ At(t, q) = 0 => R(q, x, z) = Overrun(z, q)
           /\ EndHere(t, q, x) => R(q, x, z) = Complete(z, q + 1)
           /\ EscapeHere(t, q, x) /\ ~Unescaped(t, q).ok => R(q, x, z) = Refused(z, q)
           /\ EscapeHere(t, q, x) /\ Unescaped(t, q).ok =>
                 R(q, x, z) = R(Unescaped(t, q).end, x - EscapesOf(Unescaped(t, q).val),
                                z \o Unescaped(t, q).val)
           /\ ByteHere(t, q, x) => R(q, x, z) = R(q + 1, x, Append(z, At(t, q)))
    BY <2>1, ReadCases
  <2>30. /\ Prefixed(w, Overrun(<<>>, q)) = Overrun(w, q)
         /\ Prefixed(w, Refused(<<>>, q)) = Refused(w, q)
         /\ Prefixed(w, Complete(<<>>, q + 1)) = Complete(w, q + 1)
    BY PrefixedEnds
  <2>4. CASE At(t, q) = 0
    <3>1. R(q, x, w) = Overrun(w, q) /\ R(q, x, <<>>) = Overrun(<<>>, q)
      BY <2>2, <2>3, <2>4
    <3> HIDE DEF R
    <3> QED
      BY <2>30, <3>1
  <2>5. CASE EndHere(t, q, x)
    <3>1. R(q, x, w) = Complete(w, q + 1) /\ R(q, x, <<>>) = Complete(<<>>, q + 1)
      BY <2>2, <2>3, <2>5
    <3> HIDE DEF R
    <3> QED
      BY <2>30, <3>1
  <2>6. CASE EscapeHere(t, q, x) /\ ~Unescaped(t, q).ok
    <3>1. R(q, x, w) = Refused(w, q) /\ R(q, x, <<>>) = Refused(<<>>, q)
      BY <2>2, <2>3, <2>6
    <3> HIDE DEF R
    <3> QED
      BY <2>30, <3>1
  <2>7. CASE EscapeHere(t, q, x) /\ Unescaped(t, q).ok
    <3>1. PICK v \in Seq(0 .. 255), r \in Cursors(t) :
             q < r /\ Unescaped(t, q).val = v /\ Unescaped(t, q).end = r
      BY <2>1, <2>7, UnescapedGood DEF EscapeHere
    <3>2. EscapesOf(v) \in 1 .. 2
      BY DEF EscapesOf
    <3>3. x - EscapesOf(v) \in Int
      BY <3>2
    <3>4. R(r, x - EscapesOf(v), w \o v) = Prefixed(w, R(r, x - EscapesOf(v), <<>> \o v))
      BY <2>21, <3>1, <3>3
    <3>5. /\ R(q, x, w) = R(r, x - EscapesOf(v), w \o v)
          /\ R(q, x, <<>>) = R(r, x - EscapesOf(v), <<>> \o v)
      BY <2>2, <2>3, <2>7, <3>1
    <3> QED
      BY <3>4, <3>5
  <2>8. CASE ByteHere(t, q, x)
    <3> DEFINE b == <<At(t, q)>>
    <3>1. At(t, q) \in 0 .. 255 /\ q + 1 \in Cursors(t) /\ q < q + 1
      <4>1. q \in Int
        BY <2>1
      <4>2. At(t, q) \in 0 .. 255 /\ (At(t, q) # 0 <=> q \in 1 .. Len(t))
        BY <4>1, AtFacts
      <4>3. At(t, q) # 0
        BY <2>8 DEF ByteHere
      <4> QED
        BY <1>1, <2>1, <4>2, <4>3
    <3>2. b \in Seq(0 .. 255)
      BY <3>1
    <3>3. Append(w, At(t, q)) = w \o b /\ Append(<<>>, At(t, q)) = <<>> \o b
      BY <2>2, <3>1, AppendIsConcat
    <3>4. R(q, x, w) = R(q + 1, x, w \o b) /\ R(q, x, <<>>) = R(q + 1, x, <<>> \o b)
      BY <2>2, <2>3, <2>8, <3>3
    <3> HIDE DEF b
    <3>5. R(q + 1, x, w \o b) = Prefixed(w, R(q + 1, x, <<>> \o b))
      BY <2>21, <3>1, <3>2
    <3> QED
      BY <3>4, <3>5
  <2> QED
    BY <2>4, <2>5, <2>6, <2>7, <2>8 DEF ByteHere
<1>3. D \subseteq 1 .. m
  OBVIOUS
<1>4. \A q \in 1 .. m : (\A r \in q + 1 .. m : r \in D) => q \in D
  BY <1>2
<1>5. D = 1 .. m
  <2> HIDE DEF D, m
  <2> QED
    BY <1>1, <1>3, <1>4, Downward
<1> QED
  BY <1>1, <1>5

\* The second pass from a cursor on, by what is there.
LEMMA WrittenAt ==
    ASSUME NEW t \in Seq(Bytes), NEW p \in Cursors(t), NEW e \in Int
    PROVE  /\ Written(t, p, e) \in Results(t)
           /\ At(t, p) = 0 => Written(t, p, e) = Overrun(<<>>, p)
           /\ EndHere(t, p, e) => Written(t, p, e) = Complete(<<>>, p + 1)
           /\ EscapeHere(t, p, e) /\ ~Unescaped(t, p).ok => Written(t, p, e) = Refused(<<>>, p)
           /\ \A v \in Seq(0 .. 255), q \in Cursors(t) :
                 EscapeHere(t, p, e) /\ Unescaped(t, p) = Good(v, q) =>
                    Written(t, p, e) = Prefixed(v, Written(t, q, e - EscapesOf(v)))
           /\ ByteHere(t, p, e) =>
                 /\ At(t, p) \in 0 .. 255 /\ p + 1 \in Cursors(t)
                 /\ Written(t, p, e) = Prefixed(<<At(t, p)>>, Written(t, p + 1, e))
<1>1. \A q, x : Written(t, q, x) = ReadFrom(t, q, x, <<>>)
  BY DEF Written, ReadFrom
<1>2. <<>> \in Seq(0 .. 255)
  OBVIOUS
<1>3. /\ ReadFrom(t, p, e, <<>>) \in Results(t)
      /\ At(t, p) = 0 => ReadFrom(t, p, e, <<>>) = Overrun(<<>>, p)
      /\ EndHere(t, p, e) => ReadFrom(t, p, e, <<>>) = Complete(<<>>, p + 1)
      /\ EscapeHere(t, p, e) /\ ~Unescaped(t, p).ok => ReadFrom(t, p, e, <<>>) = Refused(<<>>, p)
      /\ EscapeHere(t, p, e) /\ Unescaped(t, p).ok =>
            ReadFrom(t, p, e, <<>>) =
               ReadFrom(t, Unescaped(t, p).end, e - EscapesOf(Unescaped(t, p).val),
                        <<>> \o Unescaped(t, p).val)
      /\ ByteHere(t, p, e) =>
            ReadFrom(t, p, e, <<>>) = ReadFrom(t, p + 1, e, Append(<<>>, At(t, p)))
  BY <1>2, ReadCases, Zenon
<1>4. ASSUME NEW v \in Seq(0 .. 255), NEW q \in Cursors(t),
             EscapeHere(t, p, e), Unescaped(t, p) = Good(v, q)
      PROVE  ReadFrom(t, p, e, <<>>) = Prefixed(v, ReadFrom(t, q, e - EscapesOf(v), <<>>))
  <2>1. Unescaped(t, p).ok /\ Unescaped(t, p).val = v /\ Unescaped(t, p).end = q
    BY <1>4 DEF Good
  <2>2. <<>> \o v = v
    BY ConcatEmptySeq
  <2>3. ReadFrom(t, p, e, <<>>) = ReadFrom(t, q, e - EscapesOf(v), v)
    BY <1>3, <1>4, <2>1, <2>2
  <2>4. EscapesOf(v) \in 1 .. 2
    BY DEF EscapesOf
  <2>5. e - EscapesOf(v) \in Int
    BY <2>4
  <2>6. ReadFrom(t, q, e - EscapesOf(v), v) = Prefixed(v, ReadFrom(t, q, e - EscapesOf(v), <<>>))
    BY <2>5, ReadShift
  <2> QED
    BY <2>3, <2>6
<1>5. ASSUME ByteHere(t, p, e)
      PROVE  /\ At(t, p) \in 0 .. 255 /\ p + 1 \in Cursors(t)
             /\ ReadFrom(t, p, e, <<>>) = Prefixed(<<At(t, p)>>, ReadFrom(t, p + 1, e, <<>>))
  <2>1. p \in Int /\ p \in Nat
    BY CursorCases
  <2>2. /\ At(t, p) \in 0 .. 255 /\ (At(t, p) # 0 <=> p \in 1 .. Len(t))
        /\ Cursors(t) = 1 .. Len(t) + 1 /\ Len(t) \in Nat
    BY <2>1, AtFacts
  <2>3. At(t, p) # 0
    BY <1>5 DEF ByteHere
  <2>4. p + 1 \in Cursors(t)
    BY <2>1, <2>2, <2>3
  <2> DEFINE b == <<At(t, p)>>
  <2>5. b \in Seq(0 .. 255)
    BY <2>2
  <2>6. Append(<<>>, At(t, p)) = b
    OBVIOUS
  <2>7. ReadFrom(t, p, e, <<>>) = ReadFrom(t, p + 1, e, b)
    BY <1>3, <1>5, <2>6
  <2> HIDE DEF b
  <2>8. ReadFrom(t, p + 1, e, b) = Prefixed(b, ReadFrom(t, p + 1, e, <<>>))
    BY <2>4, <2>5, ReadShift
  <2> QED
    BY <2>2, <2>4, <2>7, <2>8 DEF b
<1> QED
  BY <1>1, <1>3, <1>4, <1>5

\* What a longer count and a longer result are.
LEMMA LongerFacts ==
    ASSUME NEW t, NEW r \in Counts(t), NEW a \in Nat, NEW b \in Nat
    PROVE  /\ Longer(r, a, b).ok <=> r.ok
           /\ r.ok => /\ Longer(r, a, b).escape = r.escape + a
                      /\ Longer(r, a, b).len = r.len + b
                      /\ Longer(r, a, b).end = r.end
                      /\ r.escape \in Nat /\ r.len \in Nat /\ r.end \in Cursors(t)
<1>0. ~Bad.ok
  BY DEF Bad
<1>1. CASE r = Bad
  BY <1>0, <1>1 DEF Longer
<1>2. CASE r # Bad
  <2>1. r \in [ok : {TRUE}, escape : Nat, len : Nat, end : Cursors(t)]
    BY <1>2 DEF Counts
  <2>2. r.ok /\ r.escape \in Nat /\ r.len \in Nat /\ r.end \in Cursors(t)
    BY <2>1
  <2> QED
    BY <2>2 DEF Longer
<1> QED
  BY <1>1, <1>2

\* What a result behind other bytes is.
LEMMA PrefixedFacts ==
    ASSUME NEW t, NEW r \in Results(t), NEW v \in Seq(0 .. 255)
    PROVE  /\ Prefixed(v, r).ok = r.ok /\ Prefixed(v, r).over = r.over
           /\ Prefixed(v, r).end = r.end /\ Prefixed(v, r).str = v \o r.str
           /\ Len(Prefixed(v, r).str) = Len(v) + Len(r.str)
           /\ r.str \in Seq(0 .. 255) /\ Len(v) \in Nat /\ Len(r.str) \in Nat
<1>1. r.str \in Seq(0 .. 255)
  BY DEF Results
<1>2. PICK w \in Seq(0 .. 255) : w = r.str
  BY <1>1
<1>3. Len(v \o w) = Len(v) + Len(w) /\ Len(v) \in Nat /\ Len(w) \in Nat
  BY ConcatProperties, LenProperties
<1>4. /\ Prefixed(v, r).ok = r.ok /\ Prefixed(v, r).over = r.over
      /\ Prefixed(v, r).end = r.end /\ Prefixed(v, r).str = v \o r.str
  BY DEF Prefixed
<1> QED
  BY <1>1, <1>2, <1>3, <1>4

\* Four bytes that are none of the first pass's cases.
LEMMA PlainRun ==
    ASSUME NEW t \in Seq(Bytes), NEW p \in Cursors(t),
           Plain(t, p), Plain(t, p + 1), Plain(t, p + 2), Plain(t, p + 3)
    PROVE  p + 4 \in Cursors(t) /\ Counted(t, p) = Longer(Counted(t, p + 4), 0, 4)
<1>0. /\ p \in Nat /\ (p + 1) + 1 = p + 2 /\ (p + 2) + 1 = p + 3 /\ (p + 3) + 1 = p + 4
      /\ 0 + 0 = 0 /\ 1 + 1 = 2 /\ 2 + 1 = 3 /\ 3 + 1 = 4 /\ 1 + 2 = 3 /\ 1 + 3 = 4
      /\ 0 \in Nat /\ 1 \in Nat /\ 2 \in Nat /\ 3 \in Nat
  BY CursorCases
<1>1. ASSUME NEW q \in Cursors(t), Plain(t, q)
      PROVE  /\ q + 1 \in Cursors(t)
             /\ Counted(t, q) = Longer(Counted(t, q + 1), 0, 1)
             /\ Counted(t, q + 1) \in Counts(t)
  <2>1. q + 1 \in Cursors(t)
    BY <1>1, CursorCases
  <2> QED
    BY <1>1, <2>1, CountedAt
<1>2. /\ p + 1 \in Cursors(t) /\ Counted(t, p) = Longer(Counted(t, p + 1), 0, 1)
  BY <1>1
<1>3. /\ p + 2 \in Cursors(t) /\ Counted(t, p + 1) = Longer(Counted(t, p + 2), 0, 1)
  BY <1>0, <1>1, <1>2
<1>4. /\ p + 3 \in Cursors(t) /\ Counted(t, p + 2) = Longer(Counted(t, p + 3), 0, 1)
      /\ Counted(t, p + 3) \in Counts(t)
  BY <1>0, <1>1, <1>3
<1>5. /\ p + 4 \in Cursors(t) /\ Counted(t, p + 3) = Longer(Counted(t, p + 4), 0, 1)
      /\ Counted(t, p + 4) \in Counts(t)
  BY <1>0, <1>1, <1>4
<1> DEFINE K == Counted(t, p + 4)
<1> HIDE DEF K
<1>6. K \in Counts(t) /\ Counted(t, p + 3) = Longer(K, 0, 1)
  BY <1>5 DEF K
<1>7. Longer(Longer(K, 0, 1), 0, 1) = Longer(K, 0 + 0, 1 + 1)
  BY <1>0, <1>6, LongerTwice
<1>8. Longer(Longer(K, 0, 2), 0, 1) = Longer(K, 0 + 0, 2 + 1)
  BY <1>0, <1>6, LongerTwice
<1>9. Longer(Longer(K, 0, 3), 0, 1) = Longer(K, 0 + 0, 3 + 1)
  BY <1>0, <1>6, LongerTwice
<1>10. Counted(t, p) = Longer(K, 0, 4)
  BY <1>0, <1>2, <1>3, <1>4, <1>6, <1>7, <1>8, <1>9
<1> QED
  BY <1>5, <1>10 DEF K

\* What the first pass counted for an escape.
LEMMA EscapeCounted ==
    ASSUME NEW t \in Seq(Bytes), NEW p \in Cursors(t), Escapes(t, p),
           NEW v \in Seq(0 .. 255), NEW q \in Cursors(t), Unescaped(t, p) = Good(v, q),
           ShortEscape(t, p, v) \/ CodeEscape(t, p, v) \/ PairEscape(t, p, v)
    PROVE  \E n \in Nat : Len(v) <= n /\ Counted(t, p) = Longer(Counted(t, q), EscapesOf(v), n)
<1>0. /\ p \in Nat /\ p + 2 \in Cursors(t)
      /\ Counted(t, p) = Longer(Counted(t, p + 2), 1, 1)
  BY CursorCases, CountedAt
<1>00. Good(v, q).end = q /\ \A r : Good(v, r).end = r
  BY DEF Good
<1>01. /\ (p + 2) + 1 = p + 3 /\ (p + 2) + 2 = p + 4 /\ (p + 2) + 3 = p + 5 /\ (p + 2) + 4 = p + 6
       /\ (p + 6) + 2 = p + 8
       /\ (p + 8) + 1 = p + 9 /\ (p + 8) + 2 = p + 10 /\ (p + 8) + 3 = p + 11 /\ (p + 8) + 4 = p + 12
       /\ 2 \in 2 .. 5 /\ 3 \in 2 .. 5 /\ 4 \in 2 .. 5 /\ 5 \in 2 .. 5
       /\ 8 \in 8 .. 11 /\ 9 \in 8 .. 11 /\ 10 \in 8 .. 11 /\ 11 \in 8 .. 11
  BY <1>0
<1>1. CASE ShortEscape(t, p, v)
  <2>1. Len(v) = 1 /\ Unescaped(t, p) = Good(v, p + 2)
    BY <1>1 DEF ShortEscape
  <2>2. q = p + 2
    BY <1>00, <2>1
  <2>3. EscapesOf(v) = 1 /\ Len(v) <= 1 /\ 1 \in Nat
    BY <2>1 DEF EscapesOf
  <2> QED
    BY <1>0, <2>2, <2>3
<1>2. ASSUME CodeEscape(t, p, v) \/ PairEscape(t, p, v)
      PROVE  /\ p + 6 \in Cursors(t)
             /\ Counted(t, p) = Longer(Longer(Counted(t, p + 6), 0, 4), 1, 1)
  <2>1. Plain(t, p + 2) /\ Plain(t, p + 3) /\ Plain(t, p + 4) /\ Plain(t, p + 5)
    BY <1>2, <1>01 DEF CodeEscape, PairEscape
  <2>2. /\ Plain(t, (p + 2) + 1) /\ Plain(t, (p + 2) + 2) /\ Plain(t, (p + 2) + 3)
    BY <1>01, <2>1
  <2>3. (p + 2) + 4 \in Cursors(t) /\ Counted(t, p + 2) = Longer(Counted(t, (p + 2) + 4), 0, 4)
    BY <1>0, <2>1, <2>2, PlainRun
  <2> QED
    BY <1>0, <1>01, <2>3
<1>3. CASE CodeEscape(t, p, v)
  <2>1. Len(v) \in 1 .. 3 /\ Unescaped(t, p) = Good(v, p + 6)
    BY <1>3 DEF CodeEscape
  <2>2. q = p + 6
    BY <1>00, <2>1
  <2>03. Len(v) # 4 /\ Len(v) <= 5
    <3>1. PICK n \in 1 .. 3 : n = Len(v)
      BY <2>1
    <3>2. n # 4 /\ n <= 5
      OBVIOUS
    <3> QED
      BY <3>1, <3>2
  <2>3. /\ EscapesOf(v) = 1 /\ Len(v) <= 5 /\ 5 \in Nat /\ 4 \in Nat /\ 1 \in Nat /\ 0 \in Nat
        /\ 1 + 0 = 1 /\ 1 + 4 = 5
    <3>1. EscapesOf(v) = 1
      BY <2>03 DEF EscapesOf
    <3> QED
      BY <2>03, <3>1
  <2> DEFINE K == Counted(t, q)
  <2>4. K \in Counts(t)
    BY CountedAt
  <2> HIDE DEF K
  <2>5. Longer(Longer(K, 0, 4), 1, 1) = Longer(K, 1 + 0, 1 + 4)
    <3>1. 0 \in Nat /\ 4 \in Nat /\ 1 \in Nat
      OBVIOUS
    <3> QED
      BY <2>4, <3>1, LongerTwice
  <2>6. Counted(t, p) = Longer(K, 1, 5)
    BY <1>2, <1>3, <2>2, <2>3, <2>5 DEF K
  <2> QED
    BY <2>3, <2>6 DEF K
<1>4. CASE PairEscape(t, p, v)
  <2>1. Len(v) = 4 /\ Unescaped(t, p) = Good(v, p + 12)
    BY <1>4 DEF PairEscape
  <2>2. q = p + 12
    BY <1>00, <2>1
  <2>3. EscapesOf(v) = 2
    BY <2>1 DEF EscapesOf
  <2>4. p + 6 \in Cursors(t)
    BY <1>2, <1>4
  <2>5. /\ Escapes(t, p + 6) /\ Plain(t, p + 8) /\ Plain(t, p + 9)
        /\ Plain(t, p + 10) /\ Plain(t, p + 11)
    BY <1>4, <1>01 DEF PairEscape
  <2>6. p + 8 \in Cursors(t) /\ Counted(t, p + 6) = Longer(Counted(t, p + 8), 1, 1)
    <3>1. (p + 6) + 2 \in Cursors(t) /\ Counted(t, p + 6) = Longer(Counted(t, (p + 6) + 2), 1, 1)
      BY <2>4, <2>5, CursorCases, CountedAt
    <3> QED
      BY <1>01, <3>1
  <2>7. Counted(t, p + 8) = Longer(Counted(t, p + 12), 0, 4)
    <3>1. /\ Plain(t, (p + 8) + 1) /\ Plain(t, (p + 8) + 2) /\ Plain(t, (p + 8) + 3)
      BY <1>01, <2>5
    <3>2. Counted(t, p + 8) = Longer(Counted(t, (p + 8) + 4), 0, 4)
      BY <2>5, <2>6, <3>1, PlainRun
    <3> QED
      BY <1>01, <3>2
  <2> DEFINE K == Counted(t, q)
  <2>8. K \in Counts(t)
    BY CountedAt
  <2> HIDE DEF K
  <2>9. Counted(t, p) = Longer(Longer(Longer(Longer(K, 0, 4), 1, 1), 0, 4), 1, 1)
    BY <1>2, <1>4, <2>2, <2>6, <2>7 DEF K
  <2>10. 0 \in Nat /\ 1 \in Nat /\ 2 \in Nat /\ 4 \in Nat /\ 5 \in Nat /\ 9 \in Nat /\ 10 \in Nat
         /\ 1 + 0 = 1 /\ 0 + 1 = 1 /\ 4 + 1 = 5 /\ 5 + 4 = 9 /\ 9 + 1 = 10 /\ 1 + 1 = 2
    OBVIOUS
  <2>11. Longer(Longer(K, 0, 4), 1, 1) = Longer(K, 1, 5)
    BY <2>8, <2>10, LongerTwice
  <2>12. Longer(Longer(K, 1, 5), 0, 4) = Longer(K, 1, 9)
    BY <2>8, <2>10, LongerTwice
  <2>13. Longer(Longer(K, 1, 9), 1, 1) = Longer(K, 2, 10)
    BY <2>8, <2>10, LongerTwice
  <2>14. Counted(t, p) = Longer(K, 2, 10)
    BY <2>9, <2>11, <2>12, <2>13
  <2>15. Len(v) <= 10
    BY <2>1
  <2> QED
    BY <2>3, <2>10, <2>14, <2>15 DEF K
<1> QED
  BY <1>1, <1>3, <1>4

\* The buffer is large enough for the string at p, and both passes end together.
FitsAt(t, p) ==
    LET l == Counted(t, p)
        s == Written(t, p, l.escape)
    IN  l.ok => /\ Len(s.str) <= l.len /\ ~s.over
                /\ s.ok => s.end = l.end + 1

\* A byte or an escape in front of a string that fits.
LEMMA FitsInFront ==
    ASSUME NEW t \in Seq(Bytes), NEW q \in Cursors(t), FitsAt(t, q),
           NEW v \in Seq(0 .. 255), NEW a \in Nat, NEW n \in Nat, Len(v) <= n,
           NEW p, Counted(t, p) = Longer(Counted(t, q), a, n),
           Counted(t, p).ok =>
              Written(t, p, Counted(t, p).escape)
                 = Prefixed(v, Written(t, q, Counted(t, p).escape - a))
    PROVE  FitsAt(t, p)
<1> DEFINE l == Counted(t, p)
           k == Counted(t, q)
           s == Written(t, q, k.escape)
<1> SUFFICES ASSUME l.ok
             PROVE  LET w == Written(t, p, l.escape)
                    IN  /\ Len(w.str) <= l.len /\ ~w.over
                        /\ w.ok => w.end = l.end + 1
  BY DEF FitsAt
<1>1. k \in Counts(t)
  BY CountedAt
<1>2. /\ k.ok /\ l.escape = k.escape + a /\ l.len = k.len + n /\ l.end = k.end
      /\ k.escape \in Nat /\ k.len \in Nat
  <2>1. l = Longer(k, a, n) /\ l.ok
    OBVIOUS
  <2> HIDE DEF k, l
  <2>2. /\ Longer(k, a, n).ok <=> k.ok
        /\ k.ok => /\ Longer(k, a, n).escape = k.escape + a
                   /\ Longer(k, a, n).len = k.len + n
                   /\ Longer(k, a, n).end = k.end
                   /\ k.escape \in Nat /\ k.len \in Nat
    BY <1>1, LongerFacts
  <2> QED
    BY <2>1, <2>2
<1>3. l.escape - a = k.escape /\ k.escape \in Int
  BY <1>2
<1>4. Written(t, p, l.escape) = Prefixed(v, s)
  BY <1>3
<1>5. s \in Results(t)
  BY <1>3, WrittenAt
<1>6. Len(s.str) <= k.len /\ ~s.over /\ (s.ok => s.end = k.end + 1)
  BY <1>2 DEF FitsAt
<1> HIDE DEF s, k, l
<1>7. /\ Prefixed(v, s).ok = s.ok /\ Prefixed(v, s).over = s.over
      /\ Prefixed(v, s).end = s.end
      /\ Len(Prefixed(v, s).str) = Len(v) + Len(s.str)
      /\ Len(v) \in Nat /\ Len(s.str) \in Nat
  BY <1>5, PrefixedFacts
<1>8. Len(v) + Len(s.str) <= l.len
  <2> DEFINE x == Len(v)
             y == Len(s.str)
             z == k.len
  <2>1. x \in Nat /\ y \in Nat /\ z \in Nat /\ n \in Nat /\ x <= n /\ y <= z
    BY <1>2, <1>6, <1>7
  <2> HIDE DEF x, y, z
  <2>2. x + y <= z + n
    BY <2>1
  <2> QED
    BY <1>2, <2>2 DEF x, y, z
<1> QED
  BY <1>2, <1>4, <1>6, <1>7, <1>8

\* The second pass fits into what the first counted.
LEMMA Fits ==
    ASSUME NEW t \in Seq(Bytes), NEW p \in Cursors(t)
    PROVE  FitsAt(t, p)
<1> DEFINE m == Len(t) + 1
           D == {q \in 1 .. m : FitsAt(t, q)}
<1>1. m \in Nat /\ Cursors(t) = 1 .. m
  BY LenProperties DEF Cursors
<1>2. ASSUME NEW q \in 1 .. m, \A r \in q + 1 .. m : r \in D
      PROVE  FitsAt(t, q)
  <2>0. q \in Cursors(t) /\ q \in Nat /\ 0 \in Nat /\ 1 \in Nat
    BY <1>1
  <2>1. ASSUME NEW r \in Cursors(t), q < r
        PROVE  FitsAt(t, r)
    <3>1. r \in q + 1 .. m
      BY <1>1, <2>0, <2>1
    <3> QED
      BY <1>2, <3>1
  <2>2. /\ Counted(t, q) \in Counts(t)
        /\ Ends(t, q) => Counted(t, q) = Reached(0, 0, q)
        /\ Escapes(t, q) => Counted(t, q) = Longer(Counted(t, q + 2), 1, 1)
        /\ Plain(t, q) => Counted(t, q) = Longer(Counted(t, q + 1), 0, 1)
        /\ Broken(t, q) => Counted(t, q) = Bad
    BY <2>0, CountedAt
  <2>3. CASE Broken(t, q)
    <3>1. ~Counted(t, q).ok
      BY <2>2, <2>3 DEF Bad
    <3> QED
      BY <3>1 DEF FitsAt
  <2>4. CASE Ends(t, q)
    <3> DEFINE l == Reached(0, 0, q)
               w == Complete(<<>>, q + 1)
    <3>1. Counted(t, q) = l /\ l.escape = 0 /\ l.len = 0 /\ l.end = q /\ l.ok
      BY <2>2, <2>4 DEF Reached
    <3>2. EndHere(t, q, 0)
      BY <2>4 DEF EndHere, Ends
    <3>3. Written(t, q, 0) = w
      <4>1. 0 \in Int
        OBVIOUS
      <4> QED
        BY <2>0, <3>2, <4>1, WrittenAt
    <3>4. w.str = <<>> /\ ~w.over /\ w.end = q + 1
      BY DEF Complete
    <3>5. Len(w.str) = 0
      BY <3>4
    <3> HIDE DEF l, w
    <3> QED
      BY <3>1, <3>3, <3>4, <3>5 DEF FitsAt
  <2>5. CASE Plain(t, q)
    <3> DEFINE e == Counted(t, q).escape
               v == <<At(t, q)>>
    <3>1. q + 1 \in Cursors(t) /\ q < q + 1
      BY <2>0, <2>5, CursorCases
    <3>2. FitsAt(t, q + 1)
      BY <2>1, <3>1
    <3>3. At(t, q) \in 0 .. 255 /\ At(t, q) # 0 /\ At(t, q) # Quote /\ At(t, q) # Backslash
      <4>1. q \in Int
        BY <2>0
      <4>2. At(t, q) \in 0 .. 255
        BY <4>1, AtFacts
      <4> QED
        BY <2>5, <4>2 DEF Plain
    <3>4. v \in Seq(0 .. 255) /\ Len(v) <= 1
      BY <3>3
    <3>5. ByteHere(t, q, e)
      BY <3>3 DEF ByteHere, EscapeHere, EndHere
    <3>6. Counted(t, q) = Longer(Counted(t, q + 1), 0, 1)
      BY <2>2, <2>5
    <3>60. Counted(t, q + 1) \in Counts(t)
      BY <3>1, CountedAt
    <3>7. Counted(t, q).ok => e \in Nat
      <4> DEFINE k == Counted(t, q + 1)
      <4>0. k \in Counts(t)
        BY <3>60
      <4> HIDE DEF k
      <4>1. /\ Longer(k, 0, 1).ok <=> k.ok
            /\ k.ok => Longer(k, 0, 1).escape = k.escape + 0 /\ k.escape \in Nat
        BY <2>0, <4>0, LongerFacts
      <4> QED
        BY <3>6, <4>1 DEF k
    <3>8. Counted(t, q).ok => e \in Int /\ e - 0 = e
      BY <3>7
    <3>9. Counted(t, q).ok => Written(t, q, e) = Prefixed(v, Written(t, q + 1, e - 0))
      BY <2>0, <3>5, <3>8, WrittenAt
    <3> HIDE DEF v, e
    <3> QED
      BY <2>0, <3>1, <3>2, <3>4, <3>6, <3>9, FitsInFront DEF e
  <2>6. CASE Escapes(t, q)
    <3> DEFINE e == Counted(t, q).escape
    <3>1. q + 2 \in Cursors(t)
      BY <2>0, <2>6, CursorCases
    <3>2. Counted(t, q) = Longer(Counted(t, q + 2), 1, 1) /\ Counted(t, q + 2) \in Counts(t)
      BY <2>2, <2>6, <3>1, CountedAt
    <3>3. Counted(t, q).ok => e \in Nat /\ e # 0 /\ Counted(t, q).len \in Nat
      <4> DEFINE k == Counted(t, q + 2)
      <4>0. k \in Counts(t)
        BY <3>2
      <4> HIDE DEF k
      <4>1. /\ Longer(k, 1, 1).ok <=> k.ok
            /\ k.ok => /\ Longer(k, 1, 1).escape = k.escape + 1 /\ k.escape \in Nat
                       /\ Longer(k, 1, 1).len = k.len + 1 /\ k.len \in Nat
        BY <2>0, <4>0, LongerFacts
      <4> QED
        BY <3>2, <4>1 DEF k
    <3> SUFFICES ASSUME Counted(t, q).ok
                 PROVE  FitsAt(t, q)
      BY DEF FitsAt
    <3>4. EscapeHere(t, q, e) /\ e \in Int /\ At(t, q) = Backslash
      BY <2>6, <3>3 DEF EscapeHere, Escapes
    <3>5. CASE ~Unescaped(t, q).ok
      <4> DEFINE w == Refused(<<>>, q)
      <4>1. Written(t, q, e) = w
        BY <2>0, <3>4, <3>5, WrittenAt
      <4>2. w.str = <<>> /\ ~w.over /\ ~w.ok
        BY DEF Refused
      <4>3. Len(w.str) = 0
        BY <4>2
      <4> HIDE DEF w
      <4>4. Len(w.str) <= Counted(t, q).len
        BY <3>3, <4>3
      <4> QED
        BY <4>1, <4>2, <4>4 DEF FitsAt
    <3>6. CASE Unescaped(t, q).ok
      <4>1. PICK v \in Seq(0 .. 255), r \in Cursors(t) :
               /\ q < r /\ Unescaped(t, q) = Good(v, r)
               /\ ShortEscape(t, q, v) \/ CodeEscape(t, q, v) \/ PairEscape(t, q, v)
        BY <2>0, <3>4, <3>6, UnescapedGood
      <4>2. PICK n \in Nat :
               Len(v) <= n /\ Counted(t, q) = Longer(Counted(t, r), EscapesOf(v), n)
        BY <2>0, <2>6, <4>1, EscapeCounted
      <4>3. EscapesOf(v) \in Nat
        BY DEF EscapesOf
      <4>4. Written(t, q, e) = Prefixed(v, Written(t, r, e - EscapesOf(v)))
        <5> HIDE DEF e
        <5>1. \A u \in Seq(0 .. 255), x \in Cursors(t) :
                 EscapeHere(t, q, e) /\ Unescaped(t, q) = Good(u, x) =>
                    Written(t, q, e) = Prefixed(u, Written(t, x, e - EscapesOf(u)))
          BY <2>0, <3>4, WrittenAt
        <5> QED
          BY <3>4, <4>1, <5>1
      <4>5. FitsAt(t, r)
        BY <2>1, <4>1
      <4> QED
        BY <4>2, <4>3, <4>4, <4>5, FitsInFront
    <3> QED
      BY <3>5, <3>6
  <2> QED
    BY <2>0, <2>3, <2>4, <2>5, <2>6, CursorCases
<1>3. D \subseteq 1 .. m
  OBVIOUS
<1>4. \A q \in 1 .. m : (\A r \in q + 1 .. m : r \in D) => q \in D
  BY <1>2
<1>5. D = 1 .. m
  <2> HIDE DEF D, m
  <2> QED
    BY <1>1, <1>3, <1>4, Downward
<1> QED
  BY <1>1, <1>5

\* f gives level 0 the value f0, and each other level what G makes of the one below.
Climbs(f, I, f0, G) == f = [n \in I |-> IF n = 0 THEN f0 ELSE G[<<n, f[n - 1]>>]]

\* A recursion from a level to the next has a solution, of the type of each level.
LEMMA LevelRecursion ==
    ASSUME NEW I, I \subseteq Nat, 0 \in I, \A n \in I : n # 0 => n - 1 \in I,
           NEW V, NEW f0 \in V[0], NEW G,
           \A n \in I : n # 0 => \A w \in V[n - 1] : G[<<n, w>>] \in V[n]
    PROVE  \E f : Climbs(f, I, f0, G) /\ \A n \in I : f[n] \in V[n]
<1> DEFINE W == UNION {V[n] : n \in I}
           rank == [n \in I |-> n]
           Next0(f, n) == IF n = 0 THEN f0
                          ELSE IF f[n - 1] \in V[n - 1] THEN G[<<n, f[n - 1]>>] ELSE f0
           H == [a \in [I -> W] \X I |-> Next0(a[1], a[2])]
<1>1. f0 \in W /\ rank \in [I -> Nat] /\ \A n \in I : rank[n] = n
  OBVIOUS
<1>2. \A n \in I : \A w \in V[n] : w \in W
  OBVIOUS
<1>3. \A f \in [I -> W] : \A n \in I : H[<<f, n>>] = Next0(f, n)
  OBVIOUS
<1>4. H \in [[I -> W] \X I -> W]
  <2> SUFFICES ASSUME NEW f \in [I -> W], NEW n \in I
               PROVE  Next0(f, n) \in W
    OBVIOUS
  <2>1. CASE n # 0 /\ f[n - 1] \in V[n - 1]
    <3>1. G[<<n, f[n - 1]>>] \in V[n]
      BY <2>1
    <3>2. G[<<n, f[n - 1]>>] \in W
      BY <1>2, <3>1
    <3> HIDE DEF W
    <3> QED
      BY <2>1, <3>2
  <2>2. CASE ~(n # 0 /\ f[n - 1] \in V[n - 1])
    <3>1. Next0(f, n) = f0
      BY <2>2
    <3> HIDE DEF W, Next0
    <3> QED
      BY <1>1, <3>1
  <2> QED
    BY <2>1, <2>2
<1>5. ASSUME NEW f \in [I -> W], NEW g \in [I -> W], NEW n \in I,
             \A k \in I : rank[k] < rank[n] => f[k] = g[k]
      PROVE  H[<<f, n>>] = H[<<g, n>>]
  <2>1. n # 0 => n - 1 \in I /\ rank[n - 1] < rank[n]
    <3> SUFFICES ASSUME n # 0
                 PROVE  n - 1 \in I /\ rank[n - 1] < rank[n]
      OBVIOUS
    <3>1. n - 1 \in I /\ n \in Nat
      OBVIOUS
    <3>2. rank[n - 1] = n - 1 /\ rank[n] = n /\ n - 1 < n
      BY <1>1, <3>1
    <3> QED
      BY <3>1, <3>2
  <2>2. n # 0 => f[n - 1] = g[n - 1]
    BY <1>5, <2>1
  <2>3. Next0(f, n) = Next0(g, n)
    BY <2>2
  <2> HIDE DEF H, W, rank, Next0
  <2> QED
    BY <1>3, <2>3
<1>6. AsksBelow(I, W, rank, H)
  <2> HIDE DEF H, W, rank, Next0
  <2> QED
    BY <1>5 DEF AsksBelow
<1> HIDE DEF H, W, rank
<1>7. PICK f \in [I -> W] : Solves(f, I, H)
  BY <1>1, <1>4, <1>6, Recursion
<1>8. \A n \in I : f[n] = Next0(f, n)
  <2> HIDE DEF Next0
  <2> QED
    BY <1>3, <1>7 DEF Solves
<1> DEFINE Failing == {n \in I : f[n] \notin V[n]}
<1>9. Failing = {}
  <2> SUFFICES ASSUME Failing # {}
               PROVE  FALSE
    OBVIOUS
  <2>1. PICK n \in Failing : \A k \in Failing : n <= k
    <3>1. Failing \subseteq Nat
      OBVIOUS
    <3> HIDE DEF Failing
    <3> QED
      BY <3>1, Smallest
  <2>2. n \in I /\ n \in Nat /\ f[n] \notin V[n]
    BY <2>1
  <2>3. n # 0
    BY <1>8, <2>2
  <2>4. n - 1 \in I /\ n - 1 \notin Failing
    <3>1. n - 1 \in I /\ ~(n <= n - 1)
      BY <2>2, <2>3
    <3> QED
      BY <2>1, <3>1
  <2>5. f[n - 1] \in V[n - 1]
    BY <2>4
  <2>6. f[n] = G[<<n, f[n - 1]>>]
    BY <1>8, <2>2, <2>3, <2>5
  <2>7. G[<<n, f[n - 1]>>] \in V[n]
    BY <2>2, <2>3, <2>5
  <2> QED
    BY <2>2, <2>6, <2>7
<1>10. \A n \in I : f[n] = IF n = 0 THEN f0 ELSE G[<<n, f[n - 1]>>]
  <2> SUFFICES ASSUME NEW n \in I, n # 0
               PROVE  f[n] = G[<<n, f[n - 1]>>]
    BY <1>8
  <2>1. f[n - 1] \in V[n - 1]
    BY <1>9
  <2> QED
    BY <1>8, <2>1
<1>11. f = [n \in I |-> IF n = 0 THEN f0 ELSE G[<<n, f[n - 1]>>]]
  BY <1>10
<1> QED
  BY <1>9, <1>11 DEF Climbs

-----------------------------------------------------------------------------
(* Values.                                                                  *)

\* The values that are one level above those of S.
Above(S) ==
    Scalars
    \cup [type : {"array"}, items : Seq([name : {<<>>}, val : S])]
    \cup [type : {"object"}, items : Seq([name : Seq(Bytes), val : S])]

LevelsTo(f, n) == f = [k \in 0 .. n |-> IF k = 0 THEN Scalars ELSE Above(f[k - 1])]

\* The levels of the values can be built.
LEMMA LevelsExist == \A n \in Nat : \E f : LevelsTo(f, n)
<1> DEFINE Without == {n \in Nat : ~\E f : LevelsTo(f, n)}
<1> SUFFICES ASSUME Without # {}
             PROVE  FALSE
  OBVIOUS
<1>1. PICK n \in Without : \A k \in Without : n <= k
  BY Smallest
<1>2. n # 0
  <2>1. 0 .. 0 = {0}
    OBVIOUS
  <2>2. LevelsTo([k \in 0 .. 0 |-> Scalars], 0)
    BY <2>1 DEF LevelsTo
  <2> QED
    BY <1>1, <2>2
<1>3. n \in Nat /\ n - 1 \in Nat /\ n - 1 \notin Without
  BY <1>1, <1>2
<1>4. PICK f : LevelsTo(f, n - 1)
  BY <1>3
<1> DEFINE g == [k \in 0 .. n |-> IF k = n THEN Above(f[n - 1]) ELSE f[k]]
<1>5. \A k \in 0 .. n - 1 : f[k] = IF k = 0 THEN Scalars ELSE Above(f[k - 1])
  BY <1>4 DEF LevelsTo
<1>6. \A k \in 0 .. n - 1 : g[k] = f[k]
  BY <1>3
<1>7. g[n] = Above(f[n - 1])
  BY <1>3
<1>8. g = [k \in 0 .. n |-> g[k]]
  OBVIOUS
<1> HIDE DEF g
<1>9. \A k \in 0 .. n : g[k] = IF k = 0 THEN Scalars ELSE Above(g[k - 1])
  <2> SUFFICES ASSUME NEW k \in 0 .. n
               PROVE  g[k] = IF k = 0 THEN Scalars ELSE Above(g[k - 1])
    OBVIOUS
  <2>1. CASE k = n
    <3>1. n - 1 \in 0 .. n - 1
      BY <1>3
    <3>2. g[n - 1] = f[n - 1]
      BY <1>6, <3>1
    <3> QED
      BY <1>2, <1>7, <2>1, <3>2
  <2>2. CASE k # n
    <3>1. k \in 0 .. n - 1 /\ (k # 0 => k - 1 \in 0 .. n - 1)
      BY <1>3, <2>2
    <3>2. g[k] = f[k] /\ (k # 0 => g[k - 1] = f[k - 1])
      BY <1>6, <3>1
    <3>3. f[k] = IF k = 0 THEN Scalars ELSE Above(f[k - 1])
      BY <1>5, <3>1
    <3> QED
      BY <3>2, <3>3
  <2> QED
    BY <2>1, <2>2
<1>10. LevelsTo(g, n)
  BY <1>8, <1>9 DEF LevelsTo
<1> QED
  BY <1>1, <1>10

\* They are the same however many are built.
LEMMA LevelsUnique ==
    ASSUME NEW n \in Nat, NEW m \in Nat, NEW f, LevelsTo(f, n), NEW g, LevelsTo(g, m),
           NEW k \in Nat, k <= n, k <= m
    PROVE  f[k] = g[k]
<1> DEFINE D == {i \in Nat : i <= n /\ i <= m /\ f[i] # g[i]}
<1> SUFFICES ASSUME D # {}
             PROVE  FALSE
  OBVIOUS
<1>1. PICK i \in D : \A j \in D : i <= j
  BY Smallest
<1>2. i \in 0 .. n /\ i \in 0 .. m /\ f[i] # g[i]
  BY <1>1
<1>3. /\ f[i] = IF i = 0 THEN Scalars ELSE Above(f[i - 1])
      /\ g[i] = IF i = 0 THEN Scalars ELSE Above(g[i - 1])
  BY <1>2 DEF LevelsTo
<1>4. i # 0
  BY <1>2, <1>3
<1>5. i - 1 \in Nat /\ i - 1 <= n /\ i - 1 <= m /\ ~(i <= i - 1)
  BY <1>2, <1>4
<1>6. f[i - 1] = g[i - 1]
  BY <1>1, <1>5
<1> QED
  BY <1>2, <1>3, <1>4, <1>6

\* What the values of a level are.
LEMMA ValuesSolved ==
    \A n \in Nat : Values[n] = IF n = 0 THEN Scalars ELSE Above(Values[n - 1])
<1> DEFINE Def(f) == f = [n \in Nat |-> IF n = 0 THEN Scalars ELSE Above(f[n - 1])]
           pick == [n \in Nat |-> CHOOSE f : LevelsTo(f, n)]
           F == [n \in Nat |-> pick[n][n]]
<1>1. Values = CHOOSE f : Def(f)
  BY DEF Values, Above
<1>2. \A n \in Nat : LevelsTo(pick[n], n)
  BY LevelsExist
<1> HIDE DEF pick
<1>3. \A n \in Nat : F[n] = IF n = 0 THEN Scalars ELSE Above(F[n - 1])
  <2> SUFFICES ASSUME NEW n \in Nat
               PROVE  pick[n][n] = IF n = 0 THEN Scalars ELSE Above(F[n - 1])
    OBVIOUS
  <2>1. pick[n][n] = IF n = 0 THEN Scalars ELSE Above(pick[n][n - 1])
    <3>1. n \in 0 .. n
      OBVIOUS
    <3>2. \A k \in 0 .. n : pick[n][k] = IF k = 0 THEN Scalars ELSE Above(pick[n][k - 1])
      BY <1>2 DEF LevelsTo
    <3> QED
      BY <3>1, <3>2
  <2>2. ASSUME n # 0
        PROVE  pick[n][n - 1] = F[n - 1]
    <3>1. n - 1 \in Nat /\ n - 1 <= n /\ n - 1 <= n - 1
      BY <2>2
    <3>2. LevelsTo(pick[n], n) /\ LevelsTo(pick[n - 1], n - 1)
      BY <1>2, <3>1
    <3>3. pick[n][n - 1] = pick[n - 1][n - 1]
      BY <3>1, <3>2, LevelsUnique
    <3> QED
      BY <3>1, <3>3
  <2> HIDE DEF F
  <2> QED
    BY <2>1, <2>2
<1>4. Def(F)
  <2>1. F = [n \in Nat |-> F[n]]
    OBVIOUS
  <2> HIDE DEF F
  <2> QED
    BY <1>3, <2>1
<1>5. Def(Values)
  <2> HIDE DEF F, Def
  <2> QED
    BY <1>1, <1>4
<1> QED
  BY <1>5

-----------------------------------------------------------------------------
(* Numbers.                                                                 *)

\* A number is ten times its tenth and its last figure.
LEMMA Divided ==
    ASSUME NEW n \in Nat
    PROVE  /\ n \div 10 \in Nat /\ n % 10 \in 0 .. 9 /\ n = 10 * (n \div 10) + (n % 10)
           /\ n >= 10 => n \div 10 < n /\ n \div 10 # 0
  OBVIOUS

\* The figures of a number are those of its tenth and one more.
LEMMA DecimalSolved ==
    /\ Decimal \in [Nat -> Seq(DigitBytes)]
    /\ \A n \in Nat :
          Decimal[n] = IF n < 10 THEN <<48 + n>> ELSE Append(Decimal[n \div 10], 48 + (n % 10))
<1> DEFINE V == Seq(DigitBytes)
           rank == [n \in Nat |-> n]
           Digits(f, n) == IF n < 10 THEN <<48 + n>> ELSE Append(f[n \div 10], 48 + (n % 10))
           G == [a \in [Nat -> V] \X Nat |-> Digits(a[1], a[2])]
           Def(f) == f = [n \in Nat |-> Digits(f, n)]
<1>1. rank \in [Nat -> Nat] /\ \A n \in Nat : rank[n] = n
  OBVIOUS
<1>2. <<>> \in V
  OBVIOUS
<1>3. \A f \in [Nat -> V] : \A n \in Nat : G[<<f, n>>] = Digits(f, n)
  OBVIOUS
<1>4. \A f : \A n \in Nat : (n >= 10 => f[n \div 10] \in V) => Digits(f, n) \in V
  <2> SUFFICES ASSUME NEW f, NEW n \in Nat, n >= 10 => f[n \div 10] \in V
               PROVE  Digits(f, n) \in V
    OBVIOUS
  <2>1. CASE n < 10
    <3>1. 48 + n \in DigitBytes
      BY <2>1 DEF DigitBytes
    <3>2. <<48 + n>> \in V
      BY <3>1
    <3> QED
      BY <2>1, <3>2
  <2>2. CASE ~(n < 10)
    <3>1. 48 + (n % 10) \in DigitBytes
      BY Divided DEF DigitBytes
    <3>2. PICK s \in Seq(DigitBytes) : s = f[n \div 10]
      BY <2>2
    <3>3. Append(s, 48 + (n % 10)) \in V
      BY <3>1, AppendProperties
    <3> QED
      BY <2>2, <3>2, <3>3
  <2> QED
    BY <2>1, <2>2
<1>5. G \in [[Nat -> V] \X Nat -> V]
  <2> SUFFICES ASSUME NEW f \in [Nat -> V], NEW n \in Nat
               PROVE  Digits(f, n) \in V
    OBVIOUS
  <2>1. f[n \div 10] \in V
    BY Divided
  <2> HIDE DEF Digits, V
  <2> QED
    BY <1>4, <2>1
<1>6. ASSUME NEW f \in [Nat -> V], NEW g \in [Nat -> V], NEW n \in Nat,
             \A k \in Nat : rank[k] < rank[n] => f[k] = g[k]
      PROVE  G[<<f, n>>] = G[<<g, n>>]
  <2>1. n >= 10 => f[n \div 10] = g[n \div 10]
    <3> SUFFICES ASSUME n >= 10
                 PROVE  f[n \div 10] = g[n \div 10]
      OBVIOUS
    <3>1. n \div 10 \in Nat /\ n \div 10 < n
      BY Divided
    <3>2. rank[n \div 10] < rank[n]
      BY <1>1, <3>1
    <3> QED
      BY <1>6, <3>1, <3>2
  <2>2. Digits(f, n) = Digits(g, n)
    BY <2>1
  <2> HIDE DEF Digits, G, V, rank
  <2> QED
    BY <1>3, <2>2
<1>7. AsksBelow(Nat, V, rank, G)
  <2> HIDE DEF Digits, G, V, rank
  <2> QED
    BY <1>6 DEF AsksBelow
<1> HIDE DEF G, V, rank
<1>8. PICK f \in [Nat -> V] : Solves(f, Nat, G)
  BY <1>1, <1>2, <1>5, <1>7, Recursion
<1>9. Def(f)
  <2>1. \A n \in Nat : f[n] = Digits(f, n)
    <3> HIDE DEF Digits
    <3> QED
      BY <1>3, <1>8 DEF Solves
  <2> HIDE DEF Digits
  <2> QED
    BY <2>1
<1>10. Decimal = CHOOSE h : Def(h)
  BY DEF Decimal
<1>11. Def(Decimal)
  <2> HIDE DEF Def
  <2> QED
    BY <1>9, <1>10
<1>12. \A n \in Nat : Decimal[n] = Digits(Decimal, n)
  BY <1>11
<1> DEFINE Failing == {n \in Nat : Decimal[n] \notin V}
<1>13. Failing = {}
  <2> SUFFICES ASSUME Failing # {}
               PROVE  FALSE
    OBVIOUS
  <2>1. PICK n \in Failing : \A k \in Failing : n <= k
    <3>1. Failing \subseteq Nat
      OBVIOUS
    <3> HIDE DEF Failing
    <3> QED
      BY <3>1, Smallest
  <2>2. n >= 10 => n \div 10 \in Nat /\ n \div 10 \notin Failing
    <3> SUFFICES ASSUME n >= 10
                 PROVE  n \div 10 \in Nat /\ n \div 10 \notin Failing
      OBVIOUS
    <3>1. n \div 10 \in Nat /\ n \div 10 < n
      BY Divided
    <3>2. ~(n <= n \div 10)
      BY <3>1
    <3> QED
      BY <2>1, <3>1, <3>2
  <2>3. n >= 10 => Decimal[n \div 10] \in V
    BY <2>2
  <2>4. n \in Nat /\ Decimal[n] \notin V
    BY <2>1
  <2> HIDE DEF Digits
  <2> QED
    BY <1>4, <1>12, <2>3, <2>4
<1>14. Decimal \in [Nat -> V]
  <2>1. Decimal = [n \in Nat |-> Decimal[n]]
    BY <1>11
  <2> QED
    BY <1>13, <2>1
<1> QED
  BY <1>12, <1>14 DEF V

\* One more figure.
LEMMA DecimalGrows ==
    ASSUME NEW n \in Nat, n # 0, NEW d \in 0 .. 9
    PROVE  /\ 10 * n + d \in Nat /\ 10 * n + d # 0
           /\ Decimal[10 * n + d] = Append(Decimal[n], 48 + d)
           /\ Len(Decimal[10 * n + d]) = Len(Decimal[n]) + 1
           /\ Len(Decimal[n]) \in Nat
<1>1. /\ 10 * n + d \in Nat /\ ~(10 * n + d < 10)
      /\ (10 * n + d) \div 10 = n /\ (10 * n + d) % 10 = d /\ 10 * n + d # 0
  OBVIOUS
<1> DEFINE m == 10 * n + d
<1> HIDE DEF m
<1>2. m \in Nat /\ ~(m < 10) /\ m \div 10 = n /\ m % 10 = d /\ m # 0
  BY <1>1 DEF m
<1>3. Decimal[m] = Append(Decimal[n], 48 + d)
  BY <1>2, DecimalSolved
<1>4. PICK s \in Seq(DigitBytes) : s = Decimal[n]
  BY DecimalSolved
<1>5. 48 + d \in DigitBytes
  BY DEF DigitBytes
<1>6. Len(Append(s, 48 + d)) = Len(s) + 1 /\ Len(s) \in Nat
  BY <1>5, AppendProperties, LenProperties
<1> QED
  BY <1>2, <1>3, <1>4, <1>6 DEF m

\* A number below ten is one figure.
LEMMA DecimalShort ==
    ASSUME NEW n \in 0 .. 9
    PROVE  Decimal[n] = <<48 + n>> /\ Len(Decimal[n]) = 1
<1>1. Decimal[n] = <<48 + n>>
  <2>1. n \in Nat /\ n < 10
    OBVIOUS
  <2> QED
    BY <2>1, DecimalSolved
<1> QED
  BY <1>1

\* The figures of a number.
Runs(t) == [cursor : Cursors(t), n : Nat]
Mantissas(t) == [ok : {TRUE}, val : Nat, end : Cursors(t)]

Figure(t, c) == [cursor |-> c.cursor + 1, n |-> 10 * c.n + At(t, c.cursor) - 48]

MantissaStep(t, f, c) ==
    IF At(t, c.cursor) \in DigitBytes THEN f[Figure(t, c)] ELSE Good(c.n, c.cursor)

\* Every figure takes the cursor forwards.
LEMMA FigureForward ==
    ASSUME NEW t \in Seq(Bytes), NEW c \in Runs(t)
    PROVE  /\ c.cursor \in Cursors(t) /\ c.cursor \in Nat /\ c.n \in Nat
           /\ At(t, c.cursor) \in DigitBytes =>
                 /\ Figure(t, c) \in Runs(t) /\ Figure(t, c).cursor > c.cursor
                 /\ c.cursor + 1 \in Cursors(t)
<1>1. c.cursor \in Cursors(t) /\ c.n \in Nat
  BY DEF Runs
<1>2. Len(t) \in Nat /\ Cursors(t) = 1 .. Len(t) + 1
  BY LenProperties DEF Cursors
<1>3. c.cursor \in Nat /\ c.cursor \in Int
  BY <1>1, <1>2
<1>4. PICK b \in 0 .. 255 : b = At(t, c.cursor) /\ (b # 0 <=> c.cursor \in 1 .. Len(t))
  <2>1. At(t, c.cursor) \in 0 .. 255 /\ (At(t, c.cursor) # 0 <=> c.cursor \in 1 .. Len(t))
    BY <1>3, AtFacts
  <2> QED
    BY <2>1
<1>5. ASSUME b \in DigitBytes
      PROVE  /\ c.cursor + 1 \in Cursors(t) /\ 10 * c.n + b - 48 \in Nat
             /\ c.cursor + 1 > c.cursor
  <2>1. b >= 48
    BY <1>5 DEF DigitBytes
  <2>2. b # 0
    BY <2>1
  <2>3. c.cursor + 1 \in Cursors(t) /\ c.cursor + 1 > c.cursor
    BY <1>2, <1>3, <1>4, <2>2
  <2>4. PICK n \in Nat : n = c.n
    BY <1>1
  <2>5. 10 * n + b - 48 \in Nat
    BY <2>1
  <2> QED
    BY <2>3, <2>4, <2>5
<1>6. ASSUME b \in DigitBytes
      PROVE  Figure(t, c) \in Runs(t) /\ Figure(t, c).cursor > c.cursor
  <2> DEFINE k == c.cursor + 1
             n == 10 * c.n + b - 48
  <2>1. k \in Cursors(t) /\ n \in Nat /\ k > c.cursor
    BY <1>5, <1>6
  <2>2. Figure(t, c) = [cursor |-> k, n |-> n]
    BY <1>4 DEF Figure
  <2> HIDE DEF k, n
  <2> QED
    BY <2>1, <2>2 DEF Runs
<1> QED
  BY <1>1, <1>3, <1>4, <1>5, <1>6

\* The figures are read by a function of the cursor and of what was read before
\* (JsonParser.c:306-318).
LEMMA MantissaSolved ==
    ASSUME NEW t \in Seq(Bytes)
    PROVE  /\ mantissa(t) \in [Runs(t) -> Mantissas(t)]
           /\ \A c \in Runs(t) : mantissa(t)[c] = MantissaStep(t, mantissa(t), c)
<1> DEFINE S == Runs(t)
           V == Mantissas(t)
           m == Len(t) + 1
           rank == [c \in S |-> m - c.cursor]
           G == [a \in [S -> V] \X S |-> MantissaStep(t, a[1], a[2])]
<1>1. [ok |-> TRUE, val |-> 0, end |-> 1] \in V
  <2>1. 1 \in Cursors(t)
    BY LenProperties DEF Cursors
  <2> QED
    BY <2>1 DEF Mantissas
<1>2. rank \in [S -> Nat] /\ \A c \in S : rank[c] = m - c.cursor
  <2> SUFFICES ASSUME NEW c \in S
               PROVE  m - c.cursor \in Nat
    OBVIOUS
  <2>1. c.cursor \in Cursors(t)
    BY DEF Runs
  <2> QED
    BY <2>1 DEF Cursors
<1>3. ASSUME NEW f, NEW c \in S, At(t, c.cursor) \in DigitBytes => f[Figure(t, c)] \in V
      PROVE  MantissaStep(t, f, c) \in V
  <2>1. Good(c.n, c.cursor) \in V
    BY FigureForward DEF Good, Mantissas
  <2> QED
    BY <1>3, <2>1 DEF MantissaStep
<1>4. G \in [[S -> V] \X S -> V]
      /\ \A f \in [S -> V] : \A c \in S : G[<<f, c>>] = MantissaStep(t, f, c)
  <2>1. \A c \in S : At(t, c.cursor) \in DigitBytes => Figure(t, c) \in S
    BY FigureForward
  <2> HIDE DEF S, V
  <2> QED
    BY <1>3, <2>1
<1>5. ASSUME NEW f, NEW g, NEW c \in S,
             \A d \in S : rank[d] < rank[c] => f[d] = g[d]
      PROVE  MantissaStep(t, f, c) = MantissaStep(t, g, c)
  <2>1. c.cursor \in Nat /\ m \in Nat
    BY FigureForward, LenProperties
  <2>2. At(t, c.cursor) \in DigitBytes => f[Figure(t, c)] = g[Figure(t, c)]
    <3> SUFFICES ASSUME At(t, c.cursor) \in DigitBytes
                 PROVE  f[Figure(t, c)] = g[Figure(t, c)]
      OBVIOUS
    <3>1. Figure(t, c) \in S /\ Figure(t, c).cursor > c.cursor
      BY FigureForward
    <3>2. Figure(t, c).cursor \in Nat
      BY <2>1 DEF Figure
    <3>3. rank[Figure(t, c)] < rank[c]
      BY <1>2, <2>1, <3>1, <3>2
    <3> QED
      BY <1>5, <3>1, <3>3
  <2> HIDE DEF S, V, rank, G
  <2> QED
    BY <2>2 DEF MantissaStep
<1>6. AsksBelow(S, V, rank, G)
  <2> HIDE DEF S, V, rank, G
  <2> SUFFICES ASSUME NEW f \in [S -> V], NEW g \in [S -> V], NEW c \in S,
                      \A d \in S : rank[d] < rank[c] => f[d] = g[d]
               PROVE  G[<<f, c>>] = G[<<g, c>>]
    BY DEF AsksBelow
  <2>1. MantissaStep(t, f, c) = MantissaStep(t, g, c)
    BY <1>5
  <2> QED
    BY <1>4, <2>1
<1>7. mantissa(t) = CHOOSE f : f = [c \in S |-> MantissaStep(t, f, c)]
  BY DEF mantissa, MantissaStep, Figure, Runs
<1> HIDE DEF S, V, rank, G
<1>8. PICK f \in [S -> V] : Solves(f, S, G)
  BY <1>1, <1>2, <1>4, <1>6, Recursion
<1>9. f = [c \in S |-> MantissaStep(t, f, c)]
  BY <1>4, <1>8 DEF Solves
<1> DEFINE l == mantissa(t)
<1>11. l = [c \in S |-> MantissaStep(t, l, c)]
  BY <1>7, <1>9
<1> HIDE DEF l
<1>12. \A c \in S : l[c] = MantissaStep(t, l, c)
  BY <1>11
<1> DEFINE D == {c \in S : l[c] \notin V}
<1>13. D = {}
  <2> SUFFICES ASSUME D # {}
               PROVE  FALSE
    OBVIOUS
  <2>1. D \subseteq S
    OBVIOUS
  <2>2. PICK c \in D : \A d \in S : rank[d] < rank[c] => d \notin D
    <3> HIDE DEF D
    <3> QED
      BY <1>2, <2>1, LeastRank
  <2>4. c \in S /\ l[c] \notin V
    BY <2>2
  <2>5. ASSUME At(t, c.cursor) \in DigitBytes
        PROVE  l[Figure(t, c)] \in V
    <3>1. Figure(t, c) \in S /\ Figure(t, c).cursor > c.cursor
          /\ c.cursor \in Nat
      BY <2>4, <2>5, FigureForward DEF S
    <3>2. Figure(t, c).cursor \in Nat /\ m \in Nat
      BY <3>1, LenProperties DEF Figure
    <3>3. rank[Figure(t, c)] < rank[c]
      BY <1>2, <2>4, <3>1, <3>2
    <3> QED
      BY <2>2, <3>1, <3>3
  <2> QED
    BY <1>3, <1>12, <2>4, <2>5
<1>15. l \in [S -> V]
  BY <1>11, <1>13
<1> QED
  BY <1>12, <1>15 DEF l, S, V

\* What is read of a number from a figure on.
MantissaFrom(t, p, n) == mantissa(t)[[cursor |-> p, n |-> n]]

\* What is read of the figures, by what is at the cursor.
LEMMA MantissaCases ==
    ASSUME NEW t \in Seq(Bytes), NEW p \in Cursors(t), NEW n \in Nat
    PROVE  /\ MantissaFrom(t, p, n) \in Mantissas(t)
           /\ At(t, p) \in DigitBytes =>
                 /\ p + 1 \in Cursors(t) /\ 10 * n + At(t, p) - 48 \in Nat
                 /\ MantissaFrom(t, p, n) = MantissaFrom(t, p + 1, 10 * n + At(t, p) - 48)
           /\ At(t, p) \notin DigitBytes => MantissaFrom(t, p, n) = Good(n, p)
<1> DEFINE c == [cursor |-> p, n |-> n]
           l == mantissa(t)
<1>1. c \in Runs(t) /\ c.cursor = p /\ c.n = n
  BY DEF Runs
<1> HIDE DEF c
<1>2. l[c] \in Mantissas(t) /\ l[c] = MantissaStep(t, l, c)
  BY <1>1, MantissaSolved
<1>3. Figure(t, c) = [cursor |-> p + 1, n |-> 10 * n + At(t, p) - 48]
  BY <1>1 DEF Figure
<1>4. At(t, p) \in DigitBytes => Figure(t, c) \in Runs(t) /\ p + 1 \in Cursors(t)
  BY <1>1, FigureForward
<1>5. At(t, p) \in DigitBytes => 10 * n + At(t, p) - 48 \in Nat
  BY <1>3, <1>4 DEF Runs
<1>6. MantissaFrom(t, p, n) = l[c]
  BY DEF MantissaFrom, c
<1>7. At(t, p) \in DigitBytes => l[c] = MantissaFrom(t, p + 1, 10 * n + At(t, p) - 48)
  BY <1>1, <1>2, <1>3 DEF MantissaStep, MantissaFrom
<1>8. At(t, p) \notin DigitBytes => l[c] = Good(n, p)
  BY <1>1, <1>2 DEF MantissaStep
<1> QED
  BY <1>2, <1>4, <1>5, <1>6, <1>7, <1>8

\* The number that is read has as many figures more as the cursor went on.
LEMMA MantissaLength ==
    ASSUME NEW t \in Seq(Bytes), NEW p \in Cursors(t), NEW n \in Nat, n # 0
    PROVE  LET r == MantissaFrom(t, p, n)
           IN  /\ r.end \in Cursors(t) /\ r.end >= p /\ r.val \in Nat
               /\ Len(Decimal[r.val]) = Len(Decimal[n]) + (r.end - p)
<1> DEFINE m == Len(t) + 1
           Right(q, x) == LET r == MantissaFrom(t, q, x)
                          IN  /\ r.end \in Cursors(t) /\ r.end >= q /\ r.val \in Nat
                              /\ Len(Decimal[r.val]) = Len(Decimal[x]) + (r.end - q)
           D == {q \in 1 .. m : \A x \in Nat : x # 0 => Right(q, x)}
<1>1. m \in Nat /\ Cursors(t) = 1 .. m
  BY LenProperties DEF Cursors
<1>2. ASSUME NEW q \in 1 .. m, \A r \in q + 1 .. m : r \in D, NEW x \in Nat, x # 0
      PROVE  Right(q, x)
  <2>0. q \in Cursors(t) /\ q \in Nat
    BY <1>1
  <2>1. PICK b \in 0 .. 255 : b = At(t, q)
    <3>1. q \in Int
      BY <2>0
    <3> QED
      BY <3>1, AtFacts
  <2>2. CASE b \in DigitBytes
    <3> DEFINE d == b - 48
               y == 10 * x + d
    <3>1. d \in 0 .. 9 /\ 10 * x + b - 48 = y
      BY <2>2 DEF DigitBytes
    <3>2. /\ q + 1 \in Cursors(t)
          /\ MantissaFrom(t, q, x) = MantissaFrom(t, q + 1, 10 * x + b - 48)
      BY <2>0, <2>1, <2>2, MantissaCases
    <3> HIDE DEF d
    <3>3. /\ y \in Nat /\ y # 0 /\ Len(Decimal[y]) = Len(Decimal[x]) + 1
          /\ Len(Decimal[x]) \in Nat
      BY <1>2, <3>1, DecimalGrows
    <3> HIDE DEF y
    <3>4. q + 1 \in q + 1 .. m
      BY <1>1, <2>0, <3>2
    <3>5. Right(q + 1, y)
      BY <1>2, <3>3, <3>4
    <3> DEFINE r == MantissaFrom(t, q + 1, y)
    <3>6. /\ r.end \in Cursors(t) /\ r.end >= q + 1 /\ r.val \in Nat
          /\ Len(Decimal[r.val]) = Len(Decimal[y]) + (r.end - (q + 1))
      BY <3>5
    <3>7. MantissaFrom(t, q, x) = r
      BY <3>1, <3>2
    <3> HIDE DEF r
    <3>8. PICK e \in Nat : e = r.end
      BY <1>1, <3>6
    <3>9. e >= q /\ (Len(Decimal[x]) + 1) + (e - (q + 1)) = Len(Decimal[x]) + (e - q)
      <4>1. PICK z \in Nat : z = Len(Decimal[x])
        BY <3>3
      <4>2. e >= q + 1
        BY <3>6, <3>8
      <4>3. e >= q /\ (z + 1) + (e - (q + 1)) = z + (e - q)
        BY <2>0, <4>2
      <4> QED
        BY <4>1, <4>3
    <3> QED
      BY <3>3, <3>6, <3>7, <3>8, <3>9
  <2>3. CASE b \notin DigitBytes
    <3>1. MantissaFrom(t, q, x) = Good(x, q)
      BY <2>0, <2>1, <2>3, MantissaCases
    <3>2. Good(x, q).end = q /\ Good(x, q).val = x
      BY DEF Good
    <3>3. PICK s \in Seq(DigitBytes) : s = Decimal[x]
      BY DecimalSolved
    <3>4. Len(s) \in Nat
      BY LenProperties
    <3>5. q >= q /\ Len(s) = Len(s) + (q - q)
      BY <2>0, <3>4
    <3> QED
      BY <2>0, <3>1, <3>2, <3>3, <3>5
  <2> QED
    BY <2>2, <2>3
<1>3. D \subseteq 1 .. m
  OBVIOUS
<1>4. \A q \in 1 .. m : (\A r \in q + 1 .. m : r \in D) => q \in D
  <2> HIDE DEF Right
  <2> QED
    BY <1>2
<1>5. D = 1 .. m
  <2> HIDE DEF D, m
  <2> QED
    BY <1>1, <1>3, <1>4, Downward
<1> QED
  BY <1>1, <1>5

\* The figures of a number are read, up to what is behind them.
LEMMA MantissaReads ==
    ASSUME NEW t \in Seq(Bytes), NEW n \in Nat, NEW p \in Cursors(t), HasAt(t, p, Decimal[n])
    PROVE  /\ Len(Decimal[n]) \in Nat /\ p + Len(Decimal[n]) \in Cursors(t)
           /\ MantissaFrom(t, p, 0) = MantissaFrom(t, p + Len(Decimal[n]), n)
<1> DEFINE Reads1(k) == \A q \in Cursors(t) : HasAt(t, q, Decimal[k]) =>
                           /\ q + Len(Decimal[k]) \in Cursors(t)
                           /\ MantissaFrom(t, q, 0) = MantissaFrom(t, q + Len(Decimal[k]), k)
           Failing == {k \in Nat : ~Reads1(k)}
<1>0. \A k \in Nat : Decimal[k] \in Seq(DigitBytes) /\ Len(Decimal[k]) \in Nat
  <2> SUFFICES ASSUME NEW k \in Nat
               PROVE  Decimal[k] \in Seq(DigitBytes) /\ Len(Decimal[k]) \in Nat
    OBVIOUS
  <2>1. PICK s \in Seq(DigitBytes) : s = Decimal[k]
    BY DecimalSolved
  <2> QED
    BY <2>1, LenProperties
<1>00. Cursors(t) = 1 .. Len(t) + 1 /\ Len(t) \in Nat
  BY LenProperties DEF Cursors
<1>1. Failing = {}
  <2> SUFFICES ASSUME Failing # {}
               PROVE  FALSE
    OBVIOUS
  <2>1. PICK k \in Failing : \A j \in Failing : k <= j
    <3>1. Failing \subseteq Nat
      OBVIOUS
    <3> HIDE DEF Failing
    <3> QED
      BY <3>1, Smallest
  <2>2. k \in Nat /\ ~Reads1(k)
    BY <2>1
  <2>3. PICK q \in Cursors(t) :
           /\ HasAt(t, q, Decimal[k])
           /\ ~(/\ q + Len(Decimal[k]) \in Cursors(t)
                /\ MantissaFrom(t, q, 0) = MantissaFrom(t, q + Len(Decimal[k]), k))
    BY <2>2
  <2>4. q \in Nat
    BY <1>00
  <2>5. CASE k < 10
    <3>1. Decimal[k] = <<48 + k>> /\ Len(Decimal[k]) = 1
      <4>1. k \in 0 .. 9
        BY <2>2, <2>5
      <4> HIDE DEF Reads1
      <4> QED
        BY <4>1, DecimalShort
    <3>2. At(t, q) = 48 + k
      <4>1. 1 \in DOMAIN Decimal[k] /\ Decimal[k][1] = 48 + k
        BY <3>1
      <4>2. At(t, q + 1 - 1) = Decimal[k][1]
        BY <2>3, <4>1 DEF HasAt
      <4>3. q + 1 - 1 = q
        BY <2>4
      <4> QED
        BY <4>1, <4>2, <4>3
    <3>3. 48 + k \in DigitBytes /\ 10 * 0 + (48 + k) - 48 = k
      BY <2>2, <2>5 DEF DigitBytes
    <3>4. 0 \in Nat
      OBVIOUS
    <3>5. At(t, q) \in DigitBytes /\ 10 * 0 + At(t, q) - 48 = k
      BY <3>2, <3>3
    <3>6. q + 1 \in Cursors(t) /\ MantissaFrom(t, q, 0) = MantissaFrom(t, q + 1, k)
      BY <3>4, <3>5, MantissaCases
    <3> QED
      BY <2>3, <3>1, <3>6
  <2>6. CASE ~(k < 10)
    <3> DEFINE h == k \div 10
               d == k % 10
    <3>1. h \in Nat /\ h < k /\ h # 0 /\ d \in 0 .. 9 /\ k = 10 * h + d
      BY <2>2, <2>6, Divided
    <3> HIDE DEF h, d
    <3>2. h \notin Failing
      BY <2>1, <2>2, <3>1
    <3>3. Reads1(h)
      BY <3>1, <3>2
    <3>4. Decimal[k] = Append(Decimal[h], 48 + d) /\ Len(Decimal[k]) = Len(Decimal[h]) + 1
      BY <3>1, DecimalGrows
    <3>5. PICK s \in Seq(DigitBytes), j \in Nat : s = Decimal[h] /\ j = Len(s)
      BY <1>0, <3>1
    <3>6. 48 + d \in DigitBytes
      BY <3>1 DEF DigitBytes
    <3> DEFINE w == Append(s, 48 + d)
    <3>7. /\ Len(w) = j + 1 /\ w[j + 1] = 48 + d /\ DOMAIN w = 1 .. j + 1 /\ DOMAIN s = 1 .. j
          /\ \A i \in 1 .. j : w[i] = s[i]
      BY <3>5, <3>6, AppendProperties
    <3>8. w = Decimal[k]
      BY <3>4, <3>5
    <3> HIDE DEF w
    <3>9. \A i \in 1 .. j + 1 : At(t, q + i - 1) = w[i]
      BY <2>3, <3>7, <3>8 DEF HasAt
    <3>10. HasAt(t, q, Decimal[h])
      <4>1. \A i \in 1 .. j : i \in 1 .. j + 1
        OBVIOUS
      <4>2. \A i \in DOMAIN s : At(t, q + i - 1) = s[i]
        BY <3>7, <3>9, <4>1
      <4> QED
        BY <3>5, <4>2 DEF HasAt
    <3>11. q + j \in Cursors(t) /\ MantissaFrom(t, q, 0) = MantissaFrom(t, q + j, h)
      BY <3>3, <3>5, <3>10
    <3>12. At(t, q + j) = 48 + d
      <4>1. j + 1 \in 1 .. j + 1 /\ q + (j + 1) - 1 = q + j
        BY <2>4, <3>5
      <4> QED
        BY <3>7, <3>9, <4>1
    <3>13. 10 * h + (48 + d) - 48 = k
      BY <3>1
    <3>130. At(t, q + j) \in DigitBytes /\ 10 * h + At(t, q + j) - 48 = k
      BY <3>6, <3>12, <3>13
    <3>14. /\ (q + j) + 1 \in Cursors(t)
           /\ MantissaFrom(t, q + j, h) = MantissaFrom(t, (q + j) + 1, k)
      BY <3>1, <3>11, <3>130, MantissaCases
    <3>15. (q + j) + 1 = q + (j + 1)
      BY <2>4
    <3>16. q + Len(Decimal[k]) = (q + j) + 1
      BY <3>4, <3>5, <3>15
    <3> QED
      BY <2>3, <3>11, <3>14, <3>16
  <2> QED
    BY <2>5, <2>6
<1>2. Reads1(n)
  BY <1>1
<1> QED
  BY <1>0, <1>2

-----------------------------------------------------------------------------
(* Texts in a text.                                                         *)

\* One text behind another.
LEMMA HasConcat ==
    ASSUME NEW t, NEW p \in Nat, NEW S, NEW a \in Seq(S), NEW b \in Seq(S)
    PROVE  HasAt(t, p, a \o b) <=> HasAt(t, p, a) /\ HasAt(t, p + Len(a), b)
<1> DEFINE c == a \o b
           n == Len(a)
           m == Len(b)
<1>1. /\ n \in Nat /\ m \in Nat /\ Len(c) = n + m
      /\ \A i \in 1 .. n + m : c[i] = IF i <= n THEN a[i] ELSE b[i - n]
      /\ c \in Seq(S)
  BY ConcatProperties, LenProperties
<1>2. DOMAIN a = 1 .. n /\ DOMAIN b = 1 .. m /\ DOMAIN c = 1 .. n + m
  BY <1>1, LenProperties
<1> HIDE DEF c, n, m
<1>3. HasAt(t, p, a) <=> \A i \in 1 .. n : At(t, p + i - 1) = a[i]
  BY <1>2 DEF HasAt
<1>4. HasAt(t, p + n, b) <=> \A i \in 1 .. m : At(t, p + n + i - 1) = b[i]
  BY <1>2 DEF HasAt
<1>5. HasAt(t, p, c) <=> \A i \in 1 .. n + m : At(t, p + i - 1) = c[i]
  BY <1>2 DEF HasAt
<1>6. ASSUME HasAt(t, p, c)
      PROVE  HasAt(t, p, a) /\ HasAt(t, p + n, b)
  <2>1. ASSUME NEW i \in 1 .. n
        PROVE  At(t, p + i - 1) = a[i]
    <3>1. i \in 1 .. n + m /\ i <= n
      BY <1>1
    <3> QED
      BY <1>1, <1>5, <1>6, <3>1
  <2>2. ASSUME NEW i \in 1 .. m
        PROVE  At(t, p + n + i - 1) = b[i]
    <3>1. /\ n + i \in 1 .. n + m /\ ~(n + i <= n) /\ (n + i) - n = i
          /\ p + (n + i) - 1 = p + n + i - 1
      BY <1>1
    <3>2. At(t, p + (n + i) - 1) = c[n + i] /\ c[n + i] = b[(n + i) - n]
      BY <1>1, <1>5, <1>6, <3>1
    <3> QED
      BY <3>1, <3>2
  <2> QED
    BY <1>3, <1>4, <2>1, <2>2
<1>7. ASSUME HasAt(t, p, a), HasAt(t, p + n, b)
      PROVE  HasAt(t, p, c)
  <2> SUFFICES ASSUME NEW i \in 1 .. n + m
               PROVE  At(t, p + i - 1) = c[i]
    BY <1>5
  <2>1. CASE i <= n
    <3>1. i \in 1 .. n
      BY <1>1, <2>1
    <3> QED
      BY <1>1, <1>3, <1>7, <2>1, <3>1
  <2>2. CASE ~(i <= n)
    <3>1. i - n \in 1 .. m /\ p + n + (i - n) - 1 = p + i - 1
      BY <1>1, <2>2
    <3>2. At(t, p + n + (i - n) - 1) = b[i - n]
      BY <1>4, <1>7, <3>1
    <3> QED
      BY <1>1, <2>2, <3>1, <3>2
  <2> QED
    BY <2>1, <2>2
<1> QED
  BY <1>6, <1>7 DEF c, n

\* The first byte, and the cursor behind the text.
LEMMA HasOne ==
    ASSUME NEW t, NEW p \in Nat, NEW c
    PROVE  HasAt(t, p, <<c>>) <=> At(t, p) = c
<1>1. DOMAIN <<c>> = {1} /\ <<c>>[1] = c
  OBVIOUS
<1>2. p + 1 - 1 = p
  OBVIOUS
<1> QED
  BY <1>1, <1>2 DEF HasAt

\* Where a text that is there ends.
LEMMA HasEnds ==
    ASSUME NEW t \in Seq(Bytes), NEW p \in Cursors(t), NEW w \in Seq(Bytes), HasAt(t, p, w)
    PROVE  /\ p + Len(w) \in Cursors(t) /\ Len(w) \in Nat
           /\ Len(w) > 0 => At(t, p) = w[1]
<1>1. /\ Len(w) \in Nat /\ DOMAIN w = 1 .. Len(w) /\ \A i \in 1 .. Len(w) : w[i] \in Bytes
      /\ Len(t) \in Nat /\ Cursors(t) = 1 .. Len(t) + 1
  BY LenProperties, ElementOfSeq DEF Cursors
<1> DEFINE n == Len(w)
<1>2. n \in Nat /\ p \in Nat
  BY <1>1
<1>3. \A i \in 1 .. n : At(t, p + i - 1) = w[i]
  BY <1>1 DEF HasAt
<1> HIDE DEF n
<1>4. CASE n > 0
  <2>1. n \in 1 .. n /\ 1 \in 1 .. n /\ p + 1 - 1 = p /\ p + n - 1 \in Int
    BY <1>2, <1>4
  <2>2. At(t, p + n - 1) = w[n] /\ At(t, p) = w[1]
    <3>1. At(t, p + 1 - 1) = w[1]
      BY <1>3, <2>1
    <3> QED
      BY <1>3, <2>1, <3>1
  <2>3. w[n] \in Bytes
    BY <1>1, <2>1 DEF n
  <2>4. w[n] # 0
    <3> DEFINE c == w[n]
    <3>1. c \in Bytes
      BY <2>3
    <3> HIDE DEF c
    <3>2. c # 0
      BY <3>1 DEF Bytes
    <3> QED
      BY <3>2 DEF c
  <2>5. p + n - 1 \in 1 .. Len(t)
    BY <2>1, <2>2, <2>4, AtFacts
  <2>6. p + n \in Cursors(t)
    BY <1>1, <1>2, <2>5
  <2> QED
    BY <1>2, <2>2, <2>6 DEF n
<1>5. CASE n = 0
  <2>1. p + n = p /\ ~(n > 0)
    BY <1>2, <1>5
  <2> QED
    BY <1>2, <2>1 DEF n
<1> QED
  BY <1>2, <1>4, <1>5

\* The cursor behind a run of bytes.
LEMMA BehindFacts ==
    ASSUME NEW t \in Seq(Bytes), NEW p \in Cursors(t), NEW S, 0 \notin S
    PROVE  /\ Behind(t, p, S) \in Cursors(t) /\ Behind(t, p, S) >= p
           /\ At(t, Behind(t, p, S)) \notin S
           /\ \A r \in p .. Behind(t, p, S) - 1 : At(t, r) \in S
<1> DEFINE m == Len(t) + 1
           Stops == {q \in p .. m : At(t, q) \notin S}
<1>1. m \in Nat /\ Cursors(t) = 1 .. m /\ p \in 1 .. m /\ Len(t) \in Nat
  BY LenProperties DEF Cursors
<1>2. m \in Stops
  <2>1. m \in Int /\ m \notin 1 .. Len(t)
    BY <1>1
  <2>2. At(t, m) = 0
    BY <2>1, AtFacts
  <2> QED
    BY <1>1, <2>2
<1>3. PICK q \in Stops : \A r \in Stops : q <= r
  <2>1. Stops \subseteq Nat
    BY <1>1
  <2> HIDE DEF Stops
  <2> QED
    BY <1>2, <2>1, Smallest
<1>4. \A r \in p .. q - 1 : At(t, r) \in S
  <2> SUFFICES ASSUME NEW r \in p .. q - 1, At(t, r) \notin S
               PROVE  FALSE
    OBVIOUS
  <2>1. r \in p .. m /\ ~(q <= r)
    BY <1>1, <1>3
  <2> QED
    BY <1>3, <2>1
<1> DEFINE s == Behind(t, p, S)
<1>5. s \in p .. m /\ At(t, s) \notin S /\ \A r \in p .. s - 1 : At(t, r) \in S
  BY <1>3, <1>4 DEF Behind
<1> HIDE DEF s
<1> QED
  BY <1>1, <1>5 DEF s

\* A run ends at the first byte that is not of the set.
LEMMA BehindTo ==
    ASSUME NEW t \in Seq(Bytes), NEW p \in Cursors(t), NEW S, 0 \notin S,
           NEW q \in Cursors(t), p <= q,
           At(t, q) \notin S, \A r \in p .. q - 1 : At(t, r) \in S
    PROVE  Behind(t, p, S) = q
<1> DEFINE s == Behind(t, p, S)
<1>1. /\ s \in Cursors(t) /\ s >= p /\ At(t, s) \notin S
      /\ \A r \in p .. s - 1 : At(t, r) \in S
  BY BehindFacts
<1>2. Len(t) \in Nat /\ Cursors(t) = 1 .. Len(t) + 1
  BY LenProperties DEF Cursors
<1> HIDE DEF s
<1>3. s \in Nat /\ q \in Nat /\ p \in Nat
  BY <1>1, <1>2
<1>4. ~(s < q)
  <2> SUFFICES ASSUME s < q
               PROVE  FALSE
    OBVIOUS
  <2>1. s \in p .. q - 1
    BY <1>1, <1>3
  <2> QED
    BY <1>1, <2>1
<1>5. ~(q < s)
  <2> SUFFICES ASSUME q < s
               PROVE  FALSE
    OBVIOUS
  <2>1. q \in p .. s - 1
    BY <1>3
  <2> QED
    BY <1>1, <2>1
<1>6. s = q
  BY <1>3, <1>4, <1>5
<1> QED
  BY <1>6 DEF s

\* The cursor behind the blanks.
LEMMA Skips ==
    ASSUME NEW t \in Seq(Bytes), NEW p \in Cursors(t)
    PROVE  /\ SkipSpaces(t, p) \in Cursors(t) /\ SkipSpaces(t, p) >= p
           /\ At(t, SkipSpaces(t, p)) \notin Blanks
           /\ \A r \in p .. SkipSpaces(t, p) - 1 : At(t, r) \in Blanks
<1>1. 0 \notin Blanks
  BY DEF Blanks
<1> QED
  BY <1>1, BehindFacts DEF SkipSpaces

\* The first byte that is not a blank is where the blanks end.
LEMMA SkipsTo ==
    ASSUME NEW t \in Seq(Bytes), NEW p \in Cursors(t), NEW q \in Cursors(t), p <= q,
           At(t, q) \notin Blanks, \A r \in p .. q - 1 : At(t, r) \in Blanks
    PROVE  SkipSpaces(t, p) = q
<1>1. 0 \notin Blanks
  BY DEF Blanks
<1> QED
  BY <1>1, BehindTo DEF SkipSpaces

-----------------------------------------------------------------------------
(* The strings that are read.                                               *)

\* What is copied of a string ends before its first 0.
LEMMA CStringFacts ==
    ASSUME NEW s \in Seq(0 .. 255)
    PROVE  /\ CString(s) \in Seq(Bytes)
           /\ s \in Seq(Bytes) => CString(s) = s
<1> DEFINE Zeros == {i \in DOMAIN s : s[i] = 0}
           n == Len(s)
<1>1. n \in Nat /\ DOMAIN s = 1 .. n /\ \A i \in 1 .. n : s[i] \in 0 .. 255
  BY LenProperties, ElementOfSeq
<1>2. CASE Zeros = {}
  <2>1. CString(s) = s
    BY <1>2 DEF CString
  <2>2. \A i \in 1 .. n : s[i] \in Bytes
    <3> SUFFICES ASSUME NEW i \in 1 .. n
                 PROVE  s[i] \in Bytes
      OBVIOUS
    <3>1. s[i] # 0 /\ s[i] \in 0 .. 255
      BY <1>1, <1>2
    <3> QED
      BY <3>1 DEF Bytes
  <2>3. s \in Seq(Bytes)
    <3>1. s = [i \in 1 .. n |-> s[i]]
      BY <1>1
    <3>2. s \in [1 .. n -> Bytes]
      BY <1>1, <2>2, <3>1
    <3> QED
      BY <1>1, <3>2, SeqDef
  <2> QED
    BY <2>1, <2>3
<1>3. CASE Zeros # {}
  <2>1. Zeros \subseteq Nat
    BY <1>1
  <2>2. PICK k \in Zeros : \A j \in Zeros : k <= j
    <3> HIDE DEF Zeros
    <3> QED
      BY <1>3, <2>1, Smallest
  <2> DEFINE z == Min(Zeros)
  <2>3. z \in Zeros /\ \A j \in Zeros : z <= j
    BY <2>2 DEF Min
  <2>4. CString(s) = SubSeq(s, 1, z - 1)
    BY <1>3 DEF CString
  <2> HIDE DEF z
  <2>5. z \in 1 .. n /\ z - 1 \in 0 .. n
    BY <1>1, <2>3
  <2>6. /\ SubSeq(s, 1, z - 1) \in Seq(0 .. 255) /\ Len(SubSeq(s, 1, z - 1)) = z - 1
        /\ \A i \in 1 .. z - 1 : SubSeq(s, 1, z - 1)[i] = s[i]
    <3> DEFINE m == z - 1
    <3>1. m \in Int /\ m \in 0 .. n /\ 1 \in Int /\ m - 1 + 1 = m
      BY <2>5
    <3> HIDE DEF m
    <3>2. \A i \in 1 .. m : i \in 1 .. n /\ 1 + i - 1 = i
      BY <1>1, <3>1
    <3>3. \A i \in 1 .. m : s[i] \in 0 .. 255
      BY <1>1, <3>2
    <3>4. /\ SubSeq(s, 1, m) \in Seq(0 .. 255)
          /\ Len(SubSeq(s, 1, m)) = IF 1 <= m THEN m - 1 + 1 ELSE 0
          /\ \A i \in 1 .. m - 1 + 1 : SubSeq(s, 1, m)[i] = s[1 + i - 1]
      BY <3>1, <3>3, SubSeqProperties
    <3>5. Len(SubSeq(s, 1, m)) = m
      BY <3>1, <3>4
    <3>6. \A i \in 1 .. m : SubSeq(s, 1, m)[i] = s[i]
      BY <3>1, <3>2, <3>4
    <3> QED
      BY <3>4, <3>5, <3>6 DEF m
  <2> DEFINE w == SubSeq(s, 1, z - 1)
  <2>7. \A i \in 1 .. z - 1 : w[i] \in Bytes
    <3> SUFFICES ASSUME NEW i \in 1 .. z - 1
                 PROVE  w[i] \in Bytes
      OBVIOUS
    <3>1. i \in 1 .. n /\ ~(z <= i)
      BY <1>1, <2>5
    <3>2. s[i] # 0 /\ s[i] \in 0 .. 255
      BY <1>1, <2>3, <3>1
    <3>3. w[i] = s[i]
      BY <2>6
    <3> HIDE DEF w
    <3> QED
      BY <3>2, <3>3 DEF Bytes
  <2>8. w \in Seq(Bytes)
    <3>1. w \in Seq(0 .. 255) /\ Len(w) = z - 1
      BY <2>6
    <3> HIDE DEF w
    <3>2. DOMAIN w = 1 .. z - 1 /\ w = [i \in 1 .. z - 1 |-> w[i]] /\ z - 1 \in Nat
      BY <2>5, <3>1
    <3>3. w \in [1 .. z - 1 -> Bytes]
      BY <2>7, <3>2
    <3> QED
      BY <3>2, <3>3, SeqDef
  <2>9. s \notin Seq(Bytes)
    <3> SUFFICES ASSUME s \in Seq(Bytes)
                 PROVE  FALSE
      OBVIOUS
    <3>1. z \in 1 .. Len(s) /\ s[z] = 0
      BY <2>3, <2>5
    <3>2. s[z] \in Bytes
      BY <3>1, ElementOfSeq
    <3> QED
      BY <3>1, <3>2 DEF Bytes
  <2> QED
    BY <2>4, <2>8, <2>9
<1> QED
  BY <1>2, <1>3

-----------------------------------------------------------------------------
(* What is read is a value, and lies behind the cursor.                     *)

Answers(t, p, S) == {Bad} \cup {Good(v, q) : v \in S, q \in {q \in Cursors(t) : p < q}}

\* What was read and where it ends.
LEMMA GoodFacts ==
    ASSUME NEW v, NEW q
    PROVE  /\ Good(v, q).ok /\ Good(v, q).val = v /\ Good(v, q).end = q /\ ~Bad.ok
BY DEF Good, Bad

\* An answer is none, or a value and a later cursor.
LEMMA AnswerCases ==
    ASSUME NEW t, NEW p, NEW S, NEW r \in Answers(t, p, S)
    PROVE  /\ r.ok \in BOOLEAN
           /\ ~r.ok => r = Bad
           /\ r.ok => /\ r.val \in S /\ r.end \in Cursors(t) /\ p < r.end
                      /\ r = Good(r.val, r.end)
<1>1. CASE r = Bad
  <2>1. ~r.ok /\ r.ok \in BOOLEAN
    BY <1>1 DEF Bad
  <2> QED
    BY <1>1, <2>1
<1>2. CASE r # Bad
  <2>1. PICK v \in S, q \in {x \in Cursors(t) : p < x} : r = Good(v, q)
    BY <1>2 DEF Answers
  <2>2. r.ok = TRUE /\ r.val = v /\ r.end = q
    BY <2>1 DEF Good
  <2> QED
    BY <2>1, <2>2
<1> QED
  BY <1>1, <1>2

\* And these are answers.
LEMMA AnswerIn ==
    ASSUME NEW t, NEW p, NEW S
    PROVE  /\ Bad \in Answers(t, p, S)
           /\ \A v \in S, q \in Cursors(t) : p < q => Good(v, q) \in Answers(t, p, S)
BY DEF Answers

\* The only element of a set.
LEMMA TheOne == ASSUME NEW x, NEW S, S = {x} PROVE The(S) = x
BY DEF The

\* The first pass ends on the quote, not in front of where it began.
LEMMA CountEnds ==
    ASSUME NEW t \in Seq(Bytes), NEW p \in Cursors(t), Counted(t, p).ok
    PROVE  /\ Counted(t, p).end \in Cursors(t) /\ Counted(t, p).end >= p
           /\ Counted(t, p).escape \in Nat /\ At(t, Counted(t, p).end) = Quote
<1> DEFINE m == Len(t) + 1
           Right(q) == Counted(t, q).ok => /\ Counted(t, q).end >= q
                                           /\ At(t, Counted(t, q).end) = Quote
           D == {q \in 1 .. m : Right(q)}
<1>1. m \in Nat /\ Cursors(t) = 1 .. m /\ p \in 1 .. m
  BY LenProperties DEF Cursors
<1>2. ASSUME NEW q \in 1 .. m, \A r \in q + 1 .. m : r \in D
      PROVE  q \in D
  <2> SUFFICES ASSUME Counted(t, q).ok
               PROVE  Counted(t, q).end >= q /\ At(t, Counted(t, q).end) = Quote
    OBVIOUS
  <2>0. q \in Cursors(t)
    BY <1>1
  <2>1. CASE Ends(t, q)
    <3>1. Counted(t, q) = Reached(0, 0, q)
      BY <2>0, <2>1, CountedAt
    <3>2. Counted(t, q).end = q
      BY <3>1 DEF Reached
    <3> QED
      BY <2>1, <3>2 DEF Ends
  <2>2. ASSUME NEW r \in Cursors(t), r > q, NEW a \in Nat, NEW b \in Nat,
               Counted(t, q) = Longer(Counted(t, r), a, b)
        PROVE  Counted(t, q).end >= q /\ At(t, Counted(t, q).end) = Quote
    <3>1. Counted(t, r) \in Counts(t)
      BY CountedAt
    <3>2. Counted(t, r).ok /\ Counted(t, q).end = Counted(t, r).end
          /\ Counted(t, r).end \in Cursors(t)
      BY <2>2, <3>1, LongerFacts
    <3>3. r \in D
      BY <1>1, <1>2, <2>2
    <3>4. PICK e \in 1 .. m : e = Counted(t, r).end
      BY <1>1, <3>2
    <3>5. e >= r /\ At(t, e) = Quote
      BY <3>2, <3>3, <3>4
    <3>6. e >= q
      BY <1>1, <2>2, <3>5
    <3> QED
      BY <3>2, <3>4, <3>5, <3>6
  <2>3. CASE Escapes(t, q)
    <3>1. q + 2 \in Cursors(t) /\ q + 2 > q
      BY <1>1, <2>0, <2>3, CursorCases
    <3>2. Counted(t, q) = Longer(Counted(t, q + 2), 1, 1)
      BY <2>0, <2>3, CountedAt
    <3>3. 1 \in Nat
      OBVIOUS
    <3> QED
      BY <2>2, <3>1, <3>2, <3>3
  <2>4. CASE Plain(t, q)
    <3>1. q + 1 \in Cursors(t) /\ q + 1 > q
      BY <1>1, <2>0, <2>4, CursorCases
    <3>2. Counted(t, q) = Longer(Counted(t, q + 1), 0, 1)
      BY <2>0, <2>4, CountedAt
    <3>3. 1 \in Nat /\ 0 \in Nat
      OBVIOUS
    <3> QED
      BY <2>2, <3>1, <3>2, <3>3
  <2>5. ~Broken(t, q)
    <3> SUFFICES ASSUME Broken(t, q)
                 PROVE  FALSE
      OBVIOUS
    <3>1. Counted(t, q) = Bad
      BY <2>0, CountedAt
    <3> QED
      BY <3>1 DEF Bad
  <2> QED
    BY <2>0, <2>1, <2>3, <2>4, <2>5, CursorCases
<1>3. D = 1 .. m
  <2>1. D \subseteq 1 .. m
    OBVIOUS
  <2>2. \A q \in 1 .. m : (\A r \in q + 1 .. m : r \in D) => q \in D
    BY <1>2
  <2> HIDE DEF D, m
  <2> QED
    BY <1>1, <2>1, <2>2, Downward
<1>4. Right(p)
  BY <1>1, <1>3
<1>5. Counted(t, p) \in Counts(t)
  BY CountedAt
<1>6. Counted(t, p).end \in Cursors(t) /\ Counted(t, p).escape \in Nat
  <2>1. Counted(t, p) # Bad
    BY DEF Bad
  <2> QED
    BY <1>5, <2>1 DEF Counts
<1> QED
  BY <1>4, <1>6

\* What is read of a string is a text without a 0.
LEMMA ReadStringTyped ==
    ASSUME NEW t \in Seq(Bytes), NEW p \in Cursors(t)
    PROVE  ReadString(t, p) \in Answers(t, p, Seq(Bytes))
<1> DEFINE l == Counted(t, p)
           s == Written(t, p, l.escape)
<1>1. CASE ~(l.ok /\ s.ok)
  <2>1. ReadString(t, p) = Bad
    BY <1>1 DEF ReadString, Copied
  <2> QED
    BY <2>1, AnswerIn
<1>2. CASE l.ok /\ s.ok
  <2>1. ReadString(t, p) = Good(CString(s.str), s.end)
    BY <1>2 DEF ReadString, Copied
  <2>2. l.end \in Cursors(t) /\ l.end >= p /\ l.escape \in Nat
    BY <1>2, CountEnds
  <2>3. l.escape \in Int
    BY <2>2
  <2>4. s \in Results(t)
    BY <2>3, WrittenAt
  <2>5. s.str \in Seq(0 .. 255) /\ s.end \in Cursors(t)
    BY <2>4 DEF Results
  <2>6. s.end = l.end + 1
    BY <1>2, Fits DEF FitsAt
  <2>7. p < s.end
    BY <2>2, <2>6 DEF Cursors
  <2>8. CString(s.str) \in Seq(Bytes)
    BY <2>5, CStringFacts
  <2> HIDE DEF l, s
  <2> QED
    BY <2>1, <2>5, <2>7, <2>8, AnswerIn
<1> QED
  BY <1>1, <1>2

\* What is read of a number is a number of at most so many figures.
LEMMA NumberTyped ==
    ASSUME NEW t \in Seq(Bytes), NEW p \in Cursors(t), At(t, p) \in DigitBytes \cup {45}
    PROVE  parse_json_number(t, p) \in Answers(t, p, Scalars)
<1> DEFINE minus == At(t, p) = 45
           d == IF minus THEN p + 1 ELSE p
           m == IF At(t, d) = 48 THEN Good(0, d + 1) ELSE mantissa(t)[[cursor |-> d, n |-> 0]]
           num == [type |-> "number", minus |-> minus, n |-> m.val]
<1>1. parse_json_number(t, p) =
         IF At(t, d) \in DigitBytes /\ m.end - d <= Figures THEN Good(num, m.end) ELSE Bad
  BY DEF parse_json_number
<1>2. Len(t) \in Nat /\ Cursors(t) = 1 .. Len(t) + 1 /\ p \in Nat
  BY LenProperties DEF Cursors
<1>3. \A q \in Cursors(t) : At(t, q) # 0 => q + 1 \in Cursors(t)
  <2> SUFFICES ASSUME NEW q \in Cursors(t), At(t, q) # 0
               PROVE  q + 1 \in Cursors(t)
    OBVIOUS
  <2>1. q \in Int
    BY <1>2
  <2>2. q \in 1 .. Len(t)
    BY <2>1, AtFacts
  <2> QED
    BY <1>2, <2>2
<1>4. d \in Cursors(t) /\ d >= p /\ d \in Nat
  <2>1. CASE minus
    <3>1. p + 1 \in Cursors(t)
      BY <1>3, <2>1
    <3> QED
      BY <1>2, <2>1, <3>1
  <2>2. CASE ~minus
    BY <1>2, <2>2
  <2> QED
    BY <2>1, <2>2
<1>5. minus \in BOOLEAN
  OBVIOUS
<1> HIDE DEF minus, d
<1>6. CASE At(t, d) \in DigitBytes /\ m.end - d <= Figures
  <2>1. /\ m.end \in Cursors(t) /\ m.end > d /\ m.val \in Nat
        /\ Len(Decimal[m.val]) = m.end - d
    <3>1. CASE At(t, d) = 48
      <4>1. m = Good(0, d + 1)
        BY <3>1
      <4>2. m.val = 0 /\ m.end = d + 1
        BY <4>1 DEF Good
      <4>3. d + 1 \in Cursors(t)
        BY <1>3, <1>4, <3>1
      <4>4. 0 \in 0 .. 9
        OBVIOUS
      <4>5. Len(Decimal[0]) = 1
        BY <4>4, DecimalShort
      <4> HIDE DEF m
      <4>7. m.end \in Cursors(t) /\ m.end > d /\ m.end - d = 1
        BY <1>4, <4>2, <4>3
      <4>8. m.val \in Nat /\ Len(Decimal[m.val]) = 1
        BY <4>2, <4>5
      <4> QED
        BY <4>7, <4>8
    <3>2. CASE At(t, d) # 48
      <4>1. m = MantissaFrom(t, d, 0)
        BY <3>2 DEF MantissaFrom
      <4>2. PICK k \in 1 .. 9 : k = At(t, d) - 48
        <5>1. At(t, d) \in 48 .. 57 /\ At(t, d) # 48
          BY <1>6, <3>2 DEF DigitBytes
        <5> DEFINE b == At(t, d)
        <5> HIDE DEF b
        <5>2. b - 48 \in 1 .. 9
          BY <5>1 DEF b
        <5> QED
          BY <5>2 DEF b
      <4>3. 10 * 0 + At(t, d) - 48 = k /\ k \in Nat /\ k # 0
        BY <1>6, <4>2 DEF DigitBytes
      <4>4. 0 \in Nat
        OBVIOUS
      <4>5. d + 1 \in Cursors(t) /\ MantissaFrom(t, d, 0) = MantissaFrom(t, d + 1, k)
        BY <1>4, <1>6, <4>3, <4>4, MantissaCases
      <4> DEFINE r == MantissaFrom(t, d + 1, k)
      <4>6. /\ r.end \in Cursors(t) /\ r.end >= d + 1 /\ r.val \in Nat
            /\ Len(Decimal[r.val]) = Len(Decimal[k]) + (r.end - (d + 1))
        BY <4>3, <4>5, MantissaLength
      <4>7. Len(Decimal[k]) = 1
        <5>1. k \in 0 .. 9
          BY <4>2
        <5> QED
          BY <5>1, DecimalShort
      <4>8. m = r
        BY <4>1, <4>5
      <4> HIDE DEF r, m
      <4>9. PICK e \in Nat : e = r.end
        BY <1>2, <4>6
      <4>10. e > d /\ 1 + (e - (d + 1)) = e - d
        BY <1>4, <4>6, <4>9
      <4> QED
        BY <4>6, <4>7, <4>8, <4>9, <4>10
    <3> QED
      BY <3>1, <3>2
  <2> HIDE DEF m
  <2>2. num \in Scalars
    <3>1. m.val \in {n \in Nat : Len(Decimal[n]) <= Figures}
      BY <1>6, <2>1
    <3> QED
      BY <1>5, <3>1 DEF Scalars
  <2>3. p < m.end
    <3>1. PICK e \in Nat : e = m.end
      BY <1>2, <2>1
    <3> QED
      BY <1>2, <1>4, <2>1, <3>1
  <2> HIDE DEF num
  <2> QED
    BY <1>1, <1>6, <2>1, <2>2, <2>3, AnswerIn
<1>7. CASE ~(At(t, d) \in DigitBytes /\ m.end - d <= Figures)
  BY <1>1, <1>7, AnswerIn
<1> QED
  BY <1>6, <1>7

\* The three literals.
LEMMA LiteralFacts ==
    ASSUME NEW l \in Literals
    PROVE  /\ l.text \in Seq(Bytes) /\ Len(l.text) \in {4, 5}
           /\ Leaf(l.type) \in Scalars
           /\ l.text[1] \in {116, 102, 110}
<1>1. Leaf(l.type) \in Scalars
  BY DEF Scalars
<1>2. CASE l = [type |-> "true", text |-> <<116, 114, 117, 101>>]
  BY <1>1, <1>2 DEF Bytes
<1>3. CASE l = [type |-> "false", text |-> <<102, 97, 108, 115, 101>>]
  BY <1>1, <1>3 DEF Bytes
<1>4. CASE l = [type |-> "null", text |-> <<110, 117, 108, 108>>]
  BY <1>1, <1>4 DEF Bytes
<1> QED
  BY <1>2, <1>3, <1>4 DEF Literals

\* What is read of a literal is its value.
LEMMA LiteralTyped ==
    ASSUME NEW t \in Seq(Bytes), NEW p \in Cursors(t)
    PROVE  parse_json_literal(t, p) \in Answers(t, p, Scalars)
<1> DEFINE Here == {l \in Literals : HasAt(t, p, l.text)}
           l == The(Here)
<1>1. CASE Here = {}
  <2>1. parse_json_literal(t, p) = Bad
    BY <1>1 DEF parse_json_literal
  <2> QED
    BY <2>1, AnswerIn
<1>2. CASE Here # {}
  <2>1. parse_json_literal(t, p) = Good(Leaf(l.type), p + Len(l.text))
    BY <1>2 DEF parse_json_literal
  <2>2. l \in Here
    BY <1>2 DEF The
  <2>3. l \in Literals /\ HasAt(t, p, l.text)
    BY <2>2
  <2> HIDE DEF l
  <2>4. l.text \in Seq(Bytes) /\ Len(l.text) \in {4, 5} /\ Leaf(l.type) \in Scalars
    BY <2>3, LiteralFacts
  <2> DEFINE w == l.text
  <2>5. p + Len(w) \in Cursors(t)
    BY <2>3, <2>4, HasEnds
  <2>6. p < p + Len(w)
    <3>1. PICK n \in {4, 5} : n = Len(w)
      BY <2>4
    <3>2. p \in Nat
      BY LenProperties DEF Cursors
    <3> HIDE DEF w
    <3>3. p < p + n
      BY <3>2
    <3> QED
      BY <3>1, <3>3
  <2> HIDE DEF w
  <2> QED
    BY <2>1, <2>4, <2>5, <2>6, AnswerIn DEF w
<1> QED
  BY <1>1, <1>2

\* Answers behind a later cursor are answers behind an earlier one.
LEMMA AnswerLater ==
    ASSUME NEW t \in Seq(Bytes), NEW p \in Nat, NEW q \in Nat, p <= q, NEW S,
           NEW r \in Answers(t, q, S)
    PROVE  r \in Answers(t, p, S)
<1>1. CASE r.ok
  <2>1. r.val \in S /\ r.end \in Cursors(t) /\ q < r.end /\ r = Good(r.val, r.end)
    BY <1>1, AnswerCases
  <2>2. p < r.end
    BY <2>1 DEF Cursors
  <2> QED
    BY <2>1, <2>2, AnswerIn
<1>2. CASE ~r.ok
  <2>1. r = Bad
    BY <1>2, AnswerCases
  <2> QED
    BY <2>1, AnswerIn
<1> QED
  BY <1>1, <1>2

\* A function that reads values of S.
Reader(t, S, f) == \A q \in Cursors(t) : f[q] \in Answers(t, q, S)

ItemSet(close, S) == [name : IF close = 125 THEN Seq(Bytes) ELSE {<<>>}, val : S]

\* A value with a name.
LEMMA NamedTyped ==
    ASSUME NEW t \in Seq(Bytes), NEW p \in Nat, NEW q \in Nat, p <= q, NEW S,
           NEW r \in Answers(t, q, S), NEW N, NEW name \in N
    PROVE  Named(name, r) \in Answers(t, p, [name : N, val : S])
<1>0. r \in Answers(t, p, S)
  BY AnswerLater
<1>1. CASE r.ok
  <2>1. r.val \in S /\ r.end \in Cursors(t) /\ p < r.end
    BY <1>0, <1>1, AnswerCases
  <2>2. Named(name, r) = Good([name |-> name, val |-> r.val], r.end)
    BY <1>1 DEF Named
  <2> DEFINE item == [name |-> name, val |-> r.val]
             M == [name : N, val : S]
  <2>3. item \in M
    BY <2>1
  <2>4. Named(name, r) = Good(item, r.end)
    BY <2>2
  <2> HIDE DEF item, M
  <2>5. \A v \in M, x \in Cursors(t) : p < x => Good(v, x) \in Answers(t, p, M)
    BY AnswerIn
  <2>6. Named(name, r) \in Answers(t, p, M)
    BY <2>1, <2>3, <2>4, <2>5
  <2> QED
    BY <2>6 DEF M
<1>2. CASE ~r.ok
  <2>1. Named(name, r) = Bad
    BY <1>2 DEF Named
  <2> QED
    BY <2>1, AnswerIn
<1> QED
  BY <1>1, <1>2

\* The cursor behind a byte that is there, and behind the blanks that follow.
LEMMA SkipPast ==
    ASSUME NEW t \in Seq(Bytes), NEW p \in Cursors(t), At(t, p) # 0
    PROVE  /\ p + 1 \in Cursors(t) /\ SkipSpaces(t, p + 1) \in Cursors(t)
           /\ p < SkipSpaces(t, p + 1) /\ p \in Nat /\ SkipSpaces(t, p + 1) \in Nat
<1>1. Len(t) \in Nat /\ Cursors(t) = 1 .. Len(t) + 1 /\ p \in Int
  BY LenProperties DEF Cursors
<1>2. p \in 1 .. Len(t)
  BY <1>1, AtFacts
<1>3. p + 1 \in Cursors(t)
  BY <1>1, <1>2
<1> DEFINE s == SkipSpaces(t, p + 1)
<1>4. s \in Cursors(t) /\ s >= p + 1
  BY <1>3, Skips
<1> HIDE DEF s
<1>5. p < s /\ s \in Nat
  BY <1>1, <1>4
<1> QED
  BY <1>1, <1>3, <1>4, <1>5 DEF s

\* What is read behind a name is a member (JsonParser.c:451-465).
LEMMA ValueOfTyped ==
    ASSUME NEW t \in Seq(Bytes), NEW p \in Nat, NEW S, NEW inner, Reader(t, S, inner),
           NEW name \in Answers(t, p, Seq(Bytes))
    PROVE  parse_json_value_of(t, name, inner) \in Answers(t, p, [name : Seq(Bytes), val : S])
<1> DEFINE colon == SkipSpaces(t, name.end)
           q == SkipSpaces(t, colon + 1)
<1>1. CASE name.ok /\ At(t, colon) = 58
  <2>1. parse_json_value_of(t, name, inner) = Named(name.val, inner[q])
    BY <1>1 DEF parse_json_value_of
  <2>2. name.val \in Seq(Bytes) /\ name.end \in Cursors(t) /\ p < name.end
    BY <1>1, AnswerCases
  <2>3. colon \in Cursors(t) /\ colon >= name.end
    BY <2>2, Skips
  <2>4. q \in Cursors(t) /\ colon < q /\ colon \in Nat /\ q \in Nat
    BY <1>1, <2>3, SkipPast
  <2>5. p <= q
    BY <2>2, <2>3, <2>4 DEF Cursors
  <2>6. inner[q] \in Answers(t, q, S)
    BY <2>4 DEF Reader
  <2> HIDE DEF colon, q
  <2>7. Named(name.val, inner[q]) \in Answers(t, p, [name : Seq(Bytes), val : S])
    BY <2>2, <2>4, <2>5, <2>6, NamedTyped
  <2> QED
    BY <2>1, <2>7
<1>2. CASE ~(name.ok /\ At(t, colon) = 58)
  <2>1. parse_json_value_of(t, name, inner) = Bad
    BY <1>2 DEF parse_json_value_of
  <2> QED
    BY <2>1, AnswerIn
<1> QED
  BY <1>1, <1>2

\* A member, without the sets that name its parts.
LEMMA MemberIs ==
    ASSUME NEW t, NEW p, NEW inner
    PROVE  parse_json_member(t, p, inner) =
              IF At(t, p) = Quote THEN parse_json_value_of(t, ReadString(t, p + 1), inner) ELSE Bad
<1> DEFINE name == ReadString(t, p + 1)
           E == {parse_json_value_of(t, s, inner) : s \in {name}}
<1>1. E = {parse_json_value_of(t, name, inner)}
  OBVIOUS
<1>2. The(E) = parse_json_value_of(t, name, inner)
  <2> HIDE DEF E
  <2> QED
    BY <1>1, TheOne
<1> QED
  BY <1>2 DEF parse_json_member

\* What is read of a member is one (JsonParser.c:434-466).
LEMMA MemberTyped ==
    ASSUME NEW t \in Seq(Bytes), NEW p \in Cursors(t), NEW S, NEW inner, Reader(t, S, inner)
    PROVE  parse_json_member(t, p, inner) \in Answers(t, p, [name : Seq(Bytes), val : S])
<1> DEFINE name == ReadString(t, p + 1)
<1>1. CASE At(t, p) = Quote
  <2>1. p + 1 \in Cursors(t) /\ p \in Nat /\ p + 1 \in Nat /\ p <= p + 1
    <3>1. p + 1 \in Cursors(t) /\ p \in Nat
      BY <1>1, SkipPast DEF Quote
    <3> QED
      BY <3>1
  <2>2. name \in Answers(t, p + 1, Seq(Bytes))
    BY <2>1, ReadStringTyped
  <2>3. name \in Answers(t, p, Seq(Bytes))
    BY <2>1, <2>2, AnswerLater
  <2> HIDE DEF name
  <2>4. parse_json_value_of(t, name, inner) \in Answers(t, p, [name : Seq(Bytes), val : S])
    BY <2>1, <2>3, ValueOfTyped
  <2> QED
    BY <1>1, <2>4, MemberIs DEF name
<1>2. CASE At(t, p) # Quote
  BY <1>2, MemberIs, AnswerIn
<1> QED
  BY <1>1, <1>2

\* The next item of a tree.
ItemAt(t, close, inner, p) ==
    IF close = 125 THEN parse_json_member(t, p, inner) ELSE Named(<<>>, inner[p])

\* What is read of an element or a member is one.
LEMMA ItemTyped ==
    ASSUME NEW t \in Seq(Bytes), NEW p \in Cursors(t), NEW S, NEW inner, Reader(t, S, inner),
           NEW close
    PROVE  ItemAt(t, close, inner, p) \in Answers(t, p, ItemSet(close, S))
<1>1. CASE close = 125
  <2>1. parse_json_member(t, p, inner) \in Answers(t, p, [name : Seq(Bytes), val : S])
    BY MemberTyped
  <2> QED
    BY <1>1, <2>1 DEF ItemAt, ItemSet
<1>2. CASE close # 125
  <2>1. p \in Nat /\ p <= p
    BY LenProperties DEF Cursors
  <2>2. inner[p] \in Answers(t, p, S) /\ <<>> \in {<<>>}
    BY DEF Reader
  <2>3. Named(<<>>, inner[p]) \in Answers(t, p, [name : {<<>>}, val : S])
    BY <2>1, <2>2, NamedTyped
  <2> QED
    BY <1>2, <2>3 DEF ItemAt, ItemSet
<1> QED
  BY <1>1, <1>2

NextOf(t, item) == SkipSpaces(t, item.end)
OthersOf(t, item) == SkipSpaces(t, NextOf(t, item) + 1)
OthersIn(items, t, item) == items[OthersOf(t, item)]

Closes(close) == close \in {93, 125}

\* What is behind an item.
Comma(t, item) == item.ok /\ At(t, NextOf(t, item)) = 44
Closing(t, close, item) == item.ok /\ At(t, NextOf(t, item)) = close
Unfinished(t, close, item) == ~item.ok \/ At(t, NextOf(t, item)) \notin {44, close}

\* What the loop does behind an item, by what it finds there (JsonParser.c:499-520).
LEMMA NextCases ==
    ASSUME NEW t, NEW close, Closes(close), NEW item, NEW items
    PROVE  /\ Unfinished(t, close, item) \/ Comma(t, item) \/ Closing(t, close, item)
           /\ Unfinished(t, close, item) => NextItem(t, close, item, items) = Bad
           /\ Comma(t, item) =>
                 NextItem(t, close, item, items) = Before(item.val, OthersIn(items, t, item))
           /\ Closing(t, close, item) =>
                 NextItem(t, close, item, items) = Good(<<item.val>>, NextOf(t, item) + 1)
<1> DEFINE next == SkipSpaces(t, item.end)
           E == {Before(item.val, others) : others \in {items[SkipSpaces(t, next + 1)]}}
<1>1. E = {Before(item.val, items[SkipSpaces(t, next + 1)])}
  OBVIOUS
<1>2. The(E) = Before(item.val, items[SkipSpaces(t, next + 1)])
  <2> HIDE DEF E
  <2> QED
    BY <1>1, TheOne
<1>3. NextItem(t, close, item, items) =
        CASE ~item.ok -> Bad
          [] item.ok /\ At(t, next) = 44 -> The(E)
          [] item.ok /\ At(t, next) = close -> Good(<<item.val>>, next + 1)
          [] OTHER -> Bad
  BY DEF NextItem
<1> DEFINE b == At(t, next)
           e == The(E)
           g == Good(<<item.val>>, next + 1)
<1>4. close # 44
  BY DEF Closes
<1> HIDE DEF e, g, b, E
<1>5. ~item.ok => NextItem(t, close, item, items) = Bad
  BY <1>3
<1>6. item.ok /\ b = 44 => NextItem(t, close, item, items) = e
  BY <1>3, <1>4 DEF b, e
<1>7. item.ok /\ b = close => NextItem(t, close, item, items) = g
  BY <1>3, <1>4 DEF b, g
<1>8. item.ok /\ b \notin {44, close} => NextItem(t, close, item, items) = Bad
  BY <1>3 DEF b
<1> QED
  BY <1>2, <1>5, <1>6, <1>7, <1>8
     DEF e, g, b, NextOf, OthersOf, OthersIn, Comma, Closing, Unfinished

\* An item in front of others.
LEMMA BeforeTyped ==
    ASSUME NEW t \in Seq(Bytes), NEW p \in Nat, NEW M, NEW item \in M,
           NEW others \in Answers(t, p, Seq(M))
    PROVE  Before(item, others) \in Answers(t, p, Seq(M))
<1>1. CASE others.ok
  <2>1. others.val \in Seq(M) /\ others.end \in Cursors(t) /\ p < others.end
    BY <1>1, AnswerCases
  <2> DEFINE s == <<item>> \o others.val
  <2>2. s \in Seq(M)
    BY <2>1, ConcatProperties
  <2>3. Before(item, others) = Good(s, others.end)
    BY <1>1 DEF Before
  <2> HIDE DEF s
  <2> QED
    BY <2>1, <2>2, <2>3, AnswerIn
<1>2. CASE ~others.ok
  <2>1. Before(item, others) = Bad
    BY <1>2 DEF Before
  <2> QED
    BY <2>1, AnswerIn
<1> QED
  BY <1>1, <1>2

\* Where the others begin.
LEMMA NextFacts ==
    ASSUME NEW t \in Seq(Bytes), NEW item, item.ok, item.end \in Cursors(t)
    PROVE  /\ NextOf(t, item) \in Cursors(t) /\ NextOf(t, item) >= item.end
           /\ item.end \in Nat /\ NextOf(t, item) \in Nat
           /\ At(t, NextOf(t, item)) # 0 =>
                 /\ NextOf(t, item) + 1 \in Cursors(t)
                 /\ OthersOf(t, item) \in Cursors(t) /\ OthersOf(t, item) \in Nat
                 /\ item.end < OthersOf(t, item)
<1>1. NextOf(t, item) \in Cursors(t) /\ NextOf(t, item) >= item.end
  BY Skips DEF NextOf
<1>2. item.end \in Nat /\ NextOf(t, item) \in Nat
  BY <1>1 DEF Cursors
<1>3. ASSUME At(t, NextOf(t, item)) # 0
      PROVE  /\ NextOf(t, item) + 1 \in Cursors(t)
             /\ OthersOf(t, item) \in Cursors(t) /\ OthersOf(t, item) \in Nat
             /\ NextOf(t, item) < OthersOf(t, item)
  BY <1>1, <1>3, SkipPast DEF OthersOf
<1>4. At(t, NextOf(t, item)) # 0 => item.end < OthersOf(t, item)
  BY <1>1, <1>2, <1>3
<1> QED
  BY <1>1, <1>2, <1>3, <1>4

\* What is read of the rest of the items is a sequence of items.
LEMMA NextTyped ==
    ASSUME NEW t \in Seq(Bytes), NEW close, Closes(close), NEW M,
           NEW p \in Cursors(t), NEW P \in Nat, P <= p,
           NEW item \in Answers(t, p, M), NEW items,
           \A q \in Cursors(t) : q > p => items[q] \in Answers(t, P, Seq(M))
    PROVE  NextItem(t, close, item, items) \in Answers(t, P, Seq(M))
<1> DEFINE r == NextItem(t, close, item, items)
           next == NextOf(t, item)
<1>1. CASE Unfinished(t, close, item)
  <2>1. r = Bad
    BY <1>1, NextCases
  <2> HIDE DEF r
  <2> QED
    BY <2>1, AnswerIn DEF r
<1>6. Unfinished(t, close, item) \/ Comma(t, item) \/ Closing(t, close, item)
  BY NextCases
<1>7. CASE Unfinished(t, close, item)
  BY <1>1, <1>7
<1> SUFFICES ASSUME ~Unfinished(t, close, item)
             PROVE  r \in Answers(t, P, Seq(M))
  BY <1>7
<1>0. item.ok /\ At(t, next) # 0
  BY <1>6 DEF Comma, Closing, Closes
<1>2. item.val \in M /\ item.end \in Cursors(t) /\ p < item.end /\ p \in Nat
  BY <1>0, AnswerCases DEF Cursors
<1>3. /\ next + 1 \in Cursors(t) /\ OthersOf(t, item) \in Cursors(t) /\ item.end \in Nat
      /\ OthersOf(t, item) \in Nat /\ next \in Nat
      /\ item.end < OthersOf(t, item) /\ next >= item.end
  BY <1>0, <1>2, NextFacts
<1>4. CASE Comma(t, item)
  <2> DEFINE o == OthersOf(t, item)
             others == items[o]
  <2>1. r = Before(item.val, others)
    <3>1. r = Before(item.val, OthersIn(items, t, item))
      BY <1>4, NextCases
    <3> QED
      BY <3>1 DEF OthersIn
  <2>2. o > p /\ o \in Cursors(t)
    BY <1>2, <1>3
  <2>3. others \in Answers(t, P, Seq(M))
    <3> HIDE DEF o
    <3> QED
      BY <2>2
  <2> HIDE DEF others, r
  <2>4. Before(item.val, others) \in Answers(t, P, Seq(M))
    BY <1>2, <2>3, BeforeTyped
  <2> QED
    BY <2>1, <2>4 DEF r
<1>5. CASE Closing(t, close, item)
  <2> DEFINE s == <<item.val>>
  <2>1. r = Good(s, next + 1)
    BY <1>5, NextCases
  <2>2. s \in Seq(M)
    BY <1>2
  <2>3. P < next + 1
    BY <1>2, <1>3
  <2> DEFINE e == next + 1
  <2>4. r = Good(s, e) /\ e \in Cursors(t) /\ P < e
    BY <1>3, <2>1, <2>3
  <2> HIDE DEF s, r, e
  <2>5. r \in Answers(t, P, Seq(M))
    BY <2>2, <2>4, AnswerIn
  <2> QED
    BY <2>5 DEF r
<1> QED
  BY <1>4, <1>5, <1>6

\* What is read next depends only on the items behind the comma.
LEMMA NextAsks ==
    ASSUME NEW t, NEW close, Closes(close), NEW item, NEW f, NEW g,
           Comma(t, item) => OthersIn(f, t, item) = OthersIn(g, t, item)
    PROVE  NextItem(t, close, item, f) = NextItem(t, close, item, g)
<1>1. CASE Unfinished(t, close, item)
  BY <1>1, NextCases
<1>2. CASE Comma(t, item)
  BY <1>2, NextCases
<1>3. CASE Closing(t, close, item)
  BY <1>3, NextCases
<1> QED
  BY <1>1, <1>2, <1>3, NextCases

\* The items that are read from every cursor.
LEMMA ItemsSolved ==
    ASSUME NEW t \in Seq(Bytes), NEW close, Closes(close), NEW S, NEW inner, Reader(t, S, inner)
    PROVE  LET f == parse_json_items(t, close, inner)
           IN  \A p \in Cursors(t) :
                  /\ f[p] = NextItem(t, close, ItemAt(t, close, inner, p), f)
                  /\ f[p] \in Answers(t, p, Seq(ItemSet(close, S)))
<1> DEFINE C == Cursors(t)
           M == ItemSet(close, S)
           V == Answers(t, 0, Seq(M))
           m == Len(t) + 1
           rank == [p \in C |-> m - p]
           Step(f, p) == NextItem(t, close, ItemAt(t, close, inner, p), f)
           G == [a \in [C -> V] \X C |-> Step(a[1], a[2])]
<1>1. C = 1 .. m /\ m \in Nat
  BY LenProperties DEF Cursors
<1>2. Bad \in V
  BY AnswerIn
<1>3. rank \in [C -> Nat] /\ \A p \in C : rank[p] = m - p
  BY <1>1
<1>4. \A p \in C : ItemAt(t, close, inner, p) \in Answers(t, p, M)
  BY ItemTyped
<1>5. ASSUME NEW f, NEW p \in C, NEW P \in Nat, P <= p,
             \A q \in C : q > p => f[q] \in Answers(t, P, Seq(M))
      PROVE  Step(f, p) \in Answers(t, P, Seq(M))
  <2> DEFINE item == ItemAt(t, close, inner, p)
  <2>1. item \in Answers(t, p, M)
    BY <1>4
  <2> HIDE DEF item, M
  <2> QED
    BY <1>5, <2>1, NextTyped DEF item
<1>6. G \in [[C -> V] \X C -> V] /\ \A f \in [C -> V] : \A p \in C : G[<<f, p>>] = Step(f, p)
  <2>1. ASSUME NEW f \in [C -> V], NEW p \in C
        PROVE  Step(f, p) \in V
    <3>1. \A q \in C : q > p => f[q] \in V
      OBVIOUS
    <3>2. 0 \in Nat /\ 0 <= p
      BY <1>1
    <3> HIDE DEF Step, C, M
    <3> QED
      BY <1>5, <3>1, <3>2
  <2> HIDE DEF C, V, Step
  <2> QED
    BY <2>1
<1>7. ASSUME NEW f \in [C -> V], NEW g \in [C -> V], NEW p \in C,
             \A q \in C : rank[q] < rank[p] => f[q] = g[q]
      PROVE  Step(f, p) = Step(g, p)
  <2> DEFINE item == ItemAt(t, close, inner, p)
  <2>1. item \in Answers(t, p, M)
    BY <1>4
  <2>2. \A q \in C : q > p => f[q] = g[q]
    <3> SUFFICES ASSUME NEW q \in C, q > p
                 PROVE  rank[q] < rank[p]
      BY <1>7
    <3> QED
      BY <1>1, <1>3
  <2>3. Comma(t, item) => OthersIn(f, t, item) = OthersIn(g, t, item)
    <3> SUFFICES ASSUME Comma(t, item)
                 PROVE  f[OthersOf(t, item)] = g[OthersOf(t, item)]
      BY DEF OthersIn
    <3> HIDE DEF item, M
    <3>1. item.ok /\ At(t, NextOf(t, item)) # 0
      BY DEF Comma
    <3>2. item.end \in C /\ p < item.end /\ p \in Nat
      BY <1>1, <2>1, <3>1, AnswerCases
    <3>3. /\ OthersOf(t, item) \in C /\ item.end < OthersOf(t, item)
          /\ item.end \in Nat /\ OthersOf(t, item) \in Nat
      BY <3>1, <3>2, NextFacts
    <3>4. OthersOf(t, item) > p
      BY <3>2, <3>3
    <3> QED
      BY <2>2, <3>3, <3>4
  <2> HIDE DEF item
  <2>4. NextItem(t, close, item, f) = NextItem(t, close, item, g)
    BY <2>3, NextAsks
  <2> QED
    BY <2>4 DEF item
<1>8. AsksBelow(C, V, rank, G)
  <2> HIDE DEF C, V, rank, G, Step
  <2> SUFFICES ASSUME NEW f \in [C -> V], NEW g \in [C -> V], NEW p \in C,
                      \A q \in C : rank[q] < rank[p] => f[q] = g[q]
               PROVE  G[<<f, p>>] = G[<<g, p>>]
    BY DEF AsksBelow
  <2>1. Step(f, p) = Step(g, p)
    BY <1>7
  <2> QED
    BY <1>6, <2>1
<1>9. PICK h \in [C -> V] : Solves(h, C, G)
  <2> HIDE DEF C, V, rank, G
  <2> QED
    BY <1>2, <1>3, <1>6, <1>8, Recursion
<1>10. h = [p \in C |-> Step(h, p)]
  <2>1. \A p \in C : h[p] = Step(h, p)
    BY <1>6, <1>9 DEF Solves
  <2> HIDE DEF C, V, Step
  <2> QED
    BY <2>1
<1> DEFINE Def(f) == f = [p \in C |-> Step(f, p)]
           f == parse_json_items(t, close, inner)
<1>11. f = CHOOSE x : Def(x)
  <2>1. \A x, p : The({NextItem(t, close, item, x) : item \in {ItemAt(t, close, inner, p)}})
                     = Step(x, p)
    <3> SUFFICES ASSUME NEW x, NEW p
                 PROVE  The({NextItem(t, close, item, x) : item \in {ItemAt(t, close, inner, p)}})
                           = Step(x, p)
      OBVIOUS
    <3> DEFINE E == {NextItem(t, close, item, x) : item \in {ItemAt(t, close, inner, p)}}
    <3>1. E = {Step(x, p)}
      OBVIOUS
    <3> HIDE DEF E, Step
    <3>2. The(E) = Step(x, p)
      BY <3>1, TheOne
    <3> QED
      BY <3>2 DEF E
  <2> DEFINE Said(x) ==
        x = [p \in Cursors(t) |->
               The({NextItem(t, close, item, x) :
                       item \in {IF close = 125 THEN parse_json_member(t, p, inner)
                                 ELSE Named(<<>>, inner[p])}})]
  <2>2. f = CHOOSE x : Said(x)
    BY DEF parse_json_items
  <2>3. \A x : Said(x) <=> Def(x)
    <3> SUFFICES ASSUME NEW x
                 PROVE  Said(x) <=> Def(x)
      OBVIOUS
    <3>1. Said(x) <=>
            x = [p \in Cursors(t) |->
                   The({NextItem(t, close, item, x) : item \in {ItemAt(t, close, inner, p)}})]
      BY DEF ItemAt
    <3> DEFINE A(p) == The({NextItem(t, close, item, x) :
                               item \in {ItemAt(t, close, inner, p)}})
    <3>2. \A p : A(p) = Step(x, p)
      BY <2>1
    <3>3. Said(x) <=> x = [p \in C |-> A(p)]
      BY <3>1
    <3> HIDE DEF Said, Step, A, C
    <3>4. [p \in C |-> A(p)] = [p \in C |-> Step(x, p)]
      BY <3>2
    <3> QED
      BY <3>3, <3>4
  <2> HIDE DEF Said, Def
  <2> QED
    BY <2>2, <2>3
<1>12. Def(f)
  <2>1. Def(h)
    BY <1>10
  <2> HIDE DEF Def, f
  <2> QED
    BY <1>11, <2>1
<1>13. \A p \in C : f[p] = Step(f, p)
  <2> HIDE DEF f, Step, C
  <2> QED
    BY <1>12
<1> DEFINE D == {p \in 1 .. m : f[p] \in Answers(t, p, Seq(M))}
<1>14. ASSUME NEW p \in 1 .. m, \A q \in p + 1 .. m : q \in D
       PROVE  p \in D
  <2>1. \A q \in C : q > p => f[q] \in Answers(t, p, Seq(M))
    <3> SUFFICES ASSUME NEW q \in C, q > p
                 PROVE  f[q] \in Answers(t, p, Seq(M))
      OBVIOUS
    <3>1. q \in p + 1 .. m /\ p <= q /\ p \in Nat /\ q \in Nat
      BY <1>1
    <3>2. f[q] \in Answers(t, q, Seq(M))
      BY <1>14, <3>1
    <3> HIDE DEF f, M
    <3> QED
      BY <3>1, <3>2, AnswerLater
  <2>2. p \in Nat /\ p <= p /\ p \in C
    BY <1>1
  <2> HIDE DEF f, M, Step, C
  <2>3. Step(f, p) \in Answers(t, p, Seq(M))
    BY <1>5, <2>1, <2>2
  <2> QED
    BY <1>13, <2>2, <2>3
<1>15. D = 1 .. m
  <2>1. D \subseteq 1 .. m /\ \A p \in 1 .. m : (\A q \in p + 1 .. m : q \in D) => p \in D
    BY <1>14
  <2> HIDE DEF D, m
  <2> QED
    BY <1>1, <2>1, Downward
<1> HIDE DEF f
<1>16. \A p \in C : f[p] \in Answers(t, p, Seq(M))
  BY <1>1, <1>15
<1> QED
  BY <1>13, <1>16 DEF f

\* An array or an object, without the sets that name its parts.
LEMMA TreeIs ==
    ASSUME NEW t, NEW p, NEW inner
    PROVE  parse_json_tree(t, p, inner) =
              LET begin == SkipSpaces(t, p + 1)
                  close == At(t, p) + 2
              IN  IF At(t, begin) = close THEN Tree(At(t, p), Good(<<>>, begin + 1))
                  ELSE Tree(At(t, p), parse_json_items(t, close, inner)[begin])
<1> DEFINE begin == SkipSpaces(t, p + 1)
           close == At(t, p) + 2
           i == parse_json_items(t, close, inner)[begin]
           E == {Tree(At(t, p), r) : r \in {i}}
<1>1. E = {Tree(At(t, p), i)}
  OBVIOUS
<1>2. The(E) = Tree(At(t, p), i)
  <2> HIDE DEF E, i
  <2> QED
    BY <1>1, TheOne
<1> QED
  BY <1>2 DEF parse_json_tree

\* Items make an array or an object.
LEMMA TreeOf ==
    ASSUME NEW t \in Seq(Bytes), NEW p \in Nat, NEW S, NEW open, open = 91 \/ open = 123,
           NEW r \in Answers(t, p, Seq(ItemSet(open + 2, S)))
    PROVE  Tree(open, r) \in Answers(t, p, Above(S))
<1>1. CASE r.ok
  <2>1. r.val \in Seq(ItemSet(open + 2, S)) /\ r.end \in Cursors(t) /\ p < r.end
    BY <1>1, AnswerCases
  <2> DEFINE v == [type |-> IF open = 123 THEN "object" ELSE "array", items |-> r.val]
  <2>2. Tree(open, r) = Good(v, r.end)
    BY <1>1 DEF Tree
  <2>3. v \in Above(S)
    <3>1. CASE open = 123
      <4>1. v = [type |-> "object", items |-> r.val]
        BY <3>1
      <4>2. open + 2 = 125
        BY <3>1
      <4>3. r.val \in Seq([name : Seq(Bytes), val : S])
        BY <2>1, <4>2 DEF ItemSet
      <4> HIDE DEF v
      <4>4. v \in [type : {"object"}, items : Seq([name : Seq(Bytes), val : S])]
        BY <4>1, <4>3
      <4> QED
        BY <4>4 DEF Above
    <3>2. CASE open = 91
      <4>1. v = [type |-> "array", items |-> r.val]
        BY <3>2
      <4>2. open + 2 # 125
        BY <3>2
      <4>3. r.val \in Seq([name : {<<>>}, val : S])
        BY <2>1, <4>2 DEF ItemSet
      <4> HIDE DEF v
      <4>4. v \in [type : {"array"}, items : Seq([name : {<<>>}, val : S])]
        BY <4>1, <4>3
      <4> QED
        BY <4>4 DEF Above
    <3> QED
      BY <3>1, <3>2
  <2> HIDE DEF v
  <2> QED
    BY <2>1, <2>2, <2>3, AnswerIn
<1>2. CASE ~r.ok
  <2>1. Tree(open, r) = Bad
    BY <1>2 DEF Tree
  <2> QED
    BY <2>1, AnswerIn
<1> QED
  BY <1>1, <1>2

\* What is read of an array or an object is one (JsonParser.c:533-612).
LEMMA TreeTyped ==
    ASSUME NEW t \in Seq(Bytes), NEW p \in Cursors(t), NEW S, NEW inner, Reader(t, S, inner),
           At(t, p) \in {91, 123}
    PROVE  parse_json_tree(t, p, inner) \in Answers(t, p, Above(S))
<1> DEFINE open == At(t, p)
           begin == SkipSpaces(t, p + 1)
           close == open + 2
           i == parse_json_items(t, close, inner)[begin]
           M == ItemSet(close, S)
<1>1. open = 91 \/ open = 123
  OBVIOUS
<1>2. begin \in Cursors(t) /\ p < begin /\ p \in Nat /\ begin \in Nat
  <2>1. At(t, p) # 0
    OBVIOUS
  <2> HIDE DEF open
  <2> QED
    BY <2>1, SkipPast
<1>3. Closes(close) /\ close # 0
  BY <1>1 DEF Closes
<1>4. parse_json_tree(t, p, inner) =
         IF At(t, begin) = close THEN Tree(open, Good(<<>>, begin + 1)) ELSE Tree(open, i)
  BY TreeIs
<1>5. CASE At(t, begin) = close
  <2> DEFINE q == begin + 1
             none == <<>>
  <2>1. q \in Cursors(t) /\ p < q
    <3>1. At(t, begin) # 0
      BY <1>3, <1>5
    <3> HIDE DEF begin
    <3>2. begin + 1 \in Cursors(t)
      BY <1>2, <3>1, SkipPast
    <3> QED
      BY <1>2, <3>2
  <2>2. none \in Seq(M)
    OBVIOUS
  <2>3. parse_json_tree(t, p, inner) = Tree(open, Good(none, q))
    BY <1>4, <1>5
  <2> HIDE DEF q, none, M
  <2>4. Good(none, q) \in Answers(t, p, Seq(M))
    BY <2>1, <2>2, AnswerIn
  <2> HIDE DEF open
  <2>5. Tree(open, Good(none, q)) \in Answers(t, p, Above(S))
    BY <1>1, <1>2, <2>4, TreeOf DEF M
  <2> QED
    BY <2>3, <2>5
<1>6. CASE At(t, begin) # close
  <2>1. parse_json_tree(t, p, inner) = Tree(open, i)
    BY <1>4, <1>6
  <2>2. i \in Answers(t, begin, Seq(M))
    <3> HIDE DEF begin, close
    <3> QED
      BY <1>2, <1>3, ItemsSolved
  <2>3. i \in Answers(t, p, Seq(M))
    <3> HIDE DEF i, M, begin
    <3>1. p <= begin
      BY <1>2
    <3> QED
      BY <1>2, <2>2, <3>1, AnswerLater
  <2> HIDE DEF i, open
  <2>4. Tree(open, i) \in Answers(t, p, Above(S))
    BY <1>1, <1>2, <2>3, TreeOf
  <2> QED
    BY <2>1, <2>4
<1> QED
  BY <1>5, <1>6

-----------------------------------------------------------------------------
(* Values.                                                                  *)

StringAt(t, p) == StringOf(ReadString(t, p + 1))

TreeAt(t, left, inner, p) == IF left = 0 THEN Bad ELSE parse_json_tree(t, p, inner)

\* What is read, by the first byte (JsonParser.c:634-717).
LEMMA ValueCases ==
    ASSUME NEW t, NEW left, NEW inner, NEW p
    PROVE  /\ At(t, p) = Quote => ValueAt(t, left, inner, p) = StringAt(t, p)
           /\ At(t, p) \in DigitBytes \cup {45} =>
                 ValueAt(t, left, inner, p) = parse_json_number(t, p)
           /\ At(t, p) \in {91, 123} =>
                 ValueAt(t, left, inner, p) = TreeAt(t, left, inner, p)
           /\ At(t, p) \notin DigitBytes \cup {Quote, 45, 91, 123} =>
                 ValueAt(t, left, inner, p) = parse_json_literal(t, p)
<1> DEFINE b == At(t, p)
           x1 == StringAt(t, p)
           x2 == parse_json_number(t, p)
           x3 == TreeAt(t, left, inner, p)
           x4 == parse_json_literal(t, p)
           v == ValueAt(t, left, inner, p)
<1>1. v = CASE b = Quote -> x1
            [] b \in DigitBytes \cup {45} -> x2
            [] b \in {91, 123} -> x3
            [] OTHER -> x4
  <2> DEFINE E == {StringOf(r) : r \in {ReadString(t, p + 1)}}
             y == The(E)
  <2>1. E = {x1}
    BY DEF StringAt
  <2> HIDE DEF E, x1
  <2>2. y = x1
    BY <2>1, TheOne
  <2>3. v = CASE b = Quote -> y
              [] b \in DigitBytes \cup {45} -> x2
              [] b \in {91, 123} -> x3
              [] OTHER -> x4
    BY DEF ValueAt, TreeAt, E
  <2> HIDE DEF b, x2, x3, x4, v, y
  <2> QED
    BY <2>2, <2>3
<1> HIDE DEF b, x1, x2, x3, x4, v
<1>2. b = Quote => b \notin DigitBytes \cup {45} /\ b \notin {91, 123}
  BY DEF Quote, DigitBytes
<1>3. b \in {91, 123} => b \notin DigitBytes \cup {45} /\ b # Quote
  BY DEF Quote, DigitBytes
<1>4. b = Quote => v = x1
  BY <1>1, <1>2
<1>5. b \in {91, 123} => v = x3
  BY <1>1, <1>3
<1>6. b \in DigitBytes \cup {45} => v = x2
  BY <1>1, <1>2, <1>3
<1>7. b \notin DigitBytes \cup {Quote, 45, 91, 123} => v = x4
  BY <1>1
<1> QED
  BY <1>4, <1>5, <1>6, <1>7 DEF b, x1, x2, x3, x4, v

\* A string that is read is a value.
LEMMA StringTyped ==
    ASSUME NEW t \in Seq(Bytes), NEW p \in Cursors(t), At(t, p) = Quote
    PROVE  StringAt(t, p) \in Answers(t, p, Scalars)
<1> DEFINE r == ReadString(t, p + 1)
<1>1. p + 1 \in Cursors(t) /\ p \in Nat /\ p + 1 \in Nat /\ p <= p + 1
  <2>1. p + 1 \in Cursors(t) /\ p \in Nat
    BY SkipPast DEF Quote
  <2> QED
    BY <2>1
<1>2. r \in Answers(t, p, Seq(Bytes))
  <2>1. r \in Answers(t, p + 1, Seq(Bytes))
    BY <1>1, ReadStringTyped
  <2> HIDE DEF r
  <2> QED
    BY <1>1, <2>1, AnswerLater
<1>3. StringAt(t, p) = IF r.ok THEN Good([type |-> "string", str |-> r.val], r.end) ELSE Bad
  BY DEF StringAt, StringOf
<1> HIDE DEF r
<1>4. CASE r.ok
  <2> DEFINE v == [type |-> "string", str |-> r.val]
  <2>1. r.val \in Seq(Bytes) /\ r.end \in Cursors(t) /\ p < r.end
    BY <1>2, <1>4, AnswerCases
  <2>2. v \in Scalars
    <3>1. v \in [type : {"string"}, str : Seq(Bytes)]
      BY <2>1
    <3> HIDE DEF v
    <3> QED
      BY <3>1 DEF Scalars
  <2>3. StringAt(t, p) = Good(v, r.end)
    BY <1>3, <1>4
  <2> HIDE DEF v
  <2> QED
    BY <2>1, <2>2, <2>3, AnswerIn
<1>5. CASE ~r.ok
  BY <1>3, <1>5, AnswerIn
<1> QED
  BY <1>4, <1>5

\* Answers of fewer values are answers of more.
LEMMA AnswerWider ==
    ASSUME NEW t, NEW p, NEW S, NEW T, S \subseteq T, NEW r \in Answers(t, p, S)
    PROVE  r \in Answers(t, p, T)
BY DEF Answers

\* Scalars are values of every level.
LEMMA ScalarsIn == \A n \in Nat : Scalars \subseteq Values[n]
<1> SUFFICES ASSUME NEW n \in Nat
             PROVE  Scalars \subseteq Values[n]
  OBVIOUS
<1>1. Values[n] = IF n = 0 THEN Scalars ELSE Above(Values[n - 1])
  BY ValuesSolved
<1>2. Scalars \subseteq Above(Values[n - 1])
  BY DEF Above
<1> QED
  BY <1>1, <1>2

\* What is read with so many levels left is a value of so many levels.
LEMMA ValueTyped ==
    ASSUME NEW t \in Seq(Bytes), NEW left \in Nat, NEW inner,
           left # 0 => Reader(t, Values[left - 1], inner), NEW p \in Cursors(t)
    PROVE  ValueAt(t, left, inner, p) \in Answers(t, p, Values[left])
<1> DEFINE b == At(t, p)
           v == ValueAt(t, left, inner, p)
<1>1. Scalars \subseteq Values[left]
  BY ScalarsIn
<1>2. ASSUME v \in Answers(t, p, Scalars)
      PROVE  v \in Answers(t, p, Values[left])
  <2> HIDE DEF v
  <2> QED
    BY <1>1, <1>2, AnswerWider
<1>3. CASE b = Quote
  <2>1. v = StringAt(t, p)
    BY <1>3, ValueCases
  <2>2. v \in Answers(t, p, Scalars)
    BY <1>3, <2>1, StringTyped
  <2> QED
    BY <1>2, <2>2
<1>4. CASE b \in DigitBytes \cup {45}
  <2>1. v = parse_json_number(t, p)
    BY <1>4, ValueCases
  <2>2. v \in Answers(t, p, Scalars)
    BY <1>4, <2>1, NumberTyped
  <2> QED
    BY <1>2, <2>2
<1>5. CASE b \in {91, 123}
  <2>1. v = TreeAt(t, left, inner, p)
    BY <1>5, ValueCases
  <2>2. CASE left = 0
    <3>1. v = Bad
      BY <2>1, <2>2 DEF TreeAt
    <3> HIDE DEF v
    <3>2. v \in Answers(t, p, Values[left])
      BY <3>1, AnswerIn
    <3> QED
      BY <3>2 DEF v
  <2>3. CASE left # 0
    <3>1. v = parse_json_tree(t, p, inner)
      BY <2>1, <2>3 DEF TreeAt
    <3>2. Values[left] = Above(Values[left - 1])
      BY <2>3, ValuesSolved
    <3>3. parse_json_tree(t, p, inner) \in Answers(t, p, Above(Values[left - 1]))
      BY <1>5, <2>3, TreeTyped
    <3> HIDE DEF v
    <3>4. v \in Answers(t, p, Values[left])
      BY <3>1, <3>2, <3>3
    <3> QED
      BY <3>4 DEF v
  <2> QED
    BY <2>2, <2>3
<1>6. CASE b \notin DigitBytes \cup {Quote, 45, 91, 123}
  <2>1. v = parse_json_literal(t, p)
    BY <1>6, ValueCases
  <2>2. v \in Answers(t, p, Scalars)
    BY <2>1, LiteralTyped
  <2> QED
    BY <1>2, <2>2
<1> HIDE DEF b
<1>7. \/ b = Quote \/ b \in DigitBytes \cup {45} \/ b \in {91, 123}
      \/ b \notin DigitBytes \cup {Quote, 45, 91, 123}
  OBVIOUS
<1> QED
  BY <1>3, <1>4, <1>5, <1>6, <1>7

\* The parser of a text, level by level.
LEMMA ParserSolved ==
    ASSUME NEW t \in Seq(Bytes)
    PROVE  \A n \in Nat :
              /\ Reader(t, Values[n], parse_json_value(t)[n])
              /\ \A p \in Cursors(t) :
                    parse_json_value(t)[n][p] = ValueAt(t, n, parse_json_value(t)[n - 1], p)
<1> DEFINE C == Cursors(t)
           Step(n, w) == [p \in C |-> ValueAt(t, n, w, p)]
           V == [n \in Nat |-> {w \in [C -> Answers(t, 0, Values[n])] : Reader(t, Values[n], w)}]
           W == UNION {V[n] : n \in Nat}
           G == [a \in Nat \X W |-> Step(a[1], a[2])]
           f0 == Step(0, 0)
           Def(f) == f = [n \in Nat |-> Step(n, f[n - 1])]
           f == parse_json_value(t)
<1>1. ASSUME NEW n \in Nat, NEW w, n # 0 => Reader(t, Values[n - 1], w)
      PROVE  Step(n, w) \in V[n]
  <2>1. \A p \in C : ValueAt(t, n, w, p) \in Answers(t, p, Values[n])
    BY <1>1, ValueTyped
  <2>2. \A p \in C : ValueAt(t, n, w, p) \in Answers(t, 0, Values[n])
    <3> SUFFICES ASSUME NEW p \in C
                 PROVE  ValueAt(t, n, w, p) \in Answers(t, 0, Values[n])
      OBVIOUS
    <3>1. 0 \in Nat /\ p \in Nat /\ 0 <= p
      BY LenProperties DEF Cursors
    <3> DEFINE v == ValueAt(t, n, w, p)
    <3>2. v \in Answers(t, p, Values[n])
      BY <2>1
    <3> HIDE DEF v
    <3> QED
      BY <3>1, <3>2, AnswerLater DEF v
  <2> DEFINE s == Step(n, w)
  <2>3. s \in [C -> Answers(t, 0, Values[n])] /\ \A p \in C : s[p] \in Answers(t, p, Values[n])
    BY <2>1, <2>2
  <2> HIDE DEF s
  <2>4. Reader(t, Values[n], s)
    BY <2>3 DEF Reader
  <2> QED
    BY <2>3, <2>4 DEF s
<1>2. \A n \in Nat : \A w \in V[n] : w \in W /\ Reader(t, Values[n], w)
  OBVIOUS
<1>3. f0 \in V[0]
  <2>1. 0 \in Nat /\ (0 # 0 => Reader(t, Values[0 - 1], 0))
    OBVIOUS
  <2> HIDE DEF V, Step
  <2> QED
    BY <1>1, <2>1
<1>4. \A n \in Nat : \A w \in W : G[<<n, w>>] = Step(n, w)
  OBVIOUS
<1>5. \A n \in Nat : n # 0 => \A w \in V[n - 1] : G[<<n, w>>] \in V[n]
  <2> SUFFICES ASSUME NEW n \in Nat, n # 0, NEW w \in V[n - 1]
               PROVE  G[<<n, w>>] \in V[n]
    OBVIOUS
  <2>1. n - 1 \in Nat
    OBVIOUS
  <2>2. w \in W /\ Reader(t, Values[n - 1], w)
    BY <1>2, <2>1
  <2> HIDE DEF V, W, G, Step
  <2>3. Step(n, w) \in V[n]
    BY <1>1, <2>2
  <2> QED
    BY <1>4, <2>2, <2>3
<1>6. PICK g : /\ g = [n \in Nat |-> IF n = 0 THEN f0 ELSE G[<<n, g[n - 1]>>]]
               /\ \A n \in Nat : g[n] \in V[n]
  <2> DEFINE I == Nat
  <2>1. I \subseteq Nat /\ 0 \in I /\ \A n \in I : n # 0 => n - 1 \in I
    OBVIOUS
  <2>2. \A n \in I : n # 0 => \A w \in V[n - 1] : G[<<n, w>>] \in V[n]
    BY <1>5
  <2> HIDE DEF V, W, G, f0, I
  <2>3. \E g : Climbs(g, I, f0, G) /\ \A n \in I : g[n] \in V[n]
    BY <1>3, <2>1, <2>2, LevelRecursion
  <2> QED
    BY <2>3 DEF I, Climbs
<1>7. \A w : Step(0, w) = f0
  <2> SUFFICES ASSUME NEW w
               PROVE  \A p \in C : ValueAt(t, 0, w, p) = ValueAt(t, 0, 0, p)
    OBVIOUS
  <2> QED
    <3> SUFFICES ASSUME NEW p \in C
                 PROVE  ValueAt(t, 0, w, p) = ValueAt(t, 0, 0, p)
      OBVIOUS
    <3>1. TreeAt(t, 0, w, p) = TreeAt(t, 0, 0, p)
      BY DEF TreeAt
    <3> DEFINE b == At(t, p)
    <3> HIDE DEF b
    <3>2. \/ b = Quote \/ b \in DigitBytes \cup {45} \/ b \in {91, 123}
          \/ b \notin DigitBytes \cup {Quote, 45, 91, 123}
      OBVIOUS
    <3>3. CASE b = Quote
      BY <3>3, ValueCases DEF b
    <3>4. CASE b \in DigitBytes \cup {45}
      BY <3>4, ValueCases DEF b
    <3>5. CASE b \in {91, 123}
      BY <3>1, <3>5, ValueCases DEF b
    <3>6. CASE b \notin DigitBytes \cup {Quote, 45, 91, 123}
      BY <3>6, ValueCases DEF b
    <3> QED
      BY <3>2, <3>3, <3>4, <3>5, <3>6
<1>8. \A n \in Nat : g[n] = Step(n, g[n - 1])
  <2> SUFFICES ASSUME NEW n \in Nat
               PROVE  g[n] = Step(n, g[n - 1])
    OBVIOUS
  <2> HIDE DEF f0, G, Step, V, W
  <2>1. g[n] = IF n = 0 THEN f0 ELSE G[<<n, g[n - 1]>>]
    BY <1>6
  <2>2. CASE n = 0
    BY <1>7, <2>1, <2>2
  <2>3. CASE n # 0
    <3>1. n - 1 \in Nat
      BY <2>3
    <3>2. g[n - 1] \in W
      BY <1>2, <1>6, <3>1
    <3> QED
      BY <1>4, <2>1, <2>3, <3>2
  <2> QED
    BY <2>2, <2>3
<1>9. Def(g)
  <2> HIDE DEF Step, f0, G
  <2>1. DOMAIN g = Nat
    BY <1>6
  <2>2. g = [n \in Nat |-> g[n]]
    BY <1>6
  <2> QED
    BY <1>8, <2>2
<1>10. f = CHOOSE x : Def(x)
  BY DEF parse_json_value
<1>11. Def(f)
  <2> HIDE DEF Def, f
  <2> QED
    BY <1>9, <1>10
<1> HIDE DEF f
<1>12. \A n \in Nat : f[n] = Step(n, f[n - 1])
  <2> HIDE DEF Step
  <2> QED
    BY <1>11
<1> DEFINE Failing == {n \in Nat : ~Reader(t, Values[n], f[n])}
<1>13. Failing = {}
  <2> SUFFICES ASSUME Failing # {}
               PROVE  FALSE
    OBVIOUS
  <2>1. PICK n \in Failing : \A k \in Failing : n <= k
    <3>1. Failing \subseteq Nat
      OBVIOUS
    <3> HIDE DEF Failing
    <3> QED
      BY <3>1, Smallest
  <2>2. n \in Nat /\ ~Reader(t, Values[n], f[n])
    BY <2>1
  <2>3. n # 0 => Reader(t, Values[n - 1], f[n - 1])
    <3> SUFFICES ASSUME n # 0
                 PROVE  Reader(t, Values[n - 1], f[n - 1])
      OBVIOUS
    <3>1. n - 1 \in Nat /\ ~(n <= n - 1)
      BY <2>2
    <3>2. n - 1 \notin Failing
      BY <2>1, <3>1
    <3> QED
      BY <3>1, <3>2
  <2> HIDE DEF Step, V
  <2>4. Step(n, f[n - 1]) \in V[n]
    BY <1>1, <2>2, <2>3
  <2> QED
    BY <1>2, <1>12, <2>2, <2>4
<1>14. \A n \in Nat : Reader(t, Values[n], f[n])
  BY <1>13
<1>15. \A n \in Nat : \A p \in C : f[n][p] = ValueAt(t, n, f[n - 1], p)
  <2> SUFFICES ASSUME NEW n \in Nat, NEW p \in C
               PROVE  f[n][p] = ValueAt(t, n, f[n - 1], p)
    OBVIOUS
  <2>1. f[n] = [q \in C |-> ValueAt(t, n, f[n - 1], q)]
    BY <1>12
  <2> QED
    BY <2>1
<1> QED
  BY <1>14, <1>15 DEF f

ParsedAt(t, q) == parse_json_value(t)[DepthLimit][q]

\* The parse of a whole text: nothing but blanks may follow the value
\* (JsonParser.c:739-760).
LEMMA ParseIs ==
    ASSUME NEW t
    PROVE  json_value_parse(t) =
              LET v == ParsedAt(t, SkipSpaces(t, 1))
              IN  IF v.ok /\ SkipSpaces(t, v.end) = Len(t) + 1 THEN v.val ELSE Invalid
<1> DEFINE a == ParsedAt(t, SkipSpaces(t, 1))
           Whole(v) == IF v.ok /\ SkipSpaces(t, v.end) = Len(t) + 1 THEN v.val ELSE Invalid
           E == {Whole(v) : v \in {a}}
<1>1. E = {Whole(a)}
  OBVIOUS
<1>2. The(E) = Whole(a)
  <2> HIDE DEF E, Whole, a
  <2> QED
    BY <1>1, TheOne
<1>3. json_value_parse(t) = The(E)
  BY DEF json_value_parse, ParsedAt
<1> HIDE DEF E, a
<1> QED
  BY <1>2, <1>3 DEF a

\* A text is parsed to a value of at most DepthLimit levels, or to none.
LEMMA ParseTyped ==
    ASSUME NEW t \in Seq(Bytes)
    PROVE  json_value_parse(t) \in {Invalid} \cup Values[DepthLimit]
<1> DEFINE q == SkipSpaces(t, 1)
           v == ParsedAt(t, q)
<1>1. q \in Cursors(t)
  <2>1. 1 \in Cursors(t)
    BY LenProperties DEF Cursors
  <2> QED
    BY <2>1, Skips
<1>2. DepthLimit \in Nat
  BY TextAssumption
<1>3. v \in Answers(t, q, Values[DepthLimit])
  <2> HIDE DEF q
  <2>1. Reader(t, Values[DepthLimit], parse_json_value(t)[DepthLimit])
    BY <1>2, ParserSolved
  <2> QED
    BY <1>1, <2>1 DEF Reader, ParsedAt
<1>4. json_value_parse(t) = IF v.ok /\ SkipSpaces(t, v.end) = Len(t) + 1 THEN v.val ELSE Invalid
  BY ParseIs
<1> HIDE DEF v, q
<1>5. v.ok => v.val \in Values[DepthLimit]
  BY <1>3, AnswerCases
<1> QED
  BY <1>4, <1>5

-----------------------------------------------------------------------------
(* What is written.                                                         *)

\* The bytes of a dump: without indentation there is no line break.
Ink(sp) == IF sp = 0 THEN 32 .. 255 ELSE Bytes

\* A hex digit that is written is read as what it stands for.
LEMMA HexDigitFacts ==
    ASSUME NEW d \in 0 .. 15
    PROVE  /\ HexDigit(d) \in 48 .. 57 \cup 97 .. 102
           /\ Hex(HexDigit(d)) = d
<1>1. CASE d < 10
  <2>1. HexDigit(d) = 48 + d
    BY <1>1 DEF HexDigit
  <2>2. 48 + d \in DigitBytes /\ 48 + d \in 48 .. 57
    BY <1>1 DEF DigitBytes
  <2>3. Hex(48 + d) = (48 + d) - 48
    BY <2>2 DEF Hex, DigitBytes
  <2> QED
    BY <2>1, <2>2, <2>3
<1>2. CASE ~(d < 10)
  <2>1. HexDigit(d) = 87 + d
    BY <1>2 DEF HexDigit
  <2>2. 87 + d \notin DigitBytes /\ 87 + d \notin 65 .. 70 /\ 87 + d \in 97 .. 102
    BY <1>2 DEF DigitBytes
  <2>3. Hex(87 + d) = (87 + d) - 87
    BY <2>2 DEF Hex, DigitBytes
  <2> QED
    BY <2>1, <2>2, <2>3
<1> QED
  BY <1>1, <1>2

\* The three ways to write a byte.
AsItIs(c) == c >= 32 /\ c \notin {Quote, Backslash} /\ Convert(c) = <<c>>
AsEscape(c, e) == e \in DOMAIN Escaped /\ Escaped[e] = c /\ Convert(c) = <<Backslash, e>>
AsCode(c) == c < 32 /\ Convert(c) = <<Backslash, 117, 48, 48, HexDigit(c \div 16), HexDigit(c % 16)>>

\* The short escapes.
LEMMA EscapedFacts ==
    /\ DOMAIN Escaped = {34, 92, 47, 98, 102, 110, 114, 116}
    /\ Escaped[34] = 34 /\ Escaped[92] = 92
    /\ Escaped[98] = 8 /\ Escaped[102] = 12 /\ Escaped[110] = 10
    /\ Escaped[114] = 13 /\ Escaped[116] = 9
BY DEF Escaped

\* A byte is written as it is, as a short escape or as a code (Json.cc:700-732).
LEMMA ConvertCases ==
    ASSUME NEW c \in Bytes
    PROVE  AsItIs(c) \/ (\E e : AsEscape(c, e)) \/ AsCode(c)
<1> DEFINE ctl == {8, 9, 10, 12, 13}
           x == CHOOSE e \in DOMAIN Escaped : Escaped[e] = c
           v == Convert(c)
           v1 == <<Backslash, c>>
           v2 == <<Backslash, x>>
           v3 == <<Backslash, 117, 48, 48, HexDigit(c \div 16), HexDigit(c % 16)>>
           v4 == <<c>>
<1>1. v = CASE c \in {Quote, Backslash} -> v1
            [] c \in ctl -> v2
            [] c < 32 /\ c \notin ctl -> v3
            [] OTHER -> v4
  BY DEF Convert
<1>2. c \in 1 .. 255
  BY DEF Bytes
<1> HIDE DEF v, v1, v2, v3, v4
<1>3. CASE c \in {Quote, Backslash}
  <2>1. c \notin ctl /\ ~(c < 32)
    BY <1>3 DEF Quote, Backslash
  <2>2. v = v1
    BY <1>1, <1>3, <2>1
  <2>3. c \in DOMAIN Escaped /\ Escaped[c] = c
    BY <1>3, EscapedFacts DEF Quote, Backslash
  <2>4. AsEscape(c, c)
    BY <2>2, <2>3 DEF AsEscape, v, v1
  <2> QED
    BY <2>4
<1>4. CASE c \in ctl
  <2>1. c \notin {Quote, Backslash}
    BY <1>4 DEF Quote, Backslash
  <2>2. v = v2
    BY <1>1, <1>4, <2>1
  <2>3. \E e \in DOMAIN Escaped : Escaped[e] = c
    BY <1>4, EscapedFacts
  <2>4. x \in DOMAIN Escaped /\ Escaped[x] = c
    BY <2>3
  <2> HIDE DEF x
  <2>5. AsEscape(c, x)
    BY <2>2, <2>4 DEF AsEscape, v, v2
  <2> QED
    BY <2>5
<1>5. CASE c < 32 /\ c \notin ctl
  <2>1. c \notin {Quote, Backslash}
    BY <1>5 DEF Quote, Backslash
  <2>2. v = v3
    BY <1>1, <1>5, <2>1
  <2> QED
    BY <1>5, <2>2 DEF AsCode, v, v3
<1>6. CASE c \notin {Quote, Backslash} /\ c \notin ctl /\ ~(c < 32)
  <2>1. v = v4
    BY <1>1, <1>6
  <2>2. c >= 32
    BY <1>2, <1>6
  <2> QED
    BY <1>6, <2>1, <2>2 DEF AsItIs, v, v4
<1> QED
  BY <1>3, <1>4, <1>5, <1>6

\* However a byte is written, no control character is.
LEMMA ConvertTyped ==
    ASSUME NEW c \in Bytes
    PROVE  Convert(c) \in Seq(32 .. 255)
<1>0. c \in 1 .. 255
  BY DEF Bytes
<1>1. CASE AsItIs(c)
  <2>1. c \in 32 .. 255
    BY <1>0, <1>1 DEF AsItIs
  <2>2. <<c>> \in Seq(32 .. 255)
    BY <2>1
  <2> QED
    BY <1>1, <2>2 DEF AsItIs
<1>2. ASSUME NEW e, AsEscape(c, e)
      PROVE  Convert(c) \in Seq(32 .. 255)
  <2>1. e \in 32 .. 255 /\ Backslash \in 32 .. 255
    BY <1>2, EscapedFacts DEF AsEscape, Backslash
  <2>2. <<Backslash, e>> \in Seq(32 .. 255)
    BY <2>1
  <2> QED
    BY <1>2, <2>2 DEF AsEscape
<1>3. CASE AsCode(c)
  <2>1. c \div 16 \in 0 .. 15 /\ c % 16 \in 0 .. 15
    BY <1>0
  <2> DEFINE a == HexDigit(c \div 16)
             b == HexDigit(c % 16)
  <2>2. a \in 48 .. 57 \cup 97 .. 102
    BY <2>1, HexDigitFacts
  <2>3. b \in 48 .. 57 \cup 97 .. 102
    BY <2>1, HexDigitFacts
  <2>4. Convert(c) = <<Backslash, 117, 48, 48, a, b>>
    BY <1>3 DEF AsCode
  <2> HIDE DEF a, b
  <2>5. a \in 32 .. 255 /\ b \in 32 .. 255 /\ Backslash \in 32 .. 255
        /\ 117 \in 32 .. 255 /\ 48 \in 32 .. 255
    BY <2>2, <2>3 DEF Backslash
  <2>6. <<Backslash, 117, 48, 48, a, b>> \in Seq(32 .. 255)
    BY <2>5
  <2> QED
    BY <2>4, <2>6
<1> QED
  BY <1>1, <1>2, <1>3, ConvertCases

\* How the bytes of a string are written, one by one.
Conversions(s) == [i \in DOMAIN s |-> Convert(s[i])]

\* The same for the bytes of a string.
LEMMA ConversionsTyped ==
    ASSUME NEW s \in Seq(Bytes)
    PROVE  /\ Conversions(s) \in Seq(Seq(32 .. 255)) /\ Len(Conversions(s)) = Len(s)
           /\ Len(s) \in Nat
           /\ \A i \in 1 .. Len(s) : s[i] \in Bytes /\ Conversions(s)[i] = Convert(s[i])
<1> DEFINE n == Len(s)
           S == Seq(32 .. 255)
           w == Conversions(s)
<1>1. n \in Nat /\ DOMAIN s = 1 .. n /\ \A i \in 1 .. n : s[i] \in Bytes
  BY LenProperties, ElementOfSeq
<1>2. w = [i \in 1 .. n |-> Convert(s[i])]
  BY <1>1 DEF Conversions
<1>3. \A i \in 1 .. n : Convert(s[i]) \in S
  BY <1>1, ConvertTyped
<1> HIDE DEF n, S
<1>4. w \in [1 .. n -> S]
  BY <1>2, <1>3
<1>5. w \in Seq(S) /\ Len(w) = n
  <2> HIDE DEF w
  <2>1. w \in Seq(S)
    BY <1>1, <1>4, SeqDef
  <2>2. DOMAIN w = 1 .. n /\ DOMAIN w = 1 .. Len(w) /\ Len(w) \in Nat
    BY <1>4, <2>1, LenProperties
  <2> QED
    BY <1>1, <2>1, <2>2
<1> QED
  BY <1>1, <1>2, <1>5 DEF n, S

\* A string is written without control characters (Json.cc:698-735).
LEMMA StringTextTyped ==
    ASSUME NEW s \in Seq(Bytes)
    PROVE  /\ FlattenSeq(Conversions(s)) \in Seq(32 .. 255)
           /\ string_convert(s) = <<Quote>> \o FlattenSeq(Conversions(s)) \o <<Quote>>
           /\ string_convert(s) \in Seq(32 .. 255)
<1> DEFINE f == FlattenSeq(Conversions(s))
           q == <<Quote>>
           S == 32 .. 255
<1>1. f \in Seq(S)
  BY ConversionsTyped, FlattenParts
<1>2. q \in Seq(S)
  <2>1. Quote \in S
    BY DEF Quote
  <2> QED
    BY <2>1
<1>3. string_convert(s) = q \o f \o q
  BY DEF string_convert, Conversions
<1> HIDE DEF f, q, S
<1>4. q \o f \in Seq(S)
  BY <1>1, <1>2, ConcatProperties
<1>5. q \o f \o q \in Seq(S)
  BY <1>2, <1>4, ConcatProperties
<1> QED
  BY <1>1, <1>3, <1>5 DEF f, q, S

\* The kinds of values.
StringValue(v) == v.type = "string" /\ v.str \in Seq(Bytes) /\ v = [type |-> "string", str |-> v.str]
NumberValue(v) ==
    /\ v.type = "number" /\ v.minus \in BOOLEAN /\ v.n \in Nat /\ Len(Decimal[v.n]) <= Figures
    /\ v = [type |-> "number", minus |-> v.minus, n |-> v.n]
LiteralValue(v, l) == l \in Literals /\ v.type = l.type /\ v = Leaf(l.type)
CloseOf(v) == IF v.type = "object" THEN 125 ELSE 93
TreeValue(v, S) ==
    /\ v.type \in {"object", "array"} /\ v.items \in Seq(ItemSet(CloseOf(v), S))
    /\ v = [type |-> v.type, items |-> v.items]

\* The types of the literals.
LEMMA LiteralNames ==
    ASSUME NEW l \in Literals
    PROVE  l.type \in {"true", "false", "null"}
BY DEF Literals

\* What a scalar is.
LEMMA ScalarKinds ==
    ASSUME NEW v \in Scalars
    PROVE  StringValue(v) \/ NumberValue(v) \/ \E l : LiteralValue(v, l)
<1>1. CASE v \in {Leaf(l.type) : l \in Literals}
  <2>1. PICK l \in Literals : v = Leaf(l.type)
    BY <1>1
  <2>2. LiteralValue(v, l)
    BY <2>1 DEF LiteralValue, Leaf
  <2> QED
    BY <2>2
<1>2. CASE v \in [type : {"string"}, str : Seq(Bytes)]
  <2>1. v.type = "string" /\ v.str \in Seq(Bytes) /\ v = [type |-> "string", str |-> v.str]
    BY <1>2
  <2> QED
    BY <2>1 DEF StringValue
<1>3. CASE v \in [type : {"number"}, minus : BOOLEAN, n : {n \in Nat : Len(Decimal[n]) <= Figures}]
  <2> DEFINE N == {n \in Nat : Len(Decimal[n]) <= Figures}
  <2> HIDE DEF N
  <2>1. v \in [type : {"number"}, minus : BOOLEAN, n : N]
    BY <1>3 DEF N
  <2>2. /\ v.type = "number" /\ v.minus \in BOOLEAN /\ v.n \in N
        /\ v = [type |-> "number", minus |-> v.minus, n |-> v.n]
    BY <2>1
  <2>3. v.n \in Nat /\ Len(Decimal[v.n]) <= Figures
    BY <2>2 DEF N
  <2> QED
    BY <2>2, <2>3 DEF NumberValue
<1> QED
  BY <1>1, <1>2, <1>3 DEF Scalars

\* A value is a scalar, or an array or an object of values a level down.
LEMMA ValueKinds ==
    ASSUME NEW n \in Nat, NEW v \in Values[n]
    PROVE  \/ StringValue(v) \/ NumberValue(v) \/ \E l : LiteralValue(v, l)
           \/ n # 0 /\ n - 1 \in Nat /\ TreeValue(v, Values[n - 1])
<1>1. Values[n] = IF n = 0 THEN Scalars ELSE Above(Values[n - 1])
  BY ValuesSolved
<1>2. CASE v \in Scalars
  BY <1>2, ScalarKinds
<1>3. CASE v \notin Scalars
  <2> DEFINE S == Values[n - 1]
  <2>1. n # 0 /\ v \in Above(S) /\ n - 1 \in Nat
    BY <1>1, <1>3
  <2> HIDE DEF S
  <2>2. CASE v \in [type : {"array"}, items : Seq([name : {<<>>}, val : S])]
    <3>1. /\ v.type = "array" /\ v.items \in Seq([name : {<<>>}, val : S])
          /\ v = [type |-> v.type, items |-> v.items]
      BY <2>2
    <3>2. CloseOf(v) = 93
      BY <3>1 DEF CloseOf
    <3>3. ItemSet(CloseOf(v), S) = [name : {<<>>}, val : S]
      BY <3>2 DEF ItemSet
    <3>4. TreeValue(v, S)
      BY <3>1, <3>3 DEF TreeValue
    <3> QED
      BY <2>1, <3>4 DEF S
  <2>3. CASE v \in [type : {"object"}, items : Seq([name : Seq(Bytes), val : S])]
    <3>1. /\ v.type = "object" /\ v.items \in Seq([name : Seq(Bytes), val : S])
          /\ v = [type |-> v.type, items |-> v.items]
      BY <2>3
    <3>2. CloseOf(v) = 125
      BY <3>1 DEF CloseOf
    <3>3. ItemSet(CloseOf(v), S) = [name : Seq(Bytes), val : S]
      BY <3>2 DEF ItemSet
    <3>4. TreeValue(v, S)
      BY <3>1, <3>3 DEF TreeValue
    <3> QED
      BY <2>1, <3>4 DEF S
  <2> QED
    BY <1>3, <2>1, <2>2, <2>3 DEF Above
<1> QED
  BY <1>2, <1>3

\* How a value is written, by its type (Json.cc:669-696).
LEMMA TextCases ==
    ASSUME NEW v, NEW sp, NEW depth, NEW inner
    PROVE  /\ StringValue(v) => ValueText(v, sp, depth, inner) = string_convert(v.str)
           /\ NumberValue(v) => ValueText(v, sp, depth, inner) = number_convert(v)
           /\ \A l : LiteralValue(v, l) => ValueText(v, sp, depth, inner) = l.text
           /\ \A S : TreeValue(v, S) =>
                 ValueText(v, sp, depth, inner) = tree_convert(v, sp, depth, inner)
<1> DEFINE x1 == string_convert(v.str)
           x2 == number_convert(v)
           x3 == tree_convert(v, sp, depth, inner)
           x4 == (CHOOSE l \in Literals : l.type = v.type).text
           r == ValueText(v, sp, depth, inner)
           y == v.type
<1>1. r = CASE y = "string" -> x1
            [] y = "number" -> x2
            [] y \in {"object", "array"} -> x3
            [] OTHER -> x4
  BY DEF ValueText
<1> HIDE DEF x1, x2, x3, x4, r, y
<1>2. y = "string" => y # "number" /\ y \notin {"object", "array"}
  OBVIOUS
<1>3. y = "number" => y # "string" /\ y \notin {"object", "array"}
  OBVIOUS
<1>4. y \in {"object", "array"} => y # "string" /\ y # "number"
  OBVIOUS
<1>5. y \in {"true", "false", "null"} =>
         y # "string" /\ y # "number" /\ y \notin {"object", "array"}
  OBVIOUS
<1>6. y = "string" => r = x1
  BY <1>1, <1>2
<1>7. y = "number" => r = x2
  BY <1>1, <1>3
<1>8. y \in {"object", "array"} => r = x3
  BY <1>1, <1>4
<1>9. y \in {"true", "false", "null"} => r = x4
  BY <1>1, <1>5
<1>10. ASSUME NEW l, LiteralValue(v, l)
       PROVE  r = l.text
  <2>1. l \in Literals /\ y = l.type
    BY <1>10 DEF LiteralValue, y
  <2>2. y \in {"true", "false", "null"}
    BY <2>1, LiteralNames
  <2>3. \A a, b \in Literals : a.type = b.type => a = b
    BY DEF Literals
  <2>4. x4 = l.text
    <3> DEFINE c == CHOOSE k \in Literals : k.type = y
    <3>1. c \in Literals /\ c.type = y
      BY <2>1
    <3>2. c = l
      <4> HIDE DEF c
      <4> QED
        BY <2>1, <2>3, <3>1
    <3>3. x4 = c.text
      BY DEF x4, y
    <3> QED
      BY <3>2, <3>3
  <2> QED
    BY <1>9, <2>2, <2>4
<1>11. \A S : TreeValue(v, S) => y \in {"object", "array"}
  BY DEF TreeValue, y
<1>12. (StringValue(v) => y = "string") /\ (NumberValue(v) => y = "number")
  BY DEF StringValue, NumberValue, y
<1> QED
  BY <1>6, <1>7, <1>8, <1>10, <1>11, <1>12 DEF x1, x2, x3, r

-----------------------------------------------------------------------------
(* Arrays and objects are written.                                          *)

Opening(v) == IF v.type = "object" THEN <<123>> ELSE <<91>>
Closer(v) == IF v.type = "object" THEN <<125>> ELSE <<93>>

ItemText(v, i, sp, depth, inner) ==
    (IF i = 1 THEN <<>> ELSE <<44>>) \o Padding(sp, depth + 1)
        \o NamePart(v.type, v.items[i].name, sp) \o inner[v.items[i].val]
ItemTexts(v, sp, depth, inner) ==
    [i \in DOMAIN v.items |-> ItemText(v, i, sp, depth, inner)]
ItemsText(v, sp, depth, inner) ==
    IF v.items = <<>> THEN Padding(sp, 0) ELSE FlattenSeq(ItemTexts(v, sp, depth, inner))

\* An array or an object is written between brackets.
LEMMA TreeTextIs ==
    ASSUME NEW v, NEW sp, NEW depth, NEW inner
    PROVE  tree_convert(v, sp, depth, inner) =
              Opening(v) \o ItemsText(v, sp, depth, inner) \o Padding(sp, depth) \o Closer(v)
BY DEF tree_convert, Opening, Closer, ItemsText, ItemTexts, ItemText

\* Sequences of fewer elements are sequences of more.
LEMMA SeqWider ==
    ASSUME NEW S, NEW T, S \subseteq T, NEW s \in Seq(S)
    PROVE  s \in Seq(T)
<1>1. PICK n \in Nat : s \in [1 .. n -> S]
  BY SeqDef
<1>2. s \in [1 .. n -> T]
  BY <1>1
<1> QED
  BY <1>2, SeqDef

\* On one line nothing below a space is written.
LEMMA InkFacts ==
    ASSUME NEW sp \in Nat
    PROVE  /\ \A c \in 32 .. 255 : c \in Ink(sp)
           /\ Seq(32 .. 255) \subseteq Seq(Ink(sp))
           /\ Ink(sp) \subseteq Bytes
<1>1. 32 .. 255 \subseteq Ink(sp) /\ Ink(sp) \subseteq Bytes
  BY DEF Ink, Bytes
<1> DEFINE S == 32 .. 255
           T == Ink(sp)
<1> HIDE DEF S, T
<1>2. Seq(S) \subseteq Seq(T)
  BY <1>1, SeqWider DEF S, T
<1> QED
  BY <1>1, <1>2 DEF S, T

\* A line break and the indentation are blanks, of which none are written on one
\* line.
LEMMA PaddingTyped ==
    ASSUME NEW sp \in Nat, NEW depth \in Nat
    PROVE  /\ Padding(sp, depth) \in Seq(Ink(sp))
           /\ \A i \in DOMAIN Padding(sp, depth) : Padding(sp, depth)[i] \in Blanks
<1>1. CASE sp = 0
  <2>1. Padding(sp, depth) = <<>>
    BY <1>1 DEF Padding
  <2> QED
    BY <2>1
<1>2. CASE sp # 0
  <2> DEFINE n == depth * sp
             blank == [i \in 1 .. n |-> 32]
             w == <<10>> \o blank
             S == {10, 32}
             nl == <<10>>
  <2>1. n \in Nat
    OBVIOUS
  <2>2. Padding(sp, depth) = w
    BY <1>2 DEF Padding
  <2>3. blank \in Seq(S)
    <3> HIDE DEF n
    <3>1. blank \in [1 .. n -> S]
      OBVIOUS
    <3> HIDE DEF blank, S
    <3> QED
      BY <2>1, <3>1, SeqDef
  <2>4. nl \in Seq(S) /\ w = nl \o blank
    OBVIOUS
  <2> HIDE DEF blank, w, nl
  <2>5. w \in Seq(S)
    <3> HIDE DEF S
    <3> QED
      BY <2>3, <2>4, ConcatProperties
  <2>6. S \subseteq Ink(sp) /\ S \subseteq Blanks
    BY <1>2 DEF Ink, Bytes, Blanks
  <2> HIDE DEF S
  <2>7. PICK m \in Nat : w \in [1 .. m -> S]
    BY <2>5, SeqDef
  <2>8. w \in [1 .. m -> Ink(sp)] /\ \A i \in DOMAIN w : w[i] \in Blanks
    BY <2>6, <2>7
  <2>9. w \in Seq(Ink(sp))
    BY <2>8, SeqDef
  <2> QED
    BY <2>2, <2>8, <2>9
<1> QED
  BY <1>1, <1>2

\* A function that writes values of S.
Writer(S, sp, f) == \A x \in S : f[x] \in Seq(Ink(sp))

\* A name and its colon are text.
LEMMA NamePartTyped ==
    ASSUME NEW type, NEW name \in Seq(Bytes), NEW sp \in Nat
    PROVE  NamePart(type, name, sp) \in Seq(Ink(sp))
<1>1. CASE type = "array"
  BY <1>1 DEF NamePart
<1>2. CASE type # "array"
  <2> DEFINE a == string_convert(name)
             b == IF sp = 0 THEN <<58>> ELSE <<58, 32>>
             S == Ink(sp)
  <2>1. a \in Seq(S)
    BY StringTextTyped, InkFacts
  <2>2. b \in Seq(S)
    <3>0. 58 \in 32 .. 255 /\ 32 \in 32 .. 255
      OBVIOUS
    <3>1. 58 \in S /\ 32 \in S
      BY <3>0, InkFacts
    <3> HIDE DEF S
    <3> QED
      BY <3>1
  <2>3. NamePart(type, name, sp) = a \o b
    BY <1>2 DEF NamePart
  <2> HIDE DEF a, b, S
  <2> QED
    BY <2>1, <2>2, <2>3, ConcatProperties DEF S
<1> QED
  BY <1>1, <1>2

\* A number is written in figures.
LEMMA NumberTextTyped ==
    ASSUME NEW v, NumberValue(v)
    PROVE  /\ number_convert(v) \in Seq(32 .. 255) /\ Decimal[v.n] \in Seq(DigitBytes)
<1> DEFINE a == IF v.minus THEN <<45>> ELSE <<>>
           b == Decimal[v.n]
           S == 32 .. 255
<1>1. b \in Seq(DigitBytes)
  BY DecimalSolved DEF NumberValue
<1>2. b \in Seq(S)
  <2>1. DigitBytes \subseteq S
    BY DEF DigitBytes
  <2> HIDE DEF b, S
  <2> QED
    BY <1>1, <2>1, SeqWider
<1>3. a \in Seq(S)
  <2>1. 45 \in S
    OBVIOUS
  <2> HIDE DEF S
  <2> QED
    BY <2>1
<1>4. number_convert(v) = a \o b
  BY DEF number_convert
<1> HIDE DEF a, b, S
<1>5. a \o b \in Seq(S)
  BY <1>2, <1>3, ConcatProperties
<1> QED
  BY <1>1, <1>4, <1>5 DEF S, b

\* The items of a tree.
LEMMA ItemFacts ==
    ASSUME NEW S, NEW v, TreeValue(v, S)
    PROVE  /\ Len(v.items) \in Nat /\ DOMAIN v.items = 1 .. Len(v.items)
           /\ \A i \in 1 .. Len(v.items) :
                 /\ v.items[i] \in ItemSet(CloseOf(v), S)
                 /\ v.items[i].name \in Seq(Bytes) /\ v.items[i].val \in S
                 /\ v.items[i] = [name |-> v.items[i].name, val |-> v.items[i].val]
<1> DEFINE M == ItemSet(CloseOf(v), S)
           w == v.items
<1>1. w \in Seq(M)
  BY DEF TreeValue
<1>2. \A x \in M : /\ x.name \in Seq(Bytes) /\ x.val \in S
                   /\ x = [name |-> x.name, val |-> x.val]
  <2> DEFINE N == IF CloseOf(v) = 125 THEN Seq(Bytes) ELSE {<<>>}
  <2>1. N \subseteq Seq(Bytes)
    <3>1. <<>> \in Seq(Bytes)
      OBVIOUS
    <3>2. CASE CloseOf(v) = 125
      BY <3>2
    <3>3. CASE CloseOf(v) # 125
      <4>1. N = {<<>>}
        BY <3>3
      <4> HIDE DEF N
      <4> QED
        BY <3>1, <4>1
    <3> QED
      BY <3>2, <3>3
  <2>2. M = [name : N, val : S]
    BY DEF ItemSet
  <2> HIDE DEF N
  <2> QED
    BY <2>1, <2>2
<1> HIDE DEF w, M
<1>3. Len(w) \in Nat /\ DOMAIN w = 1 .. Len(w) /\ \A i \in 1 .. Len(w) : w[i] \in M
  BY <1>1, LenProperties, ElementOfSeq
<1> QED
  BY <1>2, <1>3 DEF w, M

\* An item is written as text if the values a level down are.
LEMMA ItemTextTyped ==
    ASSUME NEW sp \in Nat, NEW depth \in Nat, NEW S, NEW inner, Writer(S, sp, inner),
           NEW v, TreeValue(v, S)
    PROVE  /\ ItemTexts(v, sp, depth, inner) \in Seq(Seq(Ink(sp)))
           /\ Len(ItemTexts(v, sp, depth, inner)) = Len(v.items)
           /\ \A i \in 1 .. Len(v.items) :
                 /\ ItemTexts(v, sp, depth, inner)[i] = ItemText(v, i, sp, depth, inner)
                 /\ ItemText(v, i, sp, depth, inner) \in Seq(Ink(sp))
<1> DEFINE n == Len(v.items)
           I == Seq(Ink(sp))
           w == ItemTexts(v, sp, depth, inner)
<1>1. n \in Nat /\ DOMAIN v.items = 1 .. n
  BY ItemFacts
<1>2. ASSUME NEW i \in 1 .. n
      PROVE  ItemText(v, i, sp, depth, inner) \in I
  <2> DEFINE a == IF i = 1 THEN <<>> ELSE <<44>>
             b == Padding(sp, depth + 1)
             c == NamePart(v.type, v.items[i].name, sp)
             d == inner[v.items[i].val]
  <2>1. a \in I
    <3>1. 44 \in Ink(sp)
      BY InkFacts
    <3> QED
      BY <3>1
  <2>2. b \in I
    <3>1. depth + 1 \in Nat
      OBVIOUS
    <3> QED
      BY <3>1, PaddingTyped
  <2>3. v.items[i].name \in Seq(Bytes) /\ v.items[i].val \in S
    BY ItemFacts
  <2>4. c \in I
    BY <2>3, NamePartTyped
  <2>5. d \in I
    BY <2>3 DEF Writer
  <2>6. ItemText(v, i, sp, depth, inner) = a \o b \o c \o d
    BY DEF ItemText
  <2> HIDE DEF a, b, c, d
  <2>7. a \o b \in I
    BY <2>1, <2>2, ConcatProperties
  <2>8. a \o b \o c \in I
    BY <2>4, <2>7, ConcatProperties
  <2>9. a \o b \o c \o d \in I
    BY <2>5, <2>8, ConcatProperties
  <2> QED
    BY <2>6, <2>9
<1>3. w = [i \in 1 .. n |-> ItemText(v, i, sp, depth, inner)]
  BY <1>1 DEF ItemTexts
<1> HIDE DEF n, I
<1>4. w \in [1 .. n -> I]
  BY <1>2, <1>3
<1>5. w \in Seq(I) /\ Len(w) = n
  <2> HIDE DEF w
  <2>1. w \in Seq(I)
    BY <1>1, <1>4, SeqDef
  <2>2. DOMAIN w = 1 .. n /\ DOMAIN w = 1 .. Len(w) /\ Len(w) \in Nat
    BY <1>4, <2>1, LenProperties
  <2> QED
    BY <1>1, <2>1, <2>2
<1> QED
  BY <1>2, <1>3, <1>5 DEF n, I

\* So are an array and an object (Json.cc:743-835).
LEMMA TreeTextTyped ==
    ASSUME NEW sp \in Nat, NEW depth \in Nat, NEW S, NEW inner, Writer(S, sp, inner),
           NEW v, TreeValue(v, S)
    PROVE  /\ Opening(v) \in Seq(Ink(sp)) /\ Closer(v) \in Seq(Ink(sp))
           /\ ItemsText(v, sp, depth, inner) \in Seq(Ink(sp))
           /\ tree_convert(v, sp, depth, inner) \in Seq(Ink(sp))
<1> DEFINE I == Seq(Ink(sp))
           a == Opening(v)
           b == ItemsText(v, sp, depth, inner)
           c == Padding(sp, depth)
           d == Closer(v)
<1>1. a \in I
  <2>1. 123 \in Ink(sp) /\ 91 \in Ink(sp)
    BY InkFacts
  <2> QED
    BY <2>1 DEF Opening
<1>2. d \in I
  <2>1. 125 \in Ink(sp) /\ 93 \in Ink(sp)
    BY InkFacts
  <2> QED
    BY <2>1 DEF Closer
<1>3. b \in I
  <2>1. 0 \in Nat
    OBVIOUS
  <2>2. Padding(sp, 0) \in I
    BY <2>1, PaddingTyped
  <2> DEFINE w == ItemTexts(v, sp, depth, inner)
             f == FlattenSeq(w)
             T == Ink(sp)
  <2>3. w \in Seq(Seq(T))
    BY ItemTextTyped
  <2>4. f \in Seq(T)
    <3> HIDE DEF w, T
    <3> QED
      BY <2>3, FlattenParts
  <2> QED
    BY <2>2, <2>4 DEF ItemsText
<1>4. c \in I
  BY PaddingTyped
<1>5. tree_convert(v, sp, depth, inner) = a \o b \o c \o d
  BY TreeTextIs
<1> HIDE DEF a, b, c, d
<1>6. a \o b \in I
  BY <1>1, <1>3, ConcatProperties
<1>7. a \o b \o c \in I
  BY <1>4, <1>6, ConcatProperties
<1>8. a \o b \o c \o d \in I
  BY <1>2, <1>7, ConcatProperties
<1> QED
  BY <1>1, <1>2, <1>3, <1>5, <1>8 DEF a, b, d

\* So is any value.
LEMMA ValueTextTyped ==
    ASSUME NEW sp \in Nat, NEW depth \in Nat, NEW n \in Nat, NEW inner,
           n # 0 => Writer(Values[n - 1], sp, inner), NEW v \in Values[n]
    PROVE  ValueText(v, sp, depth, inner) \in Seq(Ink(sp))
<1> DEFINE w == ValueText(v, sp, depth, inner)
           I == Seq(Ink(sp))
<1>0. Seq(32 .. 255) \subseteq I
  BY InkFacts
<1>1. CASE StringValue(v)
  <2>1. w = string_convert(v.str) /\ v.str \in Seq(Bytes)
    BY <1>1, TextCases DEF StringValue
  <2>2. string_convert(v.str) \in Seq(32 .. 255)
    BY <2>1, StringTextTyped
  <2> QED
    BY <1>0, <2>1, <2>2
<1>2. CASE NumberValue(v)
  <2>1. w = number_convert(v)
    BY <1>2, TextCases
  <2>2. number_convert(v) \in Seq(32 .. 255)
    BY <1>2, NumberTextTyped
  <2> QED
    BY <1>0, <2>1, <2>2
<1>3. ASSUME NEW l, LiteralValue(v, l)
      PROVE  w \in I
  <2>1. w = l.text /\ l \in Literals
    BY <1>3, TextCases DEF LiteralValue
  <2> DEFINE S == 32 .. 255
  <2>2. l.text \in Seq(S)
    <3>1. 116 \in S /\ 114 \in S /\ 117 \in S /\ 101 \in S /\ 102 \in S /\ 97 \in S
          /\ 108 \in S /\ 115 \in S /\ 110 \in S
      OBVIOUS
    <3> HIDE DEF S
    <3>2. CASE l = [type |-> "true", text |-> <<116, 114, 117, 101>>]
      BY <3>1, <3>2
    <3>3. CASE l = [type |-> "false", text |-> <<102, 97, 108, 115, 101>>]
      BY <3>1, <3>3
    <3>4. CASE l = [type |-> "null", text |-> <<110, 117, 108, 108>>]
      BY <3>1, <3>4
    <3> QED
      BY <2>1, <3>2, <3>3, <3>4 DEF Literals
  <2> QED
    BY <1>0, <2>1, <2>2
<1>4. CASE n # 0 /\ TreeValue(v, Values[n - 1])
  <2>1. w = tree_convert(v, sp, depth, inner)
    BY <1>4, TextCases
  <2>2. tree_convert(v, sp, depth, inner) \in I
    BY <1>4, TreeTextTyped
  <2> QED
    BY <2>1, <2>2
<1> QED
  BY <1>1, <1>2, <1>3, <1>4, ValueKinds

\* f writes the values of each level with the one of the level below.
Dumps(f, sp) ==
    \A n \in 0 .. DepthLimit :
        /\ Writer(Values[n], sp, f[n])
        /\ \A v \in Values[n] : f[n][v] = ValueText(v, sp, DepthLimit - n, f[n - 1])

\* The writer's recursion over the levels has a solution, which is text.
LEMMA DumpSolved ==
    ASSUME NEW sp \in Nat
    PROVE  \E f : value_convert(sp) = f[DepthLimit] /\ Dumps(f, sp)
<1> DEFINE I == 0 .. DepthLimit
           T == Seq(Ink(sp))
           Step(n, w) == [v \in Values[n] |-> ValueText(v, sp, DepthLimit - n, w)]
           V == [n \in I |-> [Values[n] -> T]]
           W == UNION {V[n] : n \in I}
           G == [a \in I \X W |-> Step(a[1], a[2])]
           f0 == Step(0, 0)
           Def(f) == f = [n \in I |-> Step(n, f[n - 1])]
<1>0. DepthLimit \in Nat
  BY TextAssumption
<1>1. ASSUME NEW n \in I, NEW w, n # 0 => Writer(Values[n - 1], sp, w)
      PROVE  Step(n, w) \in V[n]
  <2>1. n \in Nat /\ DepthLimit - n \in Nat
    BY <1>0
  <2>2. \A v \in Values[n] : ValueText(v, sp, DepthLimit - n, w) \in T
    BY <1>1, <2>1, ValueTextTyped
  <2> QED
    BY <2>2
<1>2. \A n \in I : \A w \in V[n] : w \in W /\ Writer(Values[n], sp, w)
  BY DEF Writer
<1>3. f0 \in V[0]
  <2>1. 0 \in I /\ (0 # 0 => Writer(Values[0 - 1], sp, 0))
    BY <1>0
  <2> HIDE DEF V, Step, I
  <2> QED
    BY <1>1, <2>1
<1>4. \A n \in I : \A w \in W : G[<<n, w>>] = Step(n, w)
  OBVIOUS
<1>5. \A n \in I : n # 0 => n - 1 \in I
  BY <1>0
<1>6. \A n \in I : n # 0 => \A w \in V[n - 1] : G[<<n, w>>] \in V[n]
  <2> SUFFICES ASSUME NEW n \in I, n # 0, NEW w \in V[n - 1]
               PROVE  G[<<n, w>>] \in V[n]
    OBVIOUS
  <2>1. n - 1 \in I
    BY <1>5
  <2>2. w \in W /\ Writer(Values[n - 1], sp, w)
    BY <1>2, <2>1
  <2> HIDE DEF V, W, G, Step, I
  <2>3. Step(n, w) \in V[n]
    BY <1>1, <2>2
  <2> QED
    BY <1>4, <2>2, <2>3
<1>7. PICK g : Climbs(g, I, f0, G) /\ \A n \in I : g[n] \in V[n]
  <2>1. I \subseteq Nat /\ 0 \in I
    BY <1>0
  <2> HIDE DEF V, W, G, f0, I
  <2> QED
    BY <1>3, <1>5, <1>6, <2>1, LevelRecursion
<1>8. ASSUME NEW w
      PROVE  Step(0, w) = f0
  <2> SUFFICES ASSUME NEW v \in Values[0]
               PROVE  ValueText(v, sp, DepthLimit - 0, w) = ValueText(v, sp, DepthLimit - 0, 0)
    OBVIOUS
  <2>1. 0 \in Nat
    OBVIOUS
  <2>2. StringValue(v) \/ NumberValue(v) \/ \E l : LiteralValue(v, l)
    BY <2>1, ValueKinds
  <2>3. CASE StringValue(v)
    BY <2>3, TextCases
  <2>4. CASE NumberValue(v)
    BY <2>4, TextCases
  <2>5. CASE \E l : LiteralValue(v, l)
    <3>1. PICK l : LiteralValue(v, l)
      BY <2>5
    <3> QED
      BY <3>1, TextCases
  <2> QED
    BY <2>2, <2>3, <2>4, <2>5
<1>9. \A n \in I : g[n] = Step(n, g[n - 1])
  <2> SUFFICES ASSUME NEW n \in I
               PROVE  g[n] = Step(n, g[n - 1])
    OBVIOUS
  <2> HIDE DEF f0, G, Step, V, W, I
  <2>1. g[n] = IF n = 0 THEN f0 ELSE G[<<n, g[n - 1]>>]
    BY <1>7 DEF Climbs
  <2>2. CASE n = 0
    BY <1>8, <2>1, <2>2
  <2>3. CASE n # 0
    <3>1. n - 1 \in I
      BY <1>5, <2>3
    <3>2. g[n - 1] \in W
      BY <1>2, <1>7, <3>1
    <3> QED
      BY <1>4, <2>1, <2>3, <3>2
  <2> QED
    BY <2>2, <2>3
<1>10. Def(g)
  <2> HIDE DEF Step, f0, G
  <2>1. g = [n \in I |-> g[n]]
    BY <1>7 DEF Climbs
  <2> QED
    BY <1>9, <2>1
<1> DEFINE c == CHOOSE f : Def(f)
<1>11. value_convert(sp) = c[DepthLimit]
  BY DEF value_convert
<1>12. Def(c)
  <2> HIDE DEF Def
  <2> QED
    BY <1>10
<1> HIDE DEF c
<1>13. \A n \in I : c[n] = Step(n, c[n - 1])
  <2> HIDE DEF Step, I
  <2> QED
    BY <1>12
<1> DEFINE Failing == {n \in I : ~Writer(Values[n], sp, c[n])}
<1>14. Failing = {}
  <2> SUFFICES ASSUME Failing # {}
               PROVE  FALSE
    OBVIOUS
  <2>1. PICK n \in Failing : \A k \in Failing : n <= k
    <3>1. Failing \subseteq Nat
      BY <1>0
    <3> HIDE DEF Failing
    <3> QED
      BY <3>1, Smallest
  <2>2. n \in I /\ ~Writer(Values[n], sp, c[n])
    BY <2>1
  <2>3. n # 0 => Writer(Values[n - 1], sp, c[n - 1])
    <3> SUFFICES ASSUME n # 0
                 PROVE  Writer(Values[n - 1], sp, c[n - 1])
      OBVIOUS
    <3>1. n - 1 \in I /\ ~(n <= n - 1)
      BY <1>0, <1>5, <2>2
    <3>2. n - 1 \notin Failing
      BY <2>1, <3>1
    <3> QED
      BY <3>1, <3>2
  <2> HIDE DEF Step, V, I
  <2>4. Step(n, c[n - 1]) \in V[n]
    BY <1>1, <2>2, <2>3
  <2> QED
    BY <1>2, <1>13, <2>2, <2>4
<1>15. \A n \in I : Writer(Values[n], sp, c[n])
  BY <1>14
<1>16. \A n \in I : \A v \in Values[n] : c[n][v] = ValueText(v, sp, DepthLimit - n, c[n - 1])
  <2> SUFFICES ASSUME NEW n \in I, NEW v \in Values[n]
               PROVE  c[n][v] = ValueText(v, sp, DepthLimit - n, c[n - 1])
    OBVIOUS
  <2>1. c[n] = [x \in Values[n] |-> ValueText(x, sp, DepthLimit - n, c[n - 1])]
    BY <1>13
  <2> QED
    BY <2>1
<1> QED
  BY <1>11, <1>15, <1>16 DEF Dumps

\* What is dumped is a text, without indentation on one line.
LEMMA DumpTyped ==
    ASSUME NEW sp \in Nat, NEW v \in Values[DepthLimit]
    PROVE  value_convert(sp)[v] \in Seq(Ink(sp)) /\ value_convert(sp)[v] \in Seq(Bytes)
<1>1. PICK f : value_convert(sp) = f[DepthLimit] /\ Dumps(f, sp)
  BY DumpSolved
<1>2. DepthLimit \in 0 .. DepthLimit
  BY TextAssumption
<1>3. value_convert(sp)[v] \in Seq(Ink(sp))
  BY <1>1, <1>2 DEF Dumps, Writer
<1> DEFINE w == value_convert(sp)[v]
           T == Ink(sp)
<1>4. T \subseteq Bytes
  BY InkFacts
<1> HIDE DEF w, T
<1>5. w \in Seq(Bytes)
  BY <1>3, <1>4, SeqWider DEF w, T
<1> QED
  BY <1>3, <1>5 DEF w

-----------------------------------------------------------------------------
(* A string is read back.                                                   *)

\* The escape that is written for a byte is read as that byte.
LEMMA EscapeBack ==
    ASSUME NEW t \in Seq(Bytes), NEW q \in Cursors(t), NEW c \in Bytes, NEW e, AsEscape(c, e),
           HasAt(t, q, Convert(c))
    PROVE  /\ At(t, q) = Backslash /\ Len(Convert(c)) = 2
           /\ ShortEscape(t, q, <<c>>) /\ Unescaped(t, q) = Good(<<c>>, q + 2)
<1> DEFINE w == <<Backslash, e>>
<1>1. w = Convert(c) /\ e \in DOMAIN Escaped /\ Escaped[e] = c
  BY DEF AsEscape
<1>2. At(t, q + 1 - 1) = w[1] /\ At(t, q + 2 - 1) = w[2]
  <2>1. HasAt(t, q, w)
    BY <1>1
  <2>2. 1 \in DOMAIN w /\ 2 \in DOMAIN w
    OBVIOUS
  <2> HIDE DEF w
  <2> QED
    BY <2>1, <2>2 DEF HasAt
<1>3. q + 1 - 1 = q /\ q + 2 - 1 = q + 1
  BY DEF Cursors
<1>4. w[1] = Backslash /\ w[2] = e /\ Len(w) = 2
  OBVIOUS
<1> HIDE DEF w
<1>5. At(t, q) = Backslash /\ At(t, q + 1) = e /\ Len(Convert(c)) = 2
  BY <1>1, <1>2, <1>3, <1>4
<1>6. 117 \notin DOMAIN Escaped
  BY EscapedFacts
<1>7. e # 117
  BY <1>1, <1>6
<1>8. Unescaped(t, q) = Good(<<Escaped[e]>>, q + 2)
  BY <1>1, <1>5, <1>7 DEF Unescaped
<1>9. Unescaped(t, q) = Good(<<c>>, q + 2)
  BY <1>1, <1>8
<1>10. Len(<<c>>) = 1
  OBVIOUS
<1> QED
  BY <1>5, <1>9, <1>10 DEF ShortEscape

\* A control character that is written as a code is read as that byte.
LEMMA CodeBack ==
    ASSUME NEW t \in Seq(Bytes), NEW q \in Cursors(t), NEW c \in Bytes, AsCode(c),
           HasAt(t, q, Convert(c))
    PROVE  /\ At(t, q) = Backslash /\ Len(Convert(c)) = 6
           /\ CodeEscape(t, q, <<c>>) /\ Unescaped(t, q) = Good(<<c>>, q + 6)
<1> DEFINE a == c \div 16
           b == c % 16
           x == HexDigit(a)
           y == HexDigit(b)
           w == <<Backslash, 117, 48, 48, x, y>>
<1>1. c \in 1 .. 31
  BY DEF AsCode, Bytes
<1>2. a \in 0 .. 15 /\ b \in 0 .. 15 /\ c = 16 * a + b
  BY <1>1
<1>3. Hex(x) = a /\ Hex(y) = b
  <2> HIDE DEF a, b
  <2> QED
    BY <1>2, HexDigitFacts
<1>4. Convert(c) = w
  BY DEF AsCode
<1> HIDE DEF a, b, x, y
<1>5. /\ Len(w) = 6 /\ DOMAIN w = 1 .. 6
      /\ w[1] = Backslash /\ w[2] = 117 /\ w[3] = 48 /\ w[4] = 48 /\ w[5] = x /\ w[6] = y
  OBVIOUS
<1> HIDE DEF w
<1>6. \A i \in 1 .. 6 : At(t, q + i - 1) = w[i]
  BY <1>4, <1>5 DEF HasAt
<1>7. /\ q + 1 - 1 = q /\ q + 2 - 1 = q + 1 /\ q + 3 - 1 = q + 2 /\ q + 4 - 1 = q + 2 + 1
      /\ q + 5 - 1 = q + 2 + 2 /\ q + 6 - 1 = q + 2 + 3 /\ q + 2 + 0 = q + 2
      /\ q + 2 + 4 = q + 6 /\ q + 2 \in Nat
  BY DEF Cursors
<1>8. /\ At(t, q) = Backslash /\ At(t, q + 1) = 117 /\ At(t, q + 2) = 48
      /\ At(t, q + 2 + 1) = 48 /\ At(t, q + 2 + 2) = x /\ At(t, q + 2 + 3) = y
  <2>1. At(t, q + 1 - 1) = w[1]
    BY <1>6
  <2>2. At(t, q + 2 - 1) = w[2]
    BY <1>6
  <2>3. At(t, q + 3 - 1) = w[3]
    BY <1>6
  <2>4. At(t, q + 4 - 1) = w[4]
    BY <1>6
  <2>5. At(t, q + 5 - 1) = w[5]
    BY <1>6
  <2>6. At(t, q + 6 - 1) = w[6]
    BY <1>6
  <2> QED
    BY <1>5, <1>7, <2>1, <2>2, <2>3, <2>4, <2>5, <2>6
<1>9. Hex(48) = 0
  BY DEF Hex, DigitBytes
<1> DEFINE p == q + 2
<1>10. /\ Hex(At(t, p)) = 0 /\ Hex(At(t, p + 1)) = 0
       /\ Hex(At(t, p + 2)) = a /\ Hex(At(t, p + 3)) = b
  BY <1>3, <1>8, <1>9
<1>11. p + 0 = p /\ p + 4 = q + 6
  BY <1>7
<1> HIDE DEF p
<1>12. IsHex4(t, p)
  <2> SUFFICES ASSUME NEW i \in 0 .. 3
               PROVE  Hex(At(t, p + i)) >= 0
    BY DEF IsHex4
  <2>1. i = 0 \/ i = 1 \/ i = 2 \/ i = 3
    OBVIOUS
  <2>2. CASE i = 0
    BY <1>10, <1>11, <2>2
  <2>3. CASE i = 1
    BY <1>10, <2>3
  <2>4. CASE i = 2
    BY <1>2, <1>10, <2>4
  <2>5. CASE i = 3
    BY <1>2, <1>10, <2>5
  <2> QED
    BY <2>1, <2>2, <2>3, <2>4, <2>5
<1>13. Hex4(t, p) = c
  <2>1. /\ Hex4(t, p) = 4096 * Hex(At(t, p)) + 256 * Hex(At(t, p + 1))
                           + 16 * Hex(At(t, p + 2)) + Hex(At(t, p + 3))
    BY DEF Hex4
  <2>2. Hex4(t, p) = 4096 * 0 + 256 * 0 + 16 * a + b
    BY <1>10, <2>1
  <2>3. 4096 * 0 + 256 * 0 + 16 * a + b = 16 * a + b
    BY <1>2
  <2> QED
    BY <1>2, <2>2, <2>3
<1>14. ~SecondOfPair(c) /\ ~FirstOfPair(c)
  BY <1>1 DEF SecondOfPair, FirstOfPair
<1>15. Utf8(c) = <<c>>
  BY <1>1 DEF Utf8
<1>16. parse_json_unicode(t, p) = Good(Utf8(c), p + 4)
  BY <1>12, <1>13, <1>14 DEF parse_json_unicode
<1>17. Unescaped(t, q) = parse_json_unicode(t, p)
  <2>1. 117 \notin DOMAIN Escaped
    BY EscapedFacts
  <2>2. At(t, q + 1) = 117
    BY <1>8
  <2> QED
    BY <2>1, <2>2 DEF Unescaped, p
<1>18. Unescaped(t, q) = Good(<<c>>, q + 6)
  BY <1>11, <1>15, <1>16, <1>17
<1>19. CodeEscape(t, q, <<c>>)
  <2>1. Len(<<c>>) \in 1 .. 3
    OBVIOUS
  <2>2. \A i \in 2 .. 5 : Plain(t, q + i)
    <3> SUFFICES ASSUME NEW i \in 2 .. 5
                 PROVE  Plain(t, q + i)
      OBVIOUS
    <3>1. i - 2 \in 0 .. 3 /\ p + (i - 2) = q + i /\ p \in Nat
      BY <1>7 DEF p, Cursors
    <3>2. Plain(t, p + (i - 2))
      BY <1>12, <3>1, Hex4Facts
    <3> QED
      BY <3>1, <3>2
  <2> QED
    BY <1>18, <2>1, <2>2 DEF CodeEscape
<1> QED
  BY <1>4, <1>5, <1>8, <1>18, <1>19

\* A byte in front of what is left of a string.
LEMMA Rest ==
    ASSUME NEW S, NEW s \in Seq(S), NEW i \in 1 .. Len(s)
    PROVE  /\ SubSeq(s, i, Len(s)) \in Seq(S) /\ SubSeq(s, i + 1, Len(s)) \in Seq(S)
           /\ SubSeq(s, i, Len(s)) = <<s[i]>> \o SubSeq(s, i + 1, Len(s))
<1> DEFINE n == Len(s)
<1>1. n \in Nat /\ \A j \in 1 .. n : s[j] \in S
  BY LenProperties, ElementOfSeq
<1>2. i \in Int /\ i + 1 \in Int /\ n \in Int /\ i <= n /\ n \in 1 .. n
  BY <1>1
<1> HIDE DEF n
<1>3. SubSeq(s, i, n) \in Seq(S)
  <2>1. \A j \in i .. n : s[j] \in S
    BY <1>1, <1>2
  <2> QED
    BY <1>2, <2>1, SubSeqProperties
<1>4. SubSeq(s, i + 1, n) \in Seq(S)
  <2>1. \A j \in i + 1 .. n : s[j] \in S
    BY <1>1, <1>2
  <2> QED
    BY <1>2, <2>1, SubSeqProperties
<1>5. SubSeq(s, i, n) = <<s[i]>> \o SubSeq(s, i + 1, n)
  BY <1>2, SubSeqRecursiveFirst DEF n
<1> QED
  BY <1>3, <1>4, <1>5 DEF n

\* A string from its first byte on and behind its last.
LEMMA RestFacts ==
    ASSUME NEW S, NEW s \in Seq(S)
    PROVE  /\ SubSeq(s, 1, Len(s)) = s
           /\ SubSeq(s, Len(s) + 1, Len(s)) = <<>>
<1>1. Len(s) + 1 \in Int /\ Len(s) \in Int /\ Len(s) < Len(s) + 1
  BY LenProperties
<1> QED
  BY <1>1, SubSeqEmpty, SubSeqFull

\* The string from q on is read as r, and ends before z.
ReadsAs(t, q, r, z) ==
    Counted(t, q).ok /\ Written(t, q, Counted(t, q).escape) = Complete(r, z)

\* A byte, however it was written, in front of a string that is read back.
LEMMA ByteBack ==
    ASSUME NEW t \in Seq(Bytes), NEW q \in Cursors(t), NEW c \in Bytes,
           HasAt(t, q, Convert(c)), NEW k \in Cursors(t), k = q + Len(Convert(c)),
           NEW r \in Seq(0 .. 255), NEW z, ReadsAs(t, k, r, z)
    PROVE  ReadsAs(t, q, <<c>> \o r, z)
<1> DEFINE v == <<c>>
           l == Counted(t, k)
<1>1. v \in Seq(0 .. 255) /\ Len(v) = 1
  <2>1. c \in 0 .. 255
    BY DEF Bytes
  <2> QED
    BY <2>1
<1>2. l \in Counts(t) /\ l.ok /\ Written(t, k, l.escape) = Complete(r, z)
  BY CountedAt DEF ReadsAs
<1>3. Prefixed(v, Complete(r, z)) = Complete(v \o r, z)
  BY DEF Prefixed, Complete
<1> HIDE DEF v, l
<1>4. CASE AsItIs(c)
  <2>1. c >= 32 /\ c \notin {Quote, Backslash} /\ Convert(c) = <<c>>
    BY <1>4 DEF AsItIs
  <2>2. q \in Nat /\ Len(<<c>>) = 1
    BY DEF Cursors
  <2>3. At(t, q) = c /\ k = q + 1
    BY <2>1, <2>2, HasOne
  <2>4. Plain(t, q)
    BY <2>1, <2>3 DEF Plain
  <2>5. Counted(t, q) = Longer(l, 0, 1)
    BY <2>3, <2>4, CountedAt DEF l
  <2>6. 0 \in Nat /\ 1 \in Nat
    OBVIOUS
  <2>7. Counted(t, q).ok /\ Counted(t, q).escape = l.escape + 0 /\ l.escape \in Nat
    BY <1>2, <2>5, <2>6, LongerFacts
  <2> DEFINE e == Counted(t, q).escape
  <2>8. e = l.escape /\ e \in Int
    BY <2>7
  <2> HIDE DEF e
  <2>9. ByteHere(t, q, e)
    <3>1. At(t, q) # 0 /\ At(t, q) # Quote /\ At(t, q) # Backslash
      BY <2>1, <2>3
    <3> QED
      BY <3>1 DEF ByteHere, EscapeHere, EndHere
  <2>10. Written(t, q, e) = Prefixed(<<At(t, q)>>, Written(t, q + 1, e))
    BY <2>8, <2>9, WrittenAt
  <2>11. Written(t, q, e) = Complete(v \o r, z)
    BY <1>2, <1>3, <2>3, <2>8, <2>10 DEF v
  <2> QED
    BY <2>7, <2>11 DEF ReadsAs, v, e
<1>5. CASE ~AsItIs(c)
  <2>1. /\ At(t, q) = Backslash /\ Unescaped(t, q) = Good(v, k)
        /\ ShortEscape(t, q, v) \/ CodeEscape(t, q, v)
    <3>1. CASE AsCode(c)
      <4>1. Unescaped(t, q) = Good(<<c>>, q + 6) /\ Len(Convert(c)) = 6
            /\ At(t, q) = Backslash /\ CodeEscape(t, q, <<c>>)
        BY <3>1, CodeBack
      <4> QED
        BY <4>1 DEF v
    <3>2. ASSUME NEW e, AsEscape(c, e)
          PROVE  /\ At(t, q) = Backslash /\ Unescaped(t, q) = Good(v, k)
                 /\ ShortEscape(t, q, v)
      <4>1. Unescaped(t, q) = Good(<<c>>, q + 2) /\ Len(Convert(c)) = 2
            /\ At(t, q) = Backslash /\ ShortEscape(t, q, <<c>>)
        BY <3>2, EscapeBack
      <4> QED
        BY <4>1 DEF v
    <3> QED
      BY <1>5, <3>1, <3>2, ConvertCases
  <2>2. Escapes(t, q)
    <3>1. Unescaped(t, q).ok
      BY <2>1 DEF Good
    <3> QED
      BY <2>1, <3>1, UnescapedGood
  <2>3. PICK n \in Nat : Counted(t, q) = Longer(l, EscapesOf(v), n)
    BY <1>1, <2>1, <2>2, EscapeCounted DEF l
  <2>4. EscapesOf(v) = 1 /\ 1 \in Nat
    BY <1>1 DEF EscapesOf
  <2>5. Counted(t, q).ok /\ Counted(t, q).escape = l.escape + 1 /\ l.escape \in Nat
    BY <1>2, <2>3, <2>4, LongerFacts
  <2> DEFINE e == Counted(t, q).escape
  <2>6. e \in Int /\ e # 0 /\ e - 1 = l.escape
    BY <2>5
  <2> HIDE DEF e
  <2>7. EscapeHere(t, q, e)
    BY <2>1, <2>6 DEF EscapeHere
  <2>8. Written(t, q, e) = Prefixed(v, Written(t, k, e - EscapesOf(v)))
    <3>1. \A y \in Seq(0 .. 255), i \in Cursors(t) :
             EscapeHere(t, q, e) /\ Unescaped(t, q) = Good(y, i)
             => Written(t, q, e) = Prefixed(y, Written(t, i, e - EscapesOf(y)))
      BY <2>6, WrittenAt
    <3>2. Unescaped(t, q) = Good(v, k)
      BY <2>1
    <3> QED
      BY <1>1, <2>7, <3>1, <3>2
  <2>9. Written(t, q, e) = Complete(v \o r, z)
    BY <1>2, <1>3, <2>4, <2>6, <2>8
  <2> QED
    BY <2>5, <2>9 DEF ReadsAs, v, e
<1> QED
  BY <1>4, <1>5

\* Where the parts of a text are.
Positions(t, q, ss, pos) ==
    /\ pos \in [0 .. Len(ss) -> Nat]
    /\ pos[0] = q /\ pos[Len(ss)] = q + Len(FlattenSeq(ss))
    /\ \A i \in 1 .. Len(ss) :
          pos[i] = pos[i - 1] + Len(ss[i]) /\ HasAt(t, pos[i - 1], ss[i])

\* No part begins behind the end of the whole.
LEMMA OffsetsRise ==
    ASSUME NEW S, NEW ss \in Seq(Seq(S)), NEW w, NEW off, Offsets(ss, w, off),
           NEW i \in 0 .. Len(ss)
    PROVE  off[i] <= Len(w) /\ off[i] \in Nat /\ Len(w) \in Nat
<1> DEFINE n == Len(ss)
           m == Len(w)
           D == {k \in Nat : k <= n /\ ~(off[n - k] <= m)}
<1>1. n \in Nat /\ \A k \in 1 .. n : Len(ss[k]) \in Nat
  <2>1. n \in Nat /\ \A k \in 1 .. n : ss[k] \in Seq(S)
    BY LenProperties, ElementOfSeq
  <2> QED
    BY <2>1, LenProperties
<1>2. /\ \A k \in 0 .. n : off[k] \in Nat
      /\ off[n] = m
      /\ \A k \in 1 .. n : off[k] = off[k - 1] + Len(ss[k])
  BY DEF Offsets
<1> HIDE DEF n, m
<1>3. m \in Nat
  <2>1. n \in 0 .. n
    BY <1>1
  <2> QED
    BY <1>2, <2>1
<1>4. D = {}
  <2> SUFFICES ASSUME D # {}
               PROVE  FALSE
    OBVIOUS
  <2>1. PICK k \in D : \A j \in D : k <= j
    BY Smallest
  <2>2. k \in Nat /\ k <= n /\ ~(off[n - k] <= m)
    BY <2>1
  <2>3. k # 0
    <3> SUFFICES ASSUME k = 0
                 PROVE  FALSE
      OBVIOUS
    <3>1. n - k = n
      BY <1>1
    <3> QED
      BY <1>2, <1>3, <2>2, <3>1
  <2>4. k - 1 \in Nat /\ k - 1 <= n /\ ~(k <= k - 1)
    BY <1>1, <2>2, <2>3
  <2>5. off[n - (k - 1)] <= m
    BY <2>1, <2>4
  <2> DEFINE j == n - (k - 1)
  <2>6. j \in 1 .. n /\ j - 1 = n - k /\ j - 1 \in 0 .. n /\ j \in 0 .. n
    BY <1>1, <2>2, <2>3
  <2> HIDE DEF j
  <2>7. PICK a \in Nat : a = off[j - 1]
    BY <1>2, <2>6
  <2>8. PICK b \in Nat : b = Len(ss[j])
    BY <1>1, <2>6
  <2>9. off[j] = a + b
    BY <1>2, <2>6, <2>7, <2>8
  <2>10. a + b <= m
    BY <2>5, <2>9 DEF j
  <2>11. a <= m
    BY <1>3, <2>10
  <2> QED
    BY <2>2, <2>6, <2>7, <2>11
<1>5. n - i \in Nat /\ n - i <= n /\ n - (n - i) = i
  BY <1>1 DEF n
<1>6. n - i \notin D
  BY <1>4
<1>7. off[i] <= m
  BY <1>5, <1>6
<1>8. off[i] \in Nat
  BY <1>2 DEF n
<1> QED
  BY <1>3, <1>7, <1>8 DEF m

\* A text of several parts has each of them at its place.
LEMMA PartsAt ==
    ASSUME NEW t, NEW q \in Nat, NEW S, NEW ss \in Seq(Seq(S)), HasAt(t, q, FlattenSeq(ss))
    PROVE  \E pos : Positions(t, q, ss, pos)
<1> DEFINE w == FlattenSeq(ss)
           n == Len(ss)
<1>1. w \in Seq(S)
  BY FlattenParts
<1>2. PICK off : Offsets(ss, w, off)
  BY FlattenParts
<1>3. n \in Nat /\ \A k \in 1 .. n : Len(ss[k]) \in Nat /\ DOMAIN ss[k] = 1 .. Len(ss[k])
  <2>1. n \in Nat /\ \A k \in 1 .. n : ss[k] \in Seq(S)
    BY LenProperties, ElementOfSeq
  <2> QED
    BY <2>1, LenProperties
<1>4. Len(w) \in Nat /\ DOMAIN w = 1 .. Len(w) /\ HasAt(t, q, w)
  BY <1>1, LenProperties
<1>5. \A i \in 0 .. n : off[i] \in Nat /\ off[i] <= Len(w)
  BY <1>2, OffsetsRise
<1> HIDE DEF w
<1> DEFINE pos == [i \in 0 .. n |-> q + off[i]]
<1>6. /\ off[0] = 0 /\ off[n] = Len(w)
      /\ \A i \in 1 .. n : off[i] = off[i - 1] + Len(ss[i])
      /\ \A i \in 1 .. n : \A k \in 1 .. Len(ss[i]) : w[off[i - 1] + k] = ss[i][k]
  BY <1>2 DEF Offsets
<1> HIDE DEF n
<1>7. pos \in [0 .. n -> Nat] /\ \A i \in 0 .. n : pos[i] = q + off[i]
  BY <1>5
<1>8. 0 \in 0 .. n /\ n \in 0 .. n
  BY <1>3
<1> HIDE DEF pos
<1>9. pos[0] = q /\ pos[n] = q + Len(w)
  <2>1. pos[0] = q + off[0] /\ pos[n] = q + off[n]
    BY <1>7, <1>8
  <2>2. pos[0] = q + 0 /\ pos[n] = q + Len(w)
    BY <1>6, <2>1
  <2> QED
    BY <2>2
<1>10. ASSUME NEW i \in 1 .. n
       PROVE  pos[i] = pos[i - 1] + Len(ss[i]) /\ HasAt(t, pos[i - 1], ss[i])
  <2>1. i \in 0 .. n /\ i - 1 \in 0 .. n
    BY <1>3
  <2>2. PICK a \in Nat : a = off[i - 1]
    BY <1>5, <2>1
  <2>3. PICK b \in Nat : b = Len(ss[i])
    BY <1>3
  <2>4. off[i] = a + b /\ pos[i] = q + off[i] /\ pos[i - 1] = q + a
    BY <1>6, <1>7, <2>1, <2>2, <2>3
  <2>5. q + (a + b) = (q + a) + b
    OBVIOUS
  <2>6. a + b <= Len(w)
    BY <1>5, <2>1, <2>4
  <2>7. ASSUME NEW k \in 1 .. b
        PROVE  At(t, q + a + k - 1) = ss[i][k]
    <3>1. a + k \in 1 .. Len(w) /\ q + (a + k) - 1 = q + a + k - 1
      BY <1>4, <2>6
    <3>2. At(t, q + (a + k) - 1) = w[a + k]
      BY <1>4, <3>1 DEF HasAt
    <3>3. w[a + k] = ss[i][k]
      BY <1>6, <2>2, <2>3
    <3> QED
      BY <3>1, <3>2, <3>3
  <2>8. DOMAIN ss[i] = 1 .. b
    BY <1>3, <2>3
  <2>9. HasAt(t, q + a, ss[i])
    BY <2>7, <2>8 DEF HasAt
  <2> QED
    BY <2>3, <2>4, <2>5, <2>9
<1>11. Positions(t, q, ss, pos)
  BY <1>7, <1>9, <1>10 DEF Positions, w, n
<1> QED
  BY <1>11

\* These places are cursors.
LEMMA PositionsTyped ==
    ASSUME NEW t \in Seq(Bytes), NEW q \in Cursors(t), NEW ss \in Seq(Seq(Bytes)), NEW pos,
           Positions(t, q, ss, pos)
    PROVE  \A i \in 0 .. Len(ss) : pos[i] \in Cursors(t)
<1> DEFINE n == Len(ss)
           Without == {i \in Nat : i <= n /\ pos[i] \notin Cursors(t)}
<1>1. n \in Nat /\ \A i \in 1 .. n : ss[i] \in Seq(Bytes)
  BY LenProperties, ElementOfSeq
<1>2. /\ pos[0] = q
      /\ \A i \in 1 .. n : pos[i] = pos[i - 1] + Len(ss[i]) /\ HasAt(t, pos[i - 1], ss[i])
  BY DEF Positions
<1> HIDE DEF n
<1>3. Without = {}
  <2> SUFFICES ASSUME Without # {}
               PROVE  FALSE
    OBVIOUS
  <2>1. PICK i \in Without : \A j \in Without : i <= j
    BY Smallest
  <2>2. i \in Nat /\ i <= n /\ pos[i] \notin Cursors(t)
    BY <2>1
  <2>3. i # 0
    BY <1>2, <2>2
  <2>4. i \in 1 .. n /\ i - 1 \in Nat /\ i - 1 <= n /\ ~(i <= i - 1)
    BY <1>1, <2>2, <2>3
  <2>5. pos[i - 1] \in Cursors(t)
    BY <2>1, <2>4
  <2>6. ss[i] \in Seq(Bytes) /\ HasAt(t, pos[i - 1], ss[i])
    BY <1>1, <1>2, <2>4
  <2>7. pos[i - 1] + Len(ss[i]) \in Cursors(t)
    BY <2>5, <2>6, HasEnds
  <2> QED
    BY <1>2, <2>2, <2>4, <2>7
<1> SUFFICES ASSUME NEW i \in 0 .. n
             PROVE  pos[i] \in Cursors(t)
  BY DEF n
<1>4. i \in Nat /\ i <= n
  BY <1>1
<1> QED
  BY <1>3, <1>4

\* Texts are sequences of bytes, with or without a 0.
LEMMA ByteTexts ==
    Seq(Bytes) \subseteq Seq(0 .. 255) /\ Seq(32 .. 255) \subseteq Seq(Bytes)
<1>1. Bytes \subseteq 0 .. 255 /\ 32 .. 255 \subseteq Bytes
  BY DEF Bytes
<1> DEFINE A == 0 .. 255
           B == 32 .. 255
<1>2. Bytes \subseteq A /\ B \subseteq Bytes
  BY <1>1
<1> HIDE DEF A, B
<1>3. Seq(Bytes) \subseteq Seq(A)
  BY <1>2, SeqWider
<1>4. Seq(B) \subseteq Seq(Bytes)
  BY <1>2, SeqWider
<1> QED
  BY <1>3, <1>4 DEF A, B

\* The bytes of a string are read back up to the quote, from the last to the first.
LEMMA BytesBack ==
    ASSUME NEW t \in Seq(Bytes), NEW q \in Cursors(t), NEW s \in Seq(Bytes),
           NEW pos, Positions(t, q, Conversions(s), pos), At(t, pos[Len(s)]) = Quote
    PROVE  ReadsAs(t, q, s, pos[Len(s)] + 1)
<1> DEFINE n == Len(s)
           z == pos[n] + 1
           D == {i \in 1 .. n + 1 : ReadsAs(t, pos[i - 1], SubSeq(s, i, n), z)}
           cs == Conversions(s)
<1>1. /\ n \in Nat /\ Len(cs) = n /\ \A i \in 1 .. n : s[i] \in Bytes /\ cs[i] = Convert(s[i])
  BY ConversionsTyped
<1>2. cs \in Seq(Seq(Bytes))
  <2>1. cs \in Seq(Seq(32 .. 255))
    BY ConversionsTyped
  <2> HIDE DEF cs
  <2>2. Seq(32 .. 255) \subseteq Seq(Bytes)
    BY ByteTexts
  <2> QED
    BY <2>1, <2>2, SeqWider
<1> HIDE DEF cs
<1>3. /\ pos[0] = q
      /\ \A i \in 1 .. n : pos[i] = pos[i - 1] + Len(cs[i]) /\ HasAt(t, pos[i - 1], cs[i])
  BY <1>1 DEF Positions, cs
<1>4. \A i \in 0 .. n : pos[i] \in Cursors(t)
  <2>1. Positions(t, q, cs, pos)
    BY DEF cs
  <2> QED
    BY <1>1, <1>2, <2>1, PositionsTyped
<1> HIDE DEF z
<1>5. D = 1 .. n + 1
  <2>1. n + 1 \in Nat /\ D \subseteq 1 .. n + 1
    BY <1>1
  <2>2. ASSUME NEW i \in 1 .. n + 1, \A j \in i + 1 .. n + 1 : j \in D
        PROVE  i \in D
    <3>1. CASE i = n + 1
      <4>1. i - 1 = n /\ n \in 0 .. n
        BY <1>1, <3>1
      <4>2. SubSeq(s, i, n) = <<>>
        BY <3>1, RestFacts
      <4>3. pos[n] \in Cursors(t) /\ Ends(t, pos[n])
        BY <1>4, <4>1 DEF Ends
      <4>4. Counted(t, pos[n]) = Reached(0, 0, pos[n])
        BY <4>3, CountedAt
      <4>5. Counted(t, pos[n]).ok /\ Counted(t, pos[n]).escape = 0
        BY <4>4 DEF Reached
      <4>6. EndHere(t, pos[n], 0) /\ 0 \in Int
        BY <4>3 DEF EndHere, Ends
      <4>7. Written(t, pos[n], 0) = Complete(<<>>, z)
        BY <4>3, <4>6, WrittenAt DEF z
      <4>8. ReadsAs(t, pos[n], <<>>, z)
        BY <4>5, <4>7 DEF ReadsAs
      <4> QED
        BY <4>1, <4>2, <4>8
    <3>2. CASE i # n + 1
      <4>1. i \in 1 .. n /\ i + 1 \in i + 1 .. n + 1 /\ (i + 1) - 1 = i
            /\ i \in 0 .. n /\ i - 1 \in 0 .. n
        BY <1>1, <3>2
      <4>2. ReadsAs(t, pos[i], SubSeq(s, i + 1, n), z)
        <5>1. i + 1 \in D
          BY <2>2, <4>1
        <5> QED
          BY <4>1, <5>1
      <4>3. s[i] \in Bytes /\ cs[i] = Convert(s[i])
        BY <1>1, <4>1
      <4>4. /\ pos[i - 1] \in Cursors(t) /\ pos[i] \in Cursors(t)
            /\ pos[i] = pos[i - 1] + Len(Convert(s[i])) /\ HasAt(t, pos[i - 1], Convert(s[i]))
        BY <1>3, <1>4, <4>1, <4>3
      <4>5. /\ SubSeq(s, i + 1, n) \in Seq(Bytes)
            /\ SubSeq(s, i, n) = <<s[i]>> \o SubSeq(s, i + 1, n)
        BY <4>1, Rest
      <4>6. SubSeq(s, i + 1, n) \in Seq(0 .. 255)
        BY <4>5, ByteTexts
      <4> DEFINE r == SubSeq(s, i + 1, n)
      <4> HIDE DEF r
      <4>7. ReadsAs(t, pos[i - 1], <<s[i]>> \o r, z)
        BY <4>2, <4>3, <4>4, <4>6, ByteBack DEF r
      <4> QED
        BY <4>5, <4>7 DEF r
    <3> QED
      BY <3>1, <3>2
  <2> HIDE DEF D
  <2> QED
    BY <2>1, <2>2, Downward
<1>6. ReadsAs(t, pos[1 - 1], SubSeq(s, 1, n), z)
  <2>1. 1 \in D
    BY <1>1, <1>5
  <2> QED
    BY <2>1
<1>7. SubSeq(s, 1, n) = s /\ 1 - 1 = 0
  BY RestFacts
<1> QED
  BY <1>3, <1>6, <1>7 DEF z, n

\* A string is read back as it was written, and the cursor is behind its quote
\* (Json.cc:698-735, JsonParser.c:65-260).
LEMMA StringBack ==
    ASSUME NEW t \in Seq(Bytes), NEW p \in Cursors(t), NEW s \in Seq(Bytes),
           HasAt(t, p, string_convert(s))
    PROVE  /\ At(t, p) = Quote /\ p + 1 \in Cursors(t)
           /\ ReadString(t, p + 1) = Good(s, p + Len(string_convert(s)))
           /\ p + Len(string_convert(s)) \in Cursors(t)
<1> DEFINE cs == Conversions(s)
           w == FlattenSeq(cs)
<1>1. w \in Seq(32 .. 255) /\ string_convert(s) = <<Quote>> \o w \o <<Quote>>
  BY StringTextTyped
<1>2. cs \in Seq(Seq(32 .. 255)) /\ Len(cs) = Len(s)
  BY ConversionsTyped
<1>3. string_convert(s) \in Seq(Bytes) /\ w \in Seq(Bytes)
  <2>1. string_convert(s) \in Seq(32 .. 255)
    BY StringTextTyped
  <2> HIDE DEF w
  <2> QED
    BY <1>1, <2>1, ByteTexts
<1> HIDE DEF w, cs
<1>4. p \in Nat /\ p + 1 \in Nat /\ Len(w) \in Nat /\ Quote \in Bytes
  <2>1. Len(t) \in Nat /\ Len(w) \in Nat
    BY <1>3, LenProperties
  <2> QED
    BY <2>1 DEF Cursors, Bytes, Quote
<1> DEFINE a == <<Quote>> \o w
<1>5. a \in Seq(Bytes) /\ <<Quote>> \in Seq(Bytes) /\ Len(a) = Len(w) + 1
  <2>1. <<Quote>> \in Seq(Bytes) /\ Len(<<Quote>>) = 1
    BY <1>4
  <2>2. Len(<<Quote>> \o w) = 1 + Len(w) /\ <<Quote>> \o w \in Seq(Bytes)
    BY <1>3, <2>1, ConcatProperties
  <2> QED
    BY <1>4, <2>1, <2>2
<1>6. Len(a \o <<Quote>>) = Len(w) + 2
  <2>1. Len(<<Quote>>) = 1
    OBVIOUS
  <2> HIDE DEF a
  <2>2. Len(a \o <<Quote>>) = Len(a) + Len(<<Quote>>)
    BY <1>5, ConcatProperties
  <2> QED
    BY <1>4, <1>5, <2>1, <2>2
<1>7. HasAt(t, p, a) /\ HasAt(t, p + Len(a), <<Quote>>)
  <2>1. HasAt(t, p, a \o <<Quote>>)
    BY <1>1
  <2> HIDE DEF a
  <2> QED
    BY <1>4, <1>5, <2>1, HasConcat
<1>8. HasAt(t, p, <<Quote>>) /\ HasAt(t, p + Len(<<Quote>>), w)
  BY <1>3, <1>4, <1>5, <1>7, HasConcat
<1>9. At(t, p) = Quote /\ HasAt(t, p + 1, w)
  <2>1. Len(<<Quote>>) = 1
    OBVIOUS
  <2> QED
    BY <1>4, <1>8, <2>1, HasOne
<1> HIDE DEF a
<1>10. p + 1 \in Cursors(t)
  BY <1>9, CursorCases DEF Ends
<1>11. PICK pos : Positions(t, p + 1, cs, pos)
  BY <1>2, <1>4, <1>9, PartsAt DEF w
<1>12. pos[Len(s)] = p + 1 + Len(w)
  BY <1>2, <1>11 DEF Positions, w
<1>13. At(t, pos[Len(s)]) = Quote
  <2>1. p + Len(a) = p + 1 + Len(w) /\ p + Len(a) \in Nat
    BY <1>4, <1>5
  <2> QED
    BY <1>7, <1>12, <2>1, HasOne
<1>14. ReadsAs(t, p + 1, s, pos[Len(s)] + 1)
  BY <1>10, <1>11, <1>13, BytesBack DEF cs
<1> DEFINE z == p + Len(string_convert(s))
<1>15. pos[Len(s)] + 1 = z
  BY <1>1, <1>4, <1>6, <1>12 DEF a
<1>16. z \in Cursors(t)
  BY <1>3, HasEnds
<1>17. CString(s) = s
  <2>1. s \in Seq(0 .. 255)
    BY ByteTexts
  <2> QED
    BY <2>1, CStringFacts
<1> HIDE DEF z
<1>18. ReadString(t, p + 1) = Good(s, z)
  <2>1. Counted(t, p + 1).ok /\ Written(t, p + 1, Counted(t, p + 1).escape) = Complete(s, z)
    BY <1>14, <1>15 DEF ReadsAs
  <2>2. Copied(Counted(t, p + 1), Complete(s, z)) = Good(CString(s), z)
    BY <2>1 DEF Copied, Complete
  <2> QED
    BY <1>17, <2>1, <2>2 DEF ReadString
<1> QED
  BY <1>9, <1>10, <1>16, <1>18 DEF z

-----------------------------------------------------------------------------
(* Numbers and literals are read back.                                      *)

\* The first figure of a number is 0 only if it is the only one.
LEMMA DecimalFirst ==
    ASSUME NEW n \in Nat
    PROVE  /\ Len(Decimal[n]) \in Nat \ {0} /\ Decimal[n] \in Seq(DigitBytes)
           /\ Decimal[n][1] \in DigitBytes
           /\ n = 0 => Decimal[n] = <<48>> /\ Len(Decimal[n]) = 1
           /\ n # 0 => Decimal[n][1] # 48
<1> DEFINE First(k) == Len(Decimal[k]) \in Nat \ {0} /\ (k # 0 => Decimal[k][1] # 48)
           Without == {k \in Nat : ~First(k)}
<1>1. Without = {}
  <2> SUFFICES ASSUME Without # {}
               PROVE  FALSE
    OBVIOUS
  <2>0. PICK k \in Without : \A j \in Without : k <= j
    BY Smallest
  <2>1. k \in Nat /\ ~First(k) /\ \A j \in Nat : ~First(j) => k <= j
    BY <2>0
  <2>2. CASE k < 10
    <3>1. Decimal[k] = <<48 + k>> /\ Len(Decimal[k]) = 1
      <4>1. k \in 0 .. 9
        BY <2>1, <2>2
      <4> HIDE DEF First
      <4> QED
        BY <4>1, DecimalShort
    <3>2. Decimal[k][1] = 48 + k
      BY <3>1
    <3> QED
      BY <2>1, <3>1, <3>2
  <2>3. CASE ~(k < 10)
    <3> DEFINE d == k \div 10
               r == 48 + (k % 10)
    <3>1. d \in Nat /\ d < k /\ d # 0
      BY <2>1, <2>3, Divided
    <3> HIDE DEF d, r
    <3>2. First(d)
      <4> HIDE DEF First
      <4> QED
        BY <2>1, <3>1
    <3>3. Decimal[k] = Append(Decimal[d], r) /\ Decimal[d] \in Seq(DigitBytes)
      <4>1. Decimal[k] = Append(Decimal[d], r)
        BY <2>1, <2>3, DecimalSolved DEF d, r
      <4>2. Decimal[d] \in Seq(DigitBytes)
        BY <3>1, DecimalSolved
      <4> QED
        BY <4>1, <4>2
    <3>4. r \in DigitBytes
      <4>1. k % 10 \in 0 .. 9
        BY <2>1, Divided
      <4> QED
        BY <4>1 DEF r, DigitBytes
    <3>5. /\ Len(Append(Decimal[d], r)) = Len(Decimal[d]) + 1
          /\ \A i \in 1 .. Len(Decimal[d]) : Append(Decimal[d], r)[i] = Decimal[d][i]
      BY <3>3, <3>4, AppendProperties
    <3>6. 1 \in 1 .. Len(Decimal[d])
      BY <3>2
    <3>7. Decimal[k][1] = Decimal[d][1] /\ Len(Decimal[k]) = Len(Decimal[d]) + 1
      BY <3>3, <3>5, <3>6
    <3>8. First(k)
      BY <3>1, <3>2, <3>7
    <3> QED
      BY <2>1, <3>8
  <2> QED
    BY <2>2, <2>3
<1>2. First(n)
  BY <1>1
<1>3. Decimal[n] \in Seq(DigitBytes)
  BY DecimalSolved
<1>4. Decimal[n][1] \in DigitBytes
  <2>1. 1 \in 1 .. Len(Decimal[n])
    BY <1>2
  <2> QED
    BY <1>3, <2>1, ElementOfSeq
<1>5. n = 0 => Decimal[n] = <<48>> /\ Len(Decimal[n]) = 1
  <2>1. ASSUME n = 0
        PROVE  Decimal[0] = <<48 + 0>> /\ Len(Decimal[0]) = 1
    BY DecimalShort
  <2> QED
    BY <2>1
<1> QED
  BY <1>2, <1>3, <1>4, <1>5

\* The figures of a number from d on are read as n, up to z.
FiguresRead(t, d, n, z) ==
    (IF At(t, d) = 48 THEN Good(0, d + 1) ELSE MantissaFrom(t, d, 0)) = Good(n, z)

\* The figures of a number are read back up to what is none.
LEMMA FiguresBack ==
    ASSUME NEW t \in Seq(Bytes), NEW d \in Cursors(t), NEW n \in Nat,
           HasAt(t, d, Decimal[n]), NEW z, z = d + Len(Decimal[n]), At(t, z) \notin DigitBytes
    PROVE  /\ z \in Cursors(t) /\ d < z /\ At(t, d) \in DigitBytes
           /\ FiguresRead(t, d, n, z)
<1>1. /\ Len(Decimal[n]) \in Nat \ {0} /\ Decimal[n] \in Seq(DigitBytes)
      /\ Decimal[n][1] \in DigitBytes
      /\ n = 0 => Decimal[n] = <<48>> /\ Len(Decimal[n]) = 1
      /\ n # 0 => Decimal[n][1] # 48
  BY DecimalFirst
<1>2. z \in Cursors(t) /\ MantissaFrom(t, d, 0) = MantissaFrom(t, z, n)
  BY MantissaReads
<1>3. d < z /\ d \in Nat
  BY <1>1 DEF Cursors
<1>4. At(t, d) = Decimal[n][1]
  <2>1. 1 \in DOMAIN Decimal[n]
    BY <1>1, LenProperties
  <2>2. At(t, d + 1 - 1) = Decimal[n][1]
    BY <2>1 DEF HasAt
  <2>3. d + 1 - 1 = d
    BY <1>3
  <2> QED
    BY <2>2, <2>3
<1>5. CASE n = 0
  <2>1. At(t, d) = 48
    BY <1>1, <1>4, <1>5
  <2>2. z = d + 1
    BY <1>1, <1>5
  <2> QED
    BY <1>1, <1>2, <1>3, <1>4, <1>5, <2>1, <2>2 DEF FiguresRead
<1>6. CASE n # 0
  <2>1. At(t, d) # 48
    BY <1>1, <1>4, <1>6
  <2>2. MantissaFrom(t, z, n) = Good(n, z)
    BY <1>2, MantissaCases
  <2> QED
    BY <1>1, <1>2, <1>3, <1>4, <2>1, <2>2 DEF FiguresRead
<1> QED
  BY <1>5, <1>6

NumberOf(minus, n) == [type |-> "number", minus |-> minus, n |-> n]
BelowZero(n) == NumberOf(TRUE, n)
FromZero(n) == NumberOf(FALSE, n)

NumberRead(t, d, n, z) == At(t, d) \in DigitBytes /\ z - d <= Figures /\ FiguresRead(t, d, n, z)

Signed(t, p, d) == At(t, p) = 45 /\ d = p + 1
Unsigned(t, p, d) == At(t, p) # 45 /\ d = p

\* What is read of a number, with and without a minus.
LEMMA NumberIs ==
    ASSUME NEW t, NEW p, NEW d, NEW n, NEW z, NumberRead(t, d, n, z)
    PROVE  /\ Signed(t, p, d) =>
                 parse_json_number(t, p) = Good(BelowZero(n), z)
           /\ Unsigned(t, p, d) =>
                 parse_json_number(t, p) = Good(FromZero(n), z)
<1> DEFINE m == IF At(t, d) = 48 THEN Good(0, d + 1) ELSE mantissa(t)[[cursor |-> d, n |-> 0]]
<1>1. m = Good(n, z)
  BY DEF MantissaFrom, FiguresRead, NumberRead
<1>2. ASSUME Signed(t, p, d)
      PROVE  parse_json_number(t, p) =
                IF At(t, d) \in DigitBytes /\ m.end - d <= Figures
                THEN Good(BelowZero(m.val), m.end) ELSE Bad
  BY <1>2 DEF parse_json_number, NumberOf, BelowZero, Signed
<1>3. ASSUME Unsigned(t, p, d)
      PROVE  parse_json_number(t, p) =
                IF At(t, d) \in DigitBytes /\ m.end - d <= Figures
                THEN Good(FromZero(m.val), m.end) ELSE Bad
  BY <1>3 DEF parse_json_number, NumberOf, FromZero, Unsigned
<1> HIDE DEF m
<1>4. m.val = n /\ m.end = z
  BY <1>1, GoodFacts
<1>5. At(t, d) \in DigitBytes /\ m.end - d <= Figures
  BY <1>4 DEF NumberRead
<1> QED
  BY <1>2, <1>3, <1>4, <1>5

\* A text that is there, and its first byte.
LEMMA HasFirst ==
    ASSUME NEW t, NEW p \in Nat, NEW S, NEW c \in S, NEW w \in Seq(S)
    PROVE  HasAt(t, p, <<c>> \o w) <=> At(t, p) = c /\ HasAt(t, p + 1, w)
<1> DEFINE a == <<c>>
<1>1. a \in Seq(S) /\ Len(a) = 1 /\ (HasAt(t, p, a) <=> At(t, p) = c)
  BY HasOne
<1> HIDE DEF a
<1>2. HasAt(t, p, a \o w) <=> HasAt(t, p, a) /\ HasAt(t, p + Len(a), w)
  BY <1>1, HasConcat
<1> QED
  BY <1>1, <1>2 DEF a

\* A number is read back unless a figure follows it (Json.cc:737-741,
\* JsonParser.c:293-328).
LEMMA NumberBack ==
    ASSUME NEW t \in Seq(Bytes), NEW p \in Cursors(t), NEW v, NumberValue(v),
           HasAt(t, p, number_convert(v)), NEW z, z = p + Len(number_convert(v)),
           At(t, z) \notin DigitBytes
    PROVE  /\ z \in Cursors(t) /\ p < z /\ At(t, p) \in DigitBytes \cup {45}
           /\ parse_json_number(t, p) = Good(v, z)
<1> DEFINE w == Decimal[v.n]
<1>1. /\ v.n \in Nat /\ v.minus \in BOOLEAN /\ Len(w) <= Figures
      /\ v = NumberOf(v.minus, v.n)
  BY DEF NumberValue, NumberOf
<1>2. w \in Seq(Bytes) /\ Len(w) \in Nat /\ w[1] \in DigitBytes /\ Len(w) # 0
  <2>1. w \in Seq(DigitBytes) /\ Len(w) \in Nat \ {0} /\ w[1] \in DigitBytes
    BY <1>1, DecimalFirst
  <2>2. DigitBytes \subseteq Bytes
    BY DEF DigitBytes, Bytes
  <2> HIDE DEF w
  <2>3. Seq(DigitBytes) \subseteq Seq(Bytes)
    BY <2>2, SeqWider
  <2> QED
    BY <2>1, <2>3
<1>3. p \in Nat /\ 45 \notin DigitBytes
  <2>1. Len(t) \in Nat
    BY LenProperties
  <2> QED
    BY <2>1 DEF Cursors, DigitBytes
<1>4. CASE v.minus
  <2>1. number_convert(v) = <<45>> \o w
    BY <1>4 DEF number_convert
  <2> HIDE DEF w
  <2>2. <<45>> \in Seq(Bytes) /\ Len(<<45>>) = 1
    BY DEF Bytes
  <2>3. At(t, p) = 45 /\ HasAt(t, p + 1, w)
    <3>1. HasAt(t, p, <<45>> \o w) /\ 45 \in Bytes
      BY <2>1 DEF Bytes
    <3> QED
      BY <1>2, <1>3, <3>1, HasFirst
  <2>4. At(t, p) = 45
    BY <2>3
  <2>5. Len(number_convert(v)) = 1 + Len(w)
    BY <1>2, <2>1, <2>2, ConcatProperties
  <2>6. p + 1 \in Cursors(t)
    BY <2>4, SkipPast
  <2>7. z = (p + 1) + Len(w) /\ z - (p + 1) <= Figures
    BY <1>1, <1>2, <1>3, <2>5 DEF Figures
  <2> DEFINE d == p + 1
  <2> HIDE DEF d
  <2>9. /\ z \in Cursors(t) /\ d < z /\ At(t, d) \in DigitBytes
        /\ FiguresRead(t, d, v.n, z)
    <3>1. d \in Cursors(t) /\ HasAt(t, d, Decimal[v.n]) /\ z = d + Len(Decimal[v.n])
      BY <2>3, <2>6, <2>7 DEF d, w
    <3> QED
      BY <1>1, <3>1, FiguresBack
  <2>10. v.minus = TRUE
    BY <1>1, <1>4
  <2>11. z - d <= Figures
    BY <2>7 DEF d
  <2>12. parse_json_number(t, p) = Good(BelowZero(v.n), z)
    <3>1. NumberRead(t, d, v.n, z) /\ Signed(t, p, d)
      BY <2>4, <2>9, <2>11 DEF NumberRead, d, Signed
    <3> QED
      BY <3>1, NumberIs
  <2>13. p < z
    BY <1>3, <2>7, <1>2
  <2> QED
    BY <1>1, <2>4, <2>9, <2>10, <2>12, <2>13 DEF BelowZero
<1>5. CASE ~v.minus
  <2>1. number_convert(v) = w
    <3>1. number_convert(v) = <<>> \o w
      BY <1>5 DEF number_convert
    <3> HIDE DEF w
    <3> QED
      BY <1>2, <3>1
  <2>2. z = p + Len(w) /\ z - p <= Figures
    <3> HIDE DEF w
    <3> QED
      BY <1>1, <1>2, <1>3, <2>1 DEF Figures
  <2>3. /\ z \in Cursors(t) /\ p < z /\ At(t, p) \in DigitBytes
        /\ FiguresRead(t, p, v.n, z)
    <3>1. HasAt(t, p, Decimal[v.n]) /\ z = p + Len(Decimal[v.n])
      BY <2>1, <2>2
    <3> QED
      BY <1>1, <3>1, FiguresBack
  <2>4. v.minus = FALSE /\ At(t, p) # 45
    BY <1>1, <1>3, <1>5, <2>3
  <2>5. parse_json_number(t, p) = Good(FromZero(v.n), z)
    <3>1. NumberRead(t, p, v.n, z) /\ Unsigned(t, p, p)
      BY <2>2, <2>3, <2>4 DEF NumberRead, Unsigned
    <3> QED
      BY <3>1, NumberIs
  <2> QED
    BY <1>1, <2>3, <2>4, <2>5 DEF FromZero
<1> QED
  BY <1>1, <1>4, <1>5

\* The literals differ in their first byte.
LEMMA LiteralFirst ==
    ASSUME NEW k \in Literals, NEW l \in Literals, k.text[1] = l.text[1]
    PROVE  k = l
  BY DEF Literals

\* A literal is read back (JsonParser.c:694-717).
LEMMA LiteralBack ==
    ASSUME NEW t \in Seq(Bytes), NEW p \in Cursors(t), NEW l \in Literals,
           HasAt(t, p, l.text)
    PROVE  /\ p + Len(l.text) \in Cursors(t) /\ p < p + Len(l.text)
           /\ At(t, p) \in {116, 102, 110}
           /\ parse_json_literal(t, p) = Good(Leaf(l.type), p + Len(l.text))
<1>1. ASSUME NEW k \in Literals, HasAt(t, p, k.text)
      PROVE  At(t, p) = k.text[1] /\ k.text \in Seq(Bytes) /\ Len(k.text) \in {4, 5}
             /\ k.text[1] \in {116, 102, 110}
  <2>1. k.text \in Seq(Bytes) /\ Len(k.text) \in {4, 5} /\ k.text[1] \in {116, 102, 110}
    BY LiteralFacts
  <2>2. Len(k.text) > 0
    BY <2>1
  <2>3. At(t, p) = k.text[1]
    BY <1>1, <2>1, <2>2, HasEnds
  <2> QED
    BY <2>1, <2>3
<1> DEFINE Here == {k \in Literals : HasAt(t, p, k.text)}
<1>2. Here = {l}
  <2>1. ASSUME NEW k \in Here
        PROVE  k = l
    <3>1. k \in Literals /\ At(t, p) = k.text[1] /\ At(t, p) = l.text[1]
      BY <1>1
    <3>2. k.text[1] = l.text[1]
      BY <3>1
    <3> QED
      BY <3>1, <3>2, LiteralFirst
  <2>2. l \in Here
    OBVIOUS
  <2> QED
    BY <2>1, <2>2
<1>3. parse_json_literal(t, p) =
         IF Here = {} THEN Bad ELSE Good(Leaf(The(Here).type), p + Len(The(Here).text))
  BY DEF parse_json_literal
<1> HIDE DEF Here
<1>4. The(Here) = l /\ Here # {}
  BY <1>2, TheOne
<1>5. parse_json_literal(t, p) = Good(Leaf(l.type), p + Len(l.text))
  BY <1>3, <1>4
<1>6. p + Len(l.text) \in Cursors(t)
  BY <1>1, HasEnds
<1>7. p < p + Len(l.text)
  <2>1. p \in Nat /\ Len(l.text) \in {4, 5}
    <3>1. Len(t) \in Nat
      BY LenProperties
    <3> QED
      BY <1>1, <3>1 DEF Cursors
  <2> DEFINE n == Len(l.text)
  <2>2. p \in Nat /\ n \in Nat /\ n > 0
    BY <2>1
  <2> HIDE DEF n
  <2>3. p < p + n
    BY <2>2
  <2> QED
    BY <2>3 DEF n
<1> QED
  BY <1>1, <1>5, <1>6, <1>7

-----------------------------------------------------------------------------
(* Trees are read back.                                                     *)

\* What a value begins with, and what ends a number.
Starters == {34, 45, 91, 123, 116, 102, 110} \cup DigitBytes
Begun(t, p) == At(t, p) \in Starters
Ended(t, p) == At(t, p) \notin DigitBytes

\* No value begins with a blank or with what ends an item.
LEMMA StarterFacts ==
    ASSUME NEW t, NEW p, Begun(t, p)
    PROVE  At(t, p) \notin Blanks /\ At(t, p) \notin {0, 44, 58, 93, 125}
  BY DEF Begun, Starters, Blanks, DigitBytes

\* A reader reads v at p and stops at z.
Gives(rd, p, v, z) == rd[p] = Good(v, z)

\* The text has what a writer writes of v from p to z.
Wrote(t, wr, v, p, z) == HasAt(t, p, wr[v]) /\ z = p + Len(wr[v]) /\ Ended(t, z)

\* What the writer writes of a value, the reader reads.
Back(t, S, wr, rd) ==
    \A v \in S, p \in Cursors(t) :
        \A z : Wrote(t, wr, v, p, z) => Begun(t, p) /\ Gives(rd, p, v, z)

\* A text of blanks.
LEMMA BlankRun ==
    ASSUME NEW t, NEW q \in Nat, NEW w \in Seq(Bytes), HasAt(t, q, w),
           \A i \in DOMAIN w : w[i] \in Blanks
    PROVE  \A r \in q .. q + Len(w) - 1 : At(t, r) \in Blanks
<1> SUFFICES ASSUME NEW r \in q .. q + Len(w) - 1
             PROVE  At(t, r) \in Blanks
  OBVIOUS
<1>1. Len(w) \in Nat /\ DOMAIN w = 1 .. Len(w)
  BY LenProperties
<1> DEFINE i == r - q + 1
<1>2. i \in DOMAIN w /\ q + i - 1 = r
  BY <1>1
<1> HIDE DEF i
<1>3. At(t, q + i - 1) = w[i]
  BY <1>2 DEF HasAt
<1> QED
  BY <1>2, <1>3

\* It is skipped up to what is behind it.
LEMMA SkipsBlanks ==
    ASSUME NEW t \in Seq(Bytes), NEW q \in Cursors(t), NEW w \in Seq(Bytes), HasAt(t, q, w),
           \A i \in DOMAIN w : w[i] \in Blanks, At(t, q + Len(w)) \notin Blanks
    PROVE  SkipSpaces(t, q) = q + Len(w) /\ q + Len(w) \in Cursors(t)
<1> DEFINE z == q + Len(w)
<1>1. q \in Nat
  <2>1. Len(t) \in Nat
    BY LenProperties
  <2> QED
    BY <2>1 DEF Cursors
<1>2. z \in Cursors(t) /\ Len(w) \in Nat
  BY HasEnds
<1>3. \A r \in q .. z - 1 : At(t, r) \in Blanks
  BY <1>1, BlankRun
<1>4. q <= z
  BY <1>1, <1>2
<1> HIDE DEF z
<1>5. At(t, z) \notin Blanks
  BY DEF z
<1>6. SkipSpaces(t, q) = z
  BY <1>2, <1>3, <1>4, <1>5, SkipsTo
<1> QED
  BY <1>2, <1>6 DEF z

\* The padding is a text of blanks.
LEMMA PaddingBytes ==
    ASSUME NEW sp \in Nat, NEW depth \in Nat
    PROVE  /\ Padding(sp, depth) \in Seq(Bytes)
           /\ \A i \in DOMAIN Padding(sp, depth) : Padding(sp, depth)[i] \in Blanks
<1>1. Padding(sp, depth) \in Seq(Ink(sp)) /\ Ink(sp) \subseteq Bytes
  BY PaddingTyped, InkFacts
<1>2. Seq(Ink(sp)) \subseteq Seq(Bytes)
  BY <1>1, SeqWider
<1> QED
  BY <1>1, <1>2, PaddingTyped

\* The padding of a line is skipped.
LEMMA SkipsPadding ==
    ASSUME NEW t \in Seq(Bytes), NEW q \in Cursors(t), NEW sp \in Nat, NEW depth \in Nat,
           HasAt(t, q, Padding(sp, depth)), At(t, q + Len(Padding(sp, depth))) \notin Blanks
    PROVE  /\ SkipSpaces(t, q) = q + Len(Padding(sp, depth))
           /\ q + Len(Padding(sp, depth)) \in Cursors(t)
<1> DEFINE w == Padding(sp, depth)
<1>1. w \in Seq(Bytes) /\ \A i \in DOMAIN w : w[i] \in Blanks
  BY PaddingBytes
<1>2. HasAt(t, q, w) /\ At(t, q + Len(w)) \notin Blanks
  OBVIOUS
<1> HIDE DEF w
<1>3. SkipSpaces(t, q) = q + Len(w) /\ q + Len(w) \in Cursors(t)
  BY <1>1, <1>2, SkipsBlanks
<1> QED
  BY <1>3 DEF w

\* What is behind the name of a member.
Colon(sp) == IF sp = 0 THEN <<58>> ELSE <<58, 32>>

\* The colon behind a name is found, and the value behind it.
LEMMA ColonBack ==
    ASSUME NEW t \in Seq(Bytes), NEW z \in Cursors(t), NEW sp \in Nat, HasAt(t, z, Colon(sp)),
           Begun(t, z + Len(Colon(sp)))
    PROVE  /\ At(t, z) = 58 /\ SkipSpaces(t, z) = z
           /\ SkipSpaces(t, z + 1) = z + Len(Colon(sp))
<1>1. z \in Nat /\ Len(t) \in Nat /\ Cursors(t) = 1 .. Len(t) + 1
  <2>1. Len(t) \in Nat
    BY LenProperties
  <2> QED
    BY <2>1 DEF Cursors
<1>2. At(t, z) = 58 /\ z + Len(Colon(sp)) \in Cursors(t)
      /\ (Len(Colon(sp)) = 1 \/ (Len(Colon(sp)) = 2 /\ At(t, z + 1) = 32))
  <2>1. CASE sp = 0
    <3>1. Colon(sp) = <<58>> /\ Len(<<58>>) = 1
      BY <2>1 DEF Colon
    <3>2. At(t, z) = 58
      BY <1>1, <3>1, HasOne
    <3>3. z + 1 \in Cursors(t)
      BY <3>2, SkipPast
    <3> QED
      BY <3>1, <3>2, <3>3
  <2>2. CASE sp # 0
    <3> DEFINE w == <<58, 32>>
    <3>1. Colon(sp) = w
      BY <2>2 DEF Colon
    <3>2. Len(w) = 2 /\ w[1] = 58 /\ w[2] = 32 /\ 1 \in DOMAIN w /\ 2 \in DOMAIN w /\ w \in Seq(Bytes)
      BY DEF Bytes
    <3> HIDE DEF w
    <3>3. HasAt(t, z, w)
      BY <3>1
    <3>4. At(t, z + 1 - 1) = 58 /\ At(t, z + 2 - 1) = 32
      BY <3>2, <3>3 DEF HasAt
    <3>5. z + 1 - 1 = z /\ z + 2 - 1 = z + 1
      BY <1>1
    <3>6. z + Len(w) \in Cursors(t)
      BY <3>2, <3>3, HasEnds
    <3> QED
      BY <3>1, <3>2, <3>4, <3>5, <3>6
  <2> QED
    BY <2>1, <2>2
<1> DEFINE n == Len(Colon(sp))
<1> HIDE DEF n
<1>3. At(t, z + n) \notin Blanks
  BY StarterFacts DEF n
<1>4. SkipSpaces(t, z) = z
  <2>1. At(t, z) \notin Blanks
    BY <1>2 DEF Blanks
  <2>2. z <= z /\ \A r \in z .. z - 1 : At(t, r) \in Blanks
    BY <1>1
  <2> QED
    BY <2>1, <2>2, SkipsTo
<1>5. z + 1 \in Cursors(t)
  BY <1>2, SkipPast
<1>6. SkipSpaces(t, z + 1) = z + n
  <2>1. n \in {1, 2} /\ z + n \in Cursors(t) /\ (n = 2 => At(t, z + 1) \in Blanks)
    <3>1. z + n \in Cursors(t) /\ (n = 1 \/ (n = 2 /\ At(t, z + 1) = 32))
      BY <1>2 DEF n
    <3>2. 32 \in Blanks
      BY DEF Blanks
    <3> QED
      BY <3>1, <3>2
  <2>2. z + 1 <= z + n
    BY <1>1, <2>1
  <2>3. \A r \in z + 1 .. (z + n) - 1 : At(t, r) \in Blanks
    <3> SUFFICES ASSUME NEW r \in z + 1 .. (z + n) - 1
                 PROVE  At(t, r) \in Blanks
      OBVIOUS
    <3>1. n = 2 /\ r = z + 1
      BY <1>1, <2>1
    <3> QED
      BY <2>1, <3>1
  <2> DEFINE y == z + n
  <2> HIDE DEF y
  <2>4. /\ y \in Cursors(t) /\ z + 1 <= y /\ \A r \in z + 1 .. y - 1 : At(t, r) \in Blanks
        /\ At(t, y) \notin Blanks
    BY <1>3, <2>1, <2>2, <2>3 DEF y
  <2>5. SkipSpaces(t, z + 1) = y
    BY <1>5, <2>4, SkipsTo
  <2> QED
    BY <2>5 DEF y
<1> QED
  BY <1>2, <1>4, <1>6 DEF n

\* A name is written with its colon, and an element has none.
LEMMA NamePartIs ==
    ASSUME NEW type, NEW name \in Seq(Bytes), NEW sp \in Nat
    PROVE  /\ NamePart(type, name, sp) = IF type = "array" THEN <<>>
                                         ELSE string_convert(name) \o Colon(sp)
           /\ string_convert(name) \in Seq(Bytes) /\ Colon(sp) \in Seq(Bytes)
           /\ NamePart(type, name, sp) \in Seq(Bytes)
<1>1. NamePart(type, name, sp) = IF type = "array" THEN <<>> ELSE string_convert(name) \o Colon(sp)
  BY DEF NamePart, Colon
<1>2. string_convert(name) \in Seq(Bytes)
  BY StringTextTyped, ByteTexts
<1>3. Colon(sp) \in Seq(Bytes)
  <2>1. 58 \in Bytes /\ 32 \in Bytes
    BY DEF Bytes
  <2>2. <<58>> \in Seq(Bytes) /\ <<58, 32>> \in Seq(Bytes)
    BY <2>1
  <2> QED
    BY <2>2 DEF Colon
<1>4. string_convert(name) \o Colon(sp) \in Seq(Bytes)
  BY <1>2, <1>3, ConcatProperties
<1> QED
  BY <1>1, <1>2, <1>3, <1>4

\* What is written of a member is in the text from b to z.
MemberAt(t, sp, wr, name, x, b, z) ==
    /\ HasAt(t, b, string_convert(name) \o Colon(sp))
    /\ Wrote(t, wr, x, b + Len(string_convert(name) \o Colon(sp)), z)

ItemOf(name, x) == [name |-> name, val |-> x]

\* A member is read back.
LEMMA MemberBack ==
    ASSUME NEW t \in Seq(Bytes), NEW b \in Cursors(t), NEW sp \in Nat, NEW S, NEW wr, NEW rd,
           Back(t, S, wr, rd), NEW name \in Seq(Bytes), NEW x \in S,
           NEW z, MemberAt(t, sp, wr, name, x, b, z)
    PROVE  Begun(t, b) /\ parse_json_member(t, b, rd) = Good(ItemOf(name, x), z)
<1>0. PICK y : /\ y = b + Len(string_convert(name) \o Colon(sp))
               /\ HasAt(t, b, string_convert(name) \o Colon(sp)) /\ Wrote(t, wr, x, y, z)
  BY DEF MemberAt
<1> DEFINE q == string_convert(name)
           k == Colon(sp)
           c == b + Len(q)
<1>1. q \in Seq(Bytes) /\ k \in Seq(Bytes)
  BY NamePartIs
<1>2. b \in Nat /\ Len(q) \in Nat /\ Len(k) \in Nat
  <2>1. Len(t) \in Nat /\ Len(q) \in Nat /\ Len(k) \in Nat
    BY <1>1, LenProperties
  <2> QED
    BY <2>1 DEF Cursors
<1>3. HasAt(t, b, q) /\ HasAt(t, b + Len(q), k)
  <2>1. HasAt(t, b, q \o k)
    BY <1>0
  <2> HIDE DEF q, k
  <2> QED
    BY <1>1, <1>2, <2>1, HasConcat
<1>4. /\ At(t, b) = Quote /\ b + 1 \in Cursors(t)
      /\ ReadString(t, b + 1) = Good(name, c) /\ c \in Cursors(t)
  BY <1>3, StringBack
<1>5. y = c + Len(k) /\ y \in Cursors(t)
  <2>1. y = b + Len(q \o k)
    BY <1>0
  <2>2. c = b + Len(q)
    OBVIOUS
  <2>3. HasAt(t, c, k)
    BY <1>3
  <2> HIDE DEF q, k, c
  <2>4. Len(q \o k) = Len(q) + Len(k)
    BY <1>1, ConcatProperties
  <2>5. c + Len(k) \in Cursors(t)
    BY <1>1, <1>4, <2>3, HasEnds
  <2> QED
    BY <1>2, <2>1, <2>2, <2>4, <2>5
<1>6. Begun(t, y) /\ rd[y] = Good(x, z)
  BY <1>0, <1>5 DEF Back, Gives
<1>7. At(t, c) = 58 /\ SkipSpaces(t, c) = c /\ SkipSpaces(t, c + 1) = y
  <2>1. HasAt(t, c, k) /\ Begun(t, c + Len(k))
    BY <1>3, <1>5, <1>6
  <2> HIDE DEF c
  <2> QED
    BY <1>4, <1>5, <2>1, ColonBack
<1>8. parse_json_member(t, b, rd) = parse_json_value_of(t, Good(name, c), rd)
  <2> HIDE DEF c
  <2> QED
    BY <1>4, MemberIs
<1>9. parse_json_value_of(t, Good(name, c), rd) = Named(name, Good(x, z))
  <2> HIDE DEF c
  <2>1. Good(name, c).ok /\ Good(name, c).val = name /\ Good(name, c).end = c
    BY GoodFacts
  <2> DEFINE r == Good(name, c)
  <2> HIDE DEF r
  <2>2. parse_json_value_of(t, r, rd) = Named(name, Good(x, z))
    BY <1>6, <1>7, <2>1 DEF parse_json_value_of, r
  <2> QED
    BY <2>2 DEF r
<1>10. Named(name, Good(x, z)) = Good(ItemOf(name, x), z)
  BY GoodFacts DEF Named, ItemOf
<1>11. Begun(t, b)
  BY <1>4 DEF Begun, Starters, Quote
<1> QED
  BY <1>8, <1>9, <1>10, <1>11

\* Four texts behind each other.
LEMMA HasFour ==
    ASSUME NEW t, NEW q \in Nat, NEW S, NEW a \in Seq(S), NEW b \in Seq(S), NEW c \in Seq(S),
           NEW d \in Seq(S), HasAt(t, q, a \o b \o c \o d)
    PROVE  /\ HasAt(t, q, a) /\ HasAt(t, q + Len(a), b) /\ HasAt(t, q + Len(a) + Len(b), c)
           /\ HasAt(t, q + Len(a) + Len(b) + Len(c), d)
           /\ q + Len(a \o b \o c \o d) = q + Len(a) + Len(b) + Len(c) + Len(d)
           /\ Len(a) \in Nat /\ Len(b) \in Nat /\ Len(c) \in Nat /\ Len(d) \in Nat
<1> DEFINE ab == a \o b
           abc == ab \o c
<1>1. ab \in Seq(S) /\ Len(ab) = Len(a) + Len(b) /\ Len(a) \in Nat /\ Len(b) \in Nat
  BY ConcatProperties, LenProperties
<1>2. HasAt(t, q, abc \o d)
  OBVIOUS
<1>3. HasAt(t, q, ab) <=> HasAt(t, q, a) /\ HasAt(t, q + Len(a), b)
  BY HasConcat
<1> HIDE DEF ab
<1>4. abc \in Seq(S) /\ Len(abc) = Len(ab) + Len(c) /\ Len(c) \in Nat
  BY <1>1, ConcatProperties, LenProperties
<1>5. HasAt(t, q, abc) <=> HasAt(t, q, ab) /\ HasAt(t, q + Len(ab), c)
  BY <1>1, HasConcat
<1> HIDE DEF abc
<1>6. Len(abc \o d) = Len(abc) + Len(d) /\ Len(d) \in Nat
  BY <1>4, ConcatProperties, LenProperties
<1>7. HasAt(t, q, abc) /\ HasAt(t, q + Len(abc), d)
  BY <1>2, <1>4, HasConcat
<1>8. q + Len(ab) = q + Len(a) + Len(b) /\ q + Len(abc) = q + Len(a) + Len(b) + Len(c)
      /\ q + Len(abc \o d) = q + Len(a) + Len(b) + Len(c) + Len(d)
  <2> DEFINE k == Len(a)
             l == Len(b)
             m == Len(c)
             n == Len(d)
  <2>1. /\ k \in Nat /\ l \in Nat /\ m \in Nat /\ n \in Nat
        /\ Len(ab) = k + l /\ Len(abc) = (k + l) + m /\ Len(abc \o d) = ((k + l) + m) + n
    BY <1>1, <1>4, <1>6
  <2> HIDE DEF k, l, m, n
  <2>2. /\ q + (k + l) = q + k + l /\ q + ((k + l) + m) = q + k + l + m
        /\ q + (((k + l) + m) + n) = q + k + l + m + n
    BY <2>1
  <2> QED
    BY <2>1, <2>2 DEF k, l, m, n
<1> QED
  BY <1>1, <1>3, <1>4, <1>5, <1>6, <1>7, <1>8 DEF ab, abc

\* Where an item begins: the first behind the bracket, the others behind a comma.
ItemBegin(t, q, i) == IF i = 1 THEN SkipSpaces(t, q) ELSE SkipSpaces(t, q + 1)

\* The comma in front of an item.
Separator(i) == IF i = 1 THEN <<>> ELSE <<44>>
CommaAt(t, q) == At(t, q) = 44 /\ q + 1 \in Cursors(t)

\* The comma in front of an item that is not the first.
LEMMA CommaBack ==
    ASSUME NEW t \in Seq(Bytes), NEW q \in Cursors(t), NEW i, NEW a,
           a = Separator(i), HasAt(t, q, a)
    PROVE  /\ a \in Seq(Bytes) /\ q + Len(a) \in Cursors(t)
           /\ i # 1 => CommaAt(t, q)
           /\ ItemBegin(t, q, i) = SkipSpaces(t, q + Len(a))
<1>1. q \in Nat
  <2>1. Len(t) \in Nat
    BY LenProperties
  <2> QED
    BY <2>1 DEF Cursors
<1>2. CASE i = 1
  <2>1. a = <<>> /\ Len(<<>>) = 0 /\ q + 0 = q
    BY <1>1, <1>2 DEF Separator
  <2>2. q + Len(a) = q /\ a \in Seq(Bytes)
    BY <2>1
  <2>3. ItemBegin(t, q, i) = SkipSpaces(t, q + Len(a))
    BY <1>2, <2>2 DEF ItemBegin
  <2> QED
    BY <1>2, <2>2, <2>3
<1>3. CASE i # 1
  <2>1. a = <<44>> /\ Len(<<44>>) = 1 /\ 44 \in Bytes
    BY <1>3 DEF Bytes, Separator
  <2>2. a \in Seq(Bytes) /\ q + Len(a) = q + 1
    BY <2>1
  <2>3. At(t, q) = 44
    BY <1>1, <2>1, HasOne
  <2>4. q + 1 \in Cursors(t)
    BY <2>3, SkipPast
  <2> QED
    BY <1>3, <2>2, <2>3, <2>4 DEF ItemBegin, CommaAt
<1> QED
  BY <1>2, <1>3

\* What is written of an item from b to z is read as the item.
NamedAt(t, sp, wr, type, item, b, z) ==
    /\ HasAt(t, b, NamePart(type, item.name, sp))
    /\ Wrote(t, wr, item.val, b + Len(NamePart(type, item.name, sp)), z)

EndsWith(type, close) ==
    type \in {"object", "array"} /\ close = (IF type = "object" THEN 125 ELSE 93)

\* An element or a member is read back if the values a level down are.
LEMMA NamedBack ==
    ASSUME NEW t \in Seq(Bytes), NEW b \in Cursors(t), NEW sp \in Nat, NEW S, NEW wr, NEW rd,
           Back(t, S, wr, rd), NEW type, NEW close, EndsWith(type, close),
           NEW item \in ItemSet(close, S), NEW z,
           NamedAt(t, sp, wr, type, item, b, z)
    PROVE  Begun(t, b) /\ ItemAt(t, close, rd, b) = Good(item, z)
<1> DEFINE w == NamePart(type, item.name, sp)
           y == b + Len(w)
<1>1. HasAt(t, b, w) /\ Wrote(t, wr, item.val, y, z)
  BY DEF NamedAt
<1>2. CASE type = "object"
  <2>1. close = 125 /\ type # "array"
    BY <1>2 DEF EndsWith
  <2>2. /\ item.name \in Seq(Bytes) /\ item.val \in S
        /\ item = [name |-> item.name, val |-> item.val]
    BY <2>1 DEF ItemSet
  <2> DEFINE u == string_convert(item.name) \o Colon(sp)
  <2>3. w = u
    BY <2>1 DEF NamePart, Colon
  <2> HIDE DEF w
  <2>4. HasAt(t, b, u) /\ y = b + Len(u)
    BY <1>1, <2>3
  <2> HIDE DEF y
  <2>5. MemberAt(t, sp, wr, item.name, item.val, b, z)
    BY <1>1, <2>4 DEF MemberAt
  <2>6. Begun(t, b) /\ parse_json_member(t, b, rd) = Good(ItemOf(item.name, item.val), z)
    BY <2>2, <2>5, MemberBack
  <2>7. item = ItemOf(item.name, item.val)
    BY <2>2 DEF ItemOf
  <2> QED
    BY <2>1, <2>6, <2>7 DEF ItemAt
<1>3. CASE type = "array"
  <2>1. close = 93 /\ type # "object"
    BY <1>3 DEF EndsWith
  <2>2. /\ item.name = <<>> /\ item.val \in S
        /\ item = [name |-> item.name, val |-> item.val]
    BY <2>1 DEF ItemSet
  <2>3. w = <<>> /\ Len(<<>>) = 0 /\ b \in Nat
    <3>1. Len(t) \in Nat
      BY LenProperties
    <3>2. b \in Nat
      BY <3>1 DEF Cursors
    <3> QED
      BY <1>3, <3>2 DEF NamePart
  <2> HIDE DEF w
  <2>4. y = b
    BY <2>3
  <2> HIDE DEF y
  <2>5. Wrote(t, wr, item.val, b, z)
    BY <1>1, <2>4
  <2>6. Begun(t, b) /\ rd[b] = Good(item.val, z)
    BY <2>2, <2>5 DEF Back, Gives
  <2>7. ItemAt(t, close, rd, b) = Named(<<>>, Good(item.val, z))
    BY <2>1, <2>6 DEF ItemAt
  <2>8. Named(<<>>, Good(item.val, z)) = Good([name |-> <<>>, val |-> item.val], z)
    BY GoodFacts DEF Named
  <2> QED
    BY <2>2, <2>6, <2>7, <2>8
<1> QED
  BY <1>2, <1>3 DEF EndsWith

\* An item is read back, whatever stands in front of it.
LEMMA ItemBack ==
    ASSUME NEW t \in Seq(Bytes), NEW q \in Cursors(t), NEW sp \in Nat, NEW depth \in Nat,
           NEW S, NEW wr, NEW rd, Writer(S, sp, wr), Back(t, S, wr, rd),
           NEW v, TreeValue(v, S), NEW i \in 1 .. Len(v.items),
           HasAt(t, q, ItemText(v, i, sp, depth, wr)),
           NEW z, z = q + Len(ItemText(v, i, sp, depth, wr)), Ended(t, z)
    PROVE  /\ i # 1 => CommaAt(t, q)
           /\ ItemBegin(t, q, i) \in Cursors(t) /\ Begun(t, ItemBegin(t, q, i))
           /\ ItemAt(t, CloseOf(v), rd, ItemBegin(t, q, i)) = Good(v.items[i], z)
           /\ z \in Cursors(t)
<1> DEFINE item == v.items[i]
           L == Separator(i)
           P == Padding(sp, depth + 1)
           N == NamePart(v.type, item.name, sp)
           X == wr[item.val]
<1>1. /\ item \in ItemSet(CloseOf(v), S) /\ item.name \in Seq(Bytes) /\ item.val \in S
  BY ItemFacts
<1>2. ItemText(v, i, sp, depth, wr) = L \o P \o N \o X
  BY DEF ItemText, Separator
<1>3. EndsWith(v.type, CloseOf(v))
  BY DEF TreeValue, CloseOf, EndsWith
<1> HIDE DEF item
<1>4. L \in Seq(Bytes) /\ P \in Seq(Bytes) /\ N \in Seq(Bytes) /\ X \in Seq(Bytes)
  <2>1. L \in Seq(Bytes)
    <3>1. 44 \in Bytes
      BY DEF Bytes
    <3> QED
      BY <3>1 DEF Separator
  <2>2. depth + 1 \in Nat
    OBVIOUS
  <2>3. P \in Seq(Bytes)
    BY <2>2, PaddingBytes
  <2>4. N \in Seq(Bytes)
    BY <1>1, NamePartIs
  <2>5. X \in Seq(Bytes)
    <3>1. X \in Seq(Ink(sp))
      BY <1>1 DEF Writer
    <3>2. Seq(Ink(sp)) \subseteq Seq(Bytes)
      BY InkFacts, SeqWider
    <3> QED
      BY <3>1, <3>2
  <2> QED
    BY <2>1, <2>3, <2>4, <2>5
<1> DEFINE l == q + Len(L)
           b == l + Len(P)
           y == b + Len(N)
<1>5. q \in Nat
  <2>1. Len(t) \in Nat
    BY LenProperties
  <2> QED
    BY <2>1 DEF Cursors
<1>6. /\ HasAt(t, q, L) /\ HasAt(t, l, P) /\ HasAt(t, b, N) /\ HasAt(t, y, X)
      /\ z = y + Len(X)
  <2>1. HasAt(t, q, L \o P \o N \o X) /\ z = q + Len(L \o P \o N \o X)
    BY <1>2
  <2> HIDE DEF L, P, N, X
  <2> QED
    BY <1>4, <1>5, <2>1, HasFour
<1>7. /\ l \in Cursors(t) /\ (i # 1 => CommaAt(t, q))
      /\ ItemBegin(t, q, i) = SkipSpaces(t, l)
  BY <1>6, CommaBack
<1> HIDE DEF L, l
<1>8. b \in Cursors(t)
  <2> HIDE DEF P
  <2> QED
    BY <1>4, <1>6, <1>7, HasEnds
<1>9. Begun(t, b) /\ ItemAt(t, CloseOf(v), rd, b) = Good(item, z)
  <2>1. Wrote(t, wr, item.val, y, z)
    BY <1>6 DEF Wrote
  <2> HIDE DEF b
  <2>2. NamedAt(t, sp, wr, v.type, item, b, z)
    BY <1>6, <2>1 DEF NamedAt
  <2> QED
    BY <1>1, <1>3, <1>8, <2>2, NamedBack
<1>10. SkipSpaces(t, l) = b
  <2>1. HasAt(t, l, Padding(sp, depth + 1)) /\ At(t, l + Len(Padding(sp, depth + 1))) \notin Blanks
    BY <1>6, <1>9, StarterFacts
  <2>2. depth + 1 \in Nat
    OBVIOUS
  <2> QED
    BY <1>7, <2>1, <2>2, SkipsPadding
<1>11. z \in Cursors(t)
  <2>1. y \in Cursors(t)
    <3> HIDE DEF b, N
    <3> QED
      BY <1>4, <1>6, <1>8, HasEnds
  <2> HIDE DEF y, X
  <2> QED
    BY <1>4, <1>6, <2>1, HasEnds
<1> HIDE DEF b
<1> QED
  BY <1>7, <1>8, <1>9, <1>10, <1>11 DEF item

\* Behind the last item the loop ends.
LEMMA LastItem ==
    ASSUME NEW t, NEW close, Closes(close), NEW x, NEW e, NEW I, NEW c,
           SkipSpaces(t, e) = c, At(t, c) = close
    PROVE  NextItem(t, close, Good(x, e), I) = Good(<<x>>, c + 1)
<1> DEFINE item == Good(x, e)
<1>1. item.ok /\ item.val = x /\ item.end = e
  BY GoodFacts
<1> HIDE DEF item
<1>2. NextOf(t, item) = c
  BY <1>1 DEF NextOf
<1>3. Closing(t, close, item)
  BY <1>1, <1>2 DEF Closing
<1>4. NextItem(t, close, item, I) = Good(<<item.val>>, NextOf(t, item) + 1)
  BY <1>3, NextCases
<1>5. NextItem(t, close, item, I) = Good(<<x>>, c + 1)
  BY <1>1, <1>2, <1>4
<1> QED
  BY <1>5 DEF item

\* Behind another it goes on.
LEMMA MoreItems ==
    ASSUME NEW t \in Seq(Bytes), NEW close, Closes(close), NEW x, NEW e \in Cursors(t), NEW I,
           CommaAt(t, e), NEW r, NEW z, I[SkipSpaces(t, e + 1)] = Good(r, z)
    PROVE  NextItem(t, close, Good(x, e), I) = Good(<<x>> \o r, z)
<1> DEFINE item == Good(x, e)
<1>1. item.ok /\ item.val = x /\ item.end = e
  BY GoodFacts
<1>2. SkipSpaces(t, e) = e
  <2>1. At(t, e) \notin Blanks
    BY DEF CommaAt, Blanks
  <2>2. e <= e /\ \A k \in e .. e - 1 : At(t, k) \in Blanks
    <3>1. Len(t) \in Nat
      BY LenProperties
    <3>2. e \in Nat
      BY <3>1 DEF Cursors
    <3> QED
      BY <3>2
  <2> QED
    BY <2>1, <2>2, SkipsTo
<1> HIDE DEF item
<1>3. NextOf(t, item) = e
  BY <1>1, <1>2 DEF NextOf
<1>4. Comma(t, item)
  BY <1>1, <1>3 DEF Comma, CommaAt
<1>5. OthersIn(I, t, item) = Good(r, z)
  BY <1>3 DEF OthersIn, OthersOf
<1>6. NextItem(t, close, item, I) = Before(item.val, OthersIn(I, t, item))
  BY <1>4, NextCases
<1>7. NextItem(t, close, item, I) = Before(x, Good(r, z))
  BY <1>1, <1>5, <1>6
<1>8. Before(x, Good(r, z)) = Good(<<x>> \o r, z)
  BY GoodFacts DEF Before
<1> QED
  BY <1>7, <1>8 DEF item

\* Behind an item that is written comes what ends a number.
LEMMA BlanksEnd ==
    ASSUME NEW t, NEW q \in Nat, NEW w \in Seq(Bytes), HasAt(t, q, w),
           \A i \in DOMAIN w : w[i] \in Blanks, Ended(t, q + Len(w))
    PROVE  Ended(t, q)
<1>1. Len(w) \in Nat
  BY LenProperties
<1>2. CASE Len(w) = 0
  <2>1. q + Len(w) = q
    BY <1>2
  <2> QED
    BY <2>1
<1>3. CASE Len(w) # 0
  <2>1. q \in q .. q + Len(w) - 1
    BY <1>1, <1>3
  <2>2. At(t, q) \in Blanks
    BY <2>1, BlankRun
  <2> QED
    BY <2>2 DEF Ended, Blanks, DigitBytes
<1> QED
  BY <1>2, <1>3

\* What closes an array or an object.
LEMMA CloserFacts ==
    ASSUME NEW v
    PROVE  Closes(CloseOf(v)) /\ CloseOf(v) \notin Blanks /\ CloseOf(v) \notin DigitBytes
           /\ CloseOf(v) # 0
  BY DEF Closes, CloseOf, Blanks, DigitBytes

\* The closing bracket or brace behind a padding.
ClosedAt(t, v, sp, depth, e, c) ==
    HasAt(t, e, Padding(sp, depth)) /\ c = e + Len(Padding(sp, depth)) /\ At(t, c) = CloseOf(v)

\* It is found behind the padding.
LEMMA ClosedBack ==
    ASSUME NEW t \in Seq(Bytes), NEW v, NEW sp \in Nat, NEW depth \in Nat, NEW e \in Cursors(t),
           NEW c, ClosedAt(t, v, sp, depth, e, c)
    PROVE  /\ SkipSpaces(t, e) = c /\ c \in Cursors(t) /\ c + 1 \in Cursors(t)
           /\ At(t, c) = CloseOf(v) /\ Ended(t, e)
<1> DEFINE w == Padding(sp, depth)
<1>1. HasAt(t, e, w) /\ c = e + Len(w) /\ At(t, c) = CloseOf(v)
  BY DEF ClosedAt
<1>2. w \in Seq(Bytes) /\ \A i \in DOMAIN w : w[i] \in Blanks
  BY PaddingBytes
<1>3. At(t, c) \notin Blanks /\ Ended(t, c) /\ At(t, c) # 0
  BY <1>1, CloserFacts DEF Ended
<1>4. SkipSpaces(t, e) = c /\ c \in Cursors(t)
  BY <1>1, <1>3, SkipsPadding
<1>5. c + 1 \in Cursors(t)
  BY <1>3, <1>4, SkipPast
<1>6. e \in Nat
  <2>1. Len(t) \in Nat
    BY LenProperties
  <2> QED
    BY <2>1 DEF Cursors
<1> HIDE DEF w
<1>7. Ended(t, e)
  BY <1>1, <1>2, <1>3, <1>6, BlanksEnd
<1> QED
  BY <1>1, <1>4, <1>5, <1>7

\* The items are read back, from the last to the first (JsonParser.c:499-520).
LEMMA ItemsBack ==
    ASSUME NEW t \in Seq(Bytes), NEW q \in Cursors(t), NEW sp \in Nat, NEW depth \in Nat,
           NEW S, NEW wr, NEW rd, Writer(S, sp, wr), Back(t, S, wr, rd), Reader(t, S, rd),
           NEW v, TreeValue(v, S), Len(v.items) # 0,
           NEW pos, Positions(t, q, ItemTexts(v, sp, depth, wr), pos),
           NEW c, ClosedAt(t, v, sp, depth, pos[Len(v.items)], c)
    PROVE  /\ Begun(t, ItemBegin(t, q, 1)) /\ c + 1 \in Cursors(t)
           /\ parse_json_items(t, CloseOf(v), rd)[ItemBegin(t, q, 1)] = Good(v.items, c + 1)
<1> DEFINE n == Len(v.items)
           close == CloseOf(v)
           I == parse_json_items(t, close, rd)
           M == ItemSet(close, S)
           ss == ItemTexts(v, sp, depth, wr)
           B(i) == ItemBegin(t, pos[i - 1], i)
           D == {i \in 1 .. n : /\ i # 1 => CommaAt(t, pos[i - 1])
                                /\ Begun(t, B(i))
                                /\ I[B(i)] = Good(SubSeq(v.items, i, n), c + 1)}
<1>1. n \in Nat /\ v.items \in Seq(M) /\ Closes(close)
  <2>1. v.items \in Seq(M)
    BY DEF TreeValue
  <2> HIDE DEF M
  <2> QED
    BY <2>1, LenProperties, CloserFacts
<1>2. /\ ss \in Seq(Seq(Bytes)) /\ Len(ss) = n
      /\ \A i \in 1 .. n : ss[i] = ItemText(v, i, sp, depth, wr)
  <2>1. /\ ss \in Seq(Seq(Ink(sp))) /\ Len(ss) = n
        /\ \A i \in 1 .. n : ss[i] = ItemText(v, i, sp, depth, wr)
    BY ItemTextTyped
  <2>2. Seq(Ink(sp)) \subseteq Seq(Bytes)
    BY InkFacts, SeqWider
  <2> DEFINE A == Seq(Ink(sp))
             C == Seq(Bytes)
  <2>3. A \subseteq C /\ ss \in Seq(A)
    BY <2>1, <2>2
  <2> HIDE DEF ss, A, C
  <2>4. ss \in Seq(C)
    BY <2>3, SeqWider
  <2> QED
    BY <2>1, <2>4 DEF C
<1> HIDE DEF ss
<1>3. /\ pos[0] = q
      /\ \A i \in 1 .. n : pos[i] = pos[i - 1] + Len(ss[i]) /\ HasAt(t, pos[i - 1], ss[i])
  BY <1>2 DEF Positions, ss
<1>4. \A i \in 0 .. n : pos[i] \in Cursors(t)
  <2>1. Positions(t, q, ss, pos)
    BY DEF ss
  <2> QED
    BY <1>2, <2>1, PositionsTyped
<1>5. /\ SkipSpaces(t, pos[n]) = c /\ c + 1 \in Cursors(t) /\ At(t, c) = close
      /\ Ended(t, pos[n])
  <2>1. pos[n] \in Cursors(t)
    BY <1>1, <1>4
  <2> QED
    BY <2>1, ClosedBack
<1>6. \A p \in Cursors(t) : I[p] = NextItem(t, close, ItemAt(t, close, rd, p), I)
  BY <1>1, ItemsSolved
<1> HIDE DEF I, M
<1>7. D = 1 .. n
  <2>1. D \subseteq 1 .. n
    OBVIOUS
  <2>2. ASSUME NEW i \in 1 .. n, \A j \in i + 1 .. n : j \in D
        PROVE  i \in D
    <3>1. i \in 0 .. n /\ i - 1 \in 0 .. n /\ i + 1 \in Nat
      BY <1>1
    <3>2. i # n => /\ CommaAt(t, pos[i]) /\ Begun(t, SkipSpaces(t, pos[i] + 1))
                   /\ I[SkipSpaces(t, pos[i] + 1)] = Good(SubSeq(v.items, i + 1, n), c + 1)
      <4> SUFFICES ASSUME i # n
                   PROVE  /\ CommaAt(t, pos[i]) /\ Begun(t, SkipSpaces(t, pos[i] + 1))
                          /\ I[SkipSpaces(t, pos[i] + 1)]
                                = Good(SubSeq(v.items, i + 1, n), c + 1)
        OBVIOUS
      <4>1. i + 1 \in i + 1 .. n /\ i + 1 # 1 /\ (i + 1) - 1 = i
        BY <1>1
      <4>2. /\ CommaAt(t, pos[i]) /\ Begun(t, B(i + 1))
            /\ I[B(i + 1)] = Good(SubSeq(v.items, i + 1, n), c + 1)
        BY <2>2, <4>1
      <4>3. B(i + 1) = SkipSpaces(t, pos[i] + 1)
        BY <4>1 DEF ItemBegin
      <4> QED
        BY <4>2, <4>3
    <3>3. Ended(t, pos[i])
      <4>1. CASE i = n
        BY <1>5, <4>1
      <4>2. CASE i # n
        BY <3>2, <4>2 DEF Ended, CommaAt, DigitBytes
      <4> QED
        BY <4>1, <4>2
    <3>4. /\ i # 1 => CommaAt(t, pos[i - 1])
          /\ B(i) \in Cursors(t) /\ Begun(t, B(i))
          /\ ItemAt(t, close, rd, B(i)) = Good(v.items[i], pos[i])
      <4>1. /\ pos[i - 1] \in Cursors(t)
            /\ HasAt(t, pos[i - 1], ItemText(v, i, sp, depth, wr))
            /\ pos[i] = pos[i - 1] + Len(ItemText(v, i, sp, depth, wr))
        BY <1>2, <1>3, <1>4, <3>1
      <4> HIDE DEF n
      <4> QED
        BY <3>3, <4>1, ItemBack DEF n
    <3>5. I[B(i)] = NextItem(t, close, Good(v.items[i], pos[i]), I)
      <4> HIDE DEF B, close
      <4> QED
        BY <1>6, <3>4
    <3>6. SubSeq(v.items, i, n) = <<v.items[i]>> \o SubSeq(v.items, i + 1, n)
      BY <1>1, Rest
    <3>7. CASE i = n
      <4>1. SubSeq(v.items, i + 1, n) = <<>>
        BY <1>1, <3>7, RestFacts
      <4>2. SubSeq(v.items, i, n) = <<v.items[i]>>
        <5>1. SubSeq(v.items, i, n) = <<v.items[i]>> \o <<>>
          BY <3>6, <4>1
        <5> DEFINE one == <<v.items[i]>>
        <5>2. v.items[i] \in M
          BY <1>1, ElementOfSeq
        <5>3. one \in Seq(M)
          BY <5>2
        <5> HIDE DEF one
        <5>4. one \o <<>> = one
          BY <5>3, ConcatEmptySeq
        <5> QED
          BY <5>1, <5>4 DEF one
      <4>3. NextItem(t, close, Good(v.items[i], pos[i]), I) = Good(<<v.items[i]>>, c + 1)
        BY <1>1, <1>5, <3>7, LastItem
      <4> QED
        BY <3>4, <3>5, <4>2, <4>3
    <3>8. CASE i # n
      <4> DEFINE r == SubSeq(v.items, i + 1, n)
                 z == c + 1
      <4> HIDE DEF r, z
      <4>1. I[SkipSpaces(t, pos[i] + 1)] = Good(r, z) /\ CommaAt(t, pos[i])
        BY <3>2, <3>8 DEF r, z
      <4>2. pos[i] \in Cursors(t)
        BY <1>4, <3>1
      <4>3. NextItem(t, close, Good(v.items[i], pos[i]), I) = Good(<<v.items[i]>> \o r, z)
        BY <1>1, <4>1, <4>2, MoreItems
      <4> QED
        BY <3>4, <3>5, <3>6, <4>3 DEF r, z
    <3> QED
      BY <3>7, <3>8
  <2> HIDE DEF D, n
  <2> QED
    BY <1>1, <2>1, <2>2, Downward
<1>8. Begun(t, B(1)) /\ I[B(1)] = Good(SubSeq(v.items, 1, n), c + 1)
  <2>1. 1 \in D
    BY <1>1, <1>7
  <2> QED
    BY <2>1
<1>9. SubSeq(v.items, 1, n) = v.items
  BY <1>1, RestFacts
<1>10. B(1) = ItemBegin(t, q, 1)
  <2>1. 1 - 1 = 0
    OBVIOUS
  <2> QED
    BY <1>3, <2>1
<1> HIDE DEF B, n
<1> QED
  BY <1>5, <1>8, <1>9, <1>10 DEF I, close

OpenOf(v) == IF v.type = "object" THEN 123 ELSE 91

\* The items that are read make the value again.
LEMMA TreeRead ==
    ASSUME NEW v, NEW S, TreeValue(v, S), NEW z
    PROVE  Tree(OpenOf(v), Good(v.items, z)) = Good(v, z)
<1>1. Tree(OpenOf(v), Good(v.items, z)) =
         Good([type |-> IF OpenOf(v) = 123 THEN "object" ELSE "array", items |-> v.items], z)
  BY GoodFacts DEF Tree
<1>2. (IF OpenOf(v) = 123 THEN "object" ELSE "array") = v.type
  BY DEF OpenOf, TreeValue
<1>3. v = [type |-> v.type, items |-> v.items]
  BY DEF TreeValue
<1> QED
  BY <1>1, <1>2, <1>3

\* Where the parts of a tree are.
TreeParts(t, v, sp, depth, wr, p, e, c) ==
    /\ At(t, p) = OpenOf(v) /\ HasAt(t, p + 1, ItemsText(v, sp, depth, wr))
    /\ e = p + 1 + Len(ItemsText(v, sp, depth, wr)) /\ ClosedAt(t, v, sp, depth, e, c)
    /\ p + 1 \in Cursors(t) /\ e \in Cursors(t) /\ c \in Cursors(t)

\* The parts of an array or an object that is written.
LEMMA TreePartsAt ==
    ASSUME NEW t \in Seq(Bytes), NEW p \in Cursors(t), NEW sp \in Nat, NEW depth \in Nat,
           NEW S, NEW wr, Writer(S, sp, wr), NEW v, TreeValue(v, S),
           HasAt(t, p, tree_convert(v, sp, depth, wr)),
           NEW z, z = p + Len(tree_convert(v, sp, depth, wr))
    PROVE  \E e, c : TreeParts(t, v, sp, depth, wr, p, e, c) /\ z = c + 1
<1> DEFINE O == Opening(v)
           X == ItemsText(v, sp, depth, wr)
           P == Padding(sp, depth)
           C == Closer(v)
           q == p + Len(O)
           e == q + Len(X)
           c == e + Len(P)
<1>1. p \in Nat
  <2>1. Len(t) \in Nat
    BY LenProperties
  <2> QED
    BY <2>1 DEF Cursors
<1>2. O \in Seq(Bytes) /\ X \in Seq(Bytes) /\ P \in Seq(Bytes) /\ C \in Seq(Bytes)
  <2>1. O \in Seq(Ink(sp)) /\ X \in Seq(Ink(sp)) /\ C \in Seq(Ink(sp))
    BY TreeTextTyped
  <2>2. Seq(Ink(sp)) \subseteq Seq(Bytes)
    BY InkFacts, SeqWider
  <2> HIDE DEF O, X, C
  <2> QED
    BY <2>1, <2>2, PaddingBytes
<1>3. /\ HasAt(t, p, O) /\ HasAt(t, q, X) /\ HasAt(t, e, P) /\ HasAt(t, c, C)
      /\ z = c + Len(C)
  <2>1. HasAt(t, p, O \o X \o P \o C) /\ z = p + Len(O \o X \o P \o C)
    BY TreeTextIs
  <2> HIDE DEF O, X, P, C
  <2> QED
    BY <1>1, <1>2, <2>1, HasFour
<1>4. O = <<OpenOf(v)>> /\ C = <<CloseOf(v)>>
  BY DEF Opening, Closer, OpenOf, CloseOf
<1>5. Len(O) = 1 /\ Len(C) = 1
  BY <1>4
<1>6. q = p + 1 /\ z = c + 1
  BY <1>3, <1>5
<1>7. At(t, p) = OpenOf(v)
  BY <1>1, <1>3, <1>4, HasOne
<1>8. q \in Cursors(t) /\ e \in Cursors(t) /\ c \in Cursors(t)
  <2> HIDE DEF O, X, P
  <2>1. q \in Cursors(t)
    BY <1>2, <1>3, HasEnds
  <2>2. e \in Cursors(t)
    BY <1>2, <1>3, <2>1, HasEnds
  <2>3. c \in Cursors(t)
    BY <1>2, <1>3, <2>2, HasEnds
  <2> QED
    BY <2>1, <2>2, <2>3
<1>9. At(t, c) = CloseOf(v)
  <2> HIDE DEF c
  <2>1. c \in Nat
    <3>1. Len(t) \in Nat
      BY LenProperties
    <3> QED
      BY <1>8, <3>1 DEF Cursors
  <2> QED
    BY <1>3, <1>4, <2>1, HasOne
<1>10. ClosedAt(t, v, sp, depth, e, c)
  BY <1>3, <1>9 DEF ClosedAt
<1> HIDE DEF q
<1>11. TreeParts(t, v, sp, depth, wr, p, e, c)
  BY <1>3, <1>6, <1>7, <1>8, <1>10 DEF TreeParts
<1> HIDE DEF e, c
<1> QED
  BY <1>6, <1>11

\* Between the brackets of an empty tree are only blanks.
LEMMA EmptyBack ==
    ASSUME NEW t \in Seq(Bytes), NEW p \in Cursors(t), NEW sp \in Nat, NEW depth \in Nat,
           NEW wr, NEW v, v.items = <<>>, NEW e, NEW c,
           TreeParts(t, v, sp, depth, wr, p, e, c)
    PROVE  SkipSpaces(t, p + 1) = c
<1> DEFINE w == Padding(sp, 0)
           u == Padding(sp, depth)
           q == p + 1
<1>1. ItemsText(v, sp, depth, wr) = w
  BY DEF ItemsText
<1>2. /\ HasAt(t, q, w) /\ e = q + Len(w) /\ HasAt(t, e, u) /\ c = e + Len(u)
      /\ At(t, c) = CloseOf(v) /\ q \in Cursors(t) /\ e \in Cursors(t) /\ c \in Cursors(t)
  BY <1>1 DEF TreeParts, ClosedAt
<1>3. /\ w \in Seq(Bytes) /\ (\A i \in DOMAIN w : w[i] \in Blanks)
      /\ u \in Seq(Bytes) /\ (\A i \in DOMAIN u : u[i] \in Blanks)
  BY PaddingBytes
<1>4. q \in Nat /\ e \in Nat /\ c \in Nat /\ Len(w) \in Nat /\ Len(u) \in Nat
  <2>1. Len(t) \in Nat
    BY LenProperties
  <2> HIDE DEF q, w, u
  <2>2. Len(w) \in Nat /\ Len(u) \in Nat
    BY <1>3, LenProperties
  <2> QED
    BY <1>2, <2>1, <2>2 DEF Cursors
<1> HIDE DEF w, u, q
<1>5. \A r \in q .. e - 1 : At(t, r) \in Blanks
  BY <1>2, <1>3, <1>4, BlankRun
<1>6. \A r \in e .. c - 1 : At(t, r) \in Blanks
  <2>1. HasAt(t, e, u) /\ e \in Nat
    BY <1>2, <1>4
  <2>2. \A r \in e .. e + Len(u) - 1 : At(t, r) \in Blanks
    BY <1>3, <2>1, BlankRun
  <2> SUFFICES ASSUME NEW r \in e .. c - 1
               PROVE  At(t, r) \in Blanks
    OBVIOUS
  <2>3. r \in e .. e + Len(u) - 1
    BY <1>2, <1>4
  <2> QED
    BY <2>2, <2>3
<1>7. \A r \in q .. c - 1 : At(t, r) \in Blanks
  <2> SUFFICES ASSUME NEW r \in q .. c - 1
               PROVE  At(t, r) \in Blanks
    OBVIOUS
  <2>1. r \in q .. e - 1 \/ r \in e .. c - 1
    BY <1>4
  <2> QED
    BY <1>5, <1>6, <2>1
<1>8. q <= c /\ At(t, c) \notin Blanks
  BY <1>2, <1>4, CloserFacts
<1>9. SkipSpaces(t, q) = c
  BY <1>2, <1>7, <1>8, SkipsTo
<1> QED
  BY <1>9 DEF q

\* An array or an object is read back if the values a level down are
\* (Json.cc:743-835, JsonParser.c:533-612).
LEMMA TreeBack ==
    ASSUME NEW t \in Seq(Bytes), NEW p \in Cursors(t), NEW sp \in Nat, NEW depth \in Nat,
           NEW S, NEW wr, NEW rd, Writer(S, sp, wr), Back(t, S, wr, rd), Reader(t, S, rd),
           NEW v, TreeValue(v, S), HasAt(t, p, tree_convert(v, sp, depth, wr)),
           NEW z, z = p + Len(tree_convert(v, sp, depth, wr))
    PROVE  /\ At(t, p) = OpenOf(v) /\ z \in Cursors(t)
           /\ parse_json_tree(t, p, rd) = Good(v, z)
<1>1. PICK e, c : TreeParts(t, v, sp, depth, wr, p, e, c) /\ z = c + 1
  BY TreePartsAt
<1>2. /\ At(t, p) = OpenOf(v) /\ HasAt(t, p + 1, ItemsText(v, sp, depth, wr))
      /\ e = p + 1 + Len(ItemsText(v, sp, depth, wr)) /\ ClosedAt(t, v, sp, depth, e, c)
      /\ p + 1 \in Cursors(t) /\ e \in Cursors(t)
  BY <1>1 DEF TreeParts
<1>3. z \in Cursors(t) /\ At(t, c) = CloseOf(v)
  BY <1>1, <1>2, ClosedBack
<1> DEFINE begin == SkipSpaces(t, p + 1)
           close == CloseOf(v)
           I == parse_json_items(t, close, rd)
<1>4. OpenOf(v) + 2 = close
  BY DEF OpenOf, CloseOf
<1>5. parse_json_tree(t, p, rd) =
         IF At(t, begin) = close THEN Tree(OpenOf(v), Good(<<>>, begin + 1))
         ELSE Tree(OpenOf(v), I[begin])
  BY <1>2, <1>4, TreeIs
<1>6. Tree(OpenOf(v), Good(v.items, z)) = Good(v, z)
  BY TreeRead
<1> HIDE DEF begin, close, I
<1>7. CASE v.items = <<>>
  <2>1. begin = c
    BY <1>1, <1>7, EmptyBack DEF begin
  <2>2. parse_json_tree(t, p, rd) = Tree(OpenOf(v), Good(<<>>, c + 1))
    BY <1>3, <1>5, <2>1 DEF close
  <2> QED
    BY <1>1, <1>2, <1>3, <1>6, <1>7, <2>2
<1>8. CASE v.items # <<>>
  <2> DEFINE ss == ItemTexts(v, sp, depth, wr)
             n == Len(v.items)
  <2>1. ss \in Seq(Seq(Ink(sp))) /\ Len(ss) = n
    BY ItemTextTyped
  <2>2. n # 0
    <3>1. v.items \in Seq(ItemSet(CloseOf(v), S))
      BY DEF TreeValue
    <3> QED
      BY <1>8, <3>1, EmptySeq
  <2>3. ItemsText(v, sp, depth, wr) = FlattenSeq(ss)
    BY <1>8 DEF ItemsText
  <2>4. p + 1 \in Nat
    <3>1. Len(t) \in Nat
      BY LenProperties
    <3> QED
      BY <1>2, <3>1 DEF Cursors
  <2> HIDE DEF ss
  <2>5. PICK pos : Positions(t, p + 1, ss, pos)
    BY <1>2, <2>1, <2>3, <2>4, PartsAt
  <2>6. pos[n] = e
    BY <1>2, <2>1, <2>3, <2>5 DEF Positions
  <2>7. ClosedAt(t, v, sp, depth, pos[n], c)
    BY <1>2, <2>6
  <2>8. /\ Begun(t, ItemBegin(t, p + 1, 1))
        /\ parse_json_items(t, CloseOf(v), rd)[ItemBegin(t, p + 1, 1)] = Good(v.items, c + 1)
    BY <1>2, <2>2, <2>5, <2>7, ItemsBack DEF ss
  <2>9. ItemBegin(t, p + 1, 1) = begin
    BY DEF ItemBegin, begin
  <2>10. Begun(t, begin) /\ I[begin] = Good(v.items, z)
    BY <1>1, <2>8, <2>9 DEF I, close
  <2>11. At(t, begin) # close
    <3>1. close \in {93, 125}
      BY DEF close, CloseOf
    <3> QED
      BY <2>10, <3>1, StarterFacts
  <2>12. parse_json_tree(t, p, rd) = Tree(OpenOf(v), Good(v.items, z))
    BY <1>5, <2>10, <2>11
  <2> QED
    BY <1>2, <1>3, <1>6, <2>12
<1> QED
  BY <1>7, <1>8

-----------------------------------------------------------------------------
(* A value is read back.                                                    *)

Descends(t, n, sp, wr, rd) ==
    n # 0 => /\ Writer(Values[n - 1], sp, wr) /\ Reader(t, Values[n - 1], rd)
             /\ Back(t, Values[n - 1], wr, rd)

\* A string value is read back.
LEMMA StringValueBack ==
    ASSUME NEW t \in Seq(Bytes), NEW v, StringValue(v), NEW p \in Cursors(t),
           HasAt(t, p, string_convert(v.str)), NEW z, z = p + Len(string_convert(v.str))
    PROVE  At(t, p) = Quote /\ StringAt(t, p) = Good(v, z)
<1>1. v.str \in Seq(Bytes) /\ v = [type |-> "string", str |-> v.str]
  BY DEF StringValue
<1>2. At(t, p) = Quote /\ ReadString(t, p + 1) = Good(v.str, z)
  BY <1>1, StringBack
<1>3. StringOf(Good(v.str, z)) = Good([type |-> "string", str |-> v.str], z)
  BY GoodFacts DEF StringOf
<1> QED
  BY <1>1, <1>2, <1>3 DEF StringAt

\* A value is read back if those a level down are, unless a figure follows it.
LEMMA ValueBack ==
    ASSUME NEW t \in Seq(Bytes), NEW n \in Nat, NEW sp \in Nat, NEW depth \in Nat,
           NEW wr, NEW rd, Descends(t, n, sp, wr, rd), NEW v \in Values[n], NEW p \in Cursors(t),
           NEW w, w = ValueText(v, sp, depth, wr), HasAt(t, p, w),
           NEW z, z = p + Len(w), Ended(t, z)
    PROVE  Begun(t, p) /\ ValueAt(t, n, rd, p) = Good(v, z)
<1>1. CASE StringValue(v)
  <2>1. w = string_convert(v.str)
    BY <1>1, TextCases
  <2>2. At(t, p) = Quote /\ StringAt(t, p) = Good(v, z)
    BY <1>1, <2>1, StringValueBack
  <2>3. ValueAt(t, n, rd, p) = StringAt(t, p)
    BY <2>2, ValueCases
  <2> QED
    BY <2>2, <2>3 DEF Begun, Starters, Quote
<1>2. CASE NumberValue(v)
  <2>1. w = number_convert(v)
    BY <1>2, TextCases
  <2>2. At(t, p) \in DigitBytes \cup {45} /\ parse_json_number(t, p) = Good(v, z)
    BY <1>2, <2>1, NumberBack DEF Ended
  <2>3. ValueAt(t, n, rd, p) = parse_json_number(t, p)
    BY <2>2, ValueCases
  <2> QED
    BY <2>2, <2>3 DEF Begun, Starters
<1>3. ASSUME NEW l, LiteralValue(v, l)
      PROVE  Begun(t, p) /\ ValueAt(t, n, rd, p) = Good(v, z)
  <2>1. w = l.text /\ l \in Literals /\ v = Leaf(l.type)
    BY <1>3, TextCases DEF LiteralValue
  <2>2. HasAt(t, p, l.text) /\ z = p + Len(l.text)
    BY <2>1
  <2>3. At(t, p) \in {116, 102, 110} /\ parse_json_literal(t, p) = Good(v, z)
    BY <2>1, <2>2, LiteralBack
  <2>4. At(t, p) \notin DigitBytes \cup {Quote, 45, 91, 123}
    <3>1. \A c \in {116, 102, 110} : c \notin DigitBytes \cup {Quote, 45, 91, 123}
      BY DEF DigitBytes, Quote
    <3>2. At(t, p) \in {116, 102, 110}
      BY <2>3
    <3> QED
      BY <3>1, <3>2
  <2>5. ValueAt(t, n, rd, p) = parse_json_literal(t, p)
    BY <2>4, ValueCases
  <2> QED
    BY <2>3, <2>5 DEF Begun, Starters
<1>4. CASE n # 0 /\ n - 1 \in Nat /\ TreeValue(v, Values[n - 1])
  <2> DEFINE S == Values[n - 1]
  <2>1. TreeValue(v, S) /\ Writer(S, sp, wr) /\ Reader(t, S, rd) /\ Back(t, S, wr, rd)
    BY <1>4 DEF Descends
  <2>2. w = tree_convert(v, sp, depth, wr)
    BY <1>4, TextCases
  <2> HIDE DEF S
  <2>3. At(t, p) = OpenOf(v) /\ parse_json_tree(t, p, rd) = Good(v, z)
    BY <2>1, <2>2, TreeBack
  <2>4. At(t, p) \in {91, 123}
    BY <2>3 DEF OpenOf
  <2>5. ValueAt(t, n, rd, p) = TreeAt(t, n, rd, p)
    BY <2>4, ValueCases
  <2>6. ValueAt(t, n, rd, p) = parse_json_tree(t, p, rd)
    BY <1>4, <2>5 DEF TreeAt
  <2> QED
    BY <2>3, <2>4, <2>6 DEF Begun, Starters
<1> QED
  BY <1>1, <1>2, <1>3, <1>4, ValueKinds

\* What is written of the values of a level is read with as many levels left:
\* the depth limit is never met.
LEMMA LevelsBack ==
    ASSUME NEW t \in Seq(Bytes), NEW sp \in Nat, NEW f, Dumps(f, sp)
    PROVE  \A n \in 0 .. DepthLimit : Back(t, Values[n], f[n], parse_json_value(t)[n])
<1> DEFINE P == parse_json_value(t)
           Without == {n \in Nat : n <= DepthLimit /\ ~Back(t, Values[n], f[n], P[n])}
<1>1. DepthLimit \in Nat
  BY TextAssumption
<1>2. \A n \in Nat : /\ Reader(t, Values[n], P[n])
                     /\ \A p \in Cursors(t) : P[n][p] = ValueAt(t, n, P[n - 1], p)
  BY ParserSolved
<1> HIDE DEF P
<1>3. Without = {}
  <2> SUFFICES ASSUME Without # {}
               PROVE  FALSE
    OBVIOUS
  <2>1. PICK n \in Without : \A j \in Without : n <= j
    BY Smallest
  <2>2. n \in Nat /\ n <= DepthLimit /\ ~Back(t, Values[n], f[n], P[n]) /\ n \in 0 .. DepthLimit
    BY <1>1, <2>1
  <2> DEFINE wr == f[n - 1]
             rd == P[n - 1]
             depth == DepthLimit - n
  <2>3. depth \in Nat
    BY <1>1, <2>2
  <2>4. Descends(t, n, sp, wr, rd)
    <3> SUFFICES ASSUME n # 0
                 PROVE  /\ Writer(Values[n - 1], sp, wr) /\ Reader(t, Values[n - 1], rd)
                        /\ Back(t, Values[n - 1], wr, rd)
      BY DEF Descends
    <3>1. n - 1 \in Nat /\ n - 1 <= DepthLimit /\ ~(n <= n - 1) /\ n - 1 \in 0 .. DepthLimit
      BY <1>1, <2>2
    <3>2. Back(t, Values[n - 1], wr, rd)
      BY <2>1, <3>1
    <3>3. Writer(Values[n - 1], sp, wr)
      BY <3>1 DEF Dumps
    <3> QED
      BY <1>2, <3>1, <3>2, <3>3
  <2>5. /\ \A v \in Values[n] : f[n][v] = ValueText(v, sp, depth, wr)
        /\ \A p \in Cursors(t) : P[n][p] = ValueAt(t, n, rd, p)
    BY <1>2, <2>2 DEF Dumps
  <2> HIDE DEF wr, rd, depth
  <2>6. ASSUME NEW v \in Values[n], NEW p \in Cursors(t), NEW z, Wrote(t, f[n], v, p, z)
        PROVE  Begun(t, p) /\ Gives(P[n], p, v, z)
    <3>1. PICK w : w = f[n][v]
      OBVIOUS
    <3>2. w = ValueText(v, sp, depth, wr)
      BY <2>5, <3>1
    <3>3. HasAt(t, p, w) /\ z = p + Len(w) /\ Ended(t, z)
      BY <2>6, <3>1 DEF Wrote
    <3>4. Begun(t, p) /\ ValueAt(t, n, rd, p) = Good(v, z)
      BY <2>2, <2>3, <2>4, <3>2, <3>3, ValueBack
    <3> QED
      BY <2>5, <3>4 DEF Gives
  <2>7. Back(t, Values[n], f[n], P[n])
    BY <2>6 DEF Back
  <2> QED
    BY <2>2, <2>7
<1> SUFFICES ASSUME NEW n \in 0 .. DepthLimit
             PROVE  Back(t, Values[n], f[n], P[n])
  BY DEF P
<1> QED
  BY <1>1, <1>3

\* What is dumped of a value is read as the value.
LEMMA DumpBack ==
    ASSUME NEW sp \in Nat, NEW v \in Values[DepthLimit]
    PROVE  json_value_parse(value_convert(sp)[v]) = v
<1> DEFINE t == value_convert(sp)[v]
           z == Len(t) + 1
<1>1. t \in Seq(Bytes)
  BY DumpTyped
<1>2. PICK f : value_convert(sp) = f[DepthLimit] /\ Dumps(f, sp)
  BY DumpSolved
<1>3. t = f[DepthLimit][v] /\ DepthLimit \in 0 .. DepthLimit
  BY <1>2, TextAssumption
<1> HIDE DEF t
<1>4. Len(t) \in Nat /\ DOMAIN t = 1 .. Len(t) /\ Cursors(t) = 1 .. z
  <2>1. Len(t) \in Nat /\ DOMAIN t = 1 .. Len(t)
    BY <1>1, LenProperties
  <2> QED
    BY <2>1 DEF Cursors
<1>5. HasAt(t, 1, t)
  <2>1. \A i \in DOMAIN t : 1 + i - 1 = i /\ i \in DOMAIN t
    BY <1>4
  <2> QED
    BY <2>1 DEF HasAt, At
<1>6. 1 \in Cursors(t) /\ z \in Cursors(t) /\ z = 1 + Len(t)
  BY <1>4
<1>7. At(t, z) = 0
  <2>1. z \notin DOMAIN t
    BY <1>4
  <2> QED
    BY <2>1 DEF At
<1> HIDE DEF z
<1>8. Wrote(t, f[DepthLimit], v, 1, z)
  <2>1. Ended(t, z)
    BY <1>7 DEF Ended, DigitBytes
  <2> QED
    BY <1>3, <1>5, <1>6, <2>1 DEF Wrote
<1>9. Back(t, Values[DepthLimit], f[DepthLimit], parse_json_value(t)[DepthLimit])
  BY <1>1, <1>2, <1>3, LevelsBack
<1>10. Begun(t, 1) /\ ParsedAt(t, 1) = Good(v, z)
  BY <1>6, <1>8, <1>9 DEF Back, Gives, ParsedAt
<1>11. SkipSpaces(t, 1) = 1
  <2>1. At(t, 1) \notin Blanks
    BY <1>10, StarterFacts
  <2>2. 1 <= 1 /\ \A r \in 1 .. 1 - 1 : At(t, r) \in Blanks
    OBVIOUS
  <2> QED
    BY <1>1, <1>6, <2>1, <2>2, SkipsTo
<1>12. SkipSpaces(t, z) = z
  <2>1. At(t, z) \notin Blanks
    BY <1>7 DEF Blanks
  <2>2. z <= z /\ \A r \in z .. z - 1 : At(t, r) \in Blanks
    BY <1>4, <1>6
  <2> QED
    BY <1>1, <1>6, <2>1, <2>2, SkipsTo
<1>13. json_value_parse(t) = IF ParsedAt(t, 1).ok /\ SkipSpaces(t, ParsedAt(t, 1).end) = Len(t) + 1
                             THEN ParsedAt(t, 1).val ELSE Invalid
  BY <1>11, ParseIs
<1>14. json_value_parse(t) = v
  <2>1. ParsedAt(t, 1).ok /\ ParsedAt(t, 1).end = z /\ ParsedAt(t, 1).val = v
    BY <1>10, GoodFacts
  <2> QED
    BY <1>12, <1>13, <2>1 DEF z
<1> QED
  BY <1>14 DEF t

-----------------------------------------------------------------------------
(* The invariant.                                                           *)

\* What the variables hold.
TextTypeOK ==
    /\ text \in Seq(Bytes) /\ spaces \in Nat
    /\ value \in {None, Invalid} \cup Values[DepthLimit]
    /\ first \in {None, Invalid} \cup Values[DepthLimit]

\* Once the first text was parsed, there is its value, or the text is a dump of it.
DumpOfFirst ==
    /\ first = None => value = None
    /\ first # None /\ value # None => value = first
    /\ first # None /\ value = None =>
          first \in Values[DepthLimit] /\ text = value_convert(spaces)[first]

\* The inductive invariant.
TextInv == TextTypeOK /\ DumpOfFirst

\* No value is the mark for none.
LEMMA NoneIsNoValue ==
    /\ None # Invalid
    /\ \A v \in Values[DepthLimit] : v # None /\ v # Invalid
<1>1. None # Invalid
  BY DEF None, Invalid, Leaf
<1>2. ASSUME NEW v \in Values[DepthLimit]
      PROVE  v # None /\ v # Invalid
  <2>1. None.type = "none" /\ Invalid.type = "invalid"
    BY DEF None, Invalid, Leaf
  <2>2. v.type \in {"string", "number", "true", "false", "null", "object", "array"}
    <3>1. DepthLimit \in Nat
      BY TextAssumption
    <3>2. CASE StringValue(v)
      BY <3>2 DEF StringValue
    <3>3. CASE NumberValue(v)
      BY <3>3 DEF NumberValue
    <3>4. ASSUME NEW l, LiteralValue(v, l)
          PROVE  v.type \in {"true", "false", "null"}
      <4>1. l \in Literals /\ v.type = l.type
        BY <3>4 DEF LiteralValue
      <4> QED
        BY <4>1, LiteralNames
    <3>5. ASSUME TreeValue(v, Values[DepthLimit - 1])
          PROVE  v.type \in {"object", "array"}
      BY <3>5 DEF TreeValue
    <3> QED
      BY <3>1, <3>2, <3>3, <3>4, <3>5, ValueKinds
  <2> QED
    BY <2>1, <2>2
<1> QED
  BY <1>1, <1>2

\* It holds at the start.
LEMMA TextInit == Init => TextInv
<1> SUFFICES ASSUME Init
             PROVE  TextInv
  OBVIOUS
<1>1. text \in Seq(Bytes)
  BY TextAssumption DEF Init
<1>2. value = None /\ first = None /\ spaces = 0
  BY DEF Init
<1> QED
  BY <1>1, <1>2 DEF TextInv, TextTypeOK, DumpOfFirst

\* Every step keeps it: what is dumped is what was parsed first, and it is read
\* back as that.
LEMMA TextStep == TextInv /\ [Next]_state => TextInv'
<1> SUFFICES ASSUME TextInv, [Next]_state
             PROVE  TextInv'
  OBVIOUS
<1>0. TextTypeOK /\ DumpOfFirst
  BY DEF TextInv
<1>1. CASE ParseText
  <2>1. /\ first = None /\ value' = json_value_parse(text) /\ first' = value'
        /\ text' = text /\ spaces' = spaces
    BY <1>1 DEF ParseText
  <2>2. text \in Seq(Bytes)
    BY <1>0 DEF TextTypeOK
  <2>3. value' \in {Invalid} \cup Values[DepthLimit]
    BY <2>1, <2>2, ParseTyped
  <2>4. value' # None /\ first' # None
    BY <2>1, <2>3, NoneIsNoValue
  <2>5. TextTypeOK'
    BY <1>0, <2>1, <2>3 DEF TextTypeOK
  <2>6. DumpOfFirst'
    BY <2>1, <2>4 DEF DumpOfFirst
  <2> QED
    BY <2>5, <2>6 DEF TextInv
<1>2. CASE Dump
  <2>1. /\ value \notin {None, Invalid} /\ spaces' \in Spaces /\ value' = None
        /\ text' = value_convert(spaces')[value] /\ first' = first
    BY <1>2 DEF Dump
  <2>2. value \in Values[DepthLimit] /\ first # None /\ first = value
    BY <1>0, <2>1 DEF TextTypeOK, DumpOfFirst
  <2>3. spaces' \in Nat
    BY <2>1, TextAssumption
  <2>4. text' \in Seq(Bytes)
    BY <2>1, <2>2, <2>3, DumpTyped
  <2>5. TextTypeOK'
    BY <1>0, <2>1, <2>2, <2>3, <2>4 DEF TextTypeOK
  <2>6. DumpOfFirst'
    BY <2>1, <2>2 DEF DumpOfFirst
  <2> QED
    BY <2>5, <2>6 DEF TextInv
<1>3. CASE ParseDumped
  <2>1. /\ first # None /\ value = None /\ value' = json_value_parse(text)
        /\ text' = text /\ spaces' = spaces /\ first' = first
    BY <1>3 DEF ParseDumped
  <2>2. first \in Values[DepthLimit] /\ text = value_convert(spaces)[first] /\ spaces \in Nat
    BY <1>0, <2>1 DEF TextTypeOK, DumpOfFirst
  <2>3. value' = first
    BY <2>1, <2>2, DumpBack
  <2>4. TextTypeOK'
    BY <1>0, <2>1, <2>2, <2>3 DEF TextTypeOK
  <2>5. DumpOfFirst'
    BY <2>1, <2>2, <2>3, NoneIsNoValue DEF DumpOfFirst
  <2> QED
    BY <2>4, <2>5 DEF TextInv
<1>4. CASE UNCHANGED state
  BY <1>0, <1>4 DEF state, TextInv, TextTypeOK, DumpOfFirst
<1> QED
  BY <1>1, <1>2, <1>3, <1>4 DEF Next

\* What a text is of, for every text, any depth limit and any indentation.
THEOREM TextInvariant == Spec => []TextInv
  BY TextInit, TextStep, PTL DEF Spec

\* What was parsed is read back from what is dumped of it, on one line or
\* indented: every string and name, every number of up to 15 figures, trees of
\* any shape down to the depth limit (Json.cc:669-835, JsonParser.c:739-760).
THEOREM ReadBackCorrect == Spec => []ReadBack
<1>1. TextInv => ReadBack
  BY DEF TextInv, DumpOfFirst, ReadBack
<1> QED
  BY <1>1, TextInvariant, PTL

\* In every text, valid or not, and from every place in it: what the second pass
\* over a string writes fits into the buffer that was allocated for what the
\* first one counted, and it never goes past the text (JsonParser.c:77-104,
\* 184-266).
THEOREM FitsBufferCorrect == Spec => []FitsBuffer
<1>1. TextInv => FitsBuffer
  <2> SUFFICES ASSUME TextInv, NEW p \in DOMAIN text
               PROVE  FitsAt(text, p)
    BY DEF FitsBuffer, FitsAt
  <2>1. text \in Seq(Bytes)
    BY DEF TextInv, TextTypeOK
  <2>2. Len(text) \in Nat /\ DOMAIN text = 1 .. Len(text)
    BY <2>1, LenProperties
  <2>3. p \in Cursors(text)
    BY <2>2 DEF Cursors
  <2> QED
    BY <2>1, <2>3, Fits
<1> QED
  BY <1>1, TextInvariant, PTL

\* A dump without indentation is one line, whatever the value is of
\* (Json.cc:698-735, ToolMCP.cc:87, Callback.cc:454).
THEOREM OneLineCorrect == Spec => []OneLine
<1>1. TextInv => OneLine
  <2> SUFFICES ASSUME TextInv, first # None, value = None, spaces = 0, NEW p \in DOMAIN text
               PROVE  text[p] >= 32
    BY DEF OneLine
  <2>1. first \in Values[DepthLimit] /\ text = value_convert(0)[first]
    BY DEF TextInv, DumpOfFirst
  <2>2. text \in Seq(Ink(0))
    BY <2>1, DumpTyped
  <2>3. Ink(0) = 32 .. 255
    BY DEF Ink
  <2>4. text[p] \in 32 .. 255
    BY <2>2, <2>3, ElementOfSeq, LenProperties
  <2> QED
    BY <2>4
<1> QED
  BY <1>1, TextInvariant, PTL

-----------------------------------------------------------------------------
(* The calculator.  Its functions find what they find behind where they     *)
(* begin, so each of its recursions has a solution: the loop over the       *)
(* operands by how much of the text is left, the factors by the levels.     *)

\* The blanks in front of an operator or an operand (ToolBuildin.cc:143-145).
White == {9, 10, 11, 12, 13, 32}

\* No blank is left, and none is skipped where none is.
LEMMA BlanksSkipped ==
    ASSUME NEW t \in Seq(Bytes), NEW p \in Cursors(t)
    PROVE  /\ skipSpaces(t, p) \in Cursors(t) /\ skipSpaces(t, p) >= p
           /\ At(t, skipSpaces(t, p)) \notin White
           /\ At(t, p) \notin White => skipSpaces(t, p) = p
           /\ At(t, p) \in White => /\ p + 1 \in Cursors(t)
                                    /\ skipSpaces(t, p) = skipSpaces(t, p + 1)
           /\ skipSpaces(t, skipSpaces(t, p)) = skipSpaces(t, p)
<1>1. 0 \notin White /\ \A q : skipSpaces(t, q) = Behind(t, q, White)
  BY DEF skipSpaces, White
<1> DEFINE s == skipSpaces(t, p)
<1>2. /\ s \in Cursors(t) /\ s >= p /\ At(t, s) \notin White
      /\ \A r \in p .. s - 1 : At(t, r) \in White
  BY <1>1, BehindFacts
<1>3. Len(t) \in Nat /\ Cursors(t) = 1 .. Len(t) + 1 /\ p \in Nat
  BY LenProperties DEF Cursors
<1>4. ASSUME NEW q \in Cursors(t), At(t, q) \notin White
      PROVE  skipSpaces(t, q) = q
  <2>1. q \in Nat /\ q <= q /\ \A r \in q .. q - 1 : At(t, r) \in White
    BY <1>3
  <2> QED
    BY <1>1, <1>4, <2>1, BehindTo
<1>5. ASSUME At(t, p) \in White
      PROVE  p + 1 \in Cursors(t) /\ s = skipSpaces(t, p + 1)
  <2>1. At(t, p) # 0
    BY <1>1, <1>5
  <2>2. p \in 1 .. Len(t)
    BY <1>3, <2>1, AtFacts
  <2>3. p + 1 \in Cursors(t) /\ p + 1 \in Nat
    BY <1>3, <2>2
  <2> DEFINE q == skipSpaces(t, p + 1)
  <2>4. /\ q \in Cursors(t) /\ q >= p + 1 /\ At(t, q) \notin White
        /\ \A r \in p + 1 .. q - 1 : At(t, r) \in White
    BY <1>1, <2>3, BehindFacts
  <2> HIDE DEF q
  <2>5. p <= q /\ \A r \in p .. q - 1 : At(t, r) \in White
    <3>1. q \in Nat
      BY <1>3, <2>4
    <3>2. \A r \in p .. q - 1 : r = p \/ r \in p + 1 .. q - 1
      BY <1>3, <3>1
    <3> QED
      BY <1>3, <1>5, <2>4, <3>1, <3>2
  <2>6. s = q
    BY <1>1, <2>4, <2>5, BehindTo
  <2> QED
    BY <2>3, <2>6 DEF q
<1> HIDE DEF s
<1> QED
  BY <1>2, <1>4, <1>5 DEF s

-----------------------------------------------------------------------------
(* Numbers that are calculated with.                                        *)

\* What is read of a word.
Readings == [num : Nat, den : Nat \ {0}, points : Nat, digits : Nat]

NoReading == [num |-> 0, den |-> 1, points |-> 0, digits |-> 0]

\* A byte more is a reading more.
LEMMA NextByteTyped ==
    ASSUME NEW x \in Readings, NEW c \in NumberBytes
    PROVE  NextByte(x, c) \in Readings
<1>1. PICK num \in Nat, den \in Nat \ {0}, points \in Nat, digits \in Nat :
         x = [num |-> num, den |-> den, points |-> points, digits |-> digits]
  BY DEF Readings
<1>2. c \in Nat /\ (c # Point => c >= 48)
  BY DEF NumberBytes, DigitBytes, Point
<1>3. CASE c = Point
  <2>1. NextByte(x, c) = [x EXCEPT !.points = @ + 1]
    BY <1>3 DEF NextByte
  <2> QED
    BY <2>1 DEF Readings
<1>4. CASE c # Point /\ x.points > 1
  BY <1>4 DEF NextByte
<1>5. CASE c # Point /\ ~(x.points > 1)
  <2> DEFINE n == 10 * num + c - 48
             d == IF points = 1 THEN 10 * den ELSE den
  <2>1. n \in Nat /\ d \in Nat \ {0} /\ digits + 1 \in Nat
    BY <1>2, <1>5
  <2>2. NextByte(x, c) = [num |-> n, den |-> d, points |-> points, digits |-> digits + 1]
    BY <1>1, <1>5 DEF NextByte
  <2> HIDE DEF n, d
  <2> QED
    BY <2>1, <2>2 DEF Readings
<1> QED
  BY <1>3, <1>4, <1>5

\* What stod reads of any word of figures and points; nothing of none.
LEMMA StodTyped ==
    ASSUME NEW word \in Seq(NumberBytes)
    PROVE  Stod(word) \in Readings /\ (word = <<>> => Stod(word).digits = 0)
<1> DEFINE I == 0 .. Len(word)
           V == [n \in I |-> Readings]
           G == [a \in I \X Readings |-> IF a[1] = 0 THEN NoReading ELSE NextByte(a[2], word[a[1]])]
           Def(f) == f = [n \in I |-> IF n = 0 THEN NoReading ELSE NextByte(f[n - 1], word[n])]
<1>1. Len(word) \in Nat /\ \A n \in 1 .. Len(word) : word[n] \in NumberBytes
  BY LenProperties, ElementOfSeq
<1>2. /\ I \subseteq Nat /\ 0 \in I /\ Len(word) \in I
      /\ \A n \in I : n # 0 => n - 1 \in I /\ n \in 1 .. Len(word)
  BY <1>1
<1>3. NoReading \in V[0]
  <2>1. NoReading \in Readings
    BY DEF NoReading, Readings
  <2> QED
    BY <1>2, <2>1
<1>4. \A n \in I : V[n] = Readings
  OBVIOUS
<1>5. \A n \in I : n # 0 => \A w \in Readings : G[<<n, w>>] = NextByte(w, word[n])
  OBVIOUS
<1>6. \A n \in I : n # 0 => \A w \in V[n - 1] : G[<<n, w>>] \in V[n]
  <2> SUFFICES ASSUME NEW n \in I, n # 0, NEW w \in V[n - 1]
               PROVE  G[<<n, w>>] \in V[n]
    OBVIOUS
  <2> HIDE DEF I, V, G
  <2>1. n - 1 \in I /\ n \in 1 .. Len(word)
    BY <1>2
  <2>2. w \in Readings
    BY <1>4, <2>1
  <2>3. NextByte(w, word[n]) \in Readings
    BY <1>1, <2>1, <2>2, NextByteTyped
  <2> QED
    BY <1>4, <1>5, <2>2, <2>3
<1>7. PICK g : Climbs(g, I, NoReading, G) /\ \A n \in I : g[n] \in V[n]
  <2> HIDE DEF I, V, G
  <2> QED
    BY <1>2, <1>3, <1>6, LevelRecursion
<1>8. \A n \in I : g[n] = IF n = 0 THEN NoReading ELSE NextByte(g[n - 1], word[n])
  <2> SUFFICES ASSUME NEW n \in I
               PROVE  g[n] = IF n = 0 THEN NoReading ELSE NextByte(g[n - 1], word[n])
    OBVIOUS
  <2> HIDE DEF I, V, G
  <2>1. g[n] = IF n = 0 THEN NoReading ELSE G[<<n, g[n - 1]>>]
    BY <1>7 DEF Climbs
  <2>2. n # 0 => g[n - 1] \in Readings
    BY <1>2, <1>4, <1>7
  <2> QED
    BY <1>5, <2>1, <2>2
<1>9. Def(g)
  <2> HIDE DEF I, G
  <2>1. g = [n \in I |-> g[n]]
    BY <1>7 DEF Climbs
  <2> QED
    BY <1>8, <2>1
<1> DEFINE r == CHOOSE f : Def(f)
<1>10. Stod(word) = r[Len(word)]
  BY DEF Stod, NoReading
<1>11. Def(r)
  <2> HIDE DEF Def
  <2> QED
    BY <1>9
<1> HIDE DEF r
<1>12. \A n \in I : r[n] = IF n = 0 THEN NoReading ELSE NextByte(r[n - 1], word[n])
  <2> HIDE DEF I
  <2> QED
    BY <1>11
<1> DEFINE Failing == {n \in I : r[n] \notin Readings}
<1>13. Failing = {}
  <2> SUFFICES ASSUME Failing # {}
               PROVE  FALSE
    OBVIOUS
  <2>1. PICK n \in Failing : \A k \in Failing : n <= k
    <3>1. Failing \subseteq Nat
      BY <1>2
    <3> HIDE DEF Failing
    <3> QED
      BY <3>1, Smallest
  <2>2. n \in I /\ r[n] \notin Readings /\ n \in Nat
    BY <1>2, <2>1
  <2>3. n # 0
    <3>1. NoReading \in Readings
      BY <1>2, <1>3
    <3> QED
      BY <1>12, <2>2, <3>1
  <2>4. n - 1 \in I /\ ~(n <= n - 1) /\ n \in 1 .. Len(word)
    BY <1>2, <2>2, <2>3
  <2>5. r[n - 1] \in Readings
    BY <2>1, <2>4
  <2>6. NextByte(r[n - 1], word[n]) \in Readings
    BY <1>1, <2>4, <2>5, NextByteTyped
  <2> QED
    BY <1>12, <2>2, <2>3, <2>6
<1>14. r[Len(word)] \in Readings
  BY <1>2, <1>13
<1>15. word = <<>> => r[Len(word)].digits = 0
  <2> SUFFICES ASSUME word = <<>>
               PROVE  r[Len(word)].digits = 0
    OBVIOUS
  <2>1. Len(word) = 0
    OBVIOUS
  <2>2. r[0] = NoReading
    BY <1>2, <1>12
  <2> QED
    BY <2>1, <2>2 DEF NoReading
<1> QED
  BY <1>10, <1>14, <1>15

\* What a function of the parser finds: a number and where it ends.
Found(t) == [ok : {TRUE}, val : Rationals, end : Cursors(t)]
Outcomes(t) == {Bad} \cup Found(t)

\* It finds it behind p, or at p.
FoundFrom(t, p, r) == r \in Outcomes(t) /\ (r.ok => r.end >= p)

\* What is found has a value and an end, and what is thrown has none.
LEMMA OutcomeFacts ==
    ASSUME NEW t
    PROVE  /\ Bad \in Outcomes(t) /\ ~Bad.ok
           /\ \A r \in Outcomes(t) : r.ok => r \in Found(t)
           /\ \A r \in Outcomes(t) : ~r.ok => r = Bad
           /\ \A r \in Found(t) : /\ r \in Outcomes(t) /\ r.ok
                                  /\ r.val \in Rationals /\ r.end \in Cursors(t)
                                  /\ r = Good(r.val, r.end)
           /\ \A v \in Rationals, q \in Cursors(t) :
                 /\ Good(v, q) \in Found(t) /\ Good(v, q) \in Outcomes(t)
                 /\ Good(v, q).ok /\ Good(v, q).val = v /\ Good(v, q).end = q
<1>1. /\ Bad \in Outcomes(t) /\ ~Bad.ok
      /\ \A r \in Outcomes(t) : r = Bad \/ r \in Found(t)
      /\ \A r \in Found(t) : r \in Outcomes(t)
  BY DEF Outcomes, Bad
<1>2. ASSUME NEW r \in Found(t)
      PROVE  r.ok /\ r.val \in Rationals /\ r.end \in Cursors(t) /\ r = Good(r.val, r.end)
  BY DEF Found, Good
<1>3. ASSUME NEW v \in Rationals, NEW q \in Cursors(t)
      PROVE  Good(v, q) \in Found(t) /\ Good(v, q).val = v /\ Good(v, q).end = q
  BY DEF Found, Good
<1> QED
  BY <1>1, <1>2, <1>3

\* The results of the arithmetic are rational numbers.
LEMMA RationalFacts ==
    ASSUME NEW x \in Rationals, NEW y \in Rationals
    PROVE  /\ Neg(x) \in Rationals /\ Plus(x, y) \in Rationals /\ Times(x, y) \in Rationals
           /\ y[1] # 0 => Quotient(x, y) \in Rationals
           /\ x = <<x[1], x[2]>> /\ x[1] \in Int /\ x[2] \in Nat /\ x[2] > 0
<1>1. PICK a \in Int, b \in Nat \ {0} : x = <<a, b>>
  BY DEF Rationals
<1>2. PICK c \in Int, d \in Nat \ {0} : y = <<c, d>>
  BY DEF Rationals
<1>3. x[1] = a /\ x[2] = b /\ y[1] = c /\ y[2] = d
  BY <1>1, <1>2
<1>4. -a \in Int /\ a * d + c * b \in Int /\ a * c \in Int /\ a * d \in Int /\ -(a * d) \in Int
  OBVIOUS
<1>5. b * d \in Nat \ {0}
  <2>1. \A i, j \in Nat \ {0} : i * j \in Nat \ {0}
    OBVIOUS
  <2> QED
    BY <2>1
<1>6. c > 0 => b * c \in Nat \ {0}
  <2>1. \A i, j \in Nat \ {0} : i * j \in Nat \ {0}
    OBVIOUS
  <2> QED
    BY <2>1
<1>7. c # 0 /\ ~(c > 0) => b * (-c) \in Nat \ {0}
  <2>1. \A i, j \in Nat \ {0} : i * j \in Nat \ {0}
    OBVIOUS
  <2>2. c # 0 /\ ~(c > 0) => -c \in Nat \ {0}
    OBVIOUS
  <2> QED
    BY <2>1, <2>2
<1>8. Neg(x) = <<-a, b>> /\ Plus(x, y) = <<a * d + c * b, b * d>> /\ Times(x, y) = <<a * c, b * d>>
  BY <1>3 DEF Neg, Plus, Times
<1>9. Quotient(x, y) = IF c > 0 THEN <<a * d, b * c>> ELSE <<-(a * d), b * (-c)>>
  BY <1>3 DEF Quotient
<1>10. Neg(x) \in Rationals /\ Plus(x, y) \in Rationals /\ Times(x, y) \in Rationals
  <2> DEFINE s == a * d + c * b
             m == b * d
             n == a * c
             o == -a
  <2>1. s \in Int /\ m \in Nat \ {0} /\ n \in Int /\ o \in Int
    BY <1>4, <1>5
  <2>2. Neg(x) = <<o, b>> /\ Plus(x, y) = <<s, m>> /\ Times(x, y) = <<n, m>>
    BY <1>8
  <2> HIDE DEF s, m, n, o
  <2> QED
    BY <2>1, <2>2 DEF Rationals
<1>11. ASSUME c # 0
       PROVE  Quotient(x, y) \in Rationals
  <2> DEFINE n == IF c > 0 THEN a * d ELSE -(a * d)
             m == IF c > 0 THEN b * c ELSE b * (-c)
  <2>1. n \in Int /\ m \in Nat \ {0}
    BY <1>4, <1>6, <1>7, <1>11
  <2>2. Quotient(x, y) = <<n, m>>
    BY <1>9
  <2> HIDE DEF n, m
  <2> QED
    BY <2>1, <2>2 DEF Rationals
<1>12. b > 0
  OBVIOUS
<1> QED
  BY <1>1, <1>3, <1>10, <1>11, <1>12

Signs == Sums \cup Products

\* An operator gives a number, unless it divides by zero.
LEMMA ApplyTyped ==
    ASSUME NEW x \in Rationals, NEW y \in Rationals, NEW op \in Signs, ~Divides(op, y)
    PROVE  Apply(x, op, y) \in Rationals
<1>1. /\ op \in {43, 45, 42, 47}
      /\ op = 43 => Apply(x, op, y) = Plus(x, y)
      /\ op = 45 => Apply(x, op, y) = Plus(x, Neg(y))
      /\ op = 42 => Apply(x, op, y) = Times(x, y)
      /\ op = 47 => Apply(x, op, y) = Quotient(x, y)
  BY DEF Signs, Sums, Products, PlusSign, Minus, Star, Slash, Apply
<1>2. op = 47 => y[1] # 0
  BY DEF Divides, Slash
<1>3. Neg(y) \in Rationals /\ Plus(x, y) \in Rationals /\ Times(x, y) \in Rationals
      /\ (y[1] # 0 => Quotient(x, y) \in Rationals)
  BY RationalFacts
<1>4. Plus(x, Neg(y)) \in Rationals
  BY <1>3, RationalFacts
<1> QED
  BY <1>1, <1>2, <1>3, <1>4

\* A number is read where one is, and a zero where there is none
\* (ToolBuildin.cc:132-141).
LEMMA NumberParsed ==
    ASSUME NEW t \in Seq(Bytes), NEW p \in Cursors(t)
    PROVE  /\ FoundFrom(t, p, parseNumber(t, p))
           /\ \A w \in Seq(NumberBytes) :
                 /\ Stod(w).digits > 0 /\ HasAt(t, p, w) /\ At(t, p + Len(w)) \notin NumberBytes
                 => parseNumber(t, p) = Good(<<Stod(w).num, Stod(w).den>>, p + Len(w))
<1> DEFINE b == skipSpaces(t, p)
           e == Behind(t, b, NumberBytes)
           s == SubSeq(t, b, e - 1)
<1>1. b \in Cursors(t) /\ b >= p
  BY BlanksSkipped
<1>2. /\ 0 \notin NumberBytes /\ NumberBytes \subseteq Bytes
      /\ \A c \in NumberBytes : c \notin White
  BY DEF NumberBytes, DigitBytes, Point, White, Bytes
<1>3. /\ e \in Cursors(t) /\ e >= b /\ At(t, e) \notin NumberBytes
      /\ \A r \in b .. e - 1 : At(t, r) \in NumberBytes
  <2> HIDE DEF b
  <2> QED
    BY <1>1, <1>2, BehindFacts
<1>4. Len(t) \in Nat /\ Cursors(t) = 1 .. Len(t) + 1
  BY LenProperties DEF Cursors
<1>5. parseNumber(t, p) = IF e = b THEN Good(<<0, 1>>, b)
                          ELSE IF Stod(s).digits = 0 THEN Bad
                          ELSE Good(<<Stod(s).num, Stod(s).den>>, e)
  BY DEF parseNumber
<1> HIDE DEF b, e
<1>6. b \in Nat /\ e \in Nat /\ b >= 1 /\ e - 1 <= Len(t) /\ p \in Nat /\ e - b \in Nat
  BY <1>1, <1>3, <1>4
<1>7. Len(s) = e - b /\ \A i \in 1 .. e - b : s[i] = t[b + i - 1] /\ At(t, b + i - 1) = t[b + i - 1]
  <2>1. \A i \in 1 .. e - b : b + i - 1 \in 1 .. Len(t) /\ b + i - 1 \in Int
    BY <1>4, <1>6
  <2>2. \A i \in 1 .. e - b : At(t, b + i - 1) = t[b + i - 1]
    BY <2>1, AtFacts
  <2>3. CASE b <= e - 1
    <3>1. b \in 1 .. Len(t) /\ e - 1 \in b - 1 .. Len(t)
      BY <1>4, <1>6, <2>3
    <3>2. Len(s) = (e - 1) - b + 1 /\ \A i \in 1 .. (e - 1) - b + 1 : s[i] = t[b + i - 1]
      BY <3>1, SubSeqProperties
    <3>3. (e - 1) - b + 1 = e - b
      BY <1>6
    <3> QED
      BY <2>2, <3>2, <3>3
  <2>4. CASE ~(b <= e - 1)
    <3>1. e = b /\ 1 .. e - b = {} /\ 1 .. (e - 1) - b + 1 = {}
      BY <1>3, <1>6, <2>4
    <3>2. s = <<>>
      BY <1>6, <3>1
    <3> QED
      BY <1>6, <3>1, <3>2
  <2> QED
    BY <2>3, <2>4
<1>8. s \in Seq(NumberBytes)
  <2>1. \A i \in 1 .. Len(s) : s[i] \in NumberBytes
    <3> SUFFICES ASSUME NEW i \in 1 .. Len(s)
                 PROVE  s[i] \in NumberBytes
      OBVIOUS
    <3>1. i \in 1 .. e - b /\ b + i - 1 \in b .. e - 1
      BY <1>6, <1>7
    <3> QED
      BY <1>3, <1>7, <3>1
  <2>2. s \in Seq(Bytes)
    <3>1. \A i \in b .. e - 1 : i \in 1 .. Len(t)
      BY <1>4, <1>6
    <3>2. \A i \in b .. e - 1 : t[i] \in Bytes
      BY <3>1, ElementOfSeq
    <3> QED
      BY <1>6, <3>2, SubSeqProperties
  <2>3. s = [i \in 1 .. Len(s) |-> s[i]] /\ Len(s) \in Nat
    BY <2>2, LenProperties
  <2> HIDE DEF s
  <2> QED
    BY <2>1, <2>3
<1>9. Stod(s) \in Readings
  BY <1>8, StodTyped
<1>10. <<0, 1>> \in Rationals /\ <<Stod(s).num, Stod(s).den>> \in Rationals
  <2> DEFINE x == Stod(s)
  <2>1. x \in Readings
    BY <1>9
  <2> HIDE DEF x
  <2>2. <<0, 1>> \in Rationals /\ <<x.num, x.den>> \in Rationals
    BY <2>1 DEF Readings, Rationals
  <2> QED
    BY <2>2 DEF x
<1>11. FoundFrom(t, p, parseNumber(t, p))
  <2> DEFINE v == <<Stod(s).num, Stod(s).den>>
             z == <<0, 1>>
  <2>1. z \in Rationals /\ v \in Rationals /\ e >= p
    BY <1>1, <1>3, <1>6, <1>10
  <2>2. parseNumber(t, p) \in {Good(z, b), Bad, Good(v, e)}
    BY <1>5
  <2> HIDE DEF v, z
  <2>3. parseNumber(t, p) = Good(z, b) \/ parseNumber(t, p) = Bad \/ parseNumber(t, p) = Good(v, e)
    BY <2>2
  <2> DEFINE r == parseNumber(t, p)
  <2>4. CASE r = Good(z, b)
    BY <1>1, <2>1, <2>4, OutcomeFacts DEF FoundFrom
  <2>5. CASE r = Bad
    BY <2>5, OutcomeFacts DEF FoundFrom
  <2>6. CASE r = Good(v, e)
    BY <1>3, <2>1, <2>6, OutcomeFacts DEF FoundFrom
  <2> QED
    BY <2>3, <2>4, <2>5, <2>6
<1>12. ASSUME NEW w \in Seq(NumberBytes), Stod(w).digits > 0, HasAt(t, p, w),
              At(t, p + Len(w)) \notin NumberBytes
       PROVE  parseNumber(t, p) = Good(<<Stod(w).num, Stod(w).den>>, p + Len(w))
  <2> DEFINE n == Len(w)
  <2>1. w # <<>>
    BY <1>12, StodTyped
  <2>2. /\ n \in Nat /\ n > 0 /\ DOMAIN w = 1 .. n /\ w = [i \in 1 .. n |-> w[i]]
        /\ \A i \in 1 .. n : w[i] \in NumberBytes
    BY <2>1, LenProperties, ElementOfSeq, EmptySeq
  <2>3. w \in Seq(Bytes)
    BY <1>2, <2>2
  <2>4. p + n \in Cursors(t)
    BY <1>12, <2>3, HasEnds
  <2> HIDE DEF n
  <2>5. \A i \in 1 .. n : At(t, p + i - 1) = w[i]
    BY <1>12, <2>2 DEF HasAt
  <2>6. b = p
    <3>1. 1 \in 1 .. n /\ p + 1 - 1 = p
      BY <1>6, <2>2
    <3>2. At(t, p + 1 - 1) \in NumberBytes
      BY <2>2, <2>5, <3>1
    <3>3. At(t, p) \notin White
      BY <1>2, <3>1, <3>2
    <3> QED
      BY <3>3, BlanksSkipped DEF b
  <2>7. e = p + n
    <3>1. \A r \in p .. (p + n) - 1 : At(t, r) \in NumberBytes
      <4> SUFFICES ASSUME NEW r \in p .. (p + n) - 1
                   PROVE  At(t, r) \in NumberBytes
        OBVIOUS
      <4>1. r - p + 1 \in 1 .. n /\ p + (r - p + 1) - 1 = r
        BY <1>6, <2>2
      <4>2. At(t, p + (r - p + 1) - 1) = w[r - p + 1]
        BY <2>5, <4>1
      <4> QED
        BY <2>2, <4>1, <4>2
    <3>2. p <= p + n /\ At(t, p + n) \notin NumberBytes
      BY <1>6, <1>12, <2>2 DEF n
    <3>3. Behind(t, p, NumberBytes) = p + n
      BY <1>2, <2>4, <3>1, <3>2, BehindTo
    <3> QED
      BY <2>6, <3>3 DEF e
  <2>8. s = w
    <3>1. e - b = n
      BY <1>6, <2>2, <2>6, <2>7
    <3>2. Len(s) = n /\ \A i \in 1 .. n : s[i] = w[i]
      <4>1. Len(s) = n /\ \A i \in 1 .. n : s[i] = At(t, b + i - 1)
        BY <1>7, <3>1
      <4> QED
        BY <2>5, <2>6, <4>1
    <3>3. s = [i \in 1 .. Len(s) |-> s[i]]
      BY <1>8, LenProperties
    <3> HIDE DEF s
    <3> QED
      BY <2>2, <3>2, <3>3
  <2>9. e # b /\ Stod(s).digits # 0
    <3>1. Stod(w) \in Readings
      BY StodTyped
    <3> DEFINE d == Stod(w).digits
    <3>2. d > 0 /\ d \in Nat
      BY <1>12, <3>1 DEF Readings
    <3> HIDE DEF d
    <3>3. d # 0
      BY <3>2
    <3>4. e # b
      BY <1>6, <2>2, <2>6, <2>7
    <3>5. Stod(s).digits = d
      BY <2>8 DEF d
    <3> QED
      BY <3>3, <3>4, <3>5
  <2> HIDE DEF s
  <2> QED
    BY <1>5, <2>7, <2>8, <2>9 DEF n
<1> QED
  BY <1>11, <1>12

-----------------------------------------------------------------------------
(* Sums and products.                                                       *)

\* The operands are read at any place, and behind it.
Operands(t, operand) == \A p \in Cursors(t) : FoundFrom(t, p, operand[p])

\* The operator behind what was read, and what is to its right.
OpOf(t, left) == skipSpaces(t, left.end)
SignOf(t, left) == At(t, OpOf(t, left))
RightOf(t, operand, left) == operand[OpOf(t, left) + 1]

\* What the loop does next: it ends, gives up, or goes on with one operand more.
NoMore(t, ops, left) == SignOf(t, left) \notin ops
Fails(t, ops, operand, left) ==
    /\ SignOf(t, left) \in ops
    /\ \/ ~RightOf(t, operand, left).ok
       \/ Divides(SignOf(t, left), RightOf(t, operand, left).val)
GoesOn(t, ops, operand, left) ==
    /\ SignOf(t, left) \in ops /\ RightOf(t, operand, left).ok
    /\ ~Divides(SignOf(t, left), RightOf(t, operand, left).val)
OneMore(t, operand, left) ==
    Good(Apply(left.val, SignOf(t, left), RightOf(t, operand, left).val),
         RightOf(t, operand, left).end)

LoopStep(t, ops, operand, more, left) ==
    CASE NoMore(t, ops, left) -> Good(left.val, OpOf(t, left))
      [] Fails(t, ops, operand, left) -> Bad
      [] OTHER -> more[OneMore(t, operand, left)]

\* There is nothing else the loop does next.
LEMMA LoopCases ==
    ASSUME NEW t, NEW ops, NEW operand, NEW more, NEW left
    PROVE  /\ NoMore(t, ops, left) \/ Fails(t, ops, operand, left)
                 \/ GoesOn(t, ops, operand, left)
           /\ NoMore(t, ops, left) =>
                 LoopStep(t, ops, operand, more, left) = Good(left.val, OpOf(t, left))
           /\ Fails(t, ops, operand, left) => LoopStep(t, ops, operand, more, left) = Bad
           /\ GoesOn(t, ops, operand, left) =>
                 LoopStep(t, ops, operand, more, left) = more[OneMore(t, operand, left)]
<1>1. NoMore(t, ops, left) \/ Fails(t, ops, operand, left) \/ GoesOn(t, ops, operand, left)
  BY DEF NoMore, Fails, GoesOn
<1>2. /\ ~(NoMore(t, ops, left) /\ Fails(t, ops, operand, left))
      /\ ~(NoMore(t, ops, left) /\ GoesOn(t, ops, operand, left))
      /\ ~(Fails(t, ops, operand, left) /\ GoesOn(t, ops, operand, left))
  BY DEF NoMore, Fails, GoesOn
<1> QED
  BY <1>1, <1>2 DEF LoopStep

\* One operand more takes the cursor forwards.
LEMMA LoopForward ==
    ASSUME NEW t \in Seq(Bytes), NEW ops, ops \subseteq Signs, NEW operand, Operands(t, operand),
           NEW left \in Found(t)
    PROVE  /\ OpOf(t, left) \in Cursors(t) /\ OpOf(t, left) >= left.end
           /\ SignOf(t, left) \in ops => OpOf(t, left) + 1 \in Cursors(t)
           /\ GoesOn(t, ops, operand, left) =>
                 /\ OneMore(t, operand, left) \in Found(t)
                 /\ OneMore(t, operand, left).end > left.end
<1>1. left.end \in Cursors(t) /\ left.val \in Rationals
  BY OutcomeFacts
<1> DEFINE op == OpOf(t, left)
           r == RightOf(t, operand, left)
           sign == SignOf(t, left)
<1>2. op \in Cursors(t) /\ op >= left.end
  BY <1>1, BlanksSkipped DEF OpOf
<1>3. Len(t) \in Nat /\ Cursors(t) = 1 .. Len(t) + 1
  BY LenProperties DEF Cursors
<1>4. ASSUME sign \in ops
      PROVE  op + 1 \in Cursors(t)
  <2>1. sign \in Signs
    BY <1>4
  <2>2. sign # 0
    <3> HIDE DEF sign
    <3> QED
      BY <2>1 DEF Signs, Sums, Products, PlusSign, Minus, Star, Slash
  <2>3. op \in Int
    BY <1>2, <1>3
  <2>4. op \in 1 .. Len(t)
    BY <2>2, <2>3, AtFacts DEF SignOf
  <2> QED
    BY <1>3, <2>4
<1>5. ASSUME GoesOn(t, ops, operand, left)
      PROVE  OneMore(t, operand, left) \in Found(t) /\ OneMore(t, operand, left).end > left.end
  <2>1. sign \in ops /\ sign \in Signs /\ r.ok /\ ~Divides(sign, r.val)
    BY <1>5 DEF GoesOn
  <2>2. op + 1 \in Cursors(t)
    BY <1>4, <2>1
  <2>3. FoundFrom(t, op + 1, r)
    BY <2>2 DEF Operands, RightOf
  <2>4. r \in Found(t) /\ r.end >= op + 1
    BY <2>1, <2>3, OutcomeFacts DEF FoundFrom
  <2>5. r.val \in Rationals /\ r.end \in Cursors(t)
    BY <2>4, OutcomeFacts
  <2> DEFINE v == Apply(left.val, sign, r.val)
  <2>6. v \in Rationals
    BY <1>1, <2>1, <2>5, ApplyTyped
  <2>7. OneMore(t, operand, left) = Good(v, r.end)
    BY DEF OneMore
  <2>8. r.end > left.end
    <3> DEFINE a == r.end
               b == left.end
    <3>1. a \in Nat /\ op \in Nat /\ b \in Nat /\ a >= op + 1 /\ op >= b
      BY <1>1, <1>2, <1>3, <2>4, <2>5
    <3> HIDE DEF a, b, op, r
    <3>2. a > b
      BY <3>1
    <3> QED
      BY <3>2 DEF a, b
  <2> HIDE DEF v, r
  <2>9. Good(v, r.end) \in Found(t) /\ Good(v, r.end).end = r.end
    BY <2>5, <2>6, OutcomeFacts
  <2> QED
    BY <2>7, <2>8, <2>9
<1> QED
  BY <1>2, <1>4, <1>5

\* The loop is a function of what was read before it (ToolBuildin.cc:88-97,
\* 100-114).
LEMMA LoopSolved ==
    ASSUME NEW t \in Seq(Bytes), NEW ops, ops \subseteq Signs, NEW operand, Operands(t, operand)
    PROVE  \A left \in Found(t) :
              /\ FoundFrom(t, left.end, Loop(t, ops, operand)[left])
              /\ Loop(t, ops, operand)[left]
                    = LoopStep(t, ops, operand, Loop(t, ops, operand), left)
<1> DEFINE S == Found(t)
           V == Outcomes(t)
           m == Len(t) + 1
           rank == [c \in S |-> m - c.end]
           Next0(f, c) == LoopStep(t, ops, operand, f, c)
           G == [a \in [S -> V] \X S |-> Next0(a[1], a[2])]
<1>0. m \in Nat /\ Cursors(t) = 1 .. m
  BY LenProperties DEF Cursors
<1>1. Bad \in V
  BY OutcomeFacts
<1>2. rank \in [S -> Nat] /\ \A c \in S : rank[c] = m - c.end
  <2> SUFFICES ASSUME NEW c \in S
               PROVE  m - c.end \in Nat
    OBVIOUS
  <2>1. c.end \in Cursors(t)
    BY OutcomeFacts
  <2> QED
    BY <1>0, <2>1
<1>3. ASSUME NEW f, NEW c \in S,
             GoesOn(t, ops, operand, c) =>
                FoundFrom(t, OneMore(t, operand, c).end, f[OneMore(t, operand, c)])
      PROVE  FoundFrom(t, c.end, Next0(f, c)) /\ Next0(f, c) \in V
  <2> DEFINE x == Next0(f, c)
             o == OneMore(t, operand, c)
  <2>1. /\ OpOf(t, c) \in Cursors(t) /\ OpOf(t, c) >= c.end
        /\ c.val \in Rationals /\ c.end \in Cursors(t)
        /\ GoesOn(t, ops, operand, c) => o \in Found(t) /\ o.end > c.end
    BY LoopForward, OutcomeFacts
  <2>2. CASE NoMore(t, ops, c)
    <3>1. x = Good(c.val, OpOf(t, c))
      BY <2>2, LoopCases
    <3> HIDE DEF x
    <3> QED
      BY <2>1, <3>1, OutcomeFacts DEF FoundFrom, x
  <2>3. CASE Fails(t, ops, operand, c)
    <3>1. x = Bad
      BY <2>3, LoopCases
    <3> HIDE DEF x
    <3> QED
      BY <3>1, OutcomeFacts DEF FoundFrom, x
  <2>4. CASE GoesOn(t, ops, operand, c)
    <3>1. x = f[o]
      BY <2>4, LoopCases
    <3>2. FoundFrom(t, o.end, x) /\ o.end > c.end /\ o.end \in Cursors(t)
      BY <1>3, <2>1, <2>4, <3>1, OutcomeFacts
    <3> HIDE DEF x, o
    <3>3. x \in Outcomes(t) /\ (x.ok => x.end >= o.end)
      BY <3>2 DEF FoundFrom
    <3>4. x.ok => x.end >= c.end
      <4> SUFFICES ASSUME x.ok
                   PROVE  x.end >= c.end
        OBVIOUS
      <4>1. x.end \in Cursors(t)
        BY <3>3, OutcomeFacts
      <4> DEFINE i == x.end
                 j == o.end
                 k == c.end
      <4>2. i \in Nat /\ j \in Nat /\ k \in Nat /\ i >= j /\ j > k
        BY <1>0, <2>1, <3>2, <3>3, <4>1
      <4> HIDE DEF i, j, k
      <4>3. i >= k
        BY <4>2
      <4> QED
        BY <4>3 DEF i, k
    <3> QED
      BY <3>3, <3>4 DEF FoundFrom, x
  <2> QED
    BY <2>2, <2>3, <2>4, LoopCases
<1>5. ASSUME NEW f, NEW g, NEW c \in S,
             \A d \in S : rank[d] < rank[c] => f[d] = g[d]
      PROVE  Next0(f, c) = Next0(g, c)
  <2> DEFINE o == OneMore(t, operand, c)
  <2>1. GoesOn(t, ops, operand, c) => f[o] = g[o]
    <3> SUFFICES ASSUME GoesOn(t, ops, operand, c)
                 PROVE  f[o] = g[o]
      OBVIOUS
    <3>1. o \in S /\ o.end > c.end /\ o.end \in Cursors(t) /\ c.end \in Cursors(t)
      BY LoopForward, OutcomeFacts
    <3> HIDE DEF o
    <3>2. rank[o] < rank[c]
      BY <1>0, <1>2, <3>1
    <3> QED
      BY <1>5, <3>1, <3>2
  <2> HIDE DEF S, V, rank, G
  <2> QED
    BY <2>1, LoopCases
<1>6. ASSUME NEW f \in [S -> V], NEW c \in S
      PROVE  Next0(f, c) \in V /\ G[<<f, c>>] = Next0(f, c)
  <2> DEFINE x == Next0(f, c)
             o == OneMore(t, operand, c)
  <2>1. CASE NoMore(t, ops, c) \/ Fails(t, ops, operand, c)
    <3>1. /\ OpOf(t, c) \in Cursors(t) /\ c.val \in Rationals
      BY LoopForward, OutcomeFacts
    <3>2. x = Good(c.val, OpOf(t, c)) \/ x = Bad
      BY <2>1, LoopCases
    <3> HIDE DEF x, G
    <3>3. x \in V
      BY <3>1, <3>2, OutcomeFacts
    <3> QED
      BY <3>3 DEF x, G
  <2>2. CASE GoesOn(t, ops, operand, c)
    <3>1. x = f[o] /\ o \in S
      BY <2>2, LoopCases, LoopForward
    <3> HIDE DEF x, G, o, V, S
    <3>2. x \in V
      BY <3>1
    <3> QED
      BY <3>2 DEF x, G
  <2> QED
    BY <2>1, <2>2, LoopCases
<1>7. G \in [[S -> V] \X S -> V]
  <2> HIDE DEF S, V, Next0
  <2> QED
    BY <1>6
<1>8. AsksBelow(S, V, rank, G)
  <2> HIDE DEF S, V, rank, G, Next0
  <2> SUFFICES ASSUME NEW f \in [S -> V], NEW g \in [S -> V], NEW c \in S,
                      \A d \in S : rank[d] < rank[c] => f[d] = g[d]
               PROVE  G[<<f, c>>] = G[<<g, c>>]
    BY DEF AsksBelow
  <2>1. Next0(f, c) = Next0(g, c)
    BY <1>5
  <2> QED
    BY <1>6, <2>1
<1>9. Loop(t, ops, operand) = CHOOSE f : f = [c \in S |-> Next0(f, c)]
  BY DEF Loop, LoopStep, NoMore, Fails, OneMore, SignOf, RightOf, OpOf, Found
<1> HIDE DEF S, V, rank, G, Next0
<1>10. PICK f \in [S -> V] : Solves(f, S, G)
  BY <1>1, <1>2, <1>7, <1>8, Recursion
<1>11. f = [c \in S |-> Next0(f, c)]
  BY <1>6, <1>10 DEF Solves
<1> DEFINE l == Loop(t, ops, operand)
<1>12. l = [c \in S |-> Next0(l, c)]
  BY <1>9, <1>11
<1> HIDE DEF l
<1>13. \A c \in S : l[c] = Next0(l, c)
  BY <1>12
<1> DEFINE D == {c \in S : ~FoundFrom(t, c.end, l[c])}
<1>14. D = {}
  <2> SUFFICES ASSUME D # {}
               PROVE  FALSE
    OBVIOUS
  <2>1. D \subseteq S
    OBVIOUS
  <2>2. PICK c \in D : \A d \in S : rank[d] < rank[c] => d \notin D
    <3> HIDE DEF D
    <3> QED
      BY <1>2, <2>1, LeastRank
  <2>4. c \in S /\ ~FoundFrom(t, c.end, l[c])
    BY <2>2
  <2> DEFINE o == OneMore(t, operand, c)
  <2>5. ASSUME GoesOn(t, ops, operand, c)
        PROVE  FoundFrom(t, o.end, l[o])
    <3>1. o \in S /\ o.end > c.end /\ o.end \in Cursors(t) /\ c.end \in Cursors(t)
      BY <2>4, <2>5, LoopForward, OutcomeFacts DEF S
    <3> HIDE DEF o
    <3>2. rank[o] < rank[c]
      BY <1>0, <1>2, <2>4, <3>1
    <3> QED
      BY <2>2, <3>1, <3>2
  <2> QED
    BY <1>3, <1>13, <2>4, <2>5
<1> QED
  BY <1>13, <1>14 DEF l, S, Next0

\* A sum or a product begins with its first operand.
LEMMA ChainTyped ==
    ASSUME NEW t \in Seq(Bytes), NEW ops, ops \subseteq Signs, NEW operand, Operands(t, operand),
           NEW p \in Cursors(t)
    PROVE  FoundFrom(t, p, Chain(t, ops, operand, p))
<1> DEFINE x == operand[p]
<1>1. x \in Outcomes(t) /\ (x.ok => x.end >= p)
  BY DEF Operands, FoundFrom
<1>2. Chain(t, ops, operand, p) = IF x.ok THEN Loop(t, ops, operand)[x] ELSE Bad
  BY DEF Chain
<1> HIDE DEF x
<1>3. CASE x.ok
  <2> DEFINE y == Loop(t, ops, operand)[x]
  <2>1. x \in Found(t)
    BY <1>1, <1>3, OutcomeFacts
  <2>2. FoundFrom(t, x.end, y)
    BY <2>1, LoopSolved
  <2>3. Chain(t, ops, operand, p) = y
    BY <1>2, <1>3
  <2> HIDE DEF y
  <2>4. y \in Outcomes(t) /\ (y.ok => y.end >= x.end)
    BY <2>2 DEF FoundFrom
  <2>5. y.ok => y.end >= p
    <3> SUFFICES ASSUME y.ok
                 PROVE  y.end >= p
      OBVIOUS
    <3>1. y.end \in Cursors(t) /\ x.end \in Cursors(t)
      BY <2>1, <2>4, OutcomeFacts
    <3>2. Cursors(t) \subseteq Nat
      BY LenProperties DEF Cursors
    <3> DEFINE i == y.end
               j == x.end
    <3>3. i \in Nat /\ j \in Nat /\ p \in Nat /\ i >= j /\ j >= p
      BY <1>1, <1>3, <2>4, <3>1, <3>2
    <3> HIDE DEF i, j
    <3>4. i >= p
      BY <3>3
    <3> QED
      BY <3>4 DEF i
  <2> QED
    BY <2>3, <2>4, <2>5 DEF FoundFrom
<1>4. CASE ~x.ok
  BY <1>2, <1>4, OutcomeFacts DEF FoundFrom
<1> QED
  BY <1>3, <1>4

\* Terms and expressions are found where factors are (ToolBuildin.cc:87-114).
LEMMA TermTyped ==
    ASSUME NEW t \in Seq(Bytes), NEW factor, Operands(t, factor)
    PROVE  /\ Operands(t, parseTerm(t, factor)) /\ Operands(t, parseExpression(t, factor))
           /\ \A p \in Cursors(t) :
                 /\ parseTerm(t, factor)[p] = Chain(t, Products, factor, p)
                 /\ parseExpression(t, factor)[p] = Chain(t, Sums, parseTerm(t, factor), p)
<1>1. Sums \subseteq Signs /\ Products \subseteq Signs
  BY DEF Signs
<1>2. \A p \in Cursors(t) :
         /\ parseTerm(t, factor)[p] = Chain(t, Products, factor, p)
         /\ parseExpression(t, factor)[p] = Chain(t, Sums, parseTerm(t, factor), p)
  BY DEF parseTerm, parseExpression
<1>3. Operands(t, parseTerm(t, factor))
  <2> SUFFICES ASSUME NEW p \in Cursors(t)
               PROVE  FoundFrom(t, p, parseTerm(t, factor)[p])
    BY DEF Operands
  <2>1. FoundFrom(t, p, Chain(t, Products, factor, p))
    BY <1>1, ChainTyped
  <2> QED
    BY <1>2, <2>1
<1>4. Operands(t, parseExpression(t, factor))
  <2> SUFFICES ASSUME NEW p \in Cursors(t)
               PROVE  FoundFrom(t, p, parseExpression(t, factor)[p])
    BY DEF Operands
  <2>1. FoundFrom(t, p, Chain(t, Sums, parseTerm(t, factor), p))
    BY <1>1, <1>3, ChainTyped
  <2> QED
    BY <1>2, <2>1
<1> QED
  BY <1>2, <1>3, <1>4

-----------------------------------------------------------------------------
(* Factors.                                                                 *)

\* What begins a factor (ToolBuildin.cc:116-130).
LEMMA FactorCases ==
    ASSUME NEW t, NEW left, NEW inner, NEW p
    PROVE  LET begin == skipSpaces(t, p)
           IN  /\ At(t, begin) = Open =>
                     FactorAt(t, left, inner, p)
                        = IF left = 0 THEN Bad
                          ELSE Closed(t, parseExpression(t, inner)[begin + 1])
               /\ At(t, begin) = Minus =>
                     FactorAt(t, left, inner, p)
                        = IF left = 0 THEN Bad ELSE Negated(inner[begin + 1])
               /\ At(t, begin) \notin {Open, Minus} =>
                     FactorAt(t, left, inner, p) = parseNumber(t, begin)
<1> DEFINE c == At(t, skipSpaces(t, p))
           a1 == IF left = 0 THEN Bad
                 ELSE Closed(t, parseExpression(t, inner)[skipSpaces(t, p) + 1])
           a2 == IF left = 0 THEN Bad ELSE Negated(inner[skipSpaces(t, p) + 1])
           a3 == parseNumber(t, skipSpaces(t, p))
<1>1. FactorAt(t, left, inner, p) = CASE c = Open -> a1 [] c = Minus -> a2 [] OTHER -> a3
  BY DEF FactorAt
<1>2. Open # Minus
  BY DEF Open, Minus
<1> HIDE DEF c, a1, a2, a3
<1>3. /\ c = Open => FactorAt(t, left, inner, p) = a1
      /\ c = Minus => FactorAt(t, left, inner, p) = a2
      /\ c \notin {Open, Minus} => FactorAt(t, left, inner, p) = a3
  BY <1>1, <1>2
<1> QED
  BY <1>3 DEF c, a1, a2, a3

\* What is read from a later place on is read from here on.
LEMMA FoundLater ==
    ASSUME NEW t \in Seq(Bytes), NEW p \in Cursors(t), NEW q \in Cursors(t), p <= q,
           NEW r, FoundFrom(t, q, r)
    PROVE  FoundFrom(t, p, r)
<1>1. r \in Outcomes(t) /\ (r.ok => r.end >= q)
  BY DEF FoundFrom
<1>2. ASSUME r.ok
      PROVE  r.end >= p
  <2>1. r.end \in Cursors(t) /\ Cursors(t) \subseteq Nat
    BY <1>1, <1>2, OutcomeFacts, LenProperties DEF Cursors
  <2> DEFINE i == r.end
  <2>2. i \in Nat /\ p \in Nat /\ q \in Nat /\ i >= q
    BY <1>1, <1>2, <2>1
  <2> HIDE DEF i
  <2>3. i >= p
    BY <2>2
  <2> QED
    BY <2>3 DEF i
<1> QED
  BY <1>1, <1>2 DEF FoundFrom

\* A parenthesis and a sign find it no earlier than what is in them.
LEMMA ClosedTyped ==
    ASSUME NEW t \in Seq(Bytes), NEW p \in Cursors(t), NEW r, FoundFrom(t, p, r)
    PROVE  FoundFrom(t, p, Closed(t, r)) /\ FoundFrom(t, p, Negated(r))
<1>1. r \in Outcomes(t) /\ (r.ok => r.end >= p)
  BY DEF FoundFrom
<1>2. CASE ~r.ok
  <2>1. Closed(t, r) = Bad /\ Negated(r) = Bad
    BY <1>2 DEF Closed, Negated
  <2> QED
    BY <2>1, OutcomeFacts DEF FoundFrom
<1>3. CASE r.ok
  <2>1. r.val \in Rationals /\ r.end \in Cursors(t) /\ r.end >= p
    BY <1>1, <1>3, OutcomeFacts
  <2> DEFINE e == skipSpaces(t, r.end)
             z == IF At(t, e) = Close THEN e + 1 ELSE e
             v == Neg(r.val)
  <2>2. e \in Cursors(t) /\ e >= r.end
    BY <2>1, BlanksSkipped
  <2>3. Closed(t, r) = Good(r.val, z) /\ Negated(r) = Good(v, r.end)
    BY <1>3 DEF Closed, Negated
  <2>4. v \in Rationals
    BY <2>1, RationalFacts
  <2>5. Len(t) \in Nat /\ Cursors(t) = 1 .. Len(t) + 1
    BY LenProperties DEF Cursors
  <2> DEFINE i == r.end
  <2> HIDE DEF v, e, i
  <2>6. i \in Nat /\ e \in Nat /\ p \in Nat /\ e >= i /\ i >= p
    BY <2>1, <2>2, <2>5 DEF i
  <2>7. z \in Cursors(t) /\ z >= p
    <3>1. CASE At(t, e) = Close
      <4>1. At(t, e) # 0
        BY <3>1 DEF Close
      <4>2. e \in 1 .. Len(t)
        BY <2>6, <4>1, AtFacts
      <4> QED
        BY <2>5, <2>6, <3>1, <4>2
    <3>2. CASE At(t, e) # Close
      BY <2>2, <2>6, <3>2
    <3> QED
      BY <3>1, <3>2
  <2> HIDE DEF z
  <2>8. FoundFrom(t, p, Good(r.val, z))
    BY <2>1, <2>7, OutcomeFacts DEF FoundFrom
  <2>9. FoundFrom(t, p, Good(v, r.end))
    BY <2>1, <2>4, OutcomeFacts DEF FoundFrom
  <2> QED
    BY <2>3, <2>8, <2>9
<1> QED
  BY <1>2, <1>3

\* A factor is found where those of the level below are.
LEMMA FactorTyped ==
    ASSUME NEW t \in Seq(Bytes), NEW left, NEW inner, left # 0 => Operands(t, inner),
           NEW p \in Cursors(t)
    PROVE  FoundFrom(t, p, FactorAt(t, left, inner, p))
<1> DEFINE b == skipSpaces(t, p)
           c == At(t, b)
           x == FactorAt(t, left, inner, p)
<1>1. b \in Cursors(t) /\ p <= b
  <2>1. Cursors(t) \subseteq Nat
    BY LenProperties DEF Cursors
  <2> QED
    BY <2>1, BlanksSkipped
<1>2. ASSUME c \in {Open, Minus}
      PROVE  b + 1 \in Cursors(t) /\ p <= b + 1
  <2>1. c # 0
    BY <1>2 DEF Open, Minus
  <2>2. Len(t) \in Nat /\ Cursors(t) = 1 .. Len(t) + 1 /\ b \in Int
    BY <1>1, LenProperties DEF Cursors
  <2>3. b \in 1 .. Len(t)
    BY <2>1, <2>2, AtFacts
  <2> HIDE DEF b
  <2> QED
    BY <1>1, <2>2, <2>3
<1>3. FoundFrom(t, p, Bad)
  BY OutcomeFacts DEF FoundFrom
<1>4. CASE c = Open
  <2>1. x = IF left = 0 THEN Bad ELSE Closed(t, parseExpression(t, inner)[b + 1])
    BY <1>4, FactorCases
  <2>2. CASE left # 0
    <3>1. FoundFrom(t, b + 1, parseExpression(t, inner)[b + 1])
      BY <1>2, <1>4, <2>2, TermTyped DEF Operands
    <3> HIDE DEF b, c
    <3>2. FoundFrom(t, p, parseExpression(t, inner)[b + 1])
      BY <1>2, <1>4, <3>1, FoundLater
    <3>3. FoundFrom(t, p, Closed(t, parseExpression(t, inner)[b + 1]))
      BY <3>2, ClosedTyped
    <3> QED
      BY <2>1, <2>2, <3>3
  <2> QED
    BY <1>3, <2>1, <2>2
<1>5. CASE c = Minus
  <2>1. x = IF left = 0 THEN Bad ELSE Negated(inner[b + 1])
    BY <1>5, FactorCases
  <2>2. CASE left # 0
    <3>1. FoundFrom(t, b + 1, inner[b + 1])
      BY <1>2, <1>5, <2>2 DEF Operands
    <3> HIDE DEF b, c
    <3>2. FoundFrom(t, p, inner[b + 1])
      BY <1>2, <1>5, <3>1, FoundLater
    <3>3. FoundFrom(t, p, Negated(inner[b + 1]))
      BY <3>2, ClosedTyped
    <3> QED
      BY <2>1, <2>2, <3>3
  <2> QED
    BY <1>3, <2>1, <2>2
<1>6. CASE c \notin {Open, Minus}
  <2>1. x = parseNumber(t, b)
    BY <1>6, FactorCases
  <2> HIDE DEF b, c
  <2>2. FoundFrom(t, b, parseNumber(t, b))
    BY <1>1, NumberParsed
  <2>3. FoundFrom(t, p, parseNumber(t, b))
    BY <1>1, <2>2, FoundLater
  <2> QED
    BY <2>1, <2>3
<1> QED
  BY <1>4, <1>5, <1>6

\* The factors of a level are read with those of the level below
\* (ToolBuildin.cc:116-130).
LEMMA FactorSolved ==
    ASSUME NEW t \in Seq(Bytes)
    PROVE  \A n \in Nat :
              /\ Operands(t, parseFactor(t)[n])
              /\ \A p \in Cursors(t) :
                    parseFactor(t)[n][p] = FactorAt(t, n, parseFactor(t)[n - 1], p)
<1> DEFINE C == Cursors(t)
           Step(n, w) == [p \in C |-> FactorAt(t, n, w, p)]
           V == [n \in Nat |-> {w \in [C -> Outcomes(t)] : Operands(t, w)}]
           W == {w \in [C -> Outcomes(t)] : Operands(t, w)}
           G == [a \in Nat \X W |-> Step(a[1], a[2])]
           f0 == Step(0, 0)
           Def(f) == f = [n \in Nat |-> Step(n, f[n - 1])]
           f == parseFactor(t)
<1>1. ASSUME NEW n \in Nat, NEW w, n # 0 => Operands(t, w)
      PROVE  Step(n, w) \in W
  <2>1. \A p \in C : FoundFrom(t, p, FactorAt(t, n, w, p))
    BY <1>1, FactorTyped
  <2>2. \A p \in C : FactorAt(t, n, w, p) \in Outcomes(t)
    BY <2>1 DEF FoundFrom
  <2> DEFINE s == Step(n, w)
  <2>3. s \in [C -> Outcomes(t)] /\ \A p \in C : FoundFrom(t, p, s[p])
    BY <2>1, <2>2
  <2> HIDE DEF s
  <2>4. Operands(t, s)
    BY <2>3 DEF Operands
  <2> QED
    BY <2>3, <2>4 DEF s
<1>2. \A n \in Nat : V[n] = W
  OBVIOUS
<1>3. f0 \in W
  <2>1. 0 \in Nat /\ (0 # 0 => Operands(t, 0))
    OBVIOUS
  <2> HIDE DEF W, Step
  <2> QED
    BY <1>1, <2>1
<1>4. \A n \in Nat : \A w \in W : G[<<n, w>>] = Step(n, w) /\ Operands(t, w)
  OBVIOUS
<1>5. \A n \in Nat : n # 0 => \A w \in V[n - 1] : G[<<n, w>>] \in V[n]
  <2> SUFFICES ASSUME NEW n \in Nat, n # 0, NEW w \in V[n - 1]
               PROVE  G[<<n, w>>] \in V[n]
    OBVIOUS
  <2>1. n - 1 \in Nat
    OBVIOUS
  <2> HIDE DEF V, W, G, Step
  <2>2. w \in W
    BY <1>2, <2>1
  <2>3. Step(n, w) \in W
    BY <1>1, <1>4, <2>2
  <2> QED
    BY <1>2, <1>4, <2>2, <2>3
<1>6. PICK g : Climbs(g, Nat, f0, G) /\ \A n \in Nat : g[n] \in W
  <2> DEFINE I == Nat
  <2>1. I \subseteq Nat /\ 0 \in I /\ \A n \in I : n # 0 => n - 1 \in I
    OBVIOUS
  <2>2. \A n \in I : n # 0 => \A w \in V[n - 1] : G[<<n, w>>] \in V[n]
    BY <1>5
  <2> HIDE DEF V, W, G, f0, I
  <2>3. f0 \in V[0]
    BY <1>2, <1>3
  <2>4. \E g : Climbs(g, I, f0, G) /\ \A n \in I : g[n] \in V[n]
    BY <2>1, <2>2, <2>3, LevelRecursion
  <2> QED
    BY <1>2, <2>4 DEF I
<1>7. \A w : Step(0, w) = f0
  <2> SUFFICES ASSUME NEW w, NEW p \in C
               PROVE  FactorAt(t, 0, w, p) = FactorAt(t, 0, 0, p)
    OBVIOUS
  <2> DEFINE c == At(t, skipSpaces(t, p))
  <2>1. c = Open \/ c = Minus \/ c \notin {Open, Minus}
    OBVIOUS
  <2>2. CASE c = Open
    BY <2>2, FactorCases
  <2>3. CASE c = Minus
    BY <2>3, FactorCases
  <2>4. CASE c \notin {Open, Minus}
    BY <2>4, FactorCases
  <2> QED
    BY <2>1, <2>2, <2>3, <2>4
<1>8. \A n \in Nat : g[n] = Step(n, g[n - 1])
  <2> SUFFICES ASSUME NEW n \in Nat
               PROVE  g[n] = Step(n, g[n - 1])
    OBVIOUS
  <2> HIDE DEF f0, G, Step, V, W
  <2>1. g[n] = IF n = 0 THEN f0 ELSE G[<<n, g[n - 1]>>]
    BY <1>6 DEF Climbs
  <2>2. CASE n = 0
    BY <1>7, <2>1, <2>2
  <2>3. CASE n # 0
    <3>1. n - 1 \in Nat
      BY <2>3
    <3>2. g[n - 1] \in W
      BY <1>6, <3>1
    <3> QED
      BY <1>4, <2>1, <2>3, <3>2
  <2> QED
    BY <2>2, <2>3
<1>9. Def(g)
  <2> HIDE DEF Step, f0, G
  <2>2. g = [n \in Nat |-> g[n]]
    BY <1>6 DEF Climbs
  <2> QED
    BY <1>8, <2>2
<1>10. f = CHOOSE x : Def(x)
  BY DEF parseFactor
<1>11. Def(f)
  <2> HIDE DEF Def, f
  <2> QED
    BY <1>9, <1>10
<1> HIDE DEF f
<1>12. \A n \in Nat : f[n] = Step(n, f[n - 1])
  <2> HIDE DEF Step
  <2> QED
    BY <1>11
<1> DEFINE Failing == {n \in Nat : ~Operands(t, f[n])}
<1>13. Failing = {}
  <2> SUFFICES ASSUME Failing # {}
               PROVE  FALSE
    OBVIOUS
  <2>1. PICK n \in Failing : \A k \in Failing : n <= k
    <3>1. Failing \subseteq Nat
      OBVIOUS
    <3> HIDE DEF Failing
    <3> QED
      BY <3>1, Smallest
  <2>2. n \in Nat /\ ~Operands(t, f[n])
    BY <2>1
  <2>3. n # 0 => Operands(t, f[n - 1])
    <3> SUFFICES ASSUME n # 0
                 PROVE  Operands(t, f[n - 1])
      OBVIOUS
    <3>1. n - 1 \in Nat /\ ~(n <= n - 1)
      BY <2>2
    <3>2. n - 1 \notin Failing
      BY <2>1, <3>1
    <3> QED
      BY <3>1, <3>2
  <2> HIDE DEF Step, W
  <2>4. Step(n, f[n - 1]) \in W
    BY <1>1, <2>2, <2>3
  <2>5. \A w \in W : Operands(t, w)
    BY DEF W
  <2> QED
    BY <1>12, <2>2, <2>4, <2>5
<1>14. \A n \in Nat : Operands(t, f[n])
  BY <1>13
<1>15. \A n \in Nat : \A p \in C : f[n][p] = FactorAt(t, n, f[n - 1], p)
  <2> SUFFICES ASSUME NEW n \in Nat, NEW p \in C
               PROVE  f[n][p] = FactorAt(t, n, f[n - 1], p)
    OBVIOUS
  <2>1. f[n] = [q \in C |-> FactorAt(t, n, f[n - 1], q)]
    BY <1>12
  <2> QED
    BY <2>1
<1> QED
  BY <1>14, <1>15 DEF f

-----------------------------------------------------------------------------
(* The same numbers give the same results.                                  *)

\* A positive factor keeps the sign.
LEMMA SignOfProduct ==
    \A i \in Int, j \in Nat \ {0} : (i * j > 0 <=> i > 0) /\ (i * j = 0 <=> i = 0)
<1> SUFFICES ASSUME NEW i \in Int, NEW j \in Nat \ {0}
             PROVE  (i * j > 0 <=> i > 0) /\ (i * j = 0 <=> i = 0)
  OBVIOUS
<1>1. i > 0 => i * j > 0
  OBVIOUS
<1>2. i = 0 => i * j = 0
  OBVIOUS
<1>3. i < 0 => i * j < 0
  <2> SUFFICES ASSUME i < 0
               PROVE  i * j < 0
    OBVIOUS
  <2>1. -i > 0 /\ -i \in Int
    OBVIOUS
  <2>2. (-i) * j > 0
    BY <2>1
  <2>3. (-i) * j = -(i * j)
    OBVIOUS
  <2>4. i * j \in Int
    OBVIOUS
  <2> QED
    BY <2>2, <2>3, <2>4
<1>4. i * j \in Int
  OBVIOUS
<1> QED
  BY <1>1, <1>2, <1>3, <1>4

\* Each operation gives the same number for the same numbers.
LEMMA SameResults ==
    ASSUME NEW x \in Rationals, NEW y \in Rationals, NEW u \in Rationals, NEW v \in Rationals,
           Same(x, u), Same(y, v)
    PROVE  /\ Same(Neg(x), Neg(u)) /\ Same(Plus(x, y), Plus(u, v)) /\ Same(Times(x, y), Times(u, v))
           /\ y[1] = 0 <=> v[1] = 0
           /\ y[1] # 0 => Same(Quotient(x, y), Quotient(u, v))
<1>1. PICK a \in Int, b \in Nat \ {0} : x = <<a, b>>
  BY DEF Rationals
<1>2. PICK c \in Int, d \in Nat \ {0} : y = <<c, d>>
  BY DEF Rationals
<1>3. PICK e \in Int, f \in Nat \ {0} : u = <<e, f>>
  BY DEF Rationals
<1>4. PICK g \in Int, h \in Nat \ {0} : v = <<g, h>>
  BY DEF Rationals
<1>5. a * f = e * b /\ c * h = g * d
  BY <1>1, <1>2, <1>3, <1>4 DEF Same
<1>6. Same(Neg(x), Neg(u))
  <2>1. (-a) * f = -(a * f) /\ (-e) * b = -(e * b)
    OBVIOUS
  <2>2. Neg(x) = <<-a, b>> /\ Neg(u) = <<-e, f>>
    BY <1>1, <1>3 DEF Neg
  <2> QED
    BY <1>5, <2>1, <2>2 DEF Same
<1>7. Same(Plus(x, y), Plus(u, v))
  <2>1. (a * d + c * b) * (f * h) = (a * f) * (d * h) + (c * h) * (b * f)
    OBVIOUS
  <2>2. (e * h + g * f) * (b * d) = (e * b) * (d * h) + (g * d) * (b * f)
    OBVIOUS
  <2>3. Plus(x, y) = <<a * d + c * b, b * d>> /\ Plus(u, v) = <<e * h + g * f, f * h>>
    BY <1>1, <1>2, <1>3, <1>4 DEF Plus
  <2>4. (a * d + c * b) * (f * h) = (e * h + g * f) * (b * d)
    BY <1>5, <2>1, <2>2
  <2> QED
    BY <2>3, <2>4 DEF Same
<1>8. Same(Times(x, y), Times(u, v))
  <2>1. (a * c) * (f * h) = (a * f) * (c * h)
    OBVIOUS
  <2>2. (e * g) * (b * d) = (e * b) * (g * d)
    OBVIOUS
  <2>3. Times(x, y) = <<a * c, b * d>> /\ Times(u, v) = <<e * g, f * h>>
    BY <1>1, <1>2, <1>3, <1>4 DEF Times
  <2>4. (a * c) * (f * h) = (e * g) * (b * d)
    BY <1>5, <2>1, <2>2
  <2> QED
    BY <2>3, <2>4 DEF Same
<1>9. (c > 0 <=> g > 0) /\ (c = 0 <=> g = 0)
  <2>1. (c * h > 0 <=> c > 0) /\ (c * h = 0 <=> c = 0)
    BY SignOfProduct
  <2>2. (g * d > 0 <=> g > 0) /\ (g * d = 0 <=> g = 0)
    BY SignOfProduct
  <2> QED
    BY <1>5, <2>1, <2>2
<1>10. ASSUME c # 0
       PROVE  Same(Quotient(x, y), Quotient(u, v))
  <2>1. (a * d) * (f * g) = (a * f) * (g * d)
    OBVIOUS
  <2>2. (e * h) * (b * c) = (e * b) * (c * h)
    OBVIOUS
  <2>3. (a * d) * (f * g) = (e * h) * (b * c)
    BY <1>5, <2>1, <2>2
  <2>4. CASE c > 0
    <3>1. Quotient(x, y) = <<a * d, b * c>> /\ Quotient(u, v) = <<e * h, f * g>>
      BY <1>1, <1>2, <1>3, <1>4, <1>9, <2>4 DEF Quotient
    <3> QED
      BY <2>3, <3>1 DEF Same
  <2>5. CASE ~(c > 0)
    <3>1. Quotient(x, y) = <<-(a * d), b * (-c)>> /\ Quotient(u, v) = <<-(e * h), f * (-g)>>
      BY <1>1, <1>2, <1>3, <1>4, <1>9, <2>5 DEF Quotient
    <3>2. (-(a * d)) * (f * (-g)) = (a * d) * (f * g)
      OBVIOUS
    <3>3. (-(e * h)) * (b * (-c)) = (e * h) * (b * c)
      OBVIOUS
    <3>4. (-(a * d)) * (f * (-g)) = (-(e * h)) * (b * (-c))
      BY <2>3, <3>2, <3>3
    <3> QED
      BY <3>1, <3>4 DEF Same
  <2> QED
    BY <2>4, <2>5
<1>11. y[1] = c /\ v[1] = g
  BY <1>2, <1>4
<1> QED
  BY <1>6, <1>7, <1>8, <1>9, <1>10, <1>11

\* And so does each operator, which fails for the same ones.
LEMMA ApplySame ==
    ASSUME NEW x \in Rationals, NEW y \in Rationals, NEW u \in Rationals, NEW v \in Rationals,
           Same(x, u), Same(y, v), NEW op \in Signs
    PROVE  /\ Divides(op, y) <=> Divides(op, v)
           /\ ~Divides(op, y) => Same(Apply(x, op, y), Apply(u, op, v))
<1>1. /\ op \in {43, 45, 42, 47}
      /\ \A r, s : /\ op = 43 => Apply(r, op, s) = Plus(r, s)
                   /\ op = 45 => Apply(r, op, s) = Plus(r, Neg(s))
                   /\ op = 42 => Apply(r, op, s) = Times(r, s)
                   /\ op = 47 => Apply(r, op, s) = Quotient(r, s)
  BY DEF Signs, Sums, Products, PlusSign, Minus, Star, Slash, Apply
<1>2. \A s : Divides(op, s) <=> op = 47 /\ s[1] = 0
  BY DEF Divides, Slash
<1>3. /\ Same(Neg(y), Neg(v)) /\ Neg(y) \in Rationals /\ Neg(v) \in Rationals
  BY RationalFacts, SameResults
<1>4. Same(Plus(x, Neg(y)), Plus(u, Neg(v)))
  BY <1>3, SameResults
<1>5. /\ Same(Plus(x, y), Plus(u, v)) /\ Same(Times(x, y), Times(u, v))
      /\ y[1] = 0 <=> v[1] = 0
      /\ y[1] # 0 => Same(Quotient(x, y), Quotient(u, v))
  BY SameResults
<1> QED
  BY <1>1, <1>2, <1>4, <1>5

-----------------------------------------------------------------------------
(* What is read, and what it means.                                         *)

\* The value of what is read, which is nothing when it throws.
Worths == Rationals \cup {Nothing}

\* It is what is meant.
Agrees(x, m) == IF m = Nothing THEN x = Nothing ELSE x \in Rationals /\ Same(x, m)

NegResult(x) == IF x = Nothing THEN Nothing ELSE Neg(x)

\* A number is something.
LEMMA NothingElse == Nothing \notin Rationals
<1> SUFFICES ASSUME NEW a \in Int, NEW b \in Nat \ {0}, <<>> = <<a, b>>
             PROVE  FALSE
  BY DEF Rationals, Nothing
<1>1. Len(<<>>) = 0 /\ Len(<<a, b>>) = 2
  OBVIOUS
<1> QED
  BY <1>1

\* A result is a number or nothing.
LEMMA ResultTyped ==
    ASSUME NEW x \in Worths, NEW y \in Worths, NEW op \in Signs
    PROVE  Result(x, op, y) \in Worths /\ NegResult(x) \in Worths
<1>1. ASSUME x = Nothing \/ y = Nothing
      PROVE  Result(x, op, y) \in Worths
  <2>1. Result(x, op, y) = Nothing
    BY <1>1 DEF Result
  <2> QED
    BY <2>1 DEF Worths
<1>2. ASSUME x # Nothing, y # Nothing
      PROVE  Result(x, op, y) \in Worths
  <2>1. x \in Rationals /\ y \in Rationals
    BY <1>2 DEF Worths
  <2>2. Result(x, op, y) = IF Divides(op, y) THEN Nothing ELSE Apply(x, op, y)
    BY <1>2 DEF Result
  <2>3. ~Divides(op, y) => Apply(x, op, y) \in Rationals
    BY <2>1, ApplyTyped
  <2> QED
    BY <2>2, <2>3 DEF Worths
<1>3. NegResult(x) \in Worths
  <2>1. x # Nothing => Neg(x) \in Rationals
    BY RationalFacts DEF Worths
  <2> QED
    BY <2>1 DEF NegResult, Worths
<1> QED
  BY <1>1, <1>2, <1>3

\* The results of what is meant are meant.
LEMMA ResultAgrees ==
    ASSUME NEW x \in Worths, NEW y \in Worths, NEW m \in Worths, NEW k \in Worths,
           Agrees(x, m), Agrees(y, k), NEW op \in Signs
    PROVE  Agrees(Result(x, op, y), Result(m, op, k)) /\ Agrees(NegResult(x), NegResult(m))
<1>1. /\ (x = Nothing <=> m = Nothing) /\ (y = Nothing <=> k = Nothing)
      /\ m # Nothing => x \in Rationals /\ m \in Rationals /\ Same(x, m)
      /\ k # Nothing => y \in Rationals /\ k \in Rationals /\ Same(y, k)
  BY NothingElse DEF Agrees, Worths
<1>2. ASSUME m = Nothing \/ k = Nothing
      PROVE  Agrees(Result(x, op, y), Result(m, op, k))
  <2>1. Result(x, op, y) = Nothing /\ Result(m, op, k) = Nothing
    BY <1>1, <1>2 DEF Result
  <2> QED
    BY <2>1 DEF Agrees
<1>3. ASSUME m # Nothing, k # Nothing
      PROVE  Agrees(Result(x, op, y), Result(m, op, k))
  <2>1. /\ Result(x, op, y) = IF Divides(op, y) THEN Nothing ELSE Apply(x, op, y)
        /\ Result(m, op, k) = IF Divides(op, k) THEN Nothing ELSE Apply(m, op, k)
    BY <1>1, <1>3 DEF Result
  <2>2. /\ Divides(op, y) <=> Divides(op, k)
        /\ ~Divides(op, y) => Same(Apply(x, op, y), Apply(m, op, k))
    BY <1>1, <1>3, ApplySame
  <2>3. ~Divides(op, y) => Apply(x, op, y) \in Rationals /\ Apply(m, op, k) \in Rationals
    BY <1>1, <1>3, <2>2, ApplyTyped
  <2>4. CASE Divides(op, y)
    BY <2>1, <2>2, <2>4 DEF Agrees
  <2>5. CASE ~Divides(op, y)
    BY <2>1, <2>2, <2>3, <2>5, NothingElse DEF Agrees
  <2> QED
    BY <2>4, <2>5
<1>4. Agrees(NegResult(x), NegResult(m))
  <2>1. CASE m = Nothing
    BY <1>1, <2>1 DEF Agrees, NegResult
  <2>2. CASE m # Nothing
    <3>1. NegResult(x) = Neg(x) /\ NegResult(m) = Neg(m)
      BY <1>1, <2>2 DEF NegResult
    <3>2. Neg(x) \in Rationals /\ Neg(m) \in Rationals /\ Same(Neg(x), Neg(m))
      BY <1>1, <2>2, RationalFacts, SameResults
    <3> QED
      BY <3>1, <3>2, NothingElse DEF Agrees
  <2> QED
    BY <2>1, <2>2
<1> QED
  BY <1>2, <1>3, <1>4

\* What a function gives that has read a value.
Got(x, q) == IF x = Nothing THEN Bad ELSE Good(x, q)

\* What a loop gives that goes on from a value.
Continued(t, ops, operand, x, q) ==
    IF x = Nothing THEN Bad ELSE Loop(t, ops, operand)[Good(x, q)]

\* What a loop does with the value it has (ToolBuildin.cc:88-97, 100-114).
LEMMA LoopOn ==
    ASSUME NEW t \in Seq(Bytes), NEW ops, ops \subseteq Signs, NEW operand, Operands(t, operand),
           NEW x \in Worths, NEW q \in Cursors(t)
    PROVE  LET s == skipSpaces(t, q)
           IN  /\ At(t, s) \notin ops => Continued(t, ops, operand, x, q) = Got(x, s)
               /\ Continued(t, ops, operand, x, s) = Continued(t, ops, operand, x, q)
               /\ \A y \in Worths, z \in Cursors(t) :
                     At(t, s) \in ops /\ operand[s + 1] = Got(y, z) =>
                        Continued(t, ops, operand, x, q)
                           = Continued(t, ops, operand, Result(x, At(t, s), y), z)
<1> DEFINE s == skipSpaces(t, q)
           op == At(t, s)
           left == Good(x, q)
           l == Loop(t, ops, operand)
<1>1. s \in Cursors(t) /\ skipSpaces(t, s) = s
  BY BlanksSkipped
<1>2. CASE x = Nothing
  <2>1. \A k : Continued(t, ops, operand, x, k) = Bad /\ Got(x, k) = Bad
    BY <1>2 DEF Continued, Got
  <2>2. \A y \in Worths : \A k : Continued(t, ops, operand, Result(x, op, y), k) = Bad
    BY <1>2 DEF Result, Continued
  <2> QED
    BY <2>1, <2>2
<1>3. CASE x # Nothing
  <2>1. x \in Rationals
    BY <1>3 DEF Worths
  <2>2. \A k : Continued(t, ops, operand, x, k) = l[Good(x, k)] /\ Got(x, k) = Good(x, k)
    BY <1>3 DEF Continued, Got
  <2>3. \A k \in Cursors(t) : /\ Good(x, k) \in Found(t) /\ Good(x, k).val = x /\ Good(x, k).end = k
                              /\ l[Good(x, k)] = LoopStep(t, ops, operand, l, Good(x, k))
    BY <2>1, OutcomeFacts, LoopSolved
  <2>4. \A k \in Cursors(t) : OpOf(t, Good(x, k)) = skipSpaces(t, k)
    BY <2>3 DEF OpOf
  <2>5. OpOf(t, left) = s /\ OpOf(t, Good(x, s)) = s
    BY <1>1, <2>4
  <2>6. ASSUME op \notin ops
        PROVE  l[left] = Good(x, s)
    <3>1. NoMore(t, ops, left)
      BY <2>5, <2>6 DEF NoMore, SignOf
    <3>2. LoopStep(t, ops, operand, l, left) = Good(left.val, OpOf(t, left))
      BY <3>1, LoopCases
    <3> QED
      BY <2>3, <2>5, <3>2
  <2>7. l[Good(x, s)] = l[left]
    <3> DEFINE b == Good(x, s)
    <3>1. /\ b.val = left.val /\ OpOf(t, b) = OpOf(t, left)
          /\ l[b] = LoopStep(t, ops, operand, l, b) /\ l[left] = LoopStep(t, ops, operand, l, left)
      BY <1>1, <2>3, <2>5
    <3> HIDE DEF b, left, l
    <3>2. SignOf(t, b) = SignOf(t, left) /\ RightOf(t, operand, b) = RightOf(t, operand, left)
      BY <3>1 DEF SignOf, RightOf
    <3>3. /\ NoMore(t, ops, b) <=> NoMore(t, ops, left)
          /\ Fails(t, ops, operand, b) <=> Fails(t, ops, operand, left)
          /\ OneMore(t, operand, b) = OneMore(t, operand, left)
      BY <3>1, <3>2 DEF NoMore, Fails, OneMore
    <3>4. LoopStep(t, ops, operand, l, b) = LoopStep(t, ops, operand, l, left)
      BY <3>1, <3>3 DEF LoopStep
    <3> QED
      BY <3>1, <3>4 DEF b
  <2>8. ASSUME NEW y \in Worths, NEW z \in Cursors(t), op \in ops, operand[s + 1] = Got(y, z)
        PROVE  l[left] = Continued(t, ops, operand, Result(x, op, y), z)
    <3> DEFINE r == RightOf(t, operand, left)
    <3>1. r = Got(y, z) /\ SignOf(t, left) = op
      BY <2>5, <2>8 DEF RightOf, SignOf
    <3> HIDE DEF r
    <3>2. CASE y = Nothing
      <4>1. r = Bad /\ Result(x, op, y) = Nothing
        BY <3>1, <3>2 DEF Got, Result
      <4>2. Fails(t, ops, operand, left)
        BY <2>8, <3>1, <4>1, OutcomeFacts DEF Fails, r
      <4>3. LoopStep(t, ops, operand, l, left) = Bad
        BY <4>2, LoopCases
      <4>4. l[left] = Bad
        BY <2>3, <4>3
      <4> QED
        BY <4>1, <4>4 DEF Continued
    <3>3. CASE y # Nothing
      <4>1. y \in Rationals /\ r = Good(y, z)
        BY <3>1, <3>3 DEF Got, Worths
      <4>2. r.ok /\ r.val = y /\ r.end = z
        BY <4>1, OutcomeFacts
      <4>3. CASE Divides(op, y)
        <5>1. Result(x, op, y) = Nothing
          BY <4>3 DEF Result
        <5>2. Fails(t, ops, operand, left)
          BY <2>8, <3>1, <4>2, <4>3 DEF Fails, r
        <5>3. LoopStep(t, ops, operand, l, left) = Bad
          BY <5>2, LoopCases
        <5>4. l[left] = Bad
          BY <2>3, <5>3
        <5> QED
          BY <5>1, <5>4 DEF Continued
      <4>4. CASE ~Divides(op, y)
        <5>1. Result(x, op, y) = Apply(x, op, y) /\ Apply(x, op, y) \in Rationals
          <6>1. op \in Signs
            BY <2>8
          <6>2. Apply(x, op, y) \in Rationals
            BY <2>1, <4>1, <4>4, <6>1, ApplyTyped
          <6> QED
            BY <1>3, <3>3, <4>4, <6>2 DEF Result
        <5>2. GoesOn(t, ops, operand, left)
          BY <2>8, <3>1, <4>2, <4>4 DEF GoesOn, r
        <5>3. OneMore(t, operand, left) = Good(Apply(x, op, y), z)
          BY <2>3, <3>1, <4>2 DEF OneMore, r
        <5>4. LoopStep(t, ops, operand, l, left) = l[Good(Apply(x, op, y), z)]
          BY <5>2, <5>3, LoopCases
        <5>5. l[left] = l[Good(Apply(x, op, y), z)]
          BY <2>3, <5>4
        <5>6. Result(x, op, y) # Nothing
          BY <5>1, NothingElse
        <5> QED
          BY <5>1, <5>5, <5>6 DEF Continued
      <4> QED
        BY <4>3, <4>4
    <3> QED
      BY <3>2, <3>3
  <2> QED
    BY <1>1, <2>2, <2>6, <2>7, <2>8
<1> QED
  BY <1>2, <1>3

-----------------------------------------------------------------------------
(* What is written at a place of an expression is read there.               *)

FactorOf(t, n) == parseFactor(t)[n]
TermOf(t, n) == parseTerm(t, FactorOf(t, n))
SumOf(t, n) == parseExpression(t, FactorOf(t, n))

\* The text holds these bytes at p, no number goes on behind them, and there is
\* a level for each of them.
Placed(t, n, p, w) ==
    Len(w) <= n /\ HasAt(t, p, w) /\ At(t, p + Len(w)) \notin NumberBytes

\* Wherever the bytes are, a factor is read; a term or an expression is read so
\* far, if it goes on behind them.
AsFactor(w, x) ==
    \A t \in Seq(Bytes) : \A n \in Nat : \A p \in Cursors(t) :
       Placed(t, n, p, w) => FactorOf(t, n)[p] = Got(x, p + Len(w))

AsTerm(w, x) ==
    \A t \in Seq(Bytes) : \A n \in Nat : \A p \in Cursors(t) :
       Placed(t, n, p, w) =>
          TermOf(t, n)[p] = Continued(t, Products, FactorOf(t, n), x, p + Len(w))

AsSum(w, x) ==
    \A t \in Seq(Bytes) : \A n \in Nat : \A p \in Cursors(t) :
       Placed(t, n, p, w) /\ At(t, skipSpaces(t, p + Len(w))) \notin Products =>
          SumOf(t, n)[p] = Continued(t, Sums, TermOf(t, n), x, p + Len(w))

\* The functions of the grammar find what they read behind where they begin, and
\* each is the loop of its operators.
LEMMA Grammar ==
    ASSUME NEW t \in Seq(Bytes), NEW n \in Nat
    PROVE  /\ Operands(t, FactorOf(t, n)) /\ Operands(t, TermOf(t, n)) /\ Operands(t, SumOf(t, n))
           /\ \A p \in Cursors(t) :
                 /\ FactorOf(t, n)[p] = FactorAt(t, n, parseFactor(t)[n - 1], p)
                 /\ TermOf(t, n)[p] = Chain(t, Products, FactorOf(t, n), p)
                 /\ SumOf(t, n)[p] = Chain(t, Sums, TermOf(t, n), p)
<1>1. /\ Operands(t, parseFactor(t)[n])
      /\ \A p \in Cursors(t) :
            parseFactor(t)[n][p] = FactorAt(t, n, parseFactor(t)[n - 1], p)
  BY FactorSolved
<1>2. Operands(t, FactorOf(t, n))
  BY <1>1 DEF FactorOf
<1>3. /\ Operands(t, parseTerm(t, FactorOf(t, n)))
      /\ Operands(t, parseExpression(t, FactorOf(t, n)))
      /\ \A p \in Cursors(t) :
            /\ parseTerm(t, FactorOf(t, n))[p] = Chain(t, Products, FactorOf(t, n), p)
            /\ parseExpression(t, FactorOf(t, n))[p]
                  = Chain(t, Sums, parseTerm(t, FactorOf(t, n)), p)
  BY <1>2, TermTyped
<1> QED
  BY <1>1, <1>2, <1>3 DEF FactorOf, TermOf, SumOf

\* A loop ends at a byte that is none of its operators.
LEMMA LoopEnds ==
    ASSUME NEW t \in Seq(Bytes), NEW ops, ops \subseteq Signs, NEW operand, Operands(t, operand),
           NEW x \in Worths, NEW q \in Cursors(t), At(t, skipSpaces(t, q)) \notin ops
    PROVE  Continued(t, ops, operand, x, q) = Got(x, skipSpaces(t, q))
BY LoopOn

\* It can go on from the next byte that is no blank.
LEMMA LoopSkips ==
    ASSUME NEW t \in Seq(Bytes), NEW ops, ops \subseteq Signs, NEW operand, Operands(t, operand),
           NEW x \in Worths, NEW q \in Cursors(t)
    PROVE  Continued(t, ops, operand, x, skipSpaces(t, q)) = Continued(t, ops, operand, x, q)
BY LoopOn

\* It goes on over an operator and its right operand.
LEMMA LoopGoesOn ==
    ASSUME NEW t \in Seq(Bytes), NEW ops, ops \subseteq Signs, NEW operand, Operands(t, operand),
           NEW x \in Worths, NEW q \in Cursors(t), NEW op \in ops, At(t, skipSpaces(t, q)) = op,
           NEW y \in Worths, NEW z \in Cursors(t), operand[skipSpaces(t, q) + 1] = Got(y, z)
    PROVE  Continued(t, ops, operand, x, q) = Continued(t, ops, operand, Result(x, op, y), z)
BY LoopOn

\* A chain goes on from its first operand.
LEMMA ChainGot ==
    ASSUME NEW t, NEW ops, NEW operand, NEW p, NEW x \in Worths, NEW z \in Cursors(t),
           operand[p] = Got(x, z)
    PROVE  Chain(t, ops, operand, p) = Continued(t, ops, operand, x, z)
<1>1. CASE x = Nothing
  <2>1. operand[p] = Bad
    BY <1>1 DEF Got
  <2>2. ~operand[p].ok
    BY <2>1, OutcomeFacts
  <2> QED
    BY <1>1, <2>2 DEF Chain, Continued
<1>2. CASE x # Nothing
  <2>1. operand[p] = Good(x, z) /\ x \in Rationals
    BY <1>2 DEF Got, Worths
  <2>2. operand[p].ok
    BY <2>1, OutcomeFacts
  <2> QED
    BY <1>2, <2>1, <2>2 DEF Chain, Continued
<1> QED
  BY <1>1, <1>2

\* Where bytes end that a text holds.
LEMMA PlacedEnds ==
    ASSUME NEW t \in Seq(Bytes), NEW n \in Nat, NEW p \in Cursors(t), NEW w \in Seq(Bytes),
           Placed(t, n, p, w)
    PROVE  /\ p \in Nat /\ p > 0 /\ Len(w) \in Nat /\ Len(w) <= n /\ p + Len(w) \in Cursors(t)
           /\ Len(w) > 0 => At(t, p) = w[1]
<1>1. Cursors(t) \subseteq Nat \ {0}
  BY LenProperties DEF Cursors
<1>2. HasAt(t, p, w) /\ Len(w) <= n
  BY DEF Placed
<1> QED
  BY <1>1, <1>2, HasEnds

\* A factor alone is a term.
LEMMA FactorIsTerm ==
    ASSUME NEW w \in Seq(Bytes), NEW x \in Worths, AsFactor(w, x)
    PROVE  AsTerm(w, x)
<1> SUFFICES ASSUME NEW t \in Seq(Bytes), NEW n \in Nat, NEW p \in Cursors(t), Placed(t, n, p, w)
             PROVE  TermOf(t, n)[p] = Continued(t, Products, FactorOf(t, n), x, p + Len(w))
  BY DEF AsTerm
<1>1. FactorOf(t, n)[p] = Got(x, p + Len(w))
  BY DEF AsFactor
<1>2. p + Len(w) \in Cursors(t)
  BY PlacedEnds
<1>3. Chain(t, Products, FactorOf(t, n), p) = Continued(t, Products, FactorOf(t, n), x, p + Len(w))
  BY <1>1, <1>2, ChainGot
<1> QED
  BY <1>3, Grammar

\* A loop of products ends where no operator of a product is.
LEMMA TermEnds ==
    ASSUME NEW w \in Seq(Bytes), NEW x \in Worths, AsTerm(w, x),
           NEW t \in Seq(Bytes), NEW n \in Nat, NEW p \in Cursors(t), Placed(t, n, p, w),
           At(t, skipSpaces(t, p + Len(w))) \notin Products
    PROVE  TermOf(t, n)[p] = Got(x, skipSpaces(t, p + Len(w)))
<1> DEFINE z == p + Len(w)
           f == FactorOf(t, n)
<1>1. z \in Cursors(t)
  BY PlacedEnds
<1>2. TermOf(t, n)[p] = Continued(t, Products, f, x, z)
  BY DEF AsTerm
<1>3. At(t, skipSpaces(t, z)) \notin Products
  OBVIOUS
<1> HIDE DEF z
<1>4. Operands(t, f) /\ Products \subseteq Signs
  BY Grammar DEF Signs
<1> HIDE DEF f
<1>5. Continued(t, Products, f, x, z) = Got(x, skipSpaces(t, z))
  BY <1>1, <1>3, <1>4, LoopEnds
<1> QED
  BY <1>2, <1>5 DEF z

\* A term alone is an expression.
LEMMA TermIsSum ==
    ASSUME NEW w \in Seq(Bytes), NEW x \in Worths, AsTerm(w, x)
    PROVE  AsSum(w, x)
<1> SUFFICES ASSUME NEW t \in Seq(Bytes), NEW n \in Nat, NEW p \in Cursors(t), Placed(t, n, p, w),
                    At(t, skipSpaces(t, p + Len(w))) \notin Products
             PROVE  SumOf(t, n)[p] = Continued(t, Sums, TermOf(t, n), x, p + Len(w))
  BY DEF AsSum
<1> DEFINE z == p + Len(w)
           s == skipSpaces(t, z)
<1>1. TermOf(t, n)[p] = Got(x, s)
  BY TermEnds
<1>2. z \in Cursors(t)
  BY PlacedEnds
<1> HIDE DEF z
<1>3. s \in Cursors(t)
  BY <1>2, BlanksSkipped
<1>4. Operands(t, TermOf(t, n)) /\ Sums \subseteq Signs
  BY Grammar DEF Signs
<1>5. Chain(t, Sums, TermOf(t, n), p) = Continued(t, Sums, TermOf(t, n), x, s)
  BY <1>1, <1>3, ChainGot
<1>6. Continued(t, Sums, TermOf(t, n), x, s) = Continued(t, Sums, TermOf(t, n), x, z)
  BY <1>2, <1>4, LoopSkips
<1>7. SumOf(t, n)[p] = Chain(t, Sums, TermOf(t, n), p)
  BY Grammar
<1> QED
  BY <1>5, <1>6, <1>7 DEF z

\* A number where no blank is, and no number goes on behind it.
LEMMA NumberIsFactor ==
    ASSUME NEW w \in Seq(NumberBytes), Stod(w).digits > 0
    PROVE  AsFactor(w, <<Stod(w).num, Stod(w).den>>)
<1> DEFINE x == <<Stod(w).num, Stod(w).den>>
<1> SUFFICES ASSUME NEW t \in Seq(Bytes), NEW n \in Nat, NEW p \in Cursors(t), Placed(t, n, p, w)
             PROVE  FactorOf(t, n)[p] = Got(x, p + Len(w))
  BY DEF AsFactor
<1>1. NumberBytes \subseteq Bytes /\ NumberBytes \cap (White \cup {Open, Minus}) = {}
  BY DEF NumberBytes, DigitBytes, Point, Bytes, White, Open, Minus
<1>2. w \in Seq(Bytes)
  BY <1>1, LenProperties, ElementOfSeq
<1>3. w # <<>> /\ Stod(w) \in Readings
  BY StodTyped
<1>4. Len(w) > 0 /\ w[1] \in NumberBytes
  BY <1>3, LenProperties, ElementOfSeq, EmptySeq
<1>5. At(t, p) \in NumberBytes
  BY <1>2, <1>4, PlacedEnds
<1>6. skipSpaces(t, p) = p
  BY <1>1, <1>5, BlanksSkipped
<1>7. FactorAt(t, n, parseFactor(t)[n - 1], p) = parseNumber(t, p)
  BY <1>1, <1>5, <1>6, FactorCases
<1>8. parseNumber(t, p) = Good(x, p + Len(w))
  BY NumberParsed DEF Placed
<1>9. x # Nothing
  <2>1. x \in Rationals
    BY <1>3 DEF Readings, Rationals
  <2> QED
    BY <2>1, NothingElse
<1> QED
  BY <1>7, <1>8, <1>9, Grammar DEF Got

\* A minus stands before a factor, and takes a level.
LEMMA NegationIsFactor ==
    ASSUME NEW w \in Seq(Bytes), NEW x \in Worths, AsFactor(w, x)
    PROVE  AsFactor(<<Minus>> \o w, NegResult(x))
<1> DEFINE v == <<Minus>> \o w
<1> SUFFICES ASSUME NEW t \in Seq(Bytes), NEW n \in Nat, NEW p \in Cursors(t), Placed(t, n, p, v)
             PROVE  FactorOf(t, n)[p] = Got(NegResult(x), p + Len(v))
  BY DEF AsFactor
<1>1. Minus \in Bytes /\ Minus \notin White
  BY DEF Minus, Bytes, White
<1>2. v \in Seq(Bytes) /\ Len(v) = Len(w) + 1 /\ <<Minus>> \in Seq(Bytes) /\ Len(w) \in Nat
  BY <1>1, ConcatProperties, LenProperties
<1> HIDE DEF v
<1>3. /\ p \in Nat /\ Len(v) <= n /\ p + Len(v) \in Cursors(t)
      /\ HasAt(t, p, v) /\ At(t, p + Len(v)) \notin NumberBytes
  BY <1>2, PlacedEnds DEF Placed
<1>4. At(t, p) = Minus /\ HasAt(t, p + 1, w)
  <2>1. HasAt(t, p, <<Minus>>) /\ HasAt(t, p + Len(<<Minus>>), w)
    BY <1>2, <1>3, HasConcat DEF v
  <2> QED
    BY <1>3, <2>1, HasOne
<1>5. n # 0 /\ n - 1 \in Nat /\ Len(w) <= n - 1 /\ p + 1 \in Cursors(t)
      /\ p + 1 + Len(w) = p + Len(v)
  <2>1. Len(t) \in Nat /\ Cursors(t) = 1 .. Len(t) + 1
    BY LenProperties DEF Cursors
  <2> QED
    BY <1>2, <1>3, <2>1
<1>6. FactorOf(t, n - 1)[p + 1] = Got(x, p + Len(v))
  <2>1. Placed(t, n - 1, p + 1, w)
    BY <1>3, <1>4, <1>5 DEF Placed
  <2> QED
    BY <1>5, <2>1 DEF AsFactor
<1>7. skipSpaces(t, p) = p
  BY <1>1, <1>4, BlanksSkipped
<1>8. FactorOf(t, n)[p] = Negated(FactorOf(t, n - 1)[p + 1])
  <2>1. FactorAt(t, n, parseFactor(t)[n - 1], p) = Negated(parseFactor(t)[n - 1][p + 1])
    BY <1>4, <1>5, <1>7, FactorCases
  <2> QED
    BY <2>1, Grammar DEF FactorOf
<1>9. CASE x = Nothing
  <2>1. FactorOf(t, n - 1)[p + 1] = Bad
    BY <1>6, <1>9 DEF Got
  <2> QED
    BY <1>8, <1>9, <2>1, OutcomeFacts DEF Negated, NegResult, Got
<1>10. CASE x # Nothing
  <2> DEFINE g == Good(x, p + Len(v))
  <2>1. x \in Rationals /\ Neg(x) \in Rationals
    BY <1>10, RationalFacts DEF Worths
  <2>2. g.ok /\ g.val = x /\ g.end = p + Len(v) /\ FactorOf(t, n - 1)[p + 1] = g
    BY <1>3, <1>6, <1>10, <2>1, OutcomeFacts DEF Got
  <2> HIDE DEF g
  <2>3. FactorOf(t, n)[p] = Good(Neg(x), p + Len(v))
    BY <1>8, <2>2 DEF Negated
  <2> QED
    BY <1>10, <2>1, <2>3, NothingElse DEF NegResult, Got
<1> QED
  BY <1>9, <1>10

\* Whatever is between parentheses is a factor, a level down.
LEMMA ClosedIsFactor ==
    ASSUME NEW w \in Seq(Bytes), NEW x \in Worths, AsSum(w, x)
    PROVE  AsFactor(<<Open>> \o w \o <<Close>>, x)
<1> DEFINE v == <<Open>> \o w \o <<Close>>
<1> SUFFICES ASSUME NEW t \in Seq(Bytes), NEW n \in Nat, NEW p \in Cursors(t), Placed(t, n, p, v)
             PROVE  FactorOf(t, n)[p] = Got(x, p + Len(v))
  BY DEF AsFactor
<1>1. /\ Open \in Bytes /\ Open \notin White
      /\ Close \in Bytes /\ Close \notin White /\ Close \notin NumberBytes /\ Close \notin Products
      /\ Close \notin Sums
  BY DEF Open, Close, Bytes, White, NumberBytes, DigitBytes, Point, Products, Sums, Star, Slash,
         PlusSign, Minus
<1> DEFINE u == <<Open>> \o w
<1>2. /\ <<Open>> \in Seq(Bytes) /\ <<Close>> \in Seq(Bytes) /\ Len(w) \in Nat
      /\ u \in Seq(Bytes) /\ Len(u) = Len(w) + 1
  BY <1>1, ConcatProperties, LenProperties
<1>3. v \in Seq(Bytes) /\ Len(v) = Len(w) + 2
  <2> HIDE DEF u
  <2>1. u \o <<Close>> \in Seq(Bytes) /\ Len(u \o <<Close>>) = Len(u) + 1
    BY <1>2, ConcatProperties
  <2> QED
    BY <1>2, <2>1 DEF u
<1>4. v = u \o <<Close>>
  OBVIOUS
<1> HIDE DEF v
<1>5. /\ p \in Nat /\ Len(v) <= n /\ p + Len(v) \in Cursors(t)
      /\ HasAt(t, p, v) /\ At(t, p + Len(v)) \notin NumberBytes
  BY <1>3, PlacedEnds DEF Placed
<1> DEFINE q == p + 1
           z == q + Len(w)
<1>6. At(t, p) = Open /\ HasAt(t, q, w) /\ At(t, z) = Close
  <2> HIDE DEF u
  <2>1. HasAt(t, p, u) /\ HasAt(t, p + Len(u), <<Close>>)
    BY <1>2, <1>4, <1>5, HasConcat
  <2>2. HasAt(t, p, <<Open>>) /\ HasAt(t, p + Len(<<Open>>), w)
    BY <1>2, <1>5, <2>1, HasConcat DEF u
  <2>3. p + Len(u) = z /\ p + Len(<<Open>>) = q /\ z \in Nat
    BY <1>2, <1>5
  <2> HIDE DEF z
  <2> QED
    BY <1>5, <2>1, <2>2, <2>3, HasOne
<1>7. /\ n # 0 /\ n - 1 \in Nat /\ Len(w) <= n - 1
      /\ q \in Cursors(t) /\ z \in Cursors(t) /\ z + 1 = p + Len(v)
  <2>1. Len(t) \in Nat /\ Cursors(t) = 1 .. Len(t) + 1
    BY LenProperties DEF Cursors
  <2> QED
    BY <1>2, <1>3, <1>5, <2>1
<1> HIDE DEF q, u
<1>8. skipSpaces(t, p) = p /\ skipSpaces(t, z) = z
  <2> HIDE DEF z
  <2> QED
    BY <1>1, <1>6, <1>7, BlanksSkipped
<1> DEFINE term == TermOf(t, n - 1)
           read == SumOf(t, n - 1)[q]
<1>9. read = Got(x, z)
  <2>1. Placed(t, n - 1, q, w)
    BY <1>1, <1>6, <1>7 DEF Placed
  <2>2. At(t, skipSpaces(t, q + Len(w))) \notin Products
    BY <1>1, <1>6, <1>8
  <2>3. read = Continued(t, Sums, term, x, z)
    BY <1>7, <2>1, <2>2 DEF AsSum
  <2>4. Operands(t, term) /\ Sums \subseteq Signs
    BY <1>7, Grammar DEF Signs
  <2> HIDE DEF z, term, read
  <2>5. At(t, skipSpaces(t, z)) \notin Sums
    BY <1>1, <1>6, <1>8
  <2>6. Continued(t, Sums, term, x, z) = Got(x, skipSpaces(t, z))
    BY <1>7, <2>4, <2>5, LoopEnds
  <2> QED
    BY <1>8, <2>3, <2>6
<1>10. FactorOf(t, n)[p] = Closed(t, read)
  <2>1. FactorAt(t, n, parseFactor(t)[n - 1], p)
           = Closed(t, parseExpression(t, parseFactor(t)[n - 1])[p + 1])
    BY <1>6, <1>7, <1>8, FactorCases
  <2> QED
    BY <2>1, Grammar DEF FactorOf, SumOf, q
<1> HIDE DEF read, term, z
<1>11. CASE x = Nothing
  <2>1. read = Bad
    BY <1>9, <1>11 DEF Got
  <2> QED
    BY <1>10, <1>11, <2>1, OutcomeFacts DEF Closed, Got
<1>12. CASE x # Nothing
  <2>1. read = Good(x, z) /\ x \in Rationals
    BY <1>9, <1>12 DEF Got, Worths
  <2>2. read.ok /\ read.val = x /\ read.end = z
    BY <1>7, <2>1, OutcomeFacts
  <2>3. Closed(t, read) = Good(x, z + 1)
    BY <1>6, <1>8, <2>2 DEF Closed
  <2> QED
    BY <1>7, <1>10, <1>12, <2>3 DEF Got
<1> QED
  BY <1>11, <1>12

\* What was read goes on over an operator of a product and a factor.
LEMMA ProductIsTerm ==
    ASSUME NEW v \in Seq(Bytes), NEW x \in Worths, AsTerm(v, x),
           NEW w \in Seq(Bytes), NEW y \in Worths, AsFactor(w, y), NEW op \in Products
    PROVE  AsTerm(v \o <<op>> \o w, Result(x, op, y))
<1> DEFINE u == v \o <<op>>
           a == u \o w
<1> SUFFICES ASSUME NEW t \in Seq(Bytes), NEW n \in Nat, NEW p \in Cursors(t), Placed(t, n, p, a)
             PROVE  TermOf(t, n)[p]
                       = Continued(t, Products, FactorOf(t, n), Result(x, op, y), p + Len(a))
  BY DEF AsTerm
<1>1. op \in Bytes /\ op \notin White /\ op \notin NumberBytes
  BY DEF Products, Star, Slash, Bytes, White, NumberBytes, DigitBytes, Point
<1>2. /\ <<op>> \in Seq(Bytes) /\ Len(v) \in Nat /\ Len(w) \in Nat
      /\ u \in Seq(Bytes) /\ Len(u) = Len(v) + 1
  BY <1>1, ConcatProperties, LenProperties
<1>3. a \in Seq(Bytes) /\ Len(a) = Len(v) + 1 + Len(w)
  <2> HIDE DEF u
  <2> QED
    BY <1>2, ConcatProperties
<1>4. a = u \o w
  OBVIOUS
<1> HIDE DEF a
<1>5. /\ p \in Nat /\ Len(a) <= n /\ p + Len(a) \in Cursors(t)
      /\ HasAt(t, p, a) /\ At(t, p + Len(a)) \notin NumberBytes
  BY <1>3, PlacedEnds DEF Placed
<1> DEFINE m == p + Len(v)
           z == m + 1 + Len(w)
<1>6. HasAt(t, p, v) /\ At(t, m) = op /\ HasAt(t, m + 1, w)
  <2> HIDE DEF u
  <2>1. HasAt(t, p, u) /\ HasAt(t, p + Len(u), w)
    BY <1>2, <1>4, <1>5, HasConcat
  <2>2. HasAt(t, p, v) /\ HasAt(t, m, <<op>>)
    BY <1>2, <1>5, <2>1, HasConcat DEF u
  <2>3. p + Len(u) = m + 1 /\ m \in Nat
    BY <1>2, <1>5
  <2> HIDE DEF m
  <2> QED
    BY <2>1, <2>2, <2>3, HasOne
<1>7. /\ Len(v) <= n /\ Len(w) <= n /\ m \in Cursors(t) /\ m + 1 \in Cursors(t)
      /\ z \in Cursors(t) /\ z = p + Len(a)
  <2>1. Len(t) \in Nat /\ Cursors(t) = 1 .. Len(t) + 1
    BY LenProperties DEF Cursors
  <2> QED
    BY <1>2, <1>3, <1>5, <2>1
<1>8. Placed(t, n, p, v)
  BY <1>1, <1>6, <1>7 DEF Placed
<1>9. Placed(t, n, m + 1, w)
  BY <1>5, <1>6, <1>7 DEF Placed
<1> DEFINE f == FactorOf(t, n)
<1>10. TermOf(t, n)[p] = Continued(t, Products, f, x, m)
  BY <1>8 DEF AsTerm
<1>11. f[m + 1] = Got(y, z)
  BY <1>7, <1>9 DEF AsFactor
<1>12. Operands(t, f) /\ Products \subseteq Signs
  BY Grammar DEF Signs
<1> HIDE DEF f, m, z, u
<1>13. skipSpaces(t, m) = m
  BY <1>1, <1>6, <1>7, BlanksSkipped
<1> DEFINE s == skipSpaces(t, m)
<1>14. At(t, s) = op /\ At(t, s) \in Products /\ f[s + 1] = Got(y, z)
  BY <1>6, <1>11, <1>13
<1>15. Continued(t, Products, f, x, m) = Continued(t, Products, f, Result(x, At(t, s), y), z)
  BY <1>7, <1>12, <1>14, LoopGoesOn
<1> QED
  BY <1>7, <1>10, <1>14, <1>15 DEF f

\* A term is read with the blanks in front of it.
LEMMA BlankBefore ==
    ASSUME NEW t \in Seq(Bytes), NEW n \in Nat, NEW p \in Cursors(t), At(t, p) \in White
    PROVE  p + 1 \in Cursors(t) /\ TermOf(t, n)[p] = TermOf(t, n)[p + 1]
<1>1. p + 1 \in Cursors(t) /\ skipSpaces(t, p) = skipSpaces(t, p + 1)
  BY BlanksSkipped
<1> DEFINE k == parseFactor(t)[n - 1]
           b == skipSpaces(t, p)
<1>2. FactorAt(t, n, k, p) = FactorAt(t, n, k, p + 1)
  <2>1. b = skipSpaces(t, p + 1)
    BY <1>1
  <2>2. At(t, b) = Open \/ At(t, b) = Minus \/ At(t, b) \notin {Open, Minus}
    OBVIOUS
  <2> HIDE DEF k
  <2>3. CASE At(t, b) = Open
    BY <2>1, <2>3, FactorCases
  <2>4. CASE At(t, b) = Minus
    BY <2>1, <2>4, FactorCases
  <2>5. CASE At(t, b) \notin {Open, Minus}
    BY <2>1, <2>5, FactorCases
  <2> QED
    BY <2>2, <2>3, <2>4, <2>5
<1>3. FactorOf(t, n)[p] = FactorOf(t, n)[p + 1]
  BY <1>1, <1>2, Grammar
<1>4. Chain(t, Products, FactorOf(t, n), p) = Chain(t, Products, FactorOf(t, n), p + 1)
  BY <1>3 DEF Chain
<1> QED
  BY <1>1, <1>4, Grammar

\* What was read goes on over an operator of a sum, with its blanks, and a term.
LEMMA SumIsSum ==
    ASSUME NEW v \in Seq(Bytes), NEW x \in Worths, AsSum(v, x),
           NEW w \in Seq(Bytes), NEW y \in Worths, AsTerm(w, y), NEW op \in Sums
    PROVE  AsSum(v \o <<32, op, 32>> \o w, Result(x, op, y))
<1> DEFINE u == v \o <<32, op, 32>>
           a == u \o w
<1> SUFFICES ASSUME NEW t \in Seq(Bytes), NEW n \in Nat, NEW p \in Cursors(t), Placed(t, n, p, a),
                    At(t, skipSpaces(t, p + Len(a))) \notin Products
             PROVE  SumOf(t, n)[p]
                       = Continued(t, Sums, TermOf(t, n), Result(x, op, y), p + Len(a))
  BY DEF AsSum
<1>1. /\ op \in Bytes /\ op \notin White /\ op \notin NumberBytes /\ op \notin Products
      /\ 32 \in Bytes /\ 32 \in White /\ 32 \notin NumberBytes
  BY DEF Sums, Products, Star, Slash, PlusSign, Minus, Bytes, White, NumberBytes, DigitBytes, Point
<1> DEFINE g == <<32, op, 32>>
<1>2. g \in Seq(Bytes) /\ Len(g) = 3 /\ DOMAIN g = 1 .. 3 /\ g[1] = 32 /\ g[2] = op /\ g[3] = 32
  BY <1>1
<1>3. a = u \o w /\ u = v \o g
  OBVIOUS
<1> HIDE DEF a, u, g
<1>4. Len(v) \in Nat /\ Len(w) \in Nat /\ u \in Seq(Bytes) /\ Len(u) = Len(v) + 3
  <2>1. v \o g \in Seq(Bytes) /\ Len(v \o g) = Len(v) + Len(g)
    BY <1>2, ConcatProperties
  <2>2. Len(v) \in Nat /\ Len(w) \in Nat
    BY LenProperties
  <2> QED
    BY <1>2, <1>3, <2>1, <2>2
<1>5. a \in Seq(Bytes) /\ Len(a) = Len(v) + 3 + Len(w)
  <2>1. u \o w \in Seq(Bytes) /\ Len(u \o w) = Len(u) + Len(w)
    BY <1>4, ConcatProperties
  <2> QED
    BY <1>3, <1>4, <2>1
<1>6. /\ p \in Nat /\ Len(a) <= n /\ p + Len(a) \in Cursors(t)
      /\ HasAt(t, p, a) /\ At(t, p + Len(a)) \notin NumberBytes
  BY <1>5, PlacedEnds DEF Placed
<1> DEFINE m == p + Len(v)
           z == m + 3 + Len(w)
<1>7. /\ HasAt(t, p, v) /\ HasAt(t, m + 3, w)
      /\ At(t, m) = 32 /\ At(t, m + 1) = op /\ At(t, m + 2) = 32
  <2>1. HasAt(t, p, u) /\ HasAt(t, p + Len(u), w)
    BY <1>3, <1>4, <1>6, HasConcat
  <2>2. HasAt(t, p, v) /\ HasAt(t, m, g)
    BY <1>2, <1>3, <1>6, <2>1, HasConcat
  <2>3. p + Len(u) = m + 3 /\ m \in Nat
    BY <1>4, <1>6
  <2>4. \A i \in 1 .. 3 : At(t, m + i - 1) = g[i]
    BY <1>2, <2>2 DEF HasAt
  <2> HIDE DEF m
  <2>5. At(t, m + 1 - 1) = g[1] /\ At(t, m + 2 - 1) = g[2] /\ At(t, m + 3 - 1) = g[3]
    BY <2>4
  <2>6. m + 1 - 1 = m /\ m + 2 - 1 = m + 1 /\ m + 3 - 1 = m + 2
    BY <2>3
  <2> QED
    BY <1>2, <2>1, <2>2, <2>3, <2>5, <2>6
<1>8. /\ Len(v) <= n /\ Len(w) <= n
      /\ m \in Cursors(t) /\ m + 1 \in Cursors(t) /\ m + 2 \in Cursors(t) /\ m + 3 \in Cursors(t)
      /\ z \in Cursors(t) /\ z = p + Len(a) /\ (m + 1) + 1 = m + 2 /\ (m + 2) + 1 = m + 3
  <2>1. Len(t) \in Nat /\ Cursors(t) = 1 .. Len(t) + 1
    BY LenProperties DEF Cursors
  <2> QED
    BY <1>4, <1>5, <1>6, <2>1
<1>9. Placed(t, n, p, v)
  BY <1>1, <1>7, <1>8 DEF Placed
<1>10. Placed(t, n, m + 3, w)
  BY <1>6, <1>7, <1>8 DEF Placed
<1> DEFINE term == TermOf(t, n)
           e == skipSpaces(t, z)
<1> HIDE DEF z
<1>11. skipSpaces(t, m) = m + 1
  <2>1. skipSpaces(t, m) = skipSpaces(t, m + 1)
    BY <1>1, <1>7, <1>8, BlanksSkipped
  <2>2. skipSpaces(t, m + 1) = m + 1
    BY <1>1, <1>7, <1>8, BlanksSkipped
  <2> QED
    BY <2>1, <2>2
<1>12. SumOf(t, n)[p] = Continued(t, Sums, term, x, m)
  <2>1. At(t, skipSpaces(t, m)) \notin Products
    BY <1>1, <1>7, <1>11
  <2> QED
    BY <1>9, <2>1 DEF AsSum
<1>13. term[m + 2] = Got(y, e)
  <2>1. term[m + 2] = term[m + 3]
    BY <1>1, <1>7, <1>8, BlankBefore
  <2>2. At(t, skipSpaces(t, m + 3 + Len(w))) \notin Products
    BY <1>8 DEF z
  <2>3. term[m + 3] = Got(y, skipSpaces(t, m + 3 + Len(w)))
    BY <1>8, <1>10, <2>2, TermEnds
  <2> QED
    BY <2>1, <2>3 DEF z
<1>14. Operands(t, term) /\ Sums \subseteq Signs
  BY Grammar DEF Signs
<1>15. e \in Cursors(t)
  BY <1>8, BlanksSkipped
<1> HIDE DEF term, m
<1> DEFINE s == skipSpaces(t, m)
<1>16. At(t, s) = op /\ At(t, s) \in Sums /\ term[s + 1] = Got(y, e)
  BY <1>7, <1>8, <1>11, <1>13
<1>17. Continued(t, Sums, term, x, m) = Continued(t, Sums, term, Result(x, op, y), e)
  <2> HIDE DEF e
  <2>1. Continued(t, Sums, term, x, m) = Continued(t, Sums, term, Result(x, At(t, s), y), e)
    BY <1>8, <1>14, <1>15, <1>16, LoopGoesOn
  <2> QED
    BY <1>16, <2>1
<1>18. Continued(t, Sums, term, Result(x, op, y), e) = Continued(t, Sums, term, Result(x, op, y), z)
  <2>1. Result(x, op, y) \in Worths
    BY ResultTyped DEF Signs
  <2> QED
    BY <1>8, <1>14, <2>1, LoopSkips
<1> QED
  BY <1>8, <1>12, <1>17, <1>18 DEF term

-----------------------------------------------------------------------------
(* Every expression is read as it is meant.                                 *)

Meant == [written : [0 .. 2 -> Seq(Bytes)], means : Worths]

Understood(e) ==
    \E x \in Worths :
       /\ Agrees(x, e.means)
       /\ AsFactor(e.written[2], x) /\ AsTerm(e.written[1], x) /\ AsSum(e.written[0], x)

\* A number is read as what it is.
LEMMA NumberMeant ==
    ASSUME NEW x \in Numbers
    PROVE  Number(x) \in Meant /\ Understood(Number(x))
<1> DEFINE e == Number(x)
           w == x.text
           v == <<Stod(w).num, Stod(w).den>>
<1>1. /\ w \in Seq(NumberBytes) /\ x.value \in Rationals /\ Stod(w).digits > 0
      /\ Same(v, x.value)
  BY NumberAssumption
<1>2. w \in Seq(Bytes)
  <2>1. NumberBytes \subseteq Bytes
    BY DEF NumberBytes, DigitBytes, Point, Bytes
  <2> QED
    BY <1>1, <2>1, LenProperties, ElementOfSeq
<1>3. /\ e.means = x.value /\ e.written = [place \in 0 .. 2 |-> w]
      /\ e = [written |-> e.written, means |-> e.means]
  BY DEF Number
<1> HIDE DEF e, w
<1>4. e.written[0] = w /\ e.written[1] = w /\ e.written[2] = w
  BY <1>3
<1>5. x.value \in Worths
  BY <1>1 DEF Worths
<1>6. e \in Meant
  <2>1. e.written \in [0 .. 2 -> Seq(Bytes)]
    BY <1>2, <1>3
  <2> QED
    BY <1>3, <1>5, <2>1 DEF Meant
<1>7. v \in Rationals
  <2>1. Stod(w) \in Readings
    BY <1>1, StodTyped
  <2> QED
    BY <2>1 DEF Readings, Rationals
<1> HIDE DEF v
<1>8. Agrees(v, e.means)
  BY <1>1, <1>3, <1>7, NothingElse DEF Agrees
<1>9. AsFactor(w, v)
  BY <1>1, NumberIsFactor DEF v
<1>10. v \in Worths
  BY <1>7 DEF Worths
<1>11. AsTerm(w, v)
  BY <1>2, <1>9, <1>10, FactorIsTerm
<1>12. AsSum(w, v)
  BY <1>2, <1>11, <1>10, TermIsSum
<1>13. Understood(e)
  BY <1>4, <1>8, <1>9, <1>10, <1>11, <1>12 DEF Understood
<1> QED
  BY <1>6, <1>13 DEF e

\* A negation is read as that of what is read.
LEMMA NegationMeant ==
    ASSUME NEW e \in Meant, Understood(e)
    PROVE  Negation(e) \in Meant /\ Understood(Negation(e))
<1> DEFINE d == Negation(e)
           w == <<Minus>> \o e.written[2]
<1>1. /\ e.written \in [0 .. 2 -> Seq(Bytes)] /\ e.means \in Worths
      /\ e.written[2] \in Seq(Bytes)
  BY DEF Meant
<1>2. d.means = NegResult(e.means) /\ d.written = [place \in 0 .. 2 |-> w]
      /\ d = [written |-> d.written, means |-> d.means]
  BY DEF Negation, NegResult
<1>3. w \in Seq(Bytes)
  <2>1. <<Minus>> \in Seq(Bytes)
    BY DEF Minus, Bytes
  <2> QED
    BY <1>1, <2>1, ConcatProperties
<1> HIDE DEF d
<1>4. PICK x \in Worths : Agrees(x, e.means) /\ AsFactor(e.written[2], x)
  BY DEF Understood
<1> DEFINE v == NegResult(x)
<1>5. v \in Worths /\ NegResult(e.means) \in Worths /\ Agrees(v, NegResult(e.means))
  <2>1. PlusSign \in Signs
    BY DEF Signs, Sums
  <2> QED
    BY <1>1, <1>4, <2>1, ResultTyped, ResultAgrees
<1>6. AsFactor(w, v)
  BY <1>1, <1>4, NegationIsFactor
<1> HIDE DEF w, v
<1>7. AsTerm(w, v)
  BY <1>3, <1>5, <1>6, FactorIsTerm
<1>8. AsSum(w, v)
  BY <1>3, <1>5, <1>7, TermIsSum
<1>9. d.written[0] = w /\ d.written[1] = w /\ d.written[2] = w
  BY <1>2
<1>10. d \in Meant
  <2>1. d.written \in [0 .. 2 -> Seq(Bytes)]
    BY <1>2, <1>3
  <2> QED
    BY <1>2, <1>5, <2>1 DEF Meant
<1>11. Understood(d)
  BY <1>2, <1>5, <1>6, <1>7, <1>8, <1>9 DEF Understood
<1> QED
  BY <1>10, <1>11 DEF d

\* The text of an operation, where its operator needs no parentheses.
Unclosed(l, op, r) ==
    IF op \in Sums THEN l.written[0] \o <<32, op, 32>> \o r.written[1]
    ELSE l.written[1] \o <<op>> \o r.written[2]

\* An operation stands in parentheses where it would be taken apart.
LEMMA OperationWritten ==
    ASSUME NEW l, NEW r, NEW op \in Signs
    PROVE  LET e == Operation(l, op, r)
               w == Unclosed(l, op, r)
           IN  /\ e.means = Result(l.means, op, r.means)
               /\ e.written = [place \in 0 .. 2 |->
                                 IF place > (IF op \in Sums THEN 0 ELSE 1)
                                 THEN <<Open>> \o w \o <<Close>> ELSE w]
               /\ e = [written |-> e.written, means |-> e.means]
<1>1. CASE op \in Sums
  BY <1>1 DEF Operation, Unclosed
<1>2. CASE op \notin Sums
  BY <1>2 DEF Operation, Unclosed
<1> QED
  BY <1>1, <1>2

\* An operation is read as that of what is read of its operands.
LEMMA OperationMeant ==
    ASSUME NEW l \in Meant, Understood(l), NEW r \in Meant, Understood(r), NEW op \in Signs
    PROVE  Operation(l, op, r) \in Meant /\ Understood(Operation(l, op, r))
<1> DEFINE e == Operation(l, op, r)
           w == Unclosed(l, op, r)
           c == <<Open>> \o w \o <<Close>>
           m == Result(l.means, op, r.means)
<1>1. /\ l.means \in Worths /\ r.means \in Worths
      /\ \A i \in 0 .. 2 : l.written[i] \in Seq(Bytes) /\ r.written[i] \in Seq(Bytes)
  BY DEF Meant
<1>2. PICK x \in Worths : /\ Agrees(x, l.means)
                          /\ AsTerm(l.written[1], x) /\ AsSum(l.written[0], x)
  BY DEF Understood
<1>3. PICK y \in Worths : /\ Agrees(y, r.means)
                          /\ AsFactor(r.written[2], y) /\ AsTerm(r.written[1], y)
  BY DEF Understood
<1> DEFINE v == Result(x, op, y)
<1>4. v \in Worths /\ m \in Worths /\ Agrees(v, m)
  BY <1>1, <1>2, <1>3, ResultTyped, ResultAgrees
<1>5. /\ e.means = m
      /\ e.written = [place \in 0 .. 2 |->
                        IF place > (IF op \in Sums THEN 0 ELSE 1) THEN c ELSE w]
      /\ e = [written |-> e.written, means |-> e.means]
  BY OperationWritten
<1> HIDE DEF e, m
<1>6. w \in Seq(Bytes) /\ AsSum(w, v) /\ (op \notin Sums => AsTerm(w, v))
  <2>1. CASE op \in Sums
    <3> DEFINE g == <<32, op, 32>>
               a == l.written[0] \o g
    <3>1. op \in Bytes
      BY <2>1 DEF Sums, PlusSign, Minus, Bytes
    <3>2. g \in Seq(Bytes)
      BY <3>1 DEF Bytes
    <3>3. w = a \o r.written[1]
      BY <2>1 DEF Unclosed
    <3> HIDE DEF g, w
    <3>4. a \in Seq(Bytes)
      BY <1>1, <3>2, ConcatProperties
    <3> HIDE DEF a
    <3>5. w \in Seq(Bytes)
      BY <1>1, <3>3, <3>4, ConcatProperties
    <3>6. AsSum(l.written[0] \o <<32, op, 32>> \o r.written[1], v)
      BY <1>1, <1>2, <1>3, <2>1, SumIsSum
    <3> QED
      BY <2>1, <3>3, <3>5, <3>6 DEF a, g
  <2>2. CASE op \notin Sums
    <3> DEFINE g == <<op>>
               a == l.written[1] \o g
    <3>1. op \in Bytes /\ op \in Products
      BY <2>2 DEF Signs, Products, Star, Slash, Bytes
    <3>2. g \in Seq(Bytes)
      BY <3>1
    <3>3. w = a \o r.written[2]
      BY <2>2 DEF Unclosed
    <3> HIDE DEF g, w
    <3>4. a \in Seq(Bytes)
      BY <1>1, <3>2, ConcatProperties
    <3> HIDE DEF a
    <3>5. w \in Seq(Bytes)
      BY <1>1, <3>3, <3>4, ConcatProperties
    <3>6. AsTerm(l.written[1] \o <<op>> \o r.written[2], v)
      BY <1>1, <1>2, <1>3, <3>1, ProductIsTerm
    <3>7. AsTerm(w, v)
      BY <3>3, <3>6 DEF a, g
    <3> HIDE DEF v
    <3>8. AsSum(w, v)
      BY <1>4, <3>5, <3>7, TermIsSum
    <3> QED
      BY <3>5, <3>7, <3>8
  <2> QED
    BY <2>1, <2>2
<1> HIDE DEF w, v
<1>7. c \in Seq(Bytes)
  <2>1. <<Open>> \in Seq(Bytes) /\ <<Close>> \in Seq(Bytes)
    BY DEF Open, Close, Bytes
  <2> DEFINE o == <<Open>>
             b == o \o w
             k == <<Close>>
  <2>2. c = b \o k
    OBVIOUS
  <2>3. o \in Seq(Bytes) /\ k \in Seq(Bytes)
    BY <2>1
  <2> HIDE DEF c, o, k
  <2>4. b \in Seq(Bytes)
    BY <1>6, <2>3, ConcatProperties
  <2> HIDE DEF b
  <2> QED
    BY <2>2, <2>3, <2>4, ConcatProperties
<1>8. AsFactor(c, v)
  BY <1>4, <1>6, ClosedIsFactor
<1> HIDE DEF c
<1>9. AsTerm(c, v)
  BY <1>4, <1>7, <1>8, FactorIsTerm
<1>10. e \in Meant
  <2>1. e.written \in [0 .. 2 -> Seq(Bytes)]
    BY <1>5, <1>6, <1>7
  <2> QED
    BY <1>4, <1>5, <2>1 DEF Meant
<1>11. /\ e.written[0] = w /\ e.written[2] = c
       /\ e.written[1] = IF op \in Sums THEN c ELSE w
  BY <1>5
<1>12. AsFactor(e.written[2], v) /\ AsTerm(e.written[1], v) /\ AsSum(e.written[0], v)
  BY <1>6, <1>8, <1>9, <1>11
<1>13. Understood(e)
  BY <1>4, <1>5, <1>12 DEF Understood
<1> QED
  BY <1>10, <1>13 DEF e

\* The expressions with one operator more.
Built(E) ==
    Leaves \cup {Negation(e) : e \in E}
      \cup {Operation(l, op, r) : l \in E, op \in Sums \cup Products, r \in E}

\* The expressions with one operator more are meant for something, and are
\* understood, if those they are built from are.
LEMMA BuiltMeant ==
    ASSUME NEW E, E \subseteq Meant
    PROVE  /\ Leaves \subseteq Meant /\ \A e \in Leaves : Understood(e)
           /\ (\A e \in E : Understood(e)) =>
                 Built(E) \subseteq Meant /\ \A e \in Built(E) : Understood(e)
<1>1. \A e \in Leaves : e \in Meant /\ Understood(e)
  BY NumberMeant DEF Leaves
<1>2. ASSUME \A e \in E : Understood(e), NEW d \in Built(E)
      PROVE  d \in Meant /\ Understood(d)
  <2>1. CASE d \in Leaves
    BY <1>1, <2>1
  <2>2. CASE \E e \in E : d = Negation(e)
    BY <1>2, <2>2, NegationMeant
  <2>3. CASE \E l \in E, op \in Sums \cup Products, r \in E : d = Operation(l, op, r)
    <3>1. PICK l \in E, op \in Sums \cup Products, r \in E : d = Operation(l, op, r)
      BY <2>3
    <3>2. op \in Signs /\ l \in Meant /\ r \in Meant /\ Understood(l) /\ Understood(r)
      BY <1>2 DEF Signs
    <3> QED
      BY <3>1, <3>2, OperationMeant
  <2> QED
    BY <1>2, <2>1, <2>2, <2>3 DEF Built
<1> QED
  BY <1>1, <1>2

\* Expressions that are understood, whatever the depth.
LEMMA ExpressionsUnderstood ==
    \A n \in Nat : Expressions[n] \subseteq Meant /\ \A e \in Expressions[n] : Understood(e)
<1> DEFINE S == {e \in Meant : Understood(e)}
           W == SUBSET S
           V == [n \in Nat |-> W]
           G == [a \in Nat \X W |-> Built(a[2])]
           Def(f) == f = [n \in Nat |-> IF n = 0 THEN Leaves ELSE Built(f[n - 1])]
           f == Expressions
<1>1. Leaves \in W
  <2>1. {} \subseteq Meant
    OBVIOUS
  <2> QED
    BY <2>1, BuiltMeant
<1>2. \A E \in W : Built(E) \in W
  <2> SUFFICES ASSUME NEW E \in W
               PROVE  Built(E) \in W
    OBVIOUS
  <2>1. E \subseteq Meant /\ \A e \in E : Understood(e)
    OBVIOUS
  <2> QED
    BY <2>1, BuiltMeant
<1>3. \A n \in Nat : V[n] = W /\ \A E \in W : G[<<n, E>>] = Built(E)
  OBVIOUS
<1>4. PICK g : Climbs(g, Nat, Leaves, G) /\ \A n \in Nat : g[n] \in W
  <2> DEFINE I == Nat
  <2>1. I \subseteq Nat /\ 0 \in I /\ \A n \in I : n # 0 => n - 1 \in I
    OBVIOUS
  <2>2. \A n \in I : n # 0 => \A E \in V[n - 1] : G[<<n, E>>] \in V[n]
    <3> HIDE DEF V, W, G
    <3> SUFFICES ASSUME NEW n \in I, n # 0, NEW E \in V[n - 1]
                 PROVE  G[<<n, E>>] \in V[n]
      OBVIOUS
    <3>1. n - 1 \in Nat /\ n \in Nat
      BY <2>1
    <3>2. E \in W
      BY <1>3, <3>1
    <3> QED
      BY <1>2, <1>3, <3>1, <3>2
  <2> HIDE DEF V, W, G, I
  <2>3. Leaves \in V[0]
    BY <1>1, <1>3
  <2>4. \E g : Climbs(g, I, Leaves, G) /\ \A n \in I : g[n] \in V[n]
    BY <2>1, <2>2, <2>3, LevelRecursion
  <2> QED
    BY <1>3, <2>4 DEF I
<1>5. \A n \in Nat : g[n] = IF n = 0 THEN Leaves ELSE Built(g[n - 1])
  <2> SUFFICES ASSUME NEW n \in Nat
               PROVE  g[n] = IF n = 0 THEN Leaves ELSE Built(g[n - 1])
    OBVIOUS
  <2> HIDE DEF G, W, V
  <2>1. g[n] = IF n = 0 THEN Leaves ELSE G[<<n, g[n - 1]>>]
    BY <1>4 DEF Climbs
  <2>2. n # 0 => g[n - 1] \in W
    BY <1>4
  <2> QED
    BY <1>3, <2>1, <2>2
<1>6. Def(g)
  <2> HIDE DEF G, W, V
  <2>1. g = [n \in Nat |-> g[n]]
    BY <1>4 DEF Climbs
  <2> QED
    BY <1>5, <2>1
<1>7. f = CHOOSE x : Def(x)
  BY DEF Expressions, Built
<1>8. Def(f)
  <2> HIDE DEF Def, f
  <2> QED
    BY <1>6, <1>7
<1> HIDE DEF f
<1>9. \A n \in Nat : f[n] = IF n = 0 THEN Leaves ELSE Built(f[n - 1])
  BY <1>8
<1> DEFINE Failing == {n \in Nat : f[n] \notin W}
<1>10. Failing = {}
  <2> SUFFICES ASSUME Failing # {}
               PROVE  FALSE
    OBVIOUS
  <2> HIDE DEF W
  <2>1. PICK n \in Failing : \A k \in Failing : n <= k
    <3>1. Failing \subseteq Nat
      OBVIOUS
    <3> HIDE DEF Failing
    <3> QED
      BY <3>1, Smallest
  <2>2. n \in Nat /\ f[n] \notin W
    BY <2>1
  <2>3. n # 0
    BY <1>1, <1>9, <2>2
  <2>4. n - 1 \in Nat /\ ~(n <= n - 1)
    BY <2>2, <2>3
  <2>5. f[n - 1] \in W
    BY <2>1, <2>4
  <2> QED
    BY <1>2, <1>9, <2>2, <2>3, <2>5
<1>11. \A n \in Nat : f[n] \in W
  BY <1>10
<1> QED
  BY <1>11 DEF f

\* What Evaluate says of an expression is what it means.
LEMMA EvaluateAgrees ==
    ASSUME NEW e \in Meant, Understood(e)
    PROVE  LET a == Evaluate(e.written[0])
           IN  IF e.means = Nothing THEN a.status = "error"
               ELSE a.status = "success" /\ Same(a.result, e.means)
<1> DEFINE t == e.written[0]
           n == Len(t)
           r == SumOf(t, n)[1]
           z == n + 1
<1>1. t \in Seq(Bytes)
  BY DEF Meant
<1>2. PICK x \in Worths : Agrees(x, e.means) /\ AsSum(t, x)
  BY DEF Understood
<1>3. /\ n \in Nat /\ 1 \in Cursors(t) /\ z \in Cursors(t) /\ 1 + Len(t) = z
      /\ At(t, z) = 0
  <2>1. n \in Nat /\ Cursors(t) = 1 .. n + 1
    BY <1>1, LenProperties DEF Cursors
  <2>2. z \in Int /\ z \notin 1 .. n
    BY <2>1
  <2> HIDE DEF z, t
  <2>3. At(t, z) = 0
    BY <1>1, <2>2, AtFacts
  <2> QED
    BY <2>1, <2>3 DEF z
<1>4. HasAt(t, 1, t)
  <2> SUFFICES ASSUME NEW i \in DOMAIN t
               PROVE  At(t, 1 + i - 1) = t[i]
    BY DEF HasAt
  <2>1. DOMAIN t = 1 .. n
    BY <1>1, LenProperties
  <2>2. 1 + i - 1 = i
    BY <1>3, <2>1
  <2>3. i \in DOMAIN t
    OBVIOUS
  <2> HIDE DEF t
  <2> QED
    BY <2>2, <2>3 DEF At
<1>5. skipSpaces(t, z) = z
  <2>1. At(t, z) \notin White
    BY <1>3 DEF White
  <2>2. z \in Cursors(t)
    BY <1>3
  <2> HIDE DEF t, z
  <2> QED
    BY <1>1, <2>1, <2>2, BlanksSkipped
<1>6. 0 \notin NumberBytes /\ 0 \notin Products /\ 0 \notin Sums
  BY DEF NumberBytes, DigitBytes, Point, Products, Sums, Star, Slash, PlusSign, Minus
<1> HIDE DEF t
<1>7. r = Got(x, z)
  <2>1. Placed(t, n, 1, t)
    BY <1>3, <1>4, <1>6 DEF Placed
  <2>2. At(t, skipSpaces(t, 1 + Len(t))) \notin Products
    BY <1>3, <1>5, <1>6
  <2>3. r = Continued(t, Sums, TermOf(t, n), x, z)
    BY <1>1, <1>2, <1>3, <2>1, <2>2 DEF AsSum
  <2> DEFINE term == TermOf(t, n)
  <2>4. Operands(t, term) /\ Sums \subseteq Signs
    BY <1>1, <1>3, Grammar DEF Signs
  <2>5. At(t, skipSpaces(t, z)) \notin Sums
    BY <1>3, <1>5, <1>6
  <2> HIDE DEF term, z, n, r
  <2>6. Continued(t, Sums, term, x, z) = Got(x, skipSpaces(t, z))
    BY <1>1, <1>3, <2>4, <2>5, LoopEnds
  <2> QED
    BY <1>5, <2>3, <2>6 DEF term
<1>8. Evaluate(t) = IF r.ok THEN [status |-> "success", result |-> r.val] ELSE [status |-> "error"]
  BY DEF Evaluate, SumOf, FactorOf
<1> HIDE DEF r, z, n
<1> DEFINE a == Evaluate(t)
<1>9. CASE x = Nothing
  <2>1. ~r.ok
    BY <1>7, <1>9, OutcomeFacts DEF Got
  <2>2. a.status = "error"
    BY <1>8, <2>1
  <2>3. e.means = Nothing
    BY <1>2, <1>9, NothingElse DEF Agrees
  <2> QED
    BY <2>2, <2>3 DEF t
<1>10. CASE x # Nothing
  <2>1. x \in Rationals /\ r = Good(x, z)
    BY <1>7, <1>10 DEF Got, Worths
  <2>2. r.ok /\ r.val = x
    BY <1>3, <2>1, OutcomeFacts
  <2>3. a = [status |-> "success", result |-> x]
    BY <1>8, <2>2
  <2>4. a.status = "success" /\ a.result = x
    BY <2>3
  <2>5. e.means # Nothing /\ Same(x, e.means)
    BY <1>2, <1>10 DEF Agrees
  <2> QED
    BY <2>4, <2>5 DEF t
<1> QED
  BY <1>9, <1>10

\* The answer of the tool is that of Evaluate, on an expression of the depth.
Answered ==
    /\ expression \in Expressions[ExpressionDepth]
    /\ answer \in {Unanswered, Evaluate(expression.written[0])}

\* The answer is the value of the expression, or an error where it has none, for
\* every expression of any depth and any numbers (ToolBuildin.cc:76-146).
THEOREM CalculatesCorrect == CalculatorSpec => []Calculates
<1>1. CalculatorInit => Answered
  BY DEF CalculatorInit, Answered
<1>2. Answered /\ [Call]_calculation => Answered'
  <2> SUFFICES ASSUME Answered, [Call]_calculation
               PROVE  Answered'
    OBVIOUS
  <2>1. CASE Call
    BY <2>1 DEF Call, Answered
  <2>2. CASE UNCHANGED calculation
    BY <2>2 DEF calculation, Answered
  <2> QED
    BY <2>1, <2>2
<1>3. Answered => Calculates
  <2> SUFFICES ASSUME Answered, answer # Unanswered
               PROVE  IF expression.means = Nothing THEN answer.status = "error"
                      ELSE answer.status = "success" /\ Same(answer.result, expression.means)
    BY DEF Calculates
  <2>1. expression \in Meant /\ Understood(expression)
    BY NumberAssumption, ExpressionsUnderstood DEF Answered
  <2>2. answer = Evaluate(expression.written[0])
    BY DEF Answered
  <2> QED
    BY <2>1, <2>2, EvaluateAgrees
<1> QED
  BY <1>1, <1>2, <1>3, PTL DEF CalculatorSpec
=============================================================================
