--------------------------- MODULE SequenceFacts ---------------------------
(***************************************************************************)
(* What the proofs need of sequences and numbers and the library does not   *)
(* state: what a sequence holds, and whether it holds it once, when         *)
(* sequences are put behind each other and taken apart.                     *)
(***************************************************************************)
EXTENDS Integers, Sequences, SequenceTheorems, WellFoundedInduction, TLAPS

\* s holds x.
Holds(s, x) == \E i \in 1 .. Len(s) : s[i] = x

\* It holds it at most once.
Single(s, x) == \A i, j \in 1 .. Len(s) : s[i] = x /\ s[j] = x => i = j

-----------------------------------------------------------------------------

\* A set of numbers has a smallest one.
LEMMA Smallest ==
    ASSUME NEW S, S \subseteq Nat, S # {}
    PROVE  \E m \in S : \A n \in S : m <= n
<1> DEFINE Less == {p \in Nat \X Nat : p[1] < p[2]}
<1>1. IsWellFoundedOn(Less, Nat)
  BY NatLessThanWellFounded DEF OpToRel
<1>2. PICK m \in S : \A n \in S : <<n, m>> \notin Less
  <2> HIDE DEF Less
  <2> QED
    BY <1>1, WFMin
<1>3. ASSUME NEW n \in S PROVE m <= n
  <2>1. ~ (n < m)
    BY <1>2
  <2> QED
    BY <2>1
<1> QED
  BY <1>3

\* What two sequences hold they hold one behind the other.
LEMMA HoldsConcat ==
    ASSUME NEW S, NEW a \in Seq(S), NEW b \in Seq(S), NEW x
    PROVE  /\ Holds(a \o b, x) <=> Holds(a, x) \/ Holds(b, x)
           /\ Single(a \o b, x) <=> /\ Single(a, x) /\ Single(b, x)
                                    /\ ~(Holds(a, x) /\ Holds(b, x))
<1> DEFINE c == a \o b
<1>1. /\ Len(a) \in Nat /\ Len(b) \in Nat /\ Len(c) = Len(a) + Len(b)
      /\ \A i \in 1 .. Len(a) + Len(b) :
            c[i] = IF i <= Len(a) THEN a[i] ELSE b[i - Len(a)]
  BY ConcatProperties, LenProperties
<1> HIDE DEF c
<1>2. \A i \in 1 .. Len(a) : i \in 1 .. Len(c) /\ c[i] = a[i]
  BY <1>1
<1>3. \A i \in 1 .. Len(b) : Len(a) + i \in 1 .. Len(c) /\ c[Len(a) + i] = b[i]
  <2> SUFFICES ASSUME NEW i \in 1 .. Len(b)
               PROVE  Len(a) + i \in 1 .. Len(c) /\ c[Len(a) + i] = b[i]
    OBVIOUS
  <2>1. /\ Len(a) + i \in 1 .. Len(a) + Len(b) /\ ~(Len(a) + i <= Len(a))
        /\ (Len(a) + i) - Len(a) = i
    BY <1>1
  <2> QED
    BY <1>1, <2>1
<1>4. \A i \in 1 .. Len(c) :
        \/ i \in 1 .. Len(a)
        \/ \E k \in 1 .. Len(b) : i = Len(a) + k
  <2> SUFFICES ASSUME NEW i \in 1 .. Len(c), i \notin 1 .. Len(a)
               PROVE  \E k \in 1 .. Len(b) : i = Len(a) + k
    OBVIOUS
  <2>1. i - Len(a) \in 1 .. Len(b) /\ i = Len(a) + (i - Len(a))
    BY <1>1
  <2> QED
    BY <2>1
<1>5. Holds(c, x) <=> Holds(a, x) \/ Holds(b, x)
  BY <1>2, <1>3, <1>4 DEF Holds
<1>6. ASSUME Single(c, x)
      PROVE  Single(a, x) /\ Single(b, x) /\ ~(Holds(a, x) /\ Holds(b, x))
  <2>1. Single(a, x)
    BY <1>2, <1>6 DEF Single
  <2>2. Single(b, x)
    <3> SUFFICES ASSUME NEW i \in 1 .. Len(b), NEW j \in 1 .. Len(b),
                        b[i] = x, b[j] = x
                 PROVE  i = j
      BY DEF Single
    <3>1. Len(a) + i = Len(a) + j
      BY <1>3, <1>6 DEF Single
    <3> QED
      BY <1>1, <3>1
  <2>3. ASSUME NEW i \in 1 .. Len(a), NEW j \in 1 .. Len(b), a[i] = x, b[j] = x
        PROVE  FALSE
    <3>1. i = Len(a) + j
      BY <1>2, <1>3, <1>6, <2>3 DEF Single
    <3> QED
      BY <1>1, <3>1
  <2> QED
    BY <2>1, <2>2, <2>3 DEF Holds
<1>7. ASSUME Single(a, x), Single(b, x), ~(Holds(a, x) /\ Holds(b, x))
      PROVE  Single(c, x)
  <2> SUFFICES ASSUME NEW i \in 1 .. Len(c), NEW j \in 1 .. Len(c),
                      c[i] = x, c[j] = x
               PROVE  i = j
    BY DEF Single
  <2>1. CASE i \in 1 .. Len(a) /\ j \in 1 .. Len(a)
    BY <1>2, <1>7, <2>1 DEF Single
  <2>2. ASSUME NEW k \in 1 .. Len(b), NEW l \in 1 .. Len(b),
               i = Len(a) + k, j = Len(a) + l
        PROVE  i = j
    BY <1>3, <1>7, <2>2 DEF Single
  <2>3. ASSUME NEW h \in 1 .. Len(a), NEW k \in 1 .. Len(b), c[h] = x,
               c[Len(a) + k] = x
        PROVE  FALSE
    BY <1>2, <1>3, <1>7, <2>3 DEF Holds
  <2> QED
    BY <1>4, <2>1, <2>2, <2>3
<1> QED
  BY <1>5, <1>6, <1>7 DEF c

\* The smallest sequences.
LEMMA HoldsNothing ==
    ASSUME NEW x PROVE ~Holds(<<>>, x) /\ Single(<<>>, x)
BY DEF Holds, Single

LEMMA HoldsOne ==
    ASSUME NEW y, NEW x
    PROVE  (Holds(<<y>>, x) <=> x = y) /\ Single(<<y>>, x)
<1>1. Len(<<y>>) = 1 /\ <<y>>[1] = y
  OBVIOUS
<1> QED
  BY <1>1 DEF Holds, Single

\* One more in front.
LEMMA HoldsFront ==
    ASSUME NEW S, NEW s \in Seq(S), NEW y \in S, NEW x
    PROVE  /\ Holds(<<y>> \o s, x) <=> x = y \/ Holds(s, x)
           /\ Single(<<y>> \o s, x) <=> Single(s, x) /\ ~(Holds(s, x) /\ x = y)
<1> DEFINE one == <<y>>
<1>1. one \in Seq(S)
  OBVIOUS
<1>2. (Holds(one, x) <=> x = y) /\ Single(one, x)
  BY HoldsOne
<1> HIDE DEF one
<1>3. /\ Holds(one \o s, x) <=> x = y \/ Holds(s, x)
      /\ Single(one \o s, x) <=> Single(s, x) /\ ~(Holds(s, x) /\ x = y)
  BY <1>1, <1>2, HoldsConcat
<1> QED
  BY <1>3 DEF one

\* The first element and the others.
LEMMA HoldsHead ==
    ASSUME NEW S, NEW s \in Seq(S), s # <<>>, NEW x
    PROVE  /\ Head(s) \in S /\ Tail(s) \in Seq(S)
           /\ Holds(s, x) <=> x = Head(s) \/ Holds(Tail(s), x)
           /\ Single(s, x) <=> /\ Single(Tail(s), x)
                               /\ ~(Holds(Tail(s), x) /\ x = Head(s))
<1> DEFINE head == Head(s)
           rest == Tail(s)
           both == <<head>> \o rest
<1>1. /\ head \in S /\ rest \in Seq(S) /\ head = s[1]
      /\ Len(rest) = Len(s) - 1 /\ Len(s) \in Nat \ {0}
      /\ \A i \in 1 .. Len(rest) : rest[i] = s[i + 1]
  BY HeadTailProperties, EmptySeq
<1> HIDE DEF head, rest
<1>2. <<head>> \in Seq(S) /\ Len(<<head>>) = 1 /\ <<head>>[1] = head
  BY <1>1
<1>3. /\ both \in Seq(S) /\ Len(both) = Len(s)
      /\ \A i \in 1 .. Len(s) : both[i] = IF i <= 1 THEN <<head>>[i] ELSE rest[i - 1]
  <2> DEFINE one == <<head>>
  <2> HIDE DEF one
  <2>1. /\ one \o rest \in Seq(S) /\ Len(one \o rest) = Len(one) + Len(rest)
        /\ \A i \in 1 .. Len(one) + Len(rest) :
              (one \o rest)[i] = IF i <= Len(one) THEN one[i] ELSE rest[i - Len(one)]
    BY <1>1, <1>2, ConcatProperties DEF one
  <2>2. Len(one) = 1 /\ 1 + Len(rest) = Len(s)
    BY <1>1, <1>2 DEF one
  <2>3. /\ one \o rest \in Seq(S) /\ Len(one \o rest) = Len(s)
        /\ \A i \in 1 .. Len(s) :
              (one \o rest)[i] = IF i <= 1 THEN one[i] ELSE rest[i - 1]
    BY <2>1, <2>2
  <2> QED
    BY <2>3 DEF one
<1> HIDE DEF both
<1>4. ASSUME NEW i \in 1 .. Len(both) PROVE both[i] = s[i]
  <2>1. CASE i = 1
    BY <1>1, <1>2, <1>3, <2>1
  <2>2. CASE i # 1
    <3>1. i - 1 \in 1 .. Len(rest) /\ (i - 1) + 1 = i /\ ~(i <= 1)
          /\ i \in 1 .. Len(s)
      BY <1>1, <1>3, <2>2
    <3> QED
      BY <1>1, <1>3, <3>1
  <2> QED
    BY <2>1, <2>2
<1>5. both = s
  BY <1>3, <1>4, SeqEqual
<1>6. /\ Holds(both, x) <=> x = head \/ Holds(rest, x)
      /\ Single(both, x) <=> Single(rest, x) /\ ~(Holds(rest, x) /\ x = head)
  BY <1>1, HoldsFront DEF both
<1> QED
  BY <1>1, <1>5, <1>6 DEF head, rest
=============================================================================
