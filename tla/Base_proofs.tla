----------------------------- MODULE Base_proofs -----------------------------
(***************************************************************************)
(* Proofs about source/Base.  Of Base64: decode gives back what was         *)
(* encoded, for any number of bytes.  Of Json: every node has one owner, a  *)
(* watcher points to its member, and what a statement writes is read back,  *)
(* for heaps and programs of any size.                                      *)
(***************************************************************************)
EXTENDS Base64, JsonWrites, SequenceFacts, FiniteSetTheorems, SequenceTheorems, TLAPS

-----------------------------------------------------------------------------
(* Base64.                                                                  *)

Byte == 0 .. 255

-----------------------------------------------------------------------------
(* One group.                                                               *)

LEMMA QuartetType ==
    ASSUME NEW a \in Byte, NEW b \in Byte, NEW c \in Byte, NEW m \in 0 .. 3
    PROVE  Quartet(a, b, c)[m + 1] \in Alphabet
<1>1. /\ a \div 4 \in Alphabet /\ (a % 4) * 16 + (b \div 16) \in Alphabet
      /\ (b % 16) * 4 + (c \div 64) \in Alphabet /\ c % 64 \in Alphabet
  BY DEF Byte, Alphabet
<1>2. m + 1 = 1 \/ m + 1 = 2 \/ m + 1 = 3 \/ m + 1 = 4
  OBVIOUS
<1> QED
  BY <1>1, <1>2 DEF Quartet

\* Two characters next to each other give a byte back, whatever is read for
\* the others.
GivesBack(a, b, c, p, q, r, s) ==
    LET e == Quartet(a, b, c)
        d == Triplet(p, q, r, s)
    IN  /\ p = e[1] /\ q = e[2] => d[1] = a
        /\ q = e[2] /\ r = e[3] => d[2] = b
        /\ r = e[3] /\ s = e[4] => d[3] = c

LEMMA TripletInverse ==
    ASSUME NEW a \in Byte, NEW b \in Byte, NEW c \in Byte,
           NEW p \in Byte, NEW q \in Byte, NEW r \in Byte, NEW s \in Byte
    PROVE  GivesBack(a, b, c, p, q, r, s)
<1> DEFINE e1 == a \div 4
           e2 == (a % 4) * 16 + (b \div 16)
           e3 == (b % 16) * 4 + (c \div 64)
           e4 == c % 64
<1>1. /\ (e1 * 4 + ((e2 \div 16) % 4)) % 256 = a
      /\ ((e2 % 16) * 16 + ((e3 \div 4) % 16)) % 256 = b
      /\ ((e3 % 4) * 64 + e4) % 256 = c
  <2>1. (e1 * 4 + ((e2 \div 16) % 4)) % 256 = a
    BY DEF Byte
  <2>2. ((e2 % 16) * 16 + ((e3 \div 4) % 16)) % 256 = b
    <3>1. e2 % 16 = b \div 16 /\ (e3 \div 4) % 16 = b % 16
      BY DEF Byte
    <3>2. ((b \div 16) * 16 + (b % 16)) % 256 = b
      BY DEF Byte
    <3> QED
      BY <3>1, <3>2
  <2>3. ((e3 % 4) * 64 + e4) % 256 = c
    <3>1. e3 % 4 = c \div 64
      BY DEF Byte
    <3>2. ((c \div 64) * 64 + (c % 64)) % 256 = c
      BY DEF Byte
    <3> QED
      BY <3>1, <3>2
  <2> QED
    BY <2>1, <2>2, <2>3
<1>2. Quartet(a, b, c) = <<e1, e2, e3, e4>>
  BY DEF Quartet
<1>3. Triplet(p, q, r, s) =
          <<(p * 4 + ((q \div 16) % 4)) % 256,
            ((q % 16) * 16 + ((r \div 4) % 16)) % 256, ((r % 4) * 64 + s) % 256>>
  BY DEF Triplet
<1> HIDE DEF e1, e2, e3, e4
<1> QED
  BY <1>1, <1>2, <1>3 DEF GivesBack

\* A bit of a number, the last one being number 0.
Bit(number, i) == (number \div 2 ^ i) % 2

\* The number that eight bits make, the first one counting 128.
Octet(x) == 128 * x[7] + 64 * x[6] + 32 * x[5] + 16 * x[4]
            + 8 * x[3] + 4 * x[2] + 2 * x[1] + x[0]

LEMMA BitsOfOctet ==
    ASSUME NEW x \in [0 .. 7 -> 0 .. 1]
    PROVE  \A i \in 0 .. 7 : Bit(Octet(x), i) = x[i]
<1> DEFINE n == Octet(x)
<1>1. /\ x[0] \in 0 .. 1 /\ x[1] \in 0 .. 1 /\ x[2] \in 0 .. 1 /\ x[3] \in 0 .. 1
      /\ x[4] \in 0 .. 1 /\ x[5] \in 0 .. 1 /\ x[6] \in 0 .. 1 /\ x[7] \in 0 .. 1
  OBVIOUS
<1>2. Bit(n, 0) = x[0]
  <2>1. 2 ^ 0 = 1
    OBVIOUS
  <2>2. n \div 1 = n
    BY <1>1 DEF Octet
  <2>3. n % 2 = x[0]
    BY <1>1 DEF Octet
  <2> QED
    BY <2>1, <2>2, <2>3 DEF Bit
<1>3. Bit(n, 1) = x[1]
  <2>1. 2 ^ 1 = 2
    OBVIOUS
  <2>2. n \div 2 = 64 * x[7] + 32 * x[6] + 16 * x[5] + 8 * x[4] + 4 * x[3] + 2 * x[2] + x[1]
    BY <1>1 DEF Octet
  <2>3. (64 * x[7] + 32 * x[6] + 16 * x[5] + 8 * x[4] + 4 * x[3] + 2 * x[2] + x[1]) % 2 = x[1]
    BY <1>1
  <2> QED
    BY <2>1, <2>2, <2>3 DEF Bit
<1>4. Bit(n, 2) = x[2]
  <2>1. 2 ^ 2 = 4
    OBVIOUS
  <2>2. n \div 4 = 32 * x[7] + 16 * x[6] + 8 * x[5] + 4 * x[4] + 2 * x[3] + x[2]
    BY <1>1 DEF Octet
  <2>3. (32 * x[7] + 16 * x[6] + 8 * x[5] + 4 * x[4] + 2 * x[3] + x[2]) % 2 = x[2]
    BY <1>1
  <2> QED
    BY <2>1, <2>2, <2>3 DEF Bit
<1>5. Bit(n, 3) = x[3]
  <2>1. 2 ^ 3 = 8
    OBVIOUS
  <2>2. n \div 8 = 16 * x[7] + 8 * x[6] + 4 * x[5] + 2 * x[4] + x[3]
    BY <1>1 DEF Octet
  <2>3. (16 * x[7] + 8 * x[6] + 4 * x[5] + 2 * x[4] + x[3]) % 2 = x[3]
    BY <1>1
  <2> QED
    BY <2>1, <2>2, <2>3 DEF Bit
<1>6. Bit(n, 4) = x[4]
  <2>1. 2 ^ 4 = 16
    OBVIOUS
  <2>2. n \div 16 = 8 * x[7] + 4 * x[6] + 2 * x[5] + x[4]
    BY <1>1 DEF Octet
  <2>3. (8 * x[7] + 4 * x[6] + 2 * x[5] + x[4]) % 2 = x[4]
    BY <1>1
  <2> QED
    BY <2>1, <2>2, <2>3 DEF Bit
<1>7. Bit(n, 5) = x[5]
  <2>1. 2 ^ 5 = 32
    OBVIOUS
  <2>2. n \div 32 = 4 * x[7] + 2 * x[6] + x[5]
    BY <1>1 DEF Octet
  <2>3. (4 * x[7] + 2 * x[6] + x[5]) % 2 = x[5]
    BY <1>1
  <2> QED
    BY <2>1, <2>2, <2>3 DEF Bit
<1>8. Bit(n, 6) = x[6]
  <2>1. 2 ^ 6 = 64
    OBVIOUS
  <2>2. n \div 64 = 2 * x[7] + x[6]
    BY <1>1 DEF Octet
  <2>3. (2 * x[7] + x[6]) % 2 = x[6]
    BY <1>1
  <2> QED
    BY <2>1, <2>2, <2>3 DEF Bit
<1>9. Bit(n, 7) = x[7]
  <2>1. 2 ^ 7 = 128
    OBVIOUS
  <2>2. n \div 128 = x[7]
    BY <1>1 DEF Octet
  <2>3. (x[7]) % 2 = x[7]
    BY <1>1
  <2> QED
    BY <2>1, <2>2, <2>3 DEF Bit
<1>10. \A i \in 0 .. 7 : \/ i = 0 \/ i = 1 \/ i = 2 \/ i = 3
                           \/ i = 4 \/ i = 5 \/ i = 6 \/ i = 7
  OBVIOUS
<1> QED
  BY <1>2, <1>3, <1>4, <1>5, <1>6, <1>7, <1>8, <1>9, <1>10

\* Every byte is made of eight bits.
LEMMA ByteIsOctet ==
    ASSUME NEW n \in Byte
    PROVE  \E x \in [0 .. 7 -> 0 .. 1] : n = Octet(x)
<1> DEFINE x == [i \in 0 .. 7 |->
                   IF i = 0 THEN n % 2 ELSE IF i = 1 THEN (n \div 2) % 2
                   ELSE IF i = 2 THEN (n \div 4) % 2 ELSE IF i = 3 THEN (n \div 8) % 2
                   ELSE IF i = 4 THEN (n \div 16) % 2 ELSE IF i = 5 THEN (n \div 32) % 2
                   ELSE IF i = 6 THEN (n \div 64) % 2 ELSE (n \div 128) % 2]
<1>1. /\ x[0] = n % 2 /\ x[1] = (n \div 2) % 2 /\ x[2] = (n \div 4) % 2
      /\ x[3] = (n \div 8) % 2 /\ x[4] = (n \div 16) % 2 /\ x[5] = (n \div 32) % 2
      /\ x[6] = (n \div 64) % 2 /\ x[7] = (n \div 128) % 2
  OBVIOUS
<1>2. x \in [0 .. 7 -> 0 .. 1]
  BY DEF Byte
<1> HIDE DEF x
<1>3. n = 2 * (n \div 2) + x[0]
  BY <1>1 DEF Byte
<1>4. n \div 2 = 2 * (n \div 4) + x[1]
  BY <1>1 DEF Byte
<1>5. n \div 4 = 2 * (n \div 8) + x[2]
  BY <1>1 DEF Byte
<1>6. n \div 8 = 2 * (n \div 16) + x[3]
  BY <1>1 DEF Byte
<1>7. n \div 16 = 2 * (n \div 32) + x[4]
  BY <1>1 DEF Byte
<1>8. n \div 32 = 2 * (n \div 64) + x[5]
  BY <1>1 DEF Byte
<1>9. n \div 64 = 2 * (n \div 128) + x[6]
  BY <1>1 DEF Byte
<1>10. n \div 128 = x[7]
  BY <1>1 DEF Byte
<1>11. /\ x[0] \in 0 .. 1 /\ x[1] \in 0 .. 1 /\ x[2] \in 0 .. 1 /\ x[3] \in 0 .. 1
       /\ x[4] \in 0 .. 1 /\ x[5] \in 0 .. 1 /\ x[6] \in 0 .. 1 /\ x[7] \in 0 .. 1
  BY <1>2
<1>12. n = Octet(x)
  <2> DEFINE q == [i \in {2, 4, 8, 16, 32, 64, 128} |-> n \div i]
  <2>1. n = 2 * q[2] + x[0] /\ q[2] = 2 * q[4] + x[1] /\ q[4] = 2 * q[8] + x[2]
    BY <1>3, <1>4, <1>5
  <2>2. q[8] = 2 * q[16] + x[3] /\ q[16] = 2 * q[32] + x[4]
    BY <1>6, <1>7
  <2>3. q[32] = 2 * q[64] + x[5] /\ q[64] = 2 * q[128] + x[6] /\ q[128] = x[7]
    BY <1>8, <1>9, <1>10
  <2> HIDE DEF q
  <2> QED
    BY <1>11, <2>1, <2>2, <2>3 DEF Octet
<1> QED
  BY <1>2, <1>12

\* Bit j of the 24 bits of a group, counted from the first, is the same in the
\* characters and in the bytes.
LEMMA GroupBits ==
    ASSUME NEW a \in Byte, NEW b \in Byte, NEW c \in Byte, NEW j \in 0 .. 23
    PROVE  Bit(Quartet(a, b, c)[(j \div 6) + 1], 5 - (j % 6))
              = Bit(<<a, b, c>>[(j \div 8) + 1], 7 - (j % 8))
<1> DEFINE e1 == a \div 4
           e2 == (a % 4) * 16 + (b \div 16)
           e3 == (b % 16) * 4 + (c \div 64)
           e4 == c % 64
<1>a. PICK x \in [0 .. 7 -> 0 .. 1] : a = Octet(x)
  BY ByteIsOctet
<1>b. PICK y \in [0 .. 7 -> 0 .. 1] : b = Octet(y)
  BY ByteIsOctet
<1>c. PICK z \in [0 .. 7 -> 0 .. 1] : c = Octet(z)
  BY ByteIsOctet
<1>d. /\ \A i \in 0 .. 7 : Bit(a, i) = x[i]
      /\ \A i \in 0 .. 7 : Bit(b, i) = y[i]
      /\ \A i \in 0 .. 7 : Bit(c, i) = z[i]
  BY <1>a, <1>b, <1>c, BitsOfOctet
<1>1. /\ Bit(e1, 5) = Bit(a, 7)
      /\ Bit(e1, 4) = Bit(a, 6)
      /\ Bit(e1, 3) = Bit(a, 5)
      /\ Bit(e1, 2) = Bit(a, 4)
      /\ Bit(e1, 1) = Bit(a, 3)
      /\ Bit(e1, 0) = Bit(a, 2)
  <2> DEFINE w == [i \in 0 .. 7 |-> IF i = 0 THEN x[2] ELSE IF i = 1 THEN x[3] ELSE IF i = 2 THEN x[4]
                          ELSE IF i = 3 THEN x[5] ELSE IF i = 4 THEN x[6] ELSE IF i = 5 THEN x[7]
                          ELSE 0]
  <2>1. w \in [0 .. 7 -> 0 .. 1]
    OBVIOUS
  <2>2. /\ w[0] = x[2] /\ w[1] = x[3] /\ w[2] = x[4]
        /\ w[3] = x[5] /\ w[4] = x[6] /\ w[5] = x[7]
        /\ w[6] = 0 /\ w[7] = 0
    OBVIOUS
  <2> HIDE DEF w
  <2>3. e1 = Octet(w)
    <3>1. /\ x[0] \in 0 .. 1 /\ x[1] \in 0 .. 1 /\ x[2] \in 0 .. 1 /\ x[3] \in 0 .. 1
          /\ x[4] \in 0 .. 1 /\ x[5] \in 0 .. 1 /\ x[6] \in 0 .. 1 /\ x[7] \in 0 .. 1
      OBVIOUS
    <3>2. a \div 4 = 32 * x[7] + 16 * x[6] + 8 * x[5] + 4 * x[4] + 2 * x[3] + x[2]
      BY <1>a, <3>1 DEF Octet
    <3> QED
      BY <2>2, <3>1, <3>2 DEF Octet
  <2>4. \A i \in 0 .. 7 : Bit(e1, i) = w[i]
    BY <2>1, <2>3, BitsOfOctet
  <2> HIDE DEF e1
  <2> QED
    BY <1>d, <2>2, <2>4
<1>2. /\ Bit(e2, 5) = Bit(a, 1)
      /\ Bit(e2, 4) = Bit(a, 0)
      /\ Bit(e2, 3) = Bit(b, 7)
      /\ Bit(e2, 2) = Bit(b, 6)
      /\ Bit(e2, 1) = Bit(b, 5)
      /\ Bit(e2, 0) = Bit(b, 4)
  <2> DEFINE w == [i \in 0 .. 7 |-> IF i = 0 THEN y[4] ELSE IF i = 1 THEN y[5] ELSE IF i = 2 THEN y[6]
                          ELSE IF i = 3 THEN y[7] ELSE IF i = 4 THEN x[0] ELSE IF i = 5 THEN x[1]
                          ELSE 0]
  <2>1. w \in [0 .. 7 -> 0 .. 1]
    OBVIOUS
  <2>2. /\ w[0] = y[4] /\ w[1] = y[5] /\ w[2] = y[6]
        /\ w[3] = y[7] /\ w[4] = x[0] /\ w[5] = x[1]
        /\ w[6] = 0 /\ w[7] = 0
    OBVIOUS
  <2> HIDE DEF w
  <2>3. e2 = Octet(w)
    <3>1. /\ x[0] \in 0 .. 1 /\ x[1] \in 0 .. 1 /\ x[2] \in 0 .. 1 /\ x[3] \in 0 .. 1
          /\ x[4] \in 0 .. 1 /\ x[5] \in 0 .. 1 /\ x[6] \in 0 .. 1 /\ x[7] \in 0 .. 1
          /\ y[0] \in 0 .. 1 /\ y[1] \in 0 .. 1 /\ y[2] \in 0 .. 1 /\ y[3] \in 0 .. 1
          /\ y[4] \in 0 .. 1 /\ y[5] \in 0 .. 1 /\ y[6] \in 0 .. 1 /\ y[7] \in 0 .. 1
      OBVIOUS
    <3>2. a % 4 = 2 * x[1] + x[0]
      BY <1>a, <3>1 DEF Octet
    <3>3. b \div 16 = 8 * y[7] + 4 * y[6] + 2 * y[5] + y[4]
      BY <1>b, <3>1 DEF Octet
    <3> QED
      BY <2>2, <3>1, <3>2, <3>3 DEF Octet
  <2>4. \A i \in 0 .. 7 : Bit(e2, i) = w[i]
    BY <2>1, <2>3, BitsOfOctet
  <2> HIDE DEF e2
  <2> QED
    BY <1>d, <2>2, <2>4
<1>3. /\ Bit(e3, 5) = Bit(b, 3)
      /\ Bit(e3, 4) = Bit(b, 2)
      /\ Bit(e3, 3) = Bit(b, 1)
      /\ Bit(e3, 2) = Bit(b, 0)
      /\ Bit(e3, 1) = Bit(c, 7)
      /\ Bit(e3, 0) = Bit(c, 6)
  <2> DEFINE w == [i \in 0 .. 7 |-> IF i = 0 THEN z[6] ELSE IF i = 1 THEN z[7] ELSE IF i = 2 THEN y[0]
                          ELSE IF i = 3 THEN y[1] ELSE IF i = 4 THEN y[2] ELSE IF i = 5 THEN y[3]
                          ELSE 0]
  <2>1. w \in [0 .. 7 -> 0 .. 1]
    OBVIOUS
  <2>2. /\ w[0] = z[6] /\ w[1] = z[7] /\ w[2] = y[0]
        /\ w[3] = y[1] /\ w[4] = y[2] /\ w[5] = y[3]
        /\ w[6] = 0 /\ w[7] = 0
    OBVIOUS
  <2> HIDE DEF w
  <2>3. e3 = Octet(w)
    <3>1. /\ y[0] \in 0 .. 1 /\ y[1] \in 0 .. 1 /\ y[2] \in 0 .. 1 /\ y[3] \in 0 .. 1
          /\ y[4] \in 0 .. 1 /\ y[5] \in 0 .. 1 /\ y[6] \in 0 .. 1 /\ y[7] \in 0 .. 1
          /\ z[0] \in 0 .. 1 /\ z[1] \in 0 .. 1 /\ z[2] \in 0 .. 1 /\ z[3] \in 0 .. 1
          /\ z[4] \in 0 .. 1 /\ z[5] \in 0 .. 1 /\ z[6] \in 0 .. 1 /\ z[7] \in 0 .. 1
      OBVIOUS
    <3>2. b % 16 = 8 * y[3] + 4 * y[2] + 2 * y[1] + y[0]
      BY <1>b, <3>1 DEF Octet
    <3>3. c \div 64 = 2 * z[7] + z[6]
      BY <1>c, <3>1 DEF Octet
    <3> QED
      BY <2>2, <3>1, <3>2, <3>3 DEF Octet
  <2>4. \A i \in 0 .. 7 : Bit(e3, i) = w[i]
    BY <2>1, <2>3, BitsOfOctet
  <2> HIDE DEF e3
  <2> QED
    BY <1>d, <2>2, <2>4
<1>4. /\ Bit(e4, 5) = Bit(c, 5)
      /\ Bit(e4, 4) = Bit(c, 4)
      /\ Bit(e4, 3) = Bit(c, 3)
      /\ Bit(e4, 2) = Bit(c, 2)
      /\ Bit(e4, 1) = Bit(c, 1)
      /\ Bit(e4, 0) = Bit(c, 0)
  <2> DEFINE w == [i \in 0 .. 7 |-> IF i = 0 THEN z[0] ELSE IF i = 1 THEN z[1] ELSE IF i = 2 THEN z[2]
                          ELSE IF i = 3 THEN z[3] ELSE IF i = 4 THEN z[4] ELSE IF i = 5 THEN z[5]
                          ELSE 0]
  <2>1. w \in [0 .. 7 -> 0 .. 1]
    OBVIOUS
  <2>2. /\ w[0] = z[0] /\ w[1] = z[1] /\ w[2] = z[2]
        /\ w[3] = z[3] /\ w[4] = z[4] /\ w[5] = z[5]
        /\ w[6] = 0 /\ w[7] = 0
    OBVIOUS
  <2> HIDE DEF w
  <2>3. e4 = Octet(w)
    <3>1. /\ z[0] \in 0 .. 1 /\ z[1] \in 0 .. 1 /\ z[2] \in 0 .. 1 /\ z[3] \in 0 .. 1
          /\ z[4] \in 0 .. 1 /\ z[5] \in 0 .. 1 /\ z[6] \in 0 .. 1 /\ z[7] \in 0 .. 1
      OBVIOUS
    <3>2. c % 64 = 32 * z[5] + 16 * z[4] + 8 * z[3] + 4 * z[2] + 2 * z[1] + z[0]
      BY <1>c, <3>1 DEF Octet
    <3> QED
      BY <2>2, <3>1, <3>2 DEF Octet
  <2>4. \A i \in 0 .. 7 : Bit(e4, i) = w[i]
    BY <2>1, <2>3, BitsOfOctet
  <2> HIDE DEF e4
  <2> QED
    BY <1>d, <2>2, <2>4
<1>5. Quartet(a, b, c) = <<e1, e2, e3, e4>>
  BY DEF Quartet
<1> HIDE DEF e1, e2, e3, e4
<1>6. CASE j \in 0 .. 5
  <2>1. j \div 6 = 0 /\ j % 6 = j - 0
    BY <1>6
  <2>2. \/ j = 0 /\ j \div 8 = 0 /\ j % 8 = 0
        \/ j = 1 /\ j \div 8 = 0 /\ j % 8 = 1
        \/ j = 2 /\ j \div 8 = 0 /\ j % 8 = 2
        \/ j = 3 /\ j \div 8 = 0 /\ j % 8 = 3
        \/ j = 4 /\ j \div 8 = 0 /\ j % 8 = 4
        \/ j = 5 /\ j \div 8 = 0 /\ j % 8 = 5
    BY <1>6
  <2> QED
    BY <1>1, <1>5, <2>1, <2>2
<1>7. CASE j \in 6 .. 11
  <2>1. j \div 6 = 1 /\ j % 6 = j - 6
    BY <1>7
  <2>2. \/ j = 6 /\ j \div 8 = 0 /\ j % 8 = 6
        \/ j = 7 /\ j \div 8 = 0 /\ j % 8 = 7
        \/ j = 8 /\ j \div 8 = 1 /\ j % 8 = 0
        \/ j = 9 /\ j \div 8 = 1 /\ j % 8 = 1
        \/ j = 10 /\ j \div 8 = 1 /\ j % 8 = 2
        \/ j = 11 /\ j \div 8 = 1 /\ j % 8 = 3
    BY <1>7
  <2> QED
    BY <1>2, <1>5, <2>1, <2>2
<1>8. CASE j \in 12 .. 17
  <2>1. j \div 6 = 2 /\ j % 6 = j - 12
    BY <1>8
  <2>2. \/ j = 12 /\ j \div 8 = 1 /\ j % 8 = 4
        \/ j = 13 /\ j \div 8 = 1 /\ j % 8 = 5
        \/ j = 14 /\ j \div 8 = 1 /\ j % 8 = 6
        \/ j = 15 /\ j \div 8 = 1 /\ j % 8 = 7
        \/ j = 16 /\ j \div 8 = 2 /\ j % 8 = 0
        \/ j = 17 /\ j \div 8 = 2 /\ j % 8 = 1
    BY <1>8
  <2> QED
    BY <1>3, <1>5, <2>1, <2>2
<1>9. CASE j \in 18 .. 23
  <2>1. j \div 6 = 3 /\ j % 6 = j - 18
    BY <1>9
  <2>2. \/ j = 18 /\ j \div 8 = 2 /\ j % 8 = 2
        \/ j = 19 /\ j \div 8 = 2 /\ j % 8 = 3
        \/ j = 20 /\ j \div 8 = 2 /\ j % 8 = 4
        \/ j = 21 /\ j \div 8 = 2 /\ j % 8 = 5
        \/ j = 22 /\ j \div 8 = 2 /\ j % 8 = 6
        \/ j = 23 /\ j \div 8 = 2 /\ j % 8 = 7
    BY <1>9
  <2> QED
    BY <1>4, <1>5, <2>1, <2>2
<1> QED
  BY <1>6, <1>7, <1>8, <1>9

-----------------------------------------------------------------------------
(* A whole text.                                                            *)

\* The groups of n bytes, and the characters that are not '='.
Groups(n) == (n + 2) \div 3
Kept(n) == Groups(n) + n

\* A byte of a text, or a zero that fills up its last group.
Filled(s, i) == IF i <= Len(s) THEN s[i] ELSE 0

LEMMA GroupsCount ==
    ASSUME NEW n \in Nat
    PROVE  /\ Groups(n) \in Nat /\ Kept(n) \in Nat
           /\ n <= 3 * Groups(n) /\ 3 * Groups(n) <= n + 2
           /\ Kept(n) = Groups(n) * 4 - (Groups(n) * 3 - n)
           /\ Kept(n) <= Groups(n) * 4
<1>1. Groups(n) \in Nat
  BY DEF Groups
<1>2. n <= 3 * Groups(n) /\ 3 * Groups(n) <= n + 2
  BY DEF Groups
<1> QED
  BY <1>1, <1>2 DEF Kept

LEMMA FilledType ==
    ASSUME NEW s \in Seq(Byte), NEW i \in Nat \ {0}
    PROVE  Filled(s, i) \in Byte
<1>1. CASE i <= Len(s)
  <2>1. s[i] \in Byte
    BY <1>1, ElementOfSeq
  <2> QED
    BY <1>1, <2>1 DEF Filled
<1>2. CASE ~(i <= Len(s))
  BY <1>2 DEF Filled, Byte
<1> QED
  BY <1>1, <1>2

\* The characters of a text: those of its groups up to the last that has a bit
\* of a byte, and '=' behind it.
LEMMA EncodeIs ==
    ASSUME NEW s \in Seq(Byte)
    PROVE  LET n == Len(s)
               t == Encode(s)
           IN  /\ t \in Seq(Alphabet \cup {Pad}) /\ Len(t) = Groups(n) * 4
               /\ \A k \in 1 .. Len(t) : k > Kept(n) => t[k] = Pad
               /\ \A g \in Nat, m \in 0 .. 3 :
                     4 * g + m + 1 <= Kept(n) =>
                         /\ t[4 * g + m + 1] =
                                Quartet(Filled(s, 3 * g + 1), Filled(s, 3 * g + 2),
                                        Filled(s, 3 * g + 3))[m + 1]
                         /\ t[4 * g + m + 1] \in Alphabet
<1> DEFINE n == Len(s)
           t == Encode(s)
           char(k) == IF k > Kept(n) THEN Pad
                      ELSE Quartet(Filled(s, ((k - 1) \div 4) * 3 + 1),
                                   Filled(s, ((k - 1) \div 4) * 3 + 2),
                                   Filled(s, ((k - 1) \div 4) * 3 + 3))
                               [((k - 1) % 4) + 1]
<1>1. n \in Nat
  OBVIOUS
<1>2. Groups(n) * 4 \in Nat /\ Kept(n) \in Nat /\ Kept(n) <= Groups(n) * 4
  <2> HIDE DEF n
  <2>1. Groups(n) \in Nat /\ Kept(n) \in Nat /\ Kept(n) <= Groups(n) * 4
    BY <1>1, GroupsCount
  <2> QED
    BY <2>1
<1>3. t = [k \in 1 .. Groups(n) * 4 |-> char(k)]
  <2>1. Groups(n) = (Len(s) + 2) \div 3
    BY DEF Groups
  <2>2. Kept(n) = ((Len(s) + 2) \div 3) * 4 - (((Len(s) + 2) \div 3) * 3 - Len(s))
    BY <1>1, <2>1, GroupsCount
  <2> QED
    BY <2>1, <2>2 DEF Encode, Filled
<1>4. \A k \in 1 .. Groups(n) * 4 : k <= Kept(n) => char(k) \in Alphabet
  <2> SUFFICES ASSUME NEW k \in 1 .. Groups(n) * 4, k <= Kept(n)
               PROVE  char(k) \in Alphabet
    OBVIOUS
  <2> DEFINE g == (k - 1) \div 4
             m == (k - 1) % 4
  <2>0. k \in Nat /\ k >= 1
    BY <1>2
  <2>1. g \in Nat /\ m \in 0 .. 3
    BY <2>0
  <2> HIDE DEF g, m
  <2>2. /\ Filled(s, g * 3 + 1) \in Byte /\ Filled(s, g * 3 + 2) \in Byte
        /\ Filled(s, g * 3 + 3) \in Byte
    BY <2>1, FilledType
  <2>3. Quartet(Filled(s, g * 3 + 1), Filled(s, g * 3 + 2), Filled(s, g * 3 + 3))[m + 1]
            \in Alphabet
    BY <2>1, <2>2, QuartetType
  <2>4. ~(k > Kept(n))
    BY <1>2, <2>0
  <2> QED
    BY <2>3, <2>4 DEF g, m
<1>5. \A k \in 1 .. Groups(n) * 4 : char(k) \in Alphabet \cup {Pad}
  <2> SUFFICES ASSUME NEW k \in 1 .. Groups(n) * 4
               PROVE  char(k) \in Alphabet \cup {Pad}
    OBVIOUS
  <2>1. CASE k > Kept(n)
    BY <2>1
  <2>2. CASE k <= Kept(n)
    BY <1>4, <2>2
  <2> QED
    BY <1>2, <2>1, <2>2
<1>6. \A k \in 1 .. Groups(n) * 4 : k > Kept(n) => char(k) = Pad
  OBVIOUS
<1>7. \A g \in Nat, m \in 0 .. 3 : 4 * g + m + 1 <= Kept(n) =>
          char(4 * g + m + 1) =
              Quartet(Filled(s, 3 * g + 1), Filled(s, 3 * g + 2),
                      Filled(s, 3 * g + 3))[m + 1]
  <2> SUFFICES ASSUME NEW g \in Nat, NEW m \in 0 .. 3, 4 * g + m + 1 <= Kept(n)
               PROVE  char(4 * g + m + 1) =
                          Quartet(Filled(s, 3 * g + 1), Filled(s, 3 * g + 2),
                                  Filled(s, 3 * g + 3))[m + 1]
    OBVIOUS
  <2>1. ((4 * g + m + 1) - 1) \div 4 = g /\ ((4 * g + m + 1) - 1) % 4 = m
    OBVIOUS
  <2>2. g * 3 = 3 * g
    OBVIOUS
  <2>3. ~(4 * g + m + 1 > Kept(n))
    BY <1>2
  <2> QED
    BY <2>1, <2>2, <2>3
<1> HIDE DEF char
<1>8. t \in Seq(Alphabet \cup {Pad}) /\ Len(t) = Groups(n) * 4
  BY <1>3, <1>2, <1>5
<1>9. \A k \in 1 .. Groups(n) * 4 : t[k] = char(k)
  BY <1>3
<1>10. \A g \in Nat, m \in 0 .. 3 : 4 * g + m + 1 <= Kept(n) =>
           4 * g + m + 1 \in 1 .. Groups(n) * 4
  BY <1>2
<1> HIDE DEF t, n
<1>11. \A g \in Nat, m \in 0 .. 3 : 4 * g + m + 1 <= Kept(n) =>
           /\ t[4 * g + m + 1] = Quartet(Filled(s, 3 * g + 1), Filled(s, 3 * g + 2),
                                         Filled(s, 3 * g + 3))[m + 1]
           /\ t[4 * g + m + 1] \in Alphabet
  BY <1>4, <1>7, <1>9, <1>10
<1> QED
  BY <1>6, <1>8, <1>9, <1>11 DEF n, t

\* What was encoded comes back: the reading stops at the first '=', and the
\* characters before it hold every byte and no bit more than zeros.
LEMMA DecodeEncode ==
    ASSUME NEW s \in Seq(Byte)
    PROVE  Decode(Encode(s)) = s
<1> DEFINE n == Len(s)
           t == Encode(s)
           stops == {k \in DOMAIN t : t[k] \notin Alphabet}
           read == IF stops = {} THEN Len(t)
                   ELSE (CHOOSE k \in stops : \A j \in stops : k <= j) - 1
           char(k) == IF k <= read THEN t[k] ELSE NotFound
           size == (read \div 4) * 3 + (IF read % 4 = 0 THEN 0 ELSE (read % 4) - 1)
           three(i) == Triplet(char(((i - 1) \div 3) * 4 + 1), char(((i - 1) \div 3) * 4 + 2),
                               char(((i - 1) \div 3) * 4 + 3), char(((i - 1) \div 3) * 4 + 4))
<1>1. n \in Nat /\ s \in [1 .. n -> Byte]
  BY LenProperties
<1>2. /\ t \in Seq(Alphabet \cup {Pad}) /\ Len(t) = Groups(n) * 4
      /\ \A k \in 1 .. Len(t) : k > Kept(n) => t[k] = Pad
      /\ \A g \in Nat, m \in 0 .. 3 :
            4 * g + m + 1 <= Kept(n) =>
                /\ t[4 * g + m + 1] =
                       Quartet(Filled(s, 3 * g + 1), Filled(s, 3 * g + 2),
                               Filled(s, 3 * g + 3))[m + 1]
                /\ t[4 * g + m + 1] \in Alphabet
  BY EncodeIs
<1>3. Decode(t) = [i \in 1 .. size |-> three(i)[((i - 1) % 3) + 1]]
  BY DEF Decode
<1> HIDE DEF n, t
<1>4. /\ Groups(n) \in Nat /\ Kept(n) \in Nat
      /\ n <= 3 * Groups(n) /\ 3 * Groups(n) <= n + 2
      /\ Kept(n) = Groups(n) + n /\ Kept(n) <= Groups(n) * 4
  BY <1>1, GroupsCount DEF Kept
<1>5. \A k \in 1 .. Kept(n) : t[k] \in Alphabet
  <2> SUFFICES ASSUME NEW k \in 1 .. Kept(n)
               PROVE  t[k] \in Alphabet
    OBVIOUS
  <2>1. PICK g \in Nat, m \in 0 .. 3 : k = 4 * g + m + 1
    <3>1. (k - 1) \div 4 \in Nat /\ (k - 1) % 4 \in 0 .. 3
      BY <1>4
    <3>2. k = 4 * ((k - 1) \div 4) + ((k - 1) % 4) + 1
      BY <1>4
    <3> QED
      BY <3>1, <3>2
  <2>2. 4 * g + m + 1 <= Kept(n)
    BY <1>4, <2>1
  <2>3. t[4 * g + m + 1] \in Alphabet
    BY <1>2, <2>2
  <2> QED
    BY <2>1, <2>3
<1>6. stops = (Kept(n) + 1) .. Len(t)
  <2>1. DOMAIN t = 1 .. Len(t)
    BY <1>2
  <2>2. Pad \notin Alphabet
    BY DEF Pad, Alphabet
  <2>3. \A k \in 1 .. Len(t) : k <= Kept(n) \/ k > Kept(n)
    BY <1>2, <1>4
  <2> QED
    BY <1>2, <1>4, <1>5, <2>1, <2>2, <2>3
<1>7. read = Kept(n)
  <2>1. CASE stops = {}
    BY <1>2, <1>4, <1>6, <2>1
  <2>2. CASE stops # {}
    <3> DEFINE first == CHOOSE k \in stops : \A j \in stops : k <= j
    <3>1. Kept(n) + 1 \in stops /\ \A j \in stops : Kept(n) + 1 <= j
      BY <1>2, <1>4, <1>6, <2>2
    <3>2. first \in stops /\ \A j \in stops : first <= j
      BY <3>1
    <3>3. first \in Int
      BY <1>4, <1>6, <3>2
    <3> HIDE DEF first
    <3>4. first = Kept(n) + 1
      BY <1>4, <3>1, <3>2, <3>3
    <3>5. read = first - 1
      BY <2>2 DEF first
    <3> QED
      BY <1>4, <3>4, <3>5
  <2> QED
    BY <2>1, <2>2
<1> HIDE DEF read, stops
<1>8. size = n
  <2> DEFINE h == Groups(n)
  <2>1. /\ h \in Nat
        /\ \/ n = 3 * h /\ read = 4 * h
           \/ n = 3 * h - 1 /\ read = 4 * (h - 1) + 3
           \/ n = 3 * h - 2 /\ read = 4 * (h - 1) + 2
    BY <1>1, <1>4, <1>7
  <2> HIDE DEF h
  <2>2. CASE n = 3 * h /\ read = 4 * h
    <3>1. read \div 4 = h /\ read % 4 = 0
      BY <2>1, <2>2
    <3> QED
      BY <2>1, <2>2, <3>1
  <2>3. CASE n = 3 * h - 1 /\ read = 4 * (h - 1) + 3
    <3>1. read \div 4 = h - 1 /\ read % 4 = 3
      BY <2>1, <2>3
    <3> QED
      BY <2>1, <2>3, <3>1
  <2>4. CASE n = 3 * h - 2 /\ read = 4 * (h - 1) + 2
    <3>1. read \div 4 = h - 1 /\ read % 4 = 2
      BY <2>1, <2>4
    <3> QED
      BY <2>1, <2>4, <3>1
  <2> QED
    BY <2>1, <2>2, <2>3, <2>4
<1>9. \A k \in Nat \ {0} : char(k) \in Byte /\ (k <= Kept(n) => char(k) = t[k])
  BY <1>4, <1>5, <1>7 DEF Alphabet, Byte, NotFound
<1> HIDE DEF char, size
<1>10. \A i \in 1 .. n : three(i)[((i - 1) % 3) + 1] = s[i]
  <2> SUFFICES ASSUME NEW i \in 1 .. n
               PROVE  three(i)[((i - 1) % 3) + 1] = s[i]
    OBVIOUS
  <2> DEFINE g == (i - 1) \div 3
             m == (i - 1) % 3
             a == Filled(s, 3 * g + 1)
             b == Filled(s, 3 * g + 2)
             c == Filled(s, 3 * g + 3)
             p == char(4 * g + 1)
             q == char(4 * g + 2)
             r == char(4 * g + 3)
             u == char(4 * g + 4)
             e == Quartet(a, b, c)
             d == Triplet(p, q, r, u)
  <2>1. g \in Nat /\ m \in 0 .. 2 /\ i = 3 * g + m + 1
    BY <1>1
  <2> HIDE DEF g, m
  <2>2. 4 * g + m + 2 <= Kept(n)
    BY <1>1, <1>4, <2>1
  <2>3. a \in Byte /\ b \in Byte /\ c \in Byte
    BY <2>1, FilledType
  <2>4. p \in Byte /\ q \in Byte /\ r \in Byte /\ u \in Byte
    BY <1>9, <2>1
  <2>5. \A h \in 0 .. 3 : 4 * g + h + 1 <= Kept(n) => char(4 * g + h + 1) = e[h + 1]
    <3> HIDE DEF e
    <3> SUFFICES ASSUME NEW h \in 0 .. 3, 4 * g + h + 1 <= Kept(n)
                 PROVE  char(4 * g + h + 1) = e[h + 1]
      OBVIOUS
    <3>1. t[4 * g + h + 1] = e[h + 1]
      BY <1>2, <2>1 DEF e
    <3>2. 4 * g + h + 1 \in Nat \ {0}
      BY <2>1
    <3> QED
      BY <1>9, <3>1, <3>2
  <2>6. /\ p = e[1] /\ q = e[2] => d[1] = a
        /\ q = e[2] /\ r = e[3] => d[2] = b
        /\ r = e[3] /\ u = e[4] => d[3] = c
    <3> HIDE DEF a, b, c, p, q, r, u
    <3>1. GivesBack(a, b, c, p, q, r, u)
      BY <2>3, <2>4, TripletInverse
    <3> QED
      BY <3>1 DEF GivesBack
  <2>7. three(i) = d
    <3>1. g * 4 = 4 * g
      BY <2>1
    <3> QED
      BY <3>1 DEF g
  <2> HIDE DEF e, d
  <2>8. /\ 4 * g + 1 <= Kept(n) => p = e[1]
        /\ 4 * g + 2 <= Kept(n) => q = e[2]
        /\ 4 * g + 3 <= Kept(n) => r = e[3]
        /\ 4 * g + 4 <= Kept(n) => u = e[4]
    <3>1. 4 * g + 0 + 1 <= Kept(n) => char(4 * g + 0 + 1) = e[0 + 1]
      BY <2>5
    <3>2. 4 * g + 1 + 1 <= Kept(n) => char(4 * g + 1 + 1) = e[1 + 1]
      BY <2>5
    <3>3. 4 * g + 2 + 1 <= Kept(n) => char(4 * g + 2 + 1) = e[2 + 1]
      BY <2>5
    <3>4. 4 * g + 3 + 1 <= Kept(n) => char(4 * g + 3 + 1) = e[3 + 1]
      BY <2>5
    <3>5. /\ 4 * g + 0 + 1 = 4 * g + 1 /\ 4 * g + 1 + 1 = 4 * g + 2
          /\ 4 * g + 2 + 1 = 4 * g + 3 /\ 4 * g + 3 + 1 = 4 * g + 4
      BY <2>1
    <3> QED
      BY <3>1, <3>2, <3>3, <3>4, <3>5
  <2>9. d[m + 1] = Filled(s, 3 * g + m + 1)
    <3> HIDE DEF a, b, c, p, q, r, u
    <3>1. CASE m = 0
      <4>1. 4 * g + 1 <= Kept(n) /\ 4 * g + 2 <= Kept(n)
        BY <1>4, <2>1, <2>2, <3>1
      <4>2. d[1] = a /\ 3 * g + 0 + 1 = 3 * g + 1
        BY <2>1, <2>6, <2>8, <4>1
      <4> QED
        BY <3>1, <4>2 DEF a
    <3>2. CASE m = 1
      <4>1. 4 * g + 2 <= Kept(n) /\ 4 * g + 3 <= Kept(n)
        BY <1>4, <2>1, <2>2, <3>2
      <4>2. d[2] = b /\ 3 * g + 1 + 1 = 3 * g + 2
        BY <2>1, <2>6, <2>8, <4>1
      <4> QED
        BY <3>2, <4>2 DEF b
    <3>3. CASE m = 2
      <4>1. 4 * g + 3 <= Kept(n) /\ 4 * g + 4 <= Kept(n)
        BY <1>4, <2>1, <2>2, <3>3
      <4>2. d[3] = c /\ 3 * g + 2 + 1 = 3 * g + 3
        BY <2>1, <2>6, <2>8, <4>1
      <4> QED
        BY <3>3, <4>2 DEF c
    <3> QED
      BY <2>1, <3>1, <3>2, <3>3
  <2> QED
    BY <1>1, <2>1, <2>7, <2>9 DEF Filled, n, m
<1> HIDE DEF three
<1> QED
  BY <1>1, <1>3, <1>8, <1>10 DEF t

\* Every bit of the bytes stands at its place in the characters.
LEMMA EncodeBits ==
    ASSUME NEW s \in Seq(Byte), NEW i \in 0 .. 8 * Len(s) - 1
    PROVE  /\ Encode(s)[(i \div 6) + 1] \in Alphabet
           /\ Bit(Encode(s)[(i \div 6) + 1], 5 - (i % 6))
                 = Bit(s[(i \div 8) + 1], 7 - (i % 8))
<1> DEFINE n == Len(s)
           t == Encode(s)
           g == i \div 24
           j == i % 24
           a == Filled(s, 3 * g + 1)
           b == Filled(s, 3 * g + 2)
           c == Filled(s, 3 * g + 3)
<1>1. n \in Nat /\ i \in 0 .. 8 * n - 1
  OBVIOUS
<1>2. \A h \in Nat, m \in 0 .. 3 :
          4 * h + m + 1 <= Kept(n) =>
              /\ t[4 * h + m + 1] = Quartet(Filled(s, 3 * h + 1), Filled(s, 3 * h + 2),
                                            Filled(s, 3 * h + 3))[m + 1]
              /\ t[4 * h + m + 1] \in Alphabet
  BY EncodeIs
<1> HIDE DEF n, t
<1>3. /\ Groups(n) \in Nat /\ Kept(n) \in Nat
      /\ n <= 3 * Groups(n) /\ Kept(n) = Groups(n) + n
  BY <1>1, GroupsCount DEF Kept
<1>4. g \in Nat /\ j \in 0 .. 23 /\ i = 24 * g + j
  BY <1>1
<1> HIDE DEF g, j
<1>5. /\ i \div 6 = 4 * g + (j \div 6) /\ i % 6 = j % 6
      /\ i \div 8 = 3 * g + (j \div 8) /\ i % 8 = j % 8
      /\ j \div 6 \in 0 .. 3 /\ j \div 8 \in 0 .. 2
  BY <1>4
<1>6. (i \div 6) + 1 <= Kept(n) /\ (i \div 8) + 1 \in 1 .. n
  BY <1>1, <1>3
<1>7. 4 * g + (j \div 6) + 1 <= Kept(n)
  BY <1>5, <1>6
<1>8. /\ t[4 * g + (j \div 6) + 1] = Quartet(a, b, c)[(j \div 6) + 1]
      /\ t[4 * g + (j \div 6) + 1] \in Alphabet
  BY <1>2, <1>4, <1>5, <1>7
<1>9. a \in Byte /\ b \in Byte /\ c \in Byte
  BY <1>4, FilledType
<1>10. <<a, b, c>>[(j \div 8) + 1] = s[(i \div 8) + 1]
  <2>1. Filled(s, 3 * g + (j \div 8) + 1) = s[(i \div 8) + 1]
    BY <1>4, <1>5, <1>6 DEF Filled, n
  <2>2. CASE j \div 8 = 0
    <3>1. 3 * g + 0 + 1 = 3 * g + 1
      BY <1>4
    <3> QED
      BY <2>1, <2>2, <3>1
  <2>3. CASE j \div 8 = 1
    <3>1. 3 * g + 1 + 1 = 3 * g + 2
      BY <1>4
    <3> QED
      BY <2>1, <2>3, <3>1
  <2>4. CASE j \div 8 = 2
    <3>1. 3 * g + 2 + 1 = 3 * g + 3
      BY <1>4
    <3> QED
      BY <2>1, <2>4, <3>1
  <2> QED
    BY <1>5, <2>2, <2>3, <2>4
<1> HIDE DEF a, b, c
<1>11. Bit(Quartet(a, b, c)[(j \div 6) + 1], 5 - (j % 6))
          = Bit(<<a, b, c>>[(j \div 8) + 1], 7 - (j % 8))
  BY <1>4, <1>9, GroupBits
<1> QED
  BY <1>5, <1>8, <1>10, <1>11 DEF t

-----------------------------------------------------------------------------
(* The codec.                                                               *)

\* The text is that of the bytes.
CodecInv ==
    /\ bytes \in Seq(Byte)
    /\ encoded \in {<<>>, Encode(bytes)}

LEMMA CodecInvHolds == CodecSpec => []CodecInv
<1>1. CodecInit => CodecInv
  <2> SUFFICES ASSUME CodecInit
               PROVE  CodecInv
    OBVIOUS
  <2>1. PICK n \in 0 .. MaxBytes : bytes \in [1 .. n -> ByteValues]
    BY DEF CodecInit
  <2>2. n \in Nat
    BY <2>1, ByteAssumption
  <2>3. ByteValues \subseteq Byte
    BY ByteAssumption DEF Byte
  <2>4. bytes \in [1 .. n -> Byte]
    BY <2>1, <2>3
  <2> QED
    BY <2>2, <2>4 DEF CodecInit, CodecInv
<1>2. CodecInv /\ [CodecNext]_codec => CodecInv'
  BY DEF CodecInv, CodecNext, codec
<1> QED
  BY <1>1, <1>2, PTL DEF CodecSpec

LEMMA InverseHolds == CodecInv => Base64Inverse
<1> SUFFICES ASSUME CodecInv, encoded # <<>>
             PROVE  /\ Decode(encoded) = bytes
                    /\ Len(encoded) % 4 = 0
                    /\ \A i \in 0 .. 8 * Len(bytes) - 1 :
                          /\ encoded[(i \div 6) + 1] \in Alphabet
                          /\ (encoded[(i \div 6) + 1] \div 2 ^ (5 - (i % 6))) % 2
                                = (bytes[(i \div 8) + 1] \div 2 ^ (7 - (i % 8))) % 2
                    /\ \A k \in DOMAIN encoded :
                          (k - 1) * 6 >= 8 * Len(bytes) => encoded[k] = Pad
  BY DEF Base64Inverse
<1> DEFINE n == Len(bytes)
<1>1. bytes \in Seq(Byte) /\ encoded = Encode(bytes)
  BY DEF CodecInv
<1>2. n \in Nat
  BY <1>1
<1>3. /\ encoded \in Seq(Alphabet \cup {Pad}) /\ Len(encoded) = Groups(n) * 4
      /\ \A k \in 1 .. Len(encoded) : k > Kept(n) => encoded[k] = Pad
  BY <1>1, EncodeIs
<1>4. Decode(encoded) = bytes
  BY <1>1, DecodeEncode
<1>5. ASSUME NEW i \in 0 .. 8 * Len(bytes) - 1
      PROVE  /\ encoded[(i \div 6) + 1] \in Alphabet
             /\ (encoded[(i \div 6) + 1] \div 2 ^ (5 - (i % 6))) % 2
                   = (bytes[(i \div 8) + 1] \div 2 ^ (7 - (i % 8))) % 2
  <2>1. /\ encoded[(i \div 6) + 1] \in Alphabet
        /\ Bit(encoded[(i \div 6) + 1], 5 - (i % 6))
              = Bit(bytes[(i \div 8) + 1], 7 - (i % 8))
    BY <1>1, EncodeBits
  <2> QED
    BY <2>1 DEF Bit
<1> HIDE DEF n
<1>6. Len(encoded) % 4 = 0
  <2>1. Groups(n) \in Nat
    BY <1>2, GroupsCount
  <2> QED
    BY <1>3, <2>1
<1>7. ASSUME NEW k \in DOMAIN encoded, (k - 1) * 6 >= 8 * n
      PROVE  encoded[k] = Pad
  <2>1. k \in 1 .. Len(encoded) /\ Len(encoded) \in Nat
    BY <1>3
  <2>2. Groups(n) \in Nat /\ 3 * Groups(n) <= n + 2 /\ Kept(n) = Groups(n) + n
    BY <1>2, GroupsCount DEF Kept
  <2>3. k > Kept(n)
    BY <1>2, <1>7, <2>1, <2>2
  <2> QED
    BY <1>3, <2>1, <2>3
<1> QED
  BY <1>4, <1>5, <1>6, <1>7 DEF n

\* Base64::decode gives back what Base64::encode was given, for bytes of any
\* value and any length, and the text between them is the standard's: whole
\* groups, every bit at its place, '=' only where no byte is left.
THEOREM Base64InverseHolds == CodecSpec => []Base64Inverse
<1> QED
  BY CodecInvHolds, InverseHolds, PTL

-----------------------------------------------------------------------------
(* Heaps.                                                                   *)

Names == Keys \cup {NoKey}
Kinds == Scalars \cup {"free", "dead", "null", "object", "array"}
ItemType == [key : Names, node : Nodes]
NodeType == [kind : Kinds, items : Seq(ItemType)]
HandleType == [node : Nodes, parent : Nodes \cup {NoNode},
               allocated : BOOLEAN, key : Names]

\* Only objects and arrays have something, and elements have no key.
HeapOK(m) ==
    /\ m \in [Nodes -> NodeType]
    /\ \A n \in Nodes :
          /\ m[n].kind \notin {"object", "array"} => Len(m[n].items) = 0
          /\ m[n].kind = "array" =>
                \A i \in 1 .. Len(m[n].items) : m[n].items[i].key = NoKey

Has(m, k, n) == \E i \in 1 .. Len(m[k].items) : m[k].items[i].node = n

Closed(m, S) == \A k \in S : \A n \in Nodes : Has(m, k, n) => n \in S

\* No node is in two places, or in one and among those R that handles own;
\* each node in use is in one or the other.
Forest(m, R) ==
    /\ R \subseteq InUse(m)
    /\ \A k, n \in Nodes : Has(m, k, n) => n \in InUse(m) \ R
    /\ \A k, l \in Nodes : \A i \in 1 .. Len(m[k].items), j \in 1 .. Len(m[l].items) :
          m[k].items[i].node = m[l].items[j].node => k = l /\ i = j
    /\ \A n \in InUse(m) \ R : \E k \in Nodes : Has(m, k, n)

\* Among any nodes one is in none of them.
NoCircle(m) ==
    \A S \in SUBSET InUse(m) : S # {} => \E n \in S : \A k \in S : ~Has(m, k, n)

World(m, R) == HeapOK(m) /\ Forest(m, R) /\ NoCircle(m)

LEMMA OneHolder ==
    ASSUME NEW m, NEW R, Forest(m, R), NEW k \in Nodes, NEW l \in Nodes, NEW n,
           Has(m, k, n), Has(m, l, n)
    PROVE  k = l
<1>1. PICK i \in 1 .. Len(m[k].items) : m[k].items[i].node = n
  BY DEF Has
<1>2. PICK j \in 1 .. Len(m[l].items) : m[l].items[j].node = n
  BY DEF Has
<1>3. m[k].items[i].node = m[l].items[j].node
  BY <1>1, <1>2
<1> QED
  BY <1>3 DEF Forest

LEMMA NodeOf ==
    ASSUME NEW m, HeapOK(m), NEW n \in Nodes
    PROVE  /\ m[n] \in NodeType /\ m[n].kind \in Kinds
           /\ m[n].items \in Seq(ItemType) /\ Len(m[n].items) \in Nat
           /\ DOMAIN m[n].items = 1 .. Len(m[n].items)
           /\ \A i \in 1 .. Len(m[n].items) :
                 /\ m[n].items[i] \in ItemType
                 /\ m[n].items[i].node \in Nodes /\ m[n].items[i].key \in Names
                 /\ Has(m, n, m[n].items[i].node)
<1>1. m[n] \in NodeType
  BY DEF HeapOK
<1>2. m[n].items \in Seq(ItemType) /\ m[n].kind \in Kinds
  BY <1>1 DEF NodeType
<1>3. /\ Len(m[n].items) \in Nat /\ DOMAIN m[n].items = 1 .. Len(m[n].items)
      /\ \A i \in 1 .. Len(m[n].items) : m[n].items[i] \in ItemType
  BY <1>2, LenProperties, ElementOfSeq
<1> QED
  BY <1>1, <1>2, <1>3 DEF ItemType, Has

LEMMA NodesFinite ==
    /\ IsFiniteSet(Nodes) /\ Cardinality(Nodes) = 2 * MaxLive + 8 /\ MaxLive \in Nat
    /\ NoNode \notin Nodes
    /\ \A S \in SUBSET Nodes : IsFiniteSet(S) /\ Cardinality(S) \in Nat
<1>1. MaxLive \in Nat
  BY HeapAssumption
<1>2. IsFiniteSet(Nodes) /\ Cardinality(Nodes) = 2 * MaxLive + 8
  <2>1. 1 \in Int /\ 2 * MaxLive + 8 \in Int /\ ~(1 > 2 * MaxLive + 8)
    BY <1>1
  <2> QED
    BY <2>1, FS_Interval DEF Nodes
<1>3. \A S \in SUBSET Nodes : IsFiniteSet(S) /\ Cardinality(S) \in Nat
  BY <1>2, FS_Subset, FS_CardinalityType
<1> QED
  BY <1>1, <1>2, <1>3 DEF Nodes, NoNode

LEMMA TheOnly ==
    ASSUME NEW x
    PROVE  The({x}) = x
BY DEF The

\* What is under a node: the least closed set with it, in which each other node
\* is in one of the set.
LEMMA UnderFacts ==
    ASSUME NEW m, HeapOK(m), Closed(m, InUse(m)), NEW n \in InUse(m)
    PROVE  /\ Under(m, n) \subseteq InUse(m) /\ n \in Under(m, n)
           /\ Closed(m, Under(m, n))
           /\ \A S \in SUBSET InUse(m) :
                 n \in S /\ Closed(m, S) => Under(m, n) \subseteq S
           /\ \A k \in Under(m, n) : k = n \/ \E p \in Under(m, n) : Has(m, p, k)
<1> DEFINE used == InUse(m)
           whole == {S \in SUBSET used : n \in S /\ Closed(m, S)}
           tree == {k \in used : \A S \in whole : k \in S}
<1>1. used \subseteq Nodes
  BY DEF InUse
<1>2. Under(m, n) = tree
  <2> DEFINE held == Held(m)
             least == {k \in held : \A S \in SUBSET held :
                         (\A l \in S \cup {n} : \A i \in DOMAIN m[l].items :
                             m[l].items[i].node \in S \cup {n}) => k \in S}
  <2>1. Under(m, n) = {n} \cup least
    <3>1. {TreeAt(h, k, Held(h)) : h \in {m}, k \in {n}} = {TreeAt(m, n, Held(m))}
      OBVIOUS
    <3>2. The({TreeAt(m, n, Held(m))}) = TreeAt(m, n, Held(m))
      BY TheOnly, Zenon
    <3>3. Under(m, n) = TreeAt(m, n, Held(m))
      BY <3>1, <3>2 DEF Under
    <3> QED
      BY <3>3 DEF TreeAt
  <2>2. \A S \in SUBSET Nodes :
           (\A k \in S : \A i \in DOMAIN m[k].items : m[k].items[i].node \in S)
              <=> Closed(m, S)
    BY NodeOf DEF Closed, Has
  <2>3. \A k \in held : \E l \in used : Has(m, l, k)
    <3> SUFFICES ASSUME NEW k \in held PROVE \E l \in used : Has(m, l, k)
      OBVIOUS
    <3>1. PICK l \in Nodes : \E i \in DOMAIN m[l].items : m[l].items[i].node = k
      BY DEF Held
    <3>2. /\ DOMAIN m[l].items = 1 .. Len(m[l].items) /\ Len(m[l].items) \in Nat
          /\ Has(m, l, k)
      BY <3>1, NodeOf DEF Has
    <3>3. l \in used
      BY <3>1, <3>2 DEF HeapOK, InUse
    <3> QED
      BY <3>2, <3>3
  <2>4. \A l, k \in Nodes : Has(m, l, k) => k \in held
    <3> SUFFICES ASSUME NEW l \in Nodes, NEW k \in Nodes, Has(m, l, k) PROVE k \in held
      OBVIOUS
    <3>1. \E i \in DOMAIN m[l].items : m[l].items[i].node = k
      BY NodeOf DEF Has
    <3> QED
      BY <3>1 DEF Held
  <2> HIDE DEF held
  <2>5. held \subseteq used
    <3> SUFFICES ASSUME NEW k \in held PROVE k \in used
      OBVIOUS
    <3>1. PICK l \in used : Has(m, l, k)
      BY <2>3
    <3>2. k \in Nodes
      BY <1>1, <3>1, NodeOf DEF Has
    <3> QED
      BY <3>1, <3>2 DEF Closed
  <2>6. \A S \in SUBSET held :
           (\A l \in S \cup {n} : \A i \in DOMAIN m[l].items :
               m[l].items[i].node \in S \cup {n}) <=> S \cup {n} \in whole
    BY <1>1, <2>2, <2>5
  <2>7. ASSUME NEW k \in tree, k # n
        PROVE  k \in least
    <3>1. held \cup {n} \in whole
      BY <1>1, <2>4, <2>5 DEF Closed
    <3>2. k \in held
      BY <2>7, <3>1
    <3> QED
      BY <2>6, <2>7, <3>2
  <2>8. ASSUME NEW k \in least
        PROVE  k \in tree
    <3> SUFFICES ASSUME NEW S \in whole PROVE k \in S
      BY <2>5
    <3>1. (S \cap held) \cup {n} \in whole
      BY <1>1, <2>4, <2>5 DEF Closed
    <3>2. k \in S \cap held
      BY <2>6, <3>1
    <3> QED
      BY <3>2
  <2> QED
    BY <2>1, <2>7, <2>8
<1>3. tree \subseteq used /\ n \in tree
  OBVIOUS
<1>4. Closed(m, tree)
  BY DEF Closed
<1>5. \A S \in SUBSET used : n \in S /\ Closed(m, S) => tree \subseteq S
  OBVIOUS
<1> HIDE DEF tree, whole
<1>6. ASSUME NEW k \in tree, k # n, \A p \in tree : ~Has(m, p, k)
      PROVE  FALSE
  <2>1. tree \ {k} \in SUBSET used /\ n \in tree \ {k}
    BY <1>3, <1>6
  <2>2. Closed(m, tree \ {k})
    BY <1>4, <1>6 DEF Closed
  <2> QED
    BY <1>5, <2>1, <2>2, <1>6
<1> QED
  BY <1>2, <1>3, <1>4, <1>5, <1>6

LEMMA ForestClosed ==
    ASSUME NEW m, NEW R, Forest(m, R)
    PROVE  Closed(m, InUse(m))
BY DEF Forest, Closed, InUse

LEMMA LeafFacts ==
    ASSUME NEW kind \in Kinds
    PROVE  /\ Leaf(kind) \in NodeType
           /\ Leaf(kind).kind = kind /\ Len(Leaf(kind).items) = 0
<1>1. <<>> \in Seq(ItemType) /\ Len(<<>>) = 0
  BY EmptySeq
<1> QED
  BY <1>1 DEF Leaf, NodeType

LEMMA StateKinds == {"free", "dead", "null", "object", "array"} \subseteq Kinds
BY DEF Kinds

-----------------------------------------------------------------------------
(* Handles.                                                                 *)

WatcherAt(m, h) ==
    \E i \in 1 .. Len(m[h.parent].items) :
        m[h.parent].items[i] = [key |-> h.key, node |-> h.node]

\* A root owns its node; a placeholder owns a null and will be put into its
\* parent; a watcher is in its parent.
HandleOK(m, h) ==
    /\ h.node \in InUse(m)
    /\ IsRoot(h) => h.allocated
    /\ ~IsRoot(h) => m[h.parent].kind \in {"object", "array"}
    /\ ~IsRoot(h) /\ h.allocated => IsNull(m, h)
    /\ ~h.allocated => WatcherAt(m, h)

\* A node it points to has died in this statement.
Gone(m, h) ==
    m[h.node].kind = "dead" \/ (~IsRoot(h) /\ m[h.parent].kind = "dead")

Still(m, h) == HandleOK(m, h) \/ Gone(m, h)

LEMMA HandleFacts ==
    ASSUME NEW h \in HandleType
    PROVE  /\ h.node \in Nodes /\ h.key \in Names /\ h.allocated \in BOOLEAN
           /\ h.parent \in Nodes \cup {NoNode}
           /\ ~IsRoot(h) => h.parent \in Nodes
           /\ h = [node |-> h.node, parent |-> h.parent, allocated |-> h.allocated,
                   key |-> h.key]
BY DEF HandleType, IsRoot

\* What happens to a heap when a tree dies that a handle owns.
LEMMA Destroy ==
    ASSUME NEW m, NEW R, World(m, R), NEW n \in R
    PROVE  LET m2 == json_value_destroy(m, n)
           IN  /\ World(m2, R \ {n})
               /\ InUse(m2) = InUse(m) \ Under(m, n)
               /\ FreeNodes(m2) = FreeNodes(m)
               /\ \A k \in Nodes : IF k \in Under(m, n) THEN m2[k].kind = "dead"
                                   ELSE m2[k] = m[k]
               /\ \A h \in HandleType : Still(m, h) => Still(m2, h)
<1> DEFINE m2 == json_value_destroy(m, n)
           tree == Under(m, n)
           used == InUse(m)
           dead == Leaf("dead")
<1>1. HeapOK(m) /\ Forest(m, R) /\ NoCircle(m) /\ n \in used /\ R \subseteq used
  BY DEF World, Forest
<1>2. /\ tree \subseteq used /\ n \in tree /\ Closed(m, tree)
      /\ \A k \in tree : k = n \/ \E p \in tree : Has(m, p, k)
  BY <1>1, UnderFacts, ForestClosed
<1>3. used \subseteq Nodes
  BY DEF InUse
<1>4. dead \in NodeType /\ dead.kind = "dead" /\ Len(dead.items) = 0
  BY LeafFacts, StateKinds
<1>5. m2 = [k \in Nodes |-> IF k \in tree THEN dead ELSE m[k]]
  <2> DEFINE after(h, t) == [k \in Nodes |-> IF k \in t THEN dead ELSE h[k]]
  <2>1. json_value_destroy(m, n) = The({after(h, t) : h \in {m}, t \in {tree}})
    BY DEF json_value_destroy
  <2>2. {after(h, t) : h \in {m}, t \in {tree}} = {after(m, tree)}
    OBVIOUS
  <2> QED
    BY <2>1, <2>2, TheOnly
<1> HIDE DEF m2, tree, dead
<1>6. \A k \in Nodes : IF k \in tree THEN m2[k] = dead ELSE m2[k] = m[k]
  BY <1>5
<1>7. HeapOK(m2)
  <2>1. m2 \in [Nodes -> NodeType]
    BY <1>1, <1>4, <1>5 DEF HeapOK
  <2> QED
    BY <1>1, <1>4, <1>6, <2>1 DEF HeapOK
<1>8. InUse(m2) = used \ tree
  BY <1>4, <1>6 DEF InUse
<1>9. FreeNodes(m2) = FreeNodes(m)
  <2>1. \A k \in tree : m[k].kind # "free"
    BY <1>2 DEF InUse
  <2> QED
    BY <1>4, <1>6, <2>1 DEF FreeNodes
<1>10. \A k, l \in Nodes : Has(m2, k, l) <=> k \notin tree /\ Has(m, k, l)
  BY <1>4, <1>6 DEF Has
<1>11. R \cap tree = {n}
  <2> SUFFICES ASSUME NEW r \in R, r \in tree, r # n PROVE FALSE
    BY <1>2
  <2>1. PICK p \in tree : Has(m, p, r)
    BY <1>2
  <2> QED
    BY <1>1, <1>2, <1>3, <2>1 DEF Forest
<1>12. Forest(m2, R \ {n})
  <2>1. R \ {n} \subseteq InUse(m2)
    BY <1>1, <1>8, <1>11
  <2>2. ASSUME NEW k \in Nodes, NEW l \in Nodes, Has(m2, k, l)
        PROVE  l \in InUse(m2) \ (R \ {n})
    <3>1. k \notin tree /\ Has(m, k, l)
      BY <1>10, <2>2
    <3>2. l \in used \ R
      BY <1>1, <3>1 DEF Forest
    <3>3. l \notin tree
      <4> SUFFICES ASSUME l \in tree PROVE FALSE
        OBVIOUS
      <4>1. PICK p \in tree : Has(m, p, l)
        BY <1>2, <3>2
      <4>2. p = k
        <5>1. p \in Nodes
          BY <1>2, <1>3
        <5> QED
          BY <1>1, <3>1, <4>1, <5>1, OneHolder
      <4> QED
        BY <3>1, <4>2
    <3> QED
      BY <1>8, <3>2, <3>3
  <2>3. ASSUME NEW k \in Nodes, NEW l \in Nodes, NEW i \in 1 .. Len(m2[k].items),
               NEW j \in 1 .. Len(m2[l].items),
               m2[k].items[i].node = m2[l].items[j].node
        PROVE  k = l /\ i = j
    <3>1. k \notin tree /\ l \notin tree
      BY <1>4, <1>6, <2>3
    <3>2. m2[k] = m[k] /\ m2[l] = m[l]
      BY <1>6, <3>1
    <3> QED
      BY <1>1, <2>3, <3>2 DEF Forest
  <2>4. ASSUME NEW l \in InUse(m2) \ (R \ {n})
        PROVE  \E k \in Nodes : Has(m2, k, l)
    <3>1. l \in used \ R /\ l \notin tree
      BY <1>2, <1>8
    <3>2. PICK k \in Nodes : Has(m, k, l)
      BY <1>1, <3>1 DEF Forest
    <3>3. k \notin tree
      BY <1>2, <1>3, <3>1, <3>2 DEF Closed
    <3> QED
      BY <1>3, <1>10, <3>1, <3>2, <3>3
  <2> QED
    BY <2>1, <2>2, <2>3, <2>4 DEF Forest
<1>13. NoCircle(m2)
  <2> SUFFICES ASSUME NEW S \in SUBSET InUse(m2), S # {}
               PROVE  \E l \in S : \A k \in S : ~Has(m2, k, l)
    BY DEF NoCircle
  <2>1. S \in SUBSET used
    BY <1>8
  <2>2. PICK l \in S : \A k \in S : ~Has(m, k, l)
    BY <1>1, <2>1 DEF NoCircle
  <2> QED
    BY <1>3, <1>10, <2>1, <2>2
<1>14. ASSUME NEW h \in HandleType, Still(m, h)
       PROVE  Still(m2, h)
  <2>1. h.node \in Nodes /\ (~IsRoot(h) => h.parent \in Nodes)
    BY HandleFacts
  <2>2. \A k \in Nodes : m[k].kind = "dead" => m2[k].kind = "dead"
    BY <1>4, <1>6
  <2>3. CASE Gone(m, h)
    BY <2>1, <2>2, <2>3 DEF Still, Gone
  <2>4. CASE HandleOK(m, h) /\ h.node \notin tree /\ (~IsRoot(h) => h.parent \notin tree)
    <3>1. m2[h.node] = m[h.node] /\ (~IsRoot(h) => m2[h.parent] = m[h.parent])
      BY <1>6, <2>1, <2>4
    <3>2. ~h.allocated => ~IsRoot(h)
      BY <2>4 DEF HandleOK
    <3> QED
      BY <1>8, <2>4, <3>1, <3>2 DEF Still, HandleOK, IsNull, WatcherAt
  <2>5. CASE h.node \in tree \/ (~IsRoot(h) /\ h.parent \in tree)
    BY <1>4, <1>6, <2>1, <2>5 DEF Still, Gone
  <2> QED
    BY <2>3, <2>4, <2>5, <1>14 DEF Still
<1> QED
  BY <1>4, <1>6, <1>7, <1>8, <1>9, <1>12, <1>13, <1>14 DEF World, m2, tree

-----------------------------------------------------------------------------
(* New nodes.                                                               *)

Room(m, r) == Cardinality(FreeNodes(m)) >= Cardinality(InUse(m)) + r
Spare(m, r) == Cardinality(FreeNodes(m)) >= r

\* Nothing happens to what is there.
Extends(m, m2) == \A k \in Nodes : m[k].kind # "free" => m2[k] = m[k]

LEMMA Counts ==
    ASSUME NEW m
    PROVE  /\ FreeNodes(m) \subseteq Nodes /\ InUse(m) \subseteq Nodes
           /\ FreeNodes(m) \cap InUse(m) = {}
           /\ IsFiniteSet(FreeNodes(m)) /\ Cardinality(FreeNodes(m)) \in Nat
           /\ IsFiniteSet(InUse(m)) /\ Cardinality(InUse(m)) \in Nat
<1>1. FreeNodes(m) \subseteq Nodes /\ InUse(m) \subseteq Nodes
  BY DEF FreeNodes, InUse
<1>2. FreeNodes(m) \cap InUse(m) = {}
  BY DEF FreeNodes, InUse
<1> QED
  BY <1>1, <1>2, NodesFinite

LEMMA RoomIsSpare ==
    ASSUME NEW m, NEW r \in Nat, Room(m, r)
    PROVE  Spare(m, r)
BY Counts DEF Room, Spare

LEMMA LessRoom ==
    ASSUME NEW m, NEW r \in Int, NEW q \in Int, q <= r
    PROVE  (Room(m, r) => Room(m, q)) /\ (Spare(m, r) => Spare(m, q))
BY Counts DEF Room, Spare

LEMMA HandlesExtend ==
    ASSUME NEW m, NEW m2, Extends(m, m2), NEW h \in HandleType
    PROVE  (HandleOK(m, h) => HandleOK(m2, h)) /\ (Still(m, h) => Still(m2, h))
<1>1. h.node \in Nodes /\ (~IsRoot(h) => h.parent \in Nodes)
  BY HandleFacts
<1>2. ASSUME HandleOK(m, h) PROVE HandleOK(m2, h)
  <2>1. /\ m2[h.node] = m[h.node] /\ (~IsRoot(h) => m2[h.parent] = m[h.parent])
    BY <1>1, <1>2 DEF HandleOK, InUse, Extends
  <2> QED
    BY <1>2, <2>1 DEF HandleOK, InUse, IsNull, WatcherAt
<1>3. ASSUME Gone(m, h) PROVE Gone(m2, h)
  BY <1>1, <1>3 DEF Gone, Extends
<1> QED
  BY <1>2, <1>3 DEF Still

LEMMA FreshFree ==
    ASSUME NEW m, Spare(m, 1)
    PROVE  Fresh(m) \in FreeNodes(m) /\ Fresh(m) \in Nodes /\ m[Fresh(m)].kind = "free"
<1>1. FreeNodes(m) # {}
  <2>1. Cardinality({}) = 0
    BY FS_EmptySet
  <2> QED
    BY <2>1 DEF Spare
<1>2. PICK f \in Nodes : m[f].kind = "free"
  BY <1>1 DEF FreeNodes
<1> QED
  BY <1>2 DEF Fresh, FreeNodes

LEMMA NewLeaf ==
    ASSUME NEW m, NEW R, World(m, R), Spare(m, 1),
           NEW kind \in Kinds \ {"free", "dead"}
    PROVE  LET f == Fresh(m)
               m2 == [m EXCEPT ![f] = Leaf(kind)]
           IN  /\ World(m2, R \cup {f}) /\ Extends(m, m2)
               /\ f \in FreeNodes(m) /\ m2[f] = Leaf(kind)
               /\ InUse(m2) = InUse(m) \cup {f}
               /\ FreeNodes(m2) = FreeNodes(m) \ {f}
               /\ \A r \in Int : (Room(m, r + 2) => Room(m2, r))
                                 /\ (Spare(m, r + 1) => Spare(m2, r))
<1> DEFINE f == Fresh(m)
           leaf == Leaf(kind)
           m2 == [m EXCEPT ![f] = leaf]
<1>1. f \in FreeNodes(m) /\ f \in Nodes /\ m[f].kind = "free"
  BY FreshFree
<1>2. leaf \in NodeType /\ leaf.kind = kind /\ Len(leaf.items) = 0
  BY LeafFacts
<1>3. HeapOK(m) /\ Forest(m, R) /\ NoCircle(m)
  BY DEF World
<1> HIDE DEF f, leaf
<1>4. /\ m2 \in [Nodes -> NodeType]
      /\ \A k \in Nodes : m2[k] = IF k = f THEN leaf ELSE m[k]
  BY <1>1, <1>2, <1>3 DEF HeapOK
<1> HIDE DEF m2
<1>5. HeapOK(m2)
  BY <1>2, <1>3, <1>4 DEF HeapOK
<1>6. Extends(m, m2)
  BY <1>1, <1>4 DEF Extends
<1>7. InUse(m2) = InUse(m) \cup {f} /\ FreeNodes(m2) = FreeNodes(m) \ {f}
  BY <1>1, <1>2, <1>4 DEF InUse, FreeNodes
<1>8. Len(m[f].items) = 0 /\ f \notin InUse(m)
  BY <1>1, <1>3 DEF HeapOK, InUse
<1>9. \A k, l \in Nodes : Has(m2, k, l) <=> Has(m, k, l)
  BY <1>2, <1>4, <1>8 DEF Has
<1>10. Forest(m2, R \cup {f})
  <2>1. R \cup {f} \subseteq InUse(m2)
    BY <1>3, <1>7 DEF Forest
  <2>2. \A k, n \in Nodes : Has(m2, k, n) => n \in InUse(m2) \ (R \cup {f})
    BY <1>3, <1>7, <1>8, <1>9 DEF Forest
  <2>3. ASSUME NEW k \in Nodes, NEW l \in Nodes, NEW i \in 1 .. Len(m2[k].items),
               NEW j \in 1 .. Len(m2[l].items),
               m2[k].items[i].node = m2[l].items[j].node
        PROVE  k = l /\ i = j
    <3>1. m2[k] = m[k] /\ m2[l] = m[l]
      BY <1>2, <1>4, <2>3
    <3> QED
      BY <1>3, <2>3, <3>1 DEF Forest
  <2>4. \A n \in InUse(m2) \ (R \cup {f}) : \E k \in Nodes : Has(m2, k, n)
    <3> SUFFICES ASSUME NEW n \in InUse(m2) \ (R \cup {f})
                 PROVE  \E k \in Nodes : Has(m2, k, n)
      OBVIOUS
    <3>1. n \in InUse(m) \ R /\ n \in Nodes
      BY <1>7, Counts
    <3> QED
      BY <1>3, <1>9, <3>1 DEF Forest
  <2> QED
    BY <2>1, <2>2, <2>3, <2>4 DEF Forest
<1>11. NoCircle(m2)
  <2> SUFFICES ASSUME NEW S \in SUBSET InUse(m2), S # {}
               PROVE  \E n \in S : \A k \in S : ~Has(m2, k, n)
    BY DEF NoCircle
  <2>1. S \subseteq Nodes
    BY Counts
  <2>2. CASE f \in S
    <3>1. \A k \in S : ~Has(m2, k, f)
      BY <1>1, <1>3, <1>8, <1>9, <2>1 DEF Forest
    <3> QED
      BY <2>2, <3>1
  <2>3. CASE f \notin S
    <3>1. S \in SUBSET InUse(m)
      BY <1>7, <2>3
    <3>2. PICK n \in S : \A k \in S : ~Has(m, k, n)
      BY <1>3, <3>1 DEF NoCircle
    <3> QED
      BY <1>9, <2>1, <3>2
  <2> QED
    BY <2>2, <2>3
<1>12. /\ Cardinality(InUse(m2)) = Cardinality(InUse(m)) + 1
       /\ Cardinality(FreeNodes(m2)) = Cardinality(FreeNodes(m)) - 1
  <2>1. IsFiniteSet(InUse(m)) /\ IsFiniteSet(FreeNodes(m))
    BY Counts
  <2>2. Cardinality(InUse(m) \cup {f}) = Cardinality(InUse(m)) + 1
    BY <1>8, <2>1, FS_AddElement
  <2>3. Cardinality(FreeNodes(m) \ {f}) = Cardinality(FreeNodes(m)) - 1
    BY <1>1, <2>1, FS_RemoveElement
  <2> QED
    BY <1>7, <2>2, <2>3
<1>13. \A r \in Int : (Room(m, r + 2) => Room(m2, r))
                      /\ (Spare(m, r + 1) => Spare(m2, r))
  BY <1>12, Counts DEF Room, Spare
<1> QED
  BY <1>1, <1>4, <1>5, <1>6, <1>7, <1>10, <1>11, <1>13 DEF World, f, leaf, m2

\* A smaller set can be mapped into a larger one.
LEMMA InjectionInto ==
    ASSUME NEW S, NEW T, IsFiniteSet(S), IsFiniteSet(T),
           Cardinality(S) <= Cardinality(T)
    PROVE  \E f \in [S -> T] : IsInjective(f)
<1> DEFINE a == Cardinality(S)
           b == Cardinality(T)
<1>1. a \in Nat /\ b \in Nat /\ a <= b
  BY FS_CardinalityType
<1>2. PICK g \in Bijection(1 .. a, S) : TRUE
  BY FS_CardinalityType DEF ExistsBijection
<1>3. PICK h \in Bijection(1 .. b, T) : TRUE
  BY FS_CardinalityType DEF ExistsBijection
<1>4. /\ g \in [1 .. a -> S] /\ \A x \in S : \E i \in 1 .. a : g[i] = x
  BY <1>2 DEF Bijection, Injection, Surjection
<1>5. h \in [1 .. b -> T] /\ \A i, j \in 1 .. b : h[i] = h[j] => i = j
  BY <1>3 DEF Bijection, Injection, IsInjective
<1> HIDE DEF a, b
<1> DEFINE place(x) == CHOOSE i \in 1 .. a : g[i] = x
           f == [x \in S |-> h[place(x)]]
<1>6. \A x \in S : place(x) \in 1 .. a /\ g[place(x)] = x
  BY <1>4
<1> HIDE DEF place
<1>7. \A x \in S : place(x) \in 1 .. b
  BY <1>1, <1>6
<1>8. f \in [S -> T]
  BY <1>5, <1>7
<1>9. IsInjective(f)
  <2> SUFFICES ASSUME NEW x \in S, NEW y \in S, h[place(x)] = h[place(y)]
               PROVE  x = y
    BY DEF IsInjective
  <2>1. place(x) = place(y)
    BY <1>5, <1>7
  <2> QED
    BY <1>6, <2>1
<1> QED
  BY <1>8, <1>9

\* As many as are asked for are the lowest.
LEMMA LowestFacts ==
    ASSUME NEW free, free \subseteq Nodes, NEW count \in Nat, count <= Cardinality(free)
    PROVE  LET lowest == {f \in free : Cardinality({l \in free : l < f}) < count}
           IN  IsFiniteSet(lowest) /\ Cardinality(lowest) >= count
<1> DEFINE below(f) == {l \in free : l < f}
           rank == [f \in free |-> Cardinality(below(f))]
           lowest == {f \in free : Cardinality(below(f)) < count}
           b == Cardinality(free)
<1>1. IsFiniteSet(free) /\ b \in Nat /\ free \subseteq Nat
  BY NodesFinite DEF Nodes
<1>2. \A f \in free : IsFiniteSet(below(f)) /\ Cardinality(below(f)) \in Nat
  BY <1>1, FS_Subset, FS_CardinalityType
<1>3. \A f \in free : rank[f] \in 0 .. b - 1
  <2> SUFFICES ASSUME NEW f \in free PROVE Cardinality(below(f)) < b
    BY <1>1, <1>2
  <2>1. below(f) \in SUBSET free /\ below(f) # free
    BY <1>1
  <2>2. Cardinality(below(f)) <= b /\ Cardinality(below(f)) # b
    BY <1>1, <2>1, FS_Subset
  <2> QED
    BY <1>1, <1>2, <2>2
<1>4. ASSUME NEW f \in free, NEW g \in free, f < g
      PROVE  rank[f] # rank[g]
  <2>1. below(f) \in SUBSET below(g) /\ below(f) # below(g)
    <3>1. f \in Int /\ g \in Int /\ \A l \in free : l \in Int
      BY <1>1
    <3>2. \A l \in free : l < f => l < g
      BY <1>4, <3>1
    <3>3. f \in below(g) /\ f \notin below(f)
      BY <1>4, <3>1
    <3> QED
      BY <3>2, <3>3
  <2>2. Cardinality(below(g)) # Cardinality(below(f))
    BY <1>2, <2>1, FS_Subset
  <2> QED
    BY <2>2
<1> HIDE DEF b
<1>5. rank \in Injection(free, 0 .. b - 1)
  <2>1. rank \in [free -> 0 .. b - 1]
    BY <1>3
  <2>2. \A f, g \in free : rank[f] = rank[g] => f = g
    <3> SUFFICES ASSUME NEW f \in free, NEW g \in free, rank[f] = rank[g], f # g
                 PROVE  FALSE
      OBVIOUS
    <3>1. f < g \/ g < f
      BY <1>1
    <3> QED
      BY <1>4, <3>1
  <2> HIDE DEF rank
  <2> QED
    BY <2>1, <2>2 DEF Injection, IsInjective
<1>6. \A c \in Nat : IsFiniteSet(0 .. c - 1) /\ Cardinality(0 .. c - 1) = c
  <2> SUFFICES ASSUME NEW c \in Nat
               PROVE  IsFiniteSet(0 .. c - 1) /\ Cardinality(0 .. c - 1) = c
    OBVIOUS
  <2>1. 0 \in Int /\ c - 1 \in Int
    OBVIOUS
  <2> QED
    BY <2>1, FS_Interval
<1>7. rank \in Surjection(free, 0 .. b - 1)
  BY <1>1, <1>5, <1>6, FS_Injection DEF b
<1>8. \A i \in 0 .. count - 1 : \E f \in lowest : rank[f] = i
  <2> SUFFICES ASSUME NEW i \in 0 .. count - 1
               PROVE  \E f \in lowest : rank[f] = i
    OBVIOUS
  <2>1. i \in 0 .. b - 1
    BY <1>1 DEF b
  <2>2. PICK f \in free : rank[f] = i
    BY <1>7, <2>1 DEF Surjection
  <2> QED
    BY <2>2
<1>9. [f \in lowest |-> rank[f]] \in Surjection(lowest, 0 .. count - 1)
  <2>1. \A f \in lowest : rank[f] \in 0 .. count - 1
    BY <1>2
  <2> HIDE DEF rank, lowest
  <2> QED
    BY <1>8, <2>1 DEF Surjection
<1>10. IsFiniteSet(lowest)
  BY <1>1, FS_Subset
<1> HIDE DEF lowest
<1> QED
  BY <1>6, <1>9, <1>10, FS_Surjection DEF lowest

LEMMA ImageFacts ==
    ASSUME NEW tree, IsFiniteSet(tree), NEW free, free \subseteq Nodes,
           Cardinality(tree) <= Cardinality(free)
    PROVE  /\ Image(tree, free) \in [tree -> free]
           /\ \A k, l \in tree : Image(tree, free)[k] = Image(tree, free)[l] => k = l
<1> DEFINE count == Cardinality(tree)
           lowest == {f \in free : Cardinality({l \in free : l < f}) < count}
           image == Image(tree, free)
<1>1. count \in Nat
  BY FS_CardinalityType
<1>2. IsFiniteSet(lowest) /\ Cardinality(lowest) >= count
  BY <1>1, LowestFacts
<1>3. Cardinality(lowest) \in Nat /\ lowest \subseteq free
  BY <1>2, FS_CardinalityType
<1>4. image = CHOOSE f \in [tree -> lowest] : IsInjective(f)
  BY DEF Image
<1> HIDE DEF lowest, image
<1>5. \E f \in [tree -> lowest] : IsInjective(f)
  BY <1>1, <1>2, <1>3, InjectionInto
<1>6. image \in [tree -> lowest] /\ IsInjective(image)
  BY <1>4, <1>5
<1> QED
  BY <1>3, <1>6 DEF IsInjective, image

\* A copy is made in the lowest free nodes.
LEMMA CopyIs ==
    ASSUME NEW m, NEW n, NEW image, image = Image(Under(m, n), FreeNodes(m))
    PROVE  json_value_copy(m, n) = [mem |-> Copied(m, image), node |-> image[n]]
<1> DEFINE copy(h, i) == [mem |-> Copied(h, i), node |-> i[n]]
           images == {Image(t, f) : t \in {Under(m, n)}, f \in {FreeNodes(m)}}
           new == {copy(h, i) : h \in {m}, i \in images}
<1>1. json_value_copy(m, n) = The(new)
  BY DEF json_value_copy
<1>2. images = {image}
  OBVIOUS
<1> HIDE DEF images
<1>3. new = {copy(m, image)}
  BY <1>2
<1> HIDE DEF new, copy
<1>4. json_value_copy(m, n) = copy(m, image)
  BY <1>1, <1>3, TheOnly
<1> QED
  BY <1>4 DEF copy

LEMMA NewCopy ==
    ASSUME NEW m, NEW R, World(m, R), Room(m, 0), NEW n \in InUse(m)
    PROVE  LET new == json_value_copy(m, n)
           IN  /\ World(new.mem, R \cup {new.node}) /\ Extends(m, new.mem)
               /\ new.node \in FreeNodes(m)
               /\ InUse(m) \subseteq InUse(new.mem)
               /\ Under(new.mem, new.node) \cap InUse(m) = {}
               /\ \A r \in Int : Room(m, r) => Spare(new.mem, r)
<1> DEFINE tree == Under(m, n)
           used == InUse(m)
           free == FreeNodes(m)
           image == Image(tree, free)
           copied(k) == [kind |-> m[k].kind,
                         items |-> [i \in DOMAIN m[k].items |->
                             [m[k].items[i] EXCEPT !.node = image[@]]]]
           m2 == [f \in Nodes |-> IF \E k \in tree : image[k] = f
                                  THEN copied(CHOOSE k \in tree : image[k] = f)
                                  ELSE m[f]]
<1>1. HeapOK(m) /\ Forest(m, R) /\ NoCircle(m)
  BY DEF World
<1>2. /\ tree \subseteq used /\ n \in tree /\ Closed(m, tree)
      /\ \A k \in tree : k = n \/ \E p \in tree : Has(m, p, k)
  BY <1>1, UnderFacts, ForestClosed
<1>3. /\ used \subseteq Nodes /\ free \subseteq Nodes /\ free \cap used = {}
      /\ IsFiniteSet(used) /\ IsFiniteSet(free)
      /\ Cardinality(used) \in Nat /\ Cardinality(free) \in Nat
  BY Counts
<1>4. IsFiniteSet(tree) /\ Cardinality(tree) \in Nat /\ Cardinality(tree) <= Cardinality(used)
  BY <1>2, <1>3, FS_Subset, FS_CardinalityType
<1>5. json_value_copy(m, n) = [mem |-> Copied(m, image), node |-> image[n]]
  BY CopyIs
<1> HIDE DEF tree, used, free
<1>6. image \in [tree -> free] /\ \A k, l \in tree : image[k] = image[l] => k = l
  <2>1. Cardinality(tree) <= Cardinality(free)
    BY <1>3, <1>4 DEF Room, used, free
  <2> QED
    BY <1>3, <1>4, <2>1, ImageFacts
<1> HIDE DEF image
<1> DEFINE copies == {image[k] : k \in tree}
<1>7. copies \subseteq free
  BY <1>6
<1>8. Copied(m, image) = m2
  <2>1. DOMAIN image = tree
    BY <1>6
  <2> QED
    BY <2>1 DEF Copied, Renamed
<1>9. ASSUME NEW k \in tree
      PROVE  /\ copied(k) \in NodeType /\ copied(k).kind = m[k].kind
             /\ Len(copied(k).items) = Len(m[k].items)
             /\ \A i \in 1 .. Len(m[k].items) :
                   /\ m[k].items[i].node \in tree
                   /\ copied(k).items[i].node = image[m[k].items[i].node]
                   /\ copied(k).items[i].key = m[k].items[i].key
  <2>1. /\ k \in Nodes /\ m[k].items \in Seq(ItemType) /\ Len(m[k].items) \in Nat
        /\ DOMAIN m[k].items = 1 .. Len(m[k].items) /\ m[k].kind \in Kinds
    BY <1>1, <1>2, <1>3, NodeOf
  <2>2. \A i \in 1 .. Len(m[k].items) :
           /\ m[k].items[i] \in ItemType /\ m[k].items[i].node \in tree
    BY <1>1, <1>2, <2>1, NodeOf DEF Closed
  <2> DEFINE its == [i \in DOMAIN m[k].items |-> [m[k].items[i] EXCEPT !.node = image[@]]]
  <2>3. \A i \in 1 .. Len(m[k].items) :
           /\ its[i] = [m[k].items[i] EXCEPT !.node = image[m[k].items[i].node]]
           /\ image[m[k].items[i].node] \in Nodes
    BY <1>3, <1>6, <2>1, <2>2
  <2>4. \A i \in 1 .. Len(m[k].items) :
           /\ its[i] \in ItemType
           /\ its[i].node = image[m[k].items[i].node]
           /\ its[i].key = m[k].items[i].key
    <3> SUFFICES ASSUME NEW i \in 1 .. Len(m[k].items)
                 PROVE  /\ its[i] \in ItemType
                        /\ its[i].node = image[m[k].items[i].node]
                        /\ its[i].key = m[k].items[i].key
      OBVIOUS
    <3> DEFINE item == m[k].items[i]
               to == image[item.node]
    <3>1. item \in ItemType /\ its[i] = [item EXCEPT !.node = to] /\ to \in Nodes
      BY <2>2, <2>3
    <3> HIDE DEF item, to, its
    <3> QED
      BY <3>1 DEF ItemType, item, to
  <2>5. its \in [1 .. Len(m[k].items) -> ItemType]
    BY <2>1, <2>4
  <2> HIDE DEF its
  <2>6. its \in Seq(ItemType) /\ Len(its) = Len(m[k].items)
    BY <2>1, <2>5, IsASeq, LenProperties
  <2>7. copied(k) = [kind |-> m[k].kind, items |-> its]
    BY DEF its
  <2> QED
    BY <2>1, <2>2, <2>4, <2>6, <2>7 DEF NodeType
<1> HIDE DEF copied
<1>10. /\ \A k \in tree : m2[image[k]] = copied(k)
      /\ \A f \in Nodes \ copies : m2[f] = m[f]
  <2>1. ASSUME NEW k \in tree PROVE m2[image[k]] = copied(k)
    <3> DEFINE l == CHOOSE l \in tree : image[l] = image[k]
    <3>1. l \in tree /\ image[l] = image[k]
      OBVIOUS
    <3>2. l = k
      BY <1>6, <3>1
    <3>3. image[k] \in Nodes
      BY <1>3, <1>6
    <3> QED
      BY <3>2, <3>3
  <2> QED
    BY <2>1
<1>11. m2 \in [Nodes -> NodeType]
  <2>1. \A f \in Nodes : m2[f] \in NodeType
    <3> SUFFICES ASSUME NEW f \in Nodes PROVE m2[f] \in NodeType
      OBVIOUS
    <3>1. CASE f \in copies
      BY <1>9, <1>10, <3>1
    <3>2. CASE f \notin copies
      BY <1>1, <1>10, <3>2 DEF HeapOK
    <3> QED
      BY <3>1, <3>2
  <2> QED
    BY <2>1
<1> HIDE DEF m2
<1>12. \A f \in free : m[f].kind = "free" /\ Len(m[f].items) = 0
  BY <1>1 DEF free, FreeNodes, HeapOK
<1>13. HeapOK(m2)
  <2> SUFFICES ASSUME NEW f \in Nodes
               PROVE  /\ m2[f].kind \notin {"object", "array"} => Len(m2[f].items) = 0
                      /\ m2[f].kind = "array" =>
                            \A i \in 1 .. Len(m2[f].items) : m2[f].items[i].key = NoKey
    BY <1>11 DEF HeapOK
  <2>1. CASE f \notin copies
    BY <1>1, <1>10, <2>1 DEF HeapOK
  <2>2. ASSUME NEW k \in tree, f = image[k]
        PROVE  /\ m2[f].kind \notin {"object", "array"} => Len(m2[f].items) = 0
               /\ m2[f].kind = "array" =>
                     \A i \in 1 .. Len(m2[f].items) : m2[f].items[i].key = NoKey
    <3>1. k \in Nodes
      BY <1>2, <1>3
    <3> QED
      BY <1>1, <1>9, <1>10, <2>2, <3>1 DEF HeapOK
  <2> QED
    BY <2>1, <2>2
<1>14. Extends(m, m2)
  BY <1>7, <1>10, <1>12 DEF Extends
<1>15. InUse(m2) = used \cup copies
  <2>1. ASSUME NEW f \in Nodes, f \notin copies PROVE f \in InUse(m2) <=> f \in used
    BY <1>10, <2>1 DEF InUse, used
  <2>2. ASSUME NEW k \in tree PROVE image[k] \in InUse(m2)
    BY <1>2, <1>3, <1>6, <1>9, <1>10 DEF InUse, used
  <2>3. InUse(m2) \subseteq Nodes
    BY Counts
  <2> QED
    BY <1>3, <1>7, <2>1, <2>2, <2>3
<1>16. FreeNodes(m2) = free \ copies
  <2>1. ASSUME NEW f \in Nodes, f \notin copies PROVE f \in FreeNodes(m2) <=> f \in free
    BY <1>10, <2>1 DEF FreeNodes, free
  <2>2. ASSUME NEW k \in tree PROVE image[k] \notin FreeNodes(m2)
    BY <1>15, <2>2, Counts
  <2>3. FreeNodes(m2) \subseteq Nodes
    BY Counts
  <2> QED
    BY <1>3, <2>1, <2>2, <2>3
<1>17. ASSUME NEW k \in tree, NEW l
       PROVE  Has(m2, image[k], l) <=> \E c \in tree : Has(m, k, c) /\ l = image[c]
  <2>1. /\ m2[image[k]] = copied(k) /\ Len(copied(k).items) = Len(m[k].items)
        /\ \A i \in 1 .. Len(m[k].items) :
              /\ m[k].items[i].node \in tree
              /\ copied(k).items[i].node = image[m[k].items[i].node]
    BY <1>9, <1>10
  <2> QED
    BY <2>1 DEF Has
<1>18. \A f \in Nodes \ copies : \A l : Has(m2, f, l) <=> Has(m, f, l)
  BY <1>10 DEF Has
<1>19. \A k \in tree : ~Has(m, k, n)
  <2>1. tree \in SUBSET used /\ tree # {}
    BY <1>2
  <2>2. PICK k \in tree : \A p \in tree : ~Has(m, p, k)
    BY <1>1, <2>1 DEF NoCircle, used
  <2> QED
    BY <1>2, <2>2
<1>20. Forest(m2, R \cup {image[n]})
  <2>1. R \cup {image[n]} \subseteq InUse(m2)
    BY <1>1, <1>2, <1>15 DEF Forest, used
  <2>2. ASSUME NEW f \in Nodes, NEW l \in Nodes, Has(m2, f, l)
        PROVE  l \in InUse(m2) \ (R \cup {image[n]})
    <3>1. CASE f \notin copies
      <4>1. l \in used \ R
        BY <1>1, <1>18, <2>2, <3>1 DEF Forest, used
      <4> QED
        BY <1>2, <1>3, <1>6, <1>15, <4>1
    <3>2. ASSUME NEW k \in tree, f = image[k]
          PROVE  l \in InUse(m2) \ (R \cup {image[n]})
      <4>1. PICK c \in tree : Has(m, k, c) /\ l = image[c]
        BY <1>17, <2>2, <3>2
      <4>2. c # n
        BY <1>19, <4>1
      <4>3. l \in free
        BY <1>6, <4>1
      <4> QED
        BY <1>1, <1>2, <1>3, <1>6, <1>15, <4>1, <4>2, <4>3 DEF Forest, used
    <3> QED
      BY <3>1, <3>2
  <2>3. ASSUME NEW f \in Nodes, NEW g \in Nodes, NEW i \in 1 .. Len(m2[f].items),
               NEW j \in 1 .. Len(m2[g].items),
               m2[f].items[i].node = m2[g].items[j].node
        PROVE  f = g /\ i = j
    <3>1. CASE f \notin copies /\ g \notin copies
      <4>1. m2[f] = m[f] /\ m2[g] = m[g]
        BY <1>10, <3>1
      <4> QED
        BY <1>1, <2>3, <4>1 DEF Forest
    <3>2. \A h \in Nodes \ copies : \A a \in 1 .. Len(m2[h].items) :
             m2[h].items[a].node \in used
      <4> SUFFICES ASSUME NEW h \in Nodes \ copies, NEW a \in 1 .. Len(m2[h].items)
                   PROVE  m2[h].items[a].node \in used
        OBVIOUS
      <4>1. m2[h] = m[h]
        BY <1>10
      <4>2. m[h].items[a].node \in Nodes /\ Has(m, h, m[h].items[a].node)
        BY <1>1, <4>1, NodeOf
      <4> QED
        BY <1>1, <4>1, <4>2 DEF Forest, used
    <3>3. \A k \in tree : \A a \in 1 .. Len(m2[image[k]].items) :
             /\ a \in 1 .. Len(m[k].items) /\ m[k].items[a].node \in tree
             /\ m2[image[k]].items[a].node = image[m[k].items[a].node]
             /\ m2[image[k]].items[a].node \in free
      BY <1>6, <1>9, <1>10
    <3>4. CASE f \in copies /\ g \in copies
      <4>1. PICK k \in tree : f = image[k]
        BY <3>4
      <4>2. PICK l \in tree : g = image[l]
        BY <3>4
      <4>3. image[m[k].items[i].node] = image[m[l].items[j].node]
        BY <2>3, <3>3, <4>1, <4>2
      <4>4. m[k].items[i].node = m[l].items[j].node
        BY <1>6, <3>3, <4>1, <4>2, <4>3
      <4>5. k \in Nodes /\ l \in Nodes
        BY <1>2, <1>3
      <4>6. k = l /\ i = j
        BY <1>1, <3>3, <4>1, <4>2, <4>4, <4>5 DEF Forest
      <4> QED
        BY <4>1, <4>2, <4>6
    <3>5. CASE f \in copies /\ g \notin copies
      <4>1. m2[f].items[i].node \in free
        BY <3>3, <3>5
      <4>2. m2[g].items[j].node \in used
        BY <3>2, <3>5
      <4> QED
        BY <1>3, <2>3, <4>1, <4>2
    <3>6. CASE f \notin copies /\ g \in copies
      <4>1. m2[g].items[j].node \in free
        BY <3>3, <3>6
      <4>2. m2[f].items[i].node \in used
        BY <3>2, <3>6
      <4> QED
        BY <1>3, <2>3, <4>1, <4>2
    <3> QED
      BY <3>1, <3>4, <3>5, <3>6
  <2>4. ASSUME NEW l \in InUse(m2) \ (R \cup {image[n]})
        PROVE  \E f \in Nodes : Has(m2, f, l)
    <3>1. CASE l \in used
      <4>1. PICK f \in Nodes : Has(m, f, l)
        BY <1>1, <2>4, <3>1 DEF Forest, used
      <4>2. f \notin copies
        BY <1>7, <1>12, <4>1 DEF Has
      <4> QED
        BY <1>18, <4>1, <4>2
    <3>2. CASE l \in copies
      <4>1. PICK c \in tree : l = image[c]
        BY <3>2
      <4>2. PICK p \in tree : Has(m, p, c)
        BY <1>2, <2>4, <4>1
      <4>3. Has(m2, image[p], l) /\ image[p] \in Nodes
        BY <1>3, <1>6, <1>17, <4>1, <4>2
      <4> QED
        BY <4>3
    <3> QED
      BY <1>15, <2>4, <3>1, <3>2
  <2> QED
    BY <2>1, <2>2, <2>3, <2>4 DEF Forest
<1>21. NoCircle(m2)
  <2> SUFFICES ASSUME NEW S \in SUBSET InUse(m2), S # {}
               PROVE  \E l \in S : \A f \in S : ~Has(m2, f, l)
    BY DEF NoCircle
  <2> DEFINE T == {k \in tree : image[k] \in S}
  <2>1. CASE T = {}
    <3>1. S \in SUBSET used /\ S \cap copies = {}
      BY <1>15, <2>1
    <3>2. PICK l \in S : \A f \in S : ~Has(m, f, l)
      BY <1>1, <3>1 DEF NoCircle, used
    <3> QED
      BY <1>3, <1>18, <3>1, <3>2
  <2>2. CASE T # {}
    <3>1. T \in SUBSET used
      BY <1>2
    <3>2. PICK c \in T : \A k \in T : ~Has(m, k, c)
      BY <1>1, <2>2, <3>1 DEF NoCircle, used
    <3>3. ASSUME NEW f \in S, Has(m2, f, image[c]) PROVE FALSE
      <4>1. f \in Nodes /\ image[c] \in free
        BY <1>3, <1>6, <1>7, <1>15
      <4>2. CASE f \notin copies
        <5>1. Has(m, f, image[c])
          BY <1>18, <3>3, <4>1, <4>2
        <5> QED
          BY <1>1, <1>3, <4>1, <5>1 DEF Forest, used
      <4>3. ASSUME NEW k \in tree, f = image[k] PROVE FALSE
        <5>1. PICK d \in tree : Has(m, k, d) /\ image[c] = image[d]
          BY <1>17, <3>3, <4>3
        <5>2. d = c /\ k \in T
          BY <1>6, <4>3, <5>1
        <5> QED
          BY <3>2, <5>1, <5>2
      <4> QED
        BY <4>2, <4>3
    <3> QED
      BY <3>2, <3>3
  <2> QED
    BY <2>1, <2>2
<1>22. Under(m2, image[n]) \cap used = {}
  <2>1. image[n] \in InUse(m2) /\ image[n] \in copies
    BY <1>2, <1>15
  <2>2. copies \in SUBSET InUse(m2)
    BY <1>15
  <2>3. Closed(m2, copies)
    BY <1>17 DEF Closed
  <2>4. Closed(m2, InUse(m2))
    BY <1>20, ForestClosed
  <2>5. Under(m2, image[n]) \subseteq copies
    <3> HIDE DEF copies
    <3> QED
      BY <1>13, <2>1, <2>2, <2>3, <2>4, UnderFacts
  <2> QED
    BY <1>3, <1>7, <2>5
<1>23. ASSUME NEW r \in Int, Room(m, r) PROVE Spare(m2, r)
  <2>1. image \in Surjection(tree, copies)
    BY <1>6 DEF Surjection
  <2> HIDE DEF copies
  <2>2. IsFiniteSet(copies) /\ Cardinality(copies) <= Cardinality(tree)
    BY <1>4, <2>1, FS_Surjection
  <2>3. Cardinality(free \ copies) = Cardinality(free) - Cardinality(free \cap copies)
    BY <1>3, FS_Difference
  <2>4. free \cap copies = copies
    BY <1>7
  <2>5. Cardinality(copies) \in Nat
    BY <2>2, FS_CardinalityType
  <2>6. Cardinality(free) >= Cardinality(used) + r
    BY <1>23 DEF Room, free, used
  <2>7. Cardinality(free) - Cardinality(copies) >= r
    BY <1>3, <1>4, <2>2, <2>5, <2>6
  <2> QED
    BY <1>16, <2>3, <2>4, <2>7 DEF Spare
<1>24. image[n] \in free /\ used \subseteq InUse(m2)
  BY <1>2, <1>6, <1>15
<1> QED
  BY <1>5, <1>8, <1>13, <1>14, <1>20, <1>21, <1>22, <1>23, <1>24
  DEF World, free, used

-----------------------------------------------------------------------------
(* Places in a tree.                                                        *)

\* A place for a node that had none, outside of what is under it.
LEMMA NoCircleAdded ==
    ASSUME NEW m, NEW m2, NEW R, World(m, R), NEW p \in Nodes, NEW n \in R,
           p \notin Under(m, n), InUse(m2) = InUse(m),
           \A k, l \in Nodes : Has(m2, k, l) => Has(m, k, l) \/ (k = p /\ l = n)
    PROVE  NoCircle(m2)
<1> SUFFICES ASSUME NEW S \in SUBSET InUse(m2), S # {},
                    \A l \in S : \E f \in S : Has(m2, f, l)
             PROVE  FALSE
  BY DEF NoCircle
<1>1. HeapOK(m) /\ Forest(m, R) /\ NoCircle(m)
  BY DEF World
<1>2. S \subseteq InUse(m) /\ S \subseteq Nodes
  BY Counts
<1>3. n \in InUse(m)
  BY <1>1 DEF Forest
<1>4. Closed(m, Under(m, n))
  BY <1>1, <1>3, UnderFacts, ForestClosed
<1>5. CASE n \notin S
  <2>1. PICK l \in S : \A f \in S : ~Has(m, f, l)
    BY <1>1, <1>2 DEF NoCircle
  <2> QED
    BY <1>2, <1>5, <2>1
<1>6. CASE n \in S
  <2>1. PICK f \in S : Has(m2, f, n)
    BY <1>6
  <2>2. ~Has(m, f, n)
    BY <1>1, <1>2, <1>6 DEF Forest
  <2>3. p \in S
    BY <1>2, <2>1, <2>2, <1>6
  <2> DEFINE T == S \ Under(m, n)
  <2>4. T \in SUBSET InUse(m) /\ T # {}
    BY <1>2, <2>3
  <2>5. PICK l \in T : \A g \in T : ~Has(m, g, l)
    BY <1>1, <2>4 DEF NoCircle
  <2>6. PICK g \in S : Has(m2, g, l)
    OBVIOUS
  <2>7. n \in Under(m, n)
    BY <1>1, <1>3, UnderFacts, ForestClosed
  <2>8. Has(m, g, l)
    BY <1>2, <2>6, <2>7
  <2>9. g \in Under(m, n)
    BY <2>5, <2>8
  <2> QED
    BY <1>2, <1>4, <2>5, <2>8, <2>9 DEF Closed
<1> QED
  BY <1>5, <1>6

\* json_object_append, json_array_append: the node a handle owned is in a tree.
LEMMA Put ==
    ASSUME NEW m, NEW R, World(m, R), NEW p \in InUse(m), NEW n \in R, NEW key \in Names,
           m[p].kind \in {"object", "array"}, m[p].kind = "array" => key = NoKey,
           p \notin Under(m, n)
    PROVE  LET m2 == Appended(m, p, key, n)
           IN  /\ World(m2, R \ {n})
               /\ InUse(m2) = InUse(m) /\ FreeNodes(m2) = FreeNodes(m)
               /\ \A k \in Nodes : m2[k].kind = m[k].kind /\ (k # p => m2[k] = m[k])
               /\ \A h \in HandleType :
                     /\ HandleOK(m, h) => HandleOK(m2, h)
                     /\ Still(m, h) => Still(m2, h)
               /\ \A h \in HandleType :
                     h.parent = p /\ h.key = key /\ h.node = n => WatcherAt(m2, h)
<1> DEFINE item == [key |-> key, node |-> n]
           old == m[p].items
           new == Append(old, item)
           m2 == Appended(m, p, key, n)
           l0 == Len(old)
<1>1. /\ HeapOK(m) /\ Forest(m, R) /\ NoCircle(m)
      /\ p \in Nodes /\ n \in Nodes /\ n \in InUse(m)
  BY Counts DEF World, Forest
<1>2. item \in ItemType /\ item.key = key /\ item.node = n
  BY <1>1 DEF ItemType
<1>3. m2 = [m EXCEPT ![p].items = new]
  BY DEF Appended
<1>4. old \in Seq(ItemType) /\ l0 \in Nat
  BY <1>1, NodeOf
<1> HIDE DEF item, old, m2
<1>5. /\ new \in Seq(ItemType) /\ Len(new) = l0 + 1 /\ new[l0 + 1] = item
      /\ \A i \in 1 .. l0 : new[i] = old[i]
  BY <1>2, <1>4, AppendProperties
<1> HIDE DEF new, l0
<1>6. m[p] \in NodeType /\ m \in [Nodes -> NodeType]
  BY <1>1 DEF HeapOK
<1>7. [m[p] EXCEPT !.items = new] \in NodeType
  BY <1>5, <1>6 DEF NodeType
<1>8. /\ m2 \in [Nodes -> NodeType]
      /\ \A k \in Nodes : m2[k].kind = m[k].kind /\ (k # p => m2[k] = m[k])
      /\ m2[p].items = new
  BY <1>1, <1>3, <1>6, <1>7 DEF NodeType
<1>9. m[p].items = old /\ Len(old) = l0
  BY DEF old, l0
<1>10. HeapOK(m2)
  <2>1. m2[p].kind = "array" => \A i \in 1 .. Len(m2[p].items) : m2[p].items[i].key = NoKey
    BY <1>1, <1>2, <1>4, <1>5, <1>8, <1>9 DEF HeapOK
  <2> QED
    BY <1>1, <1>8, <2>1 DEF HeapOK
<1>11. InUse(m2) = InUse(m) /\ FreeNodes(m2) = FreeNodes(m)
  BY <1>8 DEF InUse, FreeNodes
<1>12. \A k \in Nodes : \A l : Has(m2, k, l) <=> Has(m, k, l) \/ (k = p /\ l = n)
  <2> SUFFICES ASSUME NEW k \in Nodes, NEW l
               PROVE  Has(m2, k, l) <=> Has(m, k, l) \/ (k = p /\ l = n)
    OBVIOUS
  <2>1. CASE k # p
    BY <1>8, <2>1 DEF Has
  <2>2. CASE k = p
    <3>1. Has(m2, k, l) <=> \E i \in 1 .. l0 + 1 : new[i].node = l
      BY <1>5, <1>8, <2>2 DEF Has
    <3>2. Has(m, k, l) <=> \E i \in 1 .. l0 : old[i].node = l
      BY <1>9, <2>2 DEF Has
    <3>3. \A i \in 1 .. l0 + 1 : i \in 1 .. l0 \/ i = l0 + 1
      BY <1>4
    <3>4. l0 + 1 \in 1 .. l0 + 1 /\ 1 .. l0 \subseteq 1 .. l0 + 1
      BY <1>4
    <3> QED
      BY <1>2, <1>5, <2>2, <3>1, <3>2, <3>3, <3>4
  <2> QED
    BY <2>1, <2>2
<1>13. Forest(m2, R \ {n})
  <2>1. R \ {n} \subseteq InUse(m2)
    BY <1>1, <1>11 DEF Forest
  <2>2. \A k, l \in Nodes : Has(m2, k, l) => l \in InUse(m2) \ (R \ {n})
    BY <1>1, <1>11, <1>12 DEF Forest
  <2>3. ASSUME NEW k \in Nodes, NEW l \in Nodes, NEW i \in 1 .. Len(m2[k].items),
               NEW j \in 1 .. Len(m2[l].items),
               m2[k].items[i].node = m2[l].items[j].node
        PROVE  k = l /\ i = j
    <3>1. ASSUME NEW q \in Nodes, NEW a \in 1 .. Len(m2[q].items)
          PROVE  \/ q = p /\ a = l0 + 1 /\ m2[q].items[a].node = n
                 \/ /\ a \in 1 .. Len(m[q].items) /\ m2[q].items[a] = m[q].items[a]
                    /\ m[q].items[a].node # n
      <4>1. CASE q = p /\ a = l0 + 1
        BY <1>2, <1>5, <1>8, <4>1
      <4>2. CASE ~(q = p /\ a = l0 + 1)
        <5>1. a \in 1 .. Len(m[q].items) /\ m2[q].items[a] = m[q].items[a]
          <6>1. CASE q = p
            BY <1>4, <1>5, <1>8, <1>9, <4>2, <6>1
          <6>2. CASE q # p
            BY <1>8, <6>2
          <6> QED
            BY <6>1, <6>2
        <5>2. Has(m, q, m[q].items[a].node) /\ m[q].items[a].node \in Nodes
          BY <1>1, <5>1, NodeOf
        <5> QED
          BY <1>1, <5>1, <5>2 DEF Forest
      <4> QED
        BY <4>1, <4>2
    <3>2. \/ k = p /\ i = l0 + 1 /\ m2[k].items[i].node = n
          \/ /\ i \in 1 .. Len(m[k].items) /\ m2[k].items[i] = m[k].items[i]
             /\ m[k].items[i].node # n
      BY <3>1
    <3>3. \/ l = p /\ j = l0 + 1 /\ m2[l].items[j].node = n
          \/ /\ j \in 1 .. Len(m[l].items) /\ m2[l].items[j] = m[l].items[j]
             /\ m[l].items[j].node # n
      BY <3>1
    <3>4. CASE m2[k].items[i].node = n
      BY <2>3, <3>2, <3>3, <3>4
    <3>5. CASE m2[k].items[i].node # n
      <4>1. /\ i \in 1 .. Len(m[k].items) /\ j \in 1 .. Len(m[l].items)
            /\ m[k].items[i].node = m[l].items[j].node
        BY <2>3, <3>2, <3>3, <3>5
      <4> QED
        BY <1>1, <4>1 DEF Forest
    <3> QED
      BY <3>4, <3>5
  <2>4. \A l \in InUse(m2) \ (R \ {n}) : \E k \in Nodes : Has(m2, k, l)
    BY <1>1, <1>11, <1>12 DEF Forest
  <2> QED
    BY <2>1, <2>2, <2>3, <2>4 DEF Forest
<1>14. NoCircle(m2)
  BY <1>1, <1>11, <1>12, NoCircleAdded
<1>15. ASSUME NEW h \in HandleType, ~IsRoot(h), WatcherAt(m, h) PROVE WatcherAt(m2, h)
  <2>1. h.parent \in Nodes
    BY <1>15, HandleFacts
  <2>2. CASE h.parent = p
    BY <1>4, <1>5, <1>8, <1>9, <1>15, <2>2 DEF WatcherAt
  <2>3. CASE h.parent # p
    BY <1>8, <1>15, <2>1, <2>3 DEF WatcherAt
  <2> QED
    BY <2>2, <2>3
<1>16. ASSUME NEW h \in HandleType, HandleOK(m, h) PROVE HandleOK(m2, h)
  <2>1. h.node \in Nodes /\ (~IsRoot(h) => h.parent \in Nodes)
    BY HandleFacts
  <2> QED
    BY <1>8, <1>11, <1>15, <1>16, <2>1 DEF HandleOK, IsNull
<1>17. ASSUME NEW h \in HandleType, Gone(m, h) PROVE Gone(m2, h)
  <2>1. h.node \in Nodes /\ (~IsRoot(h) => h.parent \in Nodes)
    BY HandleFacts
  <2> QED
    BY <1>8, <1>17, <2>1 DEF Gone
<1>18. ASSUME NEW h \in HandleType, h.parent = p, h.key = key, h.node = n
       PROVE  WatcherAt(m2, h)
  <2>1. m2[h.parent].items[l0 + 1] = [key |-> h.key, node |-> h.node]
    BY <1>5, <1>8, <1>18 DEF item
  <2> QED
    BY <1>4, <1>5, <1>8, <1>18, <2>1 DEF WatcherAt
<1> QED
  BY <1>8, <1>10, <1>11, <1>13, <1>14, <1>16, <1>17, <1>18 DEF World, Still, m2

\* Another node takes a place: the one that was there belongs to the statement.
LEMMA Swap ==
    ASSUME NEW m, NEW R, World(m, R), NEW p \in Nodes,
           NEW i \in 1 .. Len(m[p].items), NEW n \in R, p \notin Under(m, n)
    PROVE  LET m2 == [m EXCEPT ![p].items[i].node = n]
               old == m[p].items[i].node
           IN  /\ World(m2, (R \ {n}) \cup {old})
               /\ InUse(m2) = InUse(m) /\ FreeNodes(m2) = FreeNodes(m)
               /\ \A h \in HandleType : Still(m, h) /\ h.node # old => Still(m2, h)
<1> DEFINE items == m[p].items
           old == items[i].node
           new == [items EXCEPT ![i].node = n]
           l0 == Len(items)
           m2 == [m EXCEPT ![p].items[i].node = n]
<1>1. /\ HeapOK(m) /\ Forest(m, R) /\ NoCircle(m) /\ R \subseteq InUse(m)
      /\ n \in Nodes /\ n \in InUse(m)
  BY Counts DEF World, Forest
<1>2. /\ items \in Seq(ItemType) /\ l0 \in Nat /\ DOMAIN items = 1 .. l0
      /\ \A j \in 1 .. l0 : /\ items[j] \in ItemType /\ items[j].node \in Nodes
                            /\ items[j].key \in Names /\ Has(m, p, items[j].node)
  BY <1>1, NodeOf
<1>3. old \in InUse(m) \ R /\ old # n
  BY <1>1, <1>2 DEF Forest
<1>4. m2 = [m EXCEPT ![p].items = new]
  OBVIOUS
<1> HIDE DEF m2, items
<1>5. i \in 1 .. l0
  BY DEF items
<1>6. /\ DOMAIN new = 1 .. l0
      /\ \A j \in 1 .. l0 : /\ j # i => new[j] = items[j]
                            /\ new[j].key = items[j].key
                            /\ new[j] \in ItemType
      /\ new[i].node = n
  <2>1. DOMAIN new = 1 .. l0
    BY <1>2
  <2>2. \A j \in 1 .. l0 : j # i => new[j] = items[j]
    BY <1>2
  <2>3. new[i] = [items[i] EXCEPT !.node = n]
    BY <1>2, <1>5
  <2>4. items[i] \in [key : Names, node : Nodes]
    BY <1>2, <1>5 DEF ItemType
  <2>5. new[i] \in ItemType /\ new[i].key = items[i].key /\ new[i].node = n
    BY <1>1, <2>3, <2>4 DEF ItemType
  <2> QED
    BY <1>2, <2>1, <2>2, <2>5
<1>7. new \in Seq(ItemType) /\ Len(new) = l0
  <2>1. new = [j \in 1 .. l0 |-> new[j]]
    BY <1>2
  <2> HIDE DEF new
  <2>2. new \in [1 .. l0 -> ItemType]
    BY <1>6, <2>1
  <2> QED
    BY <1>2, <1>6, <2>2, IsASeq, LenProperties
<1> HIDE DEF new
<1>8. /\ m2 \in [Nodes -> NodeType]
      /\ \A k \in Nodes : m2[k].kind = m[k].kind /\ (k # p => m2[k] = m[k])
      /\ m2[p].items = new /\ m[p].items = items
  <2>1. m[p] \in NodeType /\ m \in [Nodes -> NodeType]
    BY <1>1 DEF HeapOK
  <2>2. [m[p] EXCEPT !.items = new] \in NodeType
    BY <1>7, <2>1 DEF NodeType
  <2> QED
    BY <1>4, <2>1, <2>2 DEF NodeType, items
<1>9. HeapOK(m2)
  <2>1. m2[p].kind = "array" => \A j \in 1 .. Len(m2[p].items) : m2[p].items[j].key = NoKey
    BY <1>1, <1>6, <1>7, <1>8 DEF HeapOK
  <2>2. m2[p].kind \notin {"object", "array"} => Len(m2[p].items) = 0
    BY <1>1, <1>7, <1>8 DEF HeapOK
  <2> QED
    BY <1>1, <1>8, <2>1, <2>2 DEF HeapOK
<1>10. InUse(m2) = InUse(m) /\ FreeNodes(m2) = FreeNodes(m)
  BY <1>8 DEF InUse, FreeNodes
<1>11. ASSUME NEW q \in Nodes, NEW a \in 1 .. Len(m2[q].items)
       PROVE  \/ q = p /\ a = i /\ m2[q].items[a].node = n
              \/ /\ a \in 1 .. Len(m[q].items) /\ m2[q].items[a] = m[q].items[a]
                 /\ m[q].items[a].node # n /\ m[q].items[a].node # old
  <2>1. CASE q = p /\ a = i
    BY <1>6, <1>8, <2>1
  <2>2. CASE ~(q = p /\ a = i)
    <3>1. a \in 1 .. Len(m[q].items) /\ m2[q].items[a] = m[q].items[a]
      <4>1. CASE q = p
        BY <1>6, <1>7, <1>8, <2>2, <4>1
      <4>2. CASE q # p
        BY <1>8, <4>2
      <4> QED
        BY <4>1, <4>2
    <3>2. Has(m, q, m[q].items[a].node) /\ m[q].items[a].node \in Nodes
      BY <1>1, <3>1, NodeOf
    <3>3. m[q].items[a].node # n
      BY <1>1, <3>2 DEF Forest
    <3>4. m[q].items[a].node # old
      BY <1>1, <1>5, <1>8, <2>2, <3>1 DEF Forest
    <3> QED
      BY <3>1, <3>3, <3>4
  <2> QED
    BY <2>1, <2>2
<1>12. ASSUME NEW q \in Nodes, NEW l \in Nodes
       PROVE  Has(m2, q, l) <=> (Has(m, q, l) /\ l # old) \/ (q = p /\ l = n)
  <2>1. ASSUME Has(m2, q, l) PROVE (Has(m, q, l) /\ l # old) \/ (q = p /\ l = n)
    BY <1>11, <2>1 DEF Has
  <2>2. ASSUME Has(m, q, l), l # old PROVE Has(m2, q, l)
    <3>1. PICK a \in 1 .. Len(m[q].items) : m[q].items[a].node = l
      BY <2>2 DEF Has
    <3>2. ~(q = p /\ a = i)
      BY <1>8, <2>2, <3>1
    <3>3. a \in 1 .. Len(m2[q].items) /\ m2[q].items[a] = m[q].items[a]
      <4>1. CASE q = p
        BY <1>6, <1>7, <1>8, <3>1, <3>2, <4>1
      <4>2. CASE q # p
        BY <1>8, <3>1, <4>2
      <4> QED
        BY <4>1, <4>2
    <3> QED
      BY <3>1, <3>3 DEF Has
  <2>3. Has(m2, p, n)
    BY <1>5, <1>6, <1>7, <1>8 DEF Has
  <2> QED
    BY <2>1, <2>2, <2>3
<1>13. Forest(m2, (R \ {n}) \cup {old})
  <2>1. (R \ {n}) \cup {old} \subseteq InUse(m2)
    BY <1>1, <1>3, <1>10
  <2>2. ASSUME NEW q \in Nodes, NEW l \in Nodes, Has(m2, q, l)
        PROVE  l \in InUse(m2) \ ((R \ {n}) \cup {old})
    BY <1>1, <1>3, <1>10, <1>12, <2>2 DEF Forest
  <2>3. ASSUME NEW k \in Nodes, NEW l \in Nodes, NEW a \in 1 .. Len(m2[k].items),
               NEW b \in 1 .. Len(m2[l].items),
               m2[k].items[a].node = m2[l].items[b].node
        PROVE  k = l /\ a = b
    <3>1. \/ k = p /\ a = i /\ m2[k].items[a].node = n
          \/ /\ a \in 1 .. Len(m[k].items) /\ m2[k].items[a] = m[k].items[a]
             /\ m[k].items[a].node # n
      BY <1>11
    <3>2. \/ l = p /\ b = i /\ m2[l].items[b].node = n
          \/ /\ b \in 1 .. Len(m[l].items) /\ m2[l].items[b] = m[l].items[b]
             /\ m[l].items[b].node # n
      BY <1>11
    <3>3. CASE m2[k].items[a].node = n
      BY <2>3, <3>1, <3>2, <3>3
    <3>4. CASE m2[k].items[a].node # n
      <4>1. /\ a \in 1 .. Len(m[k].items) /\ b \in 1 .. Len(m[l].items)
            /\ m[k].items[a].node = m[l].items[b].node
        BY <2>3, <3>1, <3>2, <3>4
      <4> QED
        BY <1>1, <4>1 DEF Forest
    <3> QED
      BY <3>3, <3>4
  <2>4. ASSUME NEW l \in InUse(m2) \ ((R \ {n}) \cup {old})
        PROVE  \E q \in Nodes : Has(m2, q, l)
    <3>1. l \in Nodes /\ l \in InUse(m) /\ l # old /\ (l \in R => l = n)
      BY <1>10, <2>4, Counts
    <3>2. CASE l = n
      BY <1>12, <3>1, <3>2
    <3>3. CASE l # n
      <4>1. PICK q \in Nodes : Has(m, q, l)
        BY <1>1, <3>1, <3>3 DEF Forest
      <4> QED
        BY <1>12, <3>1, <4>1
    <3> QED
      BY <3>2, <3>3
  <2> QED
    BY <2>1, <2>2, <2>3, <2>4 DEF Forest
<1>14. NoCircle(m2)
  BY <1>10, <1>12, NoCircleAdded
<1>15. ASSUME NEW h \in HandleType, Still(m, h), h.node # old
       PROVE  Still(m2, h)
  <2>1. h.node \in Nodes /\ (~IsRoot(h) => h.parent \in Nodes)
    BY HandleFacts
  <2>2. ASSUME ~IsRoot(h), WatcherAt(m, h) PROVE WatcherAt(m2, h)
    <3>1. PICK a \in 1 .. Len(m[h.parent].items) :
             m[h.parent].items[a] = [key |-> h.key, node |-> h.node]
      BY <2>2 DEF WatcherAt
    <3>2. m[h.parent].items[a].node = h.node
      BY <3>1
    <3>3. ~(h.parent = p /\ a = i)
      BY <1>8, <1>15, <3>2
    <3>4. a \in 1 .. Len(m2[h.parent].items) /\ m2[h.parent].items[a] = m[h.parent].items[a]
      <4>1. CASE h.parent = p
        BY <1>6, <1>7, <1>8, <3>1, <3>3, <4>1
      <4>2. CASE h.parent # p
        BY <1>8, <2>1, <2>2, <4>2, <3>1
      <4> QED
        BY <4>1, <4>2
    <3> QED
      BY <3>1, <3>4 DEF WatcherAt
  <2>3. CASE HandleOK(m, h)
    BY <1>8, <1>10, <2>1, <2>2, <2>3 DEF Still, HandleOK, IsNull
  <2>4. CASE Gone(m, h)
    BY <1>8, <2>1, <2>4 DEF Still, Gone
  <2> QED
    BY <1>15, <2>3, <2>4 DEF Still
<1>16. World(m2, (R \ {n}) \cup {old})
  BY <1>9, <1>13, <1>14, SMTT(30) DEF World
<1> QED
  BY <1>10, <1>15, <1>16 DEF m2, items

LEMMA RemoveAtFacts ==
    ASSUME NEW T, NEW s \in Seq(T), NEW i \in 1 .. Len(s)
    PROVE  /\ RemoveAt(s, i) \in Seq(T) /\ Len(RemoveAt(s, i)) = Len(s) - 1
           /\ \A j \in 1 .. Len(s) - 1 :
                 RemoveAt(s, i)[j] = s[IF j < i THEN j ELSE j + 1]
<1> DEFINE n == Len(s)
           a == SubSeq(s, 1, i - 1)
           b == SubSeq(s, i + 1, n)
<1>1. n \in Nat /\ \A j \in 1 .. n : s[j] \in T
  BY LenProperties, ElementOfSeq
<1>2. i \in 1 .. n
  OBVIOUS
<1> HIDE DEF n
<1>3. a \in Seq(T) /\ Len(a) = i - 1 /\ \A j \in 1 .. i - 1 : a[j] = s[j]
  <2>1. 1 \in Int /\ i - 1 \in Int /\ \A j \in 1 .. i - 1 : s[j] \in T
    BY <1>1, <1>2
  <2>2. /\ a \in Seq(T) /\ Len(a) = IF 1 <= i - 1 THEN i - 1 - 1 + 1 ELSE 0
        /\ \A j \in 1 .. i - 1 - 1 + 1 : a[j] = s[1 + j - 1]
    BY <2>1, SubSeqProperties
  <2> QED
    BY <1>1, <1>2, <2>2
<1>4. b \in Seq(T) /\ Len(b) = n - i /\ \A j \in 1 .. n - i : b[j] = s[i + j]
  <2>1. i + 1 \in Int /\ n \in Int /\ \A j \in i + 1 .. n : s[j] \in T
    BY <1>1, <1>2
  <2>2. /\ b \in Seq(T) /\ Len(b) = IF i + 1 <= n THEN n - (i + 1) + 1 ELSE 0
        /\ \A j \in 1 .. n - (i + 1) + 1 : b[j] = s[(i + 1) + j - 1]
    BY <2>1, SubSeqProperties
  <2> QED
    BY <1>1, <1>2, <2>2
<1> HIDE DEF a, b
<1>5. /\ a \o b \in Seq(T) /\ Len(a \o b) = (i - 1) + (n - i)
      /\ \A j \in 1 .. (i - 1) + (n - i) :
            (a \o b)[j] = IF j <= i - 1 THEN a[j] ELSE b[j - (i - 1)]
  <2>1. a \in Seq(T) /\ b \in Seq(T)
    BY <1>3, <1>4
  <2>2. /\ a \o b \in Seq(T) /\ Len(a \o b) = Len(a) + Len(b)
        /\ \A j \in 1 .. Len(a) + Len(b) :
              (a \o b)[j] = IF j <= Len(a) THEN a[j] ELSE b[j - Len(a)]
    BY <2>1, ConcatProperties
  <2>3. Len(a) = i - 1 /\ Len(b) = n - i
    BY <1>3, <1>4
  <2> QED
    BY <2>2, <2>3
<1>6. RemoveAt(s, i) = a \o b
  BY DEF RemoveAt, a, b, n
<1>7. ASSUME NEW j \in 1 .. n - 1
      PROVE  (a \o b)[j] = s[IF j < i THEN j ELSE j + 1]
  <2>1. j \in 1 .. (i - 1) + (n - i)
    BY <1>1, <1>2
  <2>2. CASE j < i
    BY <1>1, <1>2, <1>3, <1>5, <2>1, <2>2
  <2>3. CASE ~(j < i)
    <3>1. j - (i - 1) \in 1 .. n - i /\ i + (j - (i - 1)) = j + 1
      BY <1>1, <1>2, <2>3
    <3>2. (a \o b)[j] = b[j - (i - 1)]
      BY <1>1, <1>2, <1>5, <2>1, <2>3
    <3> QED
      BY <1>4, <2>3, <3>1, <3>2
  <2> QED
    BY <2>2, <2>3
<1>8. (i - 1) + (n - i) = n - 1
  BY <1>1, <1>2
<1> QED
  BY <1>5, <1>6, <1>7, <1>8 DEF n

\* A place is given up: what was there belongs to the statement.
LEMMA TakenOut ==
    ASSUME NEW m, NEW R, World(m, R), NEW p \in Nodes,
           NEW i \in 1 .. Len(m[p].items)
    PROVE  LET m2 == [m EXCEPT ![p].items = RemoveAt(@, i)]
               old == m[p].items[i].node
           IN  /\ World(m2, R \cup {old})
               /\ InUse(m2) = InUse(m) /\ FreeNodes(m2) = FreeNodes(m)
               /\ \A h \in HandleType : Still(m, h) /\ h.node # old => Still(m2, h)
<1> DEFINE items == m[p].items
           old == items[i].node
           new == RemoveAt(items, i)
           l0 == Len(items)
           from(j) == IF j < i THEN j ELSE j + 1
           m2 == [m EXCEPT ![p].items = RemoveAt(@, i)]
<1>1. HeapOK(m) /\ Forest(m, R) /\ NoCircle(m) /\ R \subseteq InUse(m)
  BY DEF World, Forest
<1>2. /\ items \in Seq(ItemType) /\ l0 \in Nat /\ i \in 1 .. l0
      /\ \A j \in 1 .. l0 : Has(m, p, items[j].node) /\ items[j].node \in Nodes
  BY <1>1, NodeOf
<1>3. old \in InUse(m) \ R
  BY <1>1, <1>2 DEF Forest
<1>4. m2 = [m EXCEPT ![p].items = new]
  BY <1>1 DEF HeapOK
<1> HIDE DEF m2, items
<1>5. /\ new \in Seq(ItemType) /\ Len(new) = l0 - 1
      /\ \A j \in 1 .. l0 - 1 : new[j] = items[from(j)]
  BY <1>2, RemoveAtFacts
<1>6. /\ \A j \in 1 .. l0 - 1 : from(j) \in 1 .. l0 /\ from(j) # i
      /\ \A j, k \in 1 .. l0 - 1 : from(j) = from(k) => j = k
      /\ \A k \in 1 .. l0 : k # i => \E j \in 1 .. l0 - 1 : from(j) = k
  <2>1. \A j \in 1 .. l0 - 1 : from(j) \in 1 .. l0 /\ from(j) # i
    BY <1>2
  <2>2. \A j, k \in 1 .. l0 - 1 : from(j) = from(k) => j = k
    BY <1>2
  <2>3. ASSUME NEW k \in 1 .. l0, k # i PROVE \E j \in 1 .. l0 - 1 : from(j) = k
    <3>1. CASE k < i
      BY <1>2, <3>1
    <3>2. CASE k > i
      <4>1. k - 1 \in 1 .. l0 - 1 /\ from(k - 1) = k
        BY <1>2, <3>2
      <4> QED
        BY <4>1
    <3> QED
      BY <1>2, <2>3, <3>1, <3>2
  <2> QED
    BY <2>1, <2>2, <2>3
<1> HIDE DEF from, new
<1>7. /\ m2 \in [Nodes -> NodeType]
      /\ \A k \in Nodes : m2[k].kind = m[k].kind /\ (k # p => m2[k] = m[k])
      /\ m2[p].items = new /\ m[p].items = items
  <2>1. m[p] \in NodeType /\ m \in [Nodes -> NodeType]
    BY <1>1 DEF HeapOK
  <2>2. [m[p] EXCEPT !.items = new] \in NodeType
    BY <1>5, <2>1 DEF NodeType
  <2> QED
    BY <1>4, <2>1, <2>2 DEF NodeType, items
<1>8. HeapOK(m2)
  <2>1. m2[p].kind = "array" => \A j \in 1 .. Len(m2[p].items) : m2[p].items[j].key = NoKey
    <3> SUFFICES ASSUME m[p].kind = "array", NEW j \in 1 .. l0 - 1
                 PROVE  new[j].key = NoKey
      BY <1>5, <1>7
    <3>1. new[j] = items[from(j)] /\ from(j) \in 1 .. l0
      BY <1>5, <1>6
    <3> QED
      BY <1>1, <1>7, <3>1 DEF HeapOK
  <2>2. m2[p].kind \in {"object", "array"}
    BY <1>1, <1>2, <1>7 DEF HeapOK, items
  <2> QED
    BY <1>1, <1>7, <2>1, <2>2 DEF HeapOK
<1>9. InUse(m2) = InUse(m) /\ FreeNodes(m2) = FreeNodes(m)
  BY <1>7 DEF InUse, FreeNodes
<1> DEFINE was(q, a) == IF q = p THEN from(a) ELSE a
<1>10. ASSUME NEW q \in Nodes, NEW a \in 1 .. Len(m2[q].items)
       PROVE  /\ was(q, a) \in 1 .. Len(m[q].items)
              /\ m2[q].items[a] = m[q].items[was(q, a)]
              /\ m[q].items[was(q, a)].node # old
  <2>1. was(q, a) \in 1 .. Len(m[q].items) /\ m2[q].items[a] = m[q].items[was(q, a)]
    BY <1>5, <1>6, <1>7
  <2>2. ~(q = p /\ was(q, a) = i)
    BY <1>5, <1>6, <1>7
  <2>3. p \in Nodes /\ i \in 1 .. Len(m[p].items)
    BY <1>2, <1>7
  <2> QED
    BY <1>1, <1>7, <2>1, <2>2, <2>3 DEF Forest
<1>11. ASSUME NEW q \in Nodes, NEW b \in 1 .. Len(m[q].items), ~(q = p /\ b = i)
       PROVE  \E a \in 1 .. Len(m2[q].items) : m2[q].items[a] = m[q].items[b]
  <2>1. CASE q = p
    <3>1. PICK j \in 1 .. l0 - 1 : from(j) = b
      BY <1>6, <1>7, <1>11, <2>1
    <3> QED
      BY <1>5, <1>7, <2>1, <3>1
  <2>2. CASE q # p
    BY <1>7, <2>2
  <2> QED
    BY <2>1, <2>2
<1>12. ASSUME NEW q \in Nodes, NEW l \in Nodes
       PROVE  Has(m2, q, l) <=> Has(m, q, l) /\ l # old
  <2>1. ASSUME Has(m2, q, l) PROVE Has(m, q, l) /\ l # old
    BY <1>10, <2>1 DEF Has
  <2>2. ASSUME Has(m, q, l), l # old PROVE Has(m2, q, l)
    <3>1. PICK b \in 1 .. Len(m[q].items) : m[q].items[b].node = l
      BY <2>2 DEF Has
    <3>2. ~(q = p /\ b = i)
      BY <1>7, <2>2, <3>1
    <3>3. PICK a \in 1 .. Len(m2[q].items) : m2[q].items[a] = m[q].items[b]
      BY <1>11, <3>2
    <3> QED
      BY <3>1, <3>3 DEF Has
  <2> QED
    BY <2>1, <2>2
<1>13. Forest(m2, R \cup {old})
  <2>1. R \cup {old} \subseteq InUse(m2)
    BY <1>1, <1>3, <1>9
  <2>2. \A q, l \in Nodes : Has(m2, q, l) => l \in InUse(m2) \ (R \cup {old})
    BY <1>1, <1>3, <1>9, <1>12 DEF Forest
  <2>3. ASSUME NEW k \in Nodes, NEW l \in Nodes, NEW a \in 1 .. Len(m2[k].items),
               NEW b \in 1 .. Len(m2[l].items),
               m2[k].items[a].node = m2[l].items[b].node
        PROVE  k = l /\ a = b
    <3>1. was(k, a) \in 1 .. Len(m[k].items) /\ m2[k].items[a] = m[k].items[was(k, a)]
      BY <1>10
    <3>2. was(l, b) \in 1 .. Len(m[l].items) /\ m2[l].items[b] = m[l].items[was(l, b)]
      BY <1>10
    <3>3. k = l /\ was(k, a) = was(l, b)
      <4> HIDE DEF was
      <4>1. m[k].items[was(k, a)].node = m[l].items[was(l, b)].node
        BY <2>3, <3>1, <3>2
      <4> QED
        BY <1>1, <3>1, <3>2, <4>1, SMTT(30) DEF Forest
    <3>4. a = b
      BY <1>5, <1>6, <1>7, <3>3
    <3> QED
      BY <3>3, <3>4
  <2>4. ASSUME NEW l \in InUse(m2) \ (R \cup {old})
        PROVE  \E q \in Nodes : Has(m2, q, l)
    <3>1. l \in Nodes /\ l \in InUse(m) \ R /\ l # old
      BY <1>9, <2>4, Counts
    <3>2. PICK q \in Nodes : Has(m, q, l)
      BY <1>1, <3>1 DEF Forest
    <3> QED
      BY <1>12, <3>1, <3>2
  <2> QED
    BY <2>1, <2>2, <2>3, <2>4 DEF Forest
<1>14. NoCircle(m2)
  <2> SUFFICES ASSUME NEW S \in SUBSET InUse(m2), S # {}
               PROVE  \E l \in S : \A k \in S : ~Has(m2, k, l)
    BY DEF NoCircle
  <2>1. PICK l \in S : \A k \in S : ~Has(m, k, l)
    BY <1>1, <1>9 DEF NoCircle
  <2>2. S \subseteq Nodes
    BY Counts
  <2> QED
    BY <1>12, <2>1, <2>2
<1>15. ASSUME NEW h \in HandleType, Still(m, h), h.node # old
       PROVE  Still(m2, h)
  <2>1. h.node \in Nodes /\ (~IsRoot(h) => h.parent \in Nodes)
    BY HandleFacts
  <2>2. ASSUME ~IsRoot(h), WatcherAt(m, h) PROVE WatcherAt(m2, h)
    <3>1. PICK a \in 1 .. Len(m[h.parent].items) :
             m[h.parent].items[a] = [key |-> h.key, node |-> h.node]
      BY <2>2 DEF WatcherAt
    <3>2. m[h.parent].items[a].node = h.node
      BY <3>1
    <3>3. ~(h.parent = p /\ a = i)
      BY <1>7, <1>15, <3>2
    <3>4. \E b \in 1 .. Len(m2[h.parent].items) : m2[h.parent].items[b] = m[h.parent].items[a]
      BY <1>11, <2>1, <2>2, <3>3
    <3> QED
      BY <3>1, <3>4 DEF WatcherAt
  <2>3. CASE HandleOK(m, h)
    BY <1>7, <1>9, <2>1, <2>2, <2>3 DEF Still, HandleOK, IsNull
  <2>4. CASE Gone(m, h)
    BY <1>7, <2>1, <2>4 DEF Still, Gone
  <2> QED
    BY <1>15, <2>3, <2>4 DEF Still
<1>16. World(m2, R \cup {old})
  BY <1>8, <1>13, <1>14 DEF World
<1> QED
  BY <1>9, <1>15, <1>16 DEF m2, items

-----------------------------------------------------------------------------
(* The nodes that handles own.                                              *)

Own(h) == IF h.allocated THEN {h.node} ELSE {}

OwnedBy(hs) == UNION {Own(hs[x]) : x \in 1 .. Len(hs)}

\* No two handles own the same node.
Apart(hs) ==
    \A x, y \in 1 .. Len(hs) :
        hs[x].allocated /\ hs[y].allocated /\ hs[x].node = hs[y].node => x = y

LEMMA HandleAt ==
    ASSUME NEW hs \in Seq(HandleType), NEW x \in 1 .. Len(hs)
    PROVE  hs[x] \in HandleType
BY ElementOfSeq

LEMMA OwnedAppend ==
    ASSUME NEW hs \in Seq(HandleType), NEW h \in HandleType, Apart(hs),
           Own(h) \cap OwnedBy(hs) = {}
    PROVE  LET hs2 == Append(hs, h)
           IN  /\ hs2 \in Seq(HandleType) /\ Len(hs2) = Len(hs) + 1 /\ hs2[Len(hs) + 1] = h
               /\ \A x \in 1 .. Len(hs) : hs2[x] = hs[x]
               /\ OwnedBy(hs2) = OwnedBy(hs) \cup Own(h) /\ Apart(hs2)
<1> DEFINE hs2 == Append(hs, h)
           n == Len(hs)
<1>1. n \in Nat
  BY LenProperties
<1>2. /\ hs2 \in Seq(HandleType) /\ Len(hs2) = n + 1 /\ hs2[n + 1] = h
      /\ \A x \in 1 .. n : hs2[x] = hs[x]
  BY AppendProperties
<1> HIDE DEF hs2
<1>3. \A x \in 1 .. n + 1 : x \in 1 .. n \/ x = n + 1
  BY <1>1
<1>4. OwnedBy(hs2) = OwnedBy(hs) \cup Own(h)
  <2>1. n + 1 \in 1 .. n + 1 /\ 1 .. n \subseteq 1 .. n + 1
    BY <1>1
  <2> QED
    BY <1>2, <1>3, <2>1 DEF OwnedBy
<1>5. Apart(hs2)
  <2> SUFFICES ASSUME NEW x \in 1 .. n + 1, NEW y \in 1 .. n + 1,
                      hs2[x].allocated, hs2[y].allocated, hs2[x].node = hs2[y].node
               PROVE  x = y
    BY <1>2 DEF Apart
  <2>1. \A z \in 1 .. n : hs[z].allocated => hs[z].node \in OwnedBy(hs)
    BY DEF OwnedBy, Own
  <2>2. h.allocated => h.node \notin OwnedBy(hs)
    BY DEF Own
  <2> QED
    BY <1>2, <1>3, <2>1, <2>2 DEF Apart
<1> QED
  BY <1>2, <1>4, <1>5 DEF hs2

LEMMA OwnedExcept ==
    ASSUME NEW hs \in Seq(HandleType), NEW x \in 1 .. Len(hs), NEW h \in HandleType,
           Apart(hs), Own(h) \cap (OwnedBy(hs) \ Own(hs[x])) = {}
    PROVE  LET hs2 == [hs EXCEPT ![x] = h]
           IN  /\ hs2 \in Seq(HandleType) /\ Len(hs2) = Len(hs) /\ hs2[x] = h
               /\ \A y \in 1 .. Len(hs) : y # x => hs2[y] = hs[y]
               /\ OwnedBy(hs2) = (OwnedBy(hs) \ Own(hs[x])) \cup Own(h) /\ Apart(hs2)
<1> DEFINE hs2 == [hs EXCEPT ![x] = h]
           n == Len(hs)
<1>1. /\ hs2 \in Seq(HandleType) /\ Len(hs2) = n /\ hs2[x] = h
      /\ \A y \in 1 .. n : y # x => hs2[y] = hs[y]
  BY ExceptSeq
<1> HIDE DEF hs2
<1>2. \A y \in 1 .. n : y # x => Own(hs[y]) \cap Own(hs[x]) = {}
  BY DEF Apart, Own
<1>3. OwnedBy(hs2) = (OwnedBy(hs) \ Own(hs[x])) \cup Own(h)
  <2>1. \A y \in 1 .. n : y # x => Own(hs2[y]) = Own(hs[y])
    BY <1>1
  <2>2. Own(hs2[x]) = Own(h)
    BY <1>1
  <2> QED
    BY <1>1, <1>2, <2>1, <2>2 DEF OwnedBy
<1>4. Apart(hs2)
  <2> SUFFICES ASSUME NEW a \in 1 .. n, NEW b \in 1 .. n,
                      hs2[a].allocated, hs2[b].allocated, hs2[a].node = hs2[b].node
               PROVE  a = b
    BY <1>1 DEF Apart
  <2>1. \A z \in 1 .. n : z # x /\ hs[z].allocated => hs[z].node \in OwnedBy(hs) \ Own(hs[x])
    BY <1>2 DEF OwnedBy, Own
  <2>2. h.allocated => h.node \notin OwnedBy(hs) \ Own(hs[x])
    BY DEF Own
  <2> QED
    BY <1>1, <2>1, <2>2 DEF Apart
<1> QED
  BY <1>1, <1>3, <1>4 DEF hs2

LEMMA OwnedFront ==
    ASSUME NEW hs \in Seq(HandleType), Len(hs) # 0, Apart(hs)
    PROVE  LET hs2 == Front(hs)
               last == hs[Len(hs)]
           IN  /\ hs2 \in Seq(HandleType) /\ Len(hs2) = Len(hs) - 1
               /\ last \in HandleType
               /\ \A x \in 1 .. Len(hs) - 1 : hs2[x] = hs[x]
               /\ OwnedBy(hs2) = OwnedBy(hs) \ Own(last) /\ Own(last) \subseteq OwnedBy(hs)
               /\ Apart(hs2)
<1> DEFINE hs2 == Front(hs)
           n == Len(hs)
<1>1. n \in Nat /\ n >= 1 /\ \A x \in 1 .. n : hs[x] \in HandleType
  BY LenProperties, ElementOfSeq
<1>2. hs2 \in Seq(HandleType) /\ Len(hs2) = n - 1 /\ \A x \in 1 .. n - 1 : hs2[x] = hs[x]
  <2>1. 1 \in Int /\ n - 1 \in Int /\ \A x \in 1 .. n - 1 : hs[x] \in HandleType
    BY <1>1
  <2>2. /\ hs2 \in Seq(HandleType) /\ Len(hs2) = IF 1 <= n - 1 THEN n - 1 - 1 + 1 ELSE 0
        /\ \A x \in 1 .. n - 1 - 1 + 1 : hs2[x] = hs[1 + x - 1]
    BY <2>1, SubSeqProperties DEF Front
  <2> HIDE DEF n
  <2>3. n - 1 - 1 + 1 = n - 1 /\ (~(1 <= n - 1) => n - 1 = 0)
    BY <1>1
  <2>4. Len(hs2) = n - 1
    BY <2>2, <2>3
  <2>5. \A x \in 1 .. n - 1 : hs2[x] = hs[x]
    <3> SUFFICES ASSUME NEW x \in 1 .. n - 1 PROVE hs2[x] = hs[x]
      OBVIOUS
    <3>1. x \in Int /\ 1 + x - 1 = x
      BY <1>1
    <3> HIDE DEF hs2
    <3> QED
      BY <2>2, <2>3, <3>1
  <2> QED
    BY <2>2, <2>4, <2>5
<1> HIDE DEF hs2, n
<1>3. \A y \in 1 .. n - 1 : Own(hs[y]) \cap Own(hs[n]) = {}
  BY <1>1 DEF Apart, Own, n
<1>4. OwnedBy(hs2) = OwnedBy(hs) \ Own(hs[n]) /\ Own(hs[n]) \subseteq OwnedBy(hs)
  <2>1. /\ \A y \in 1 .. n : y \in 1 .. n - 1 \/ y = n
        /\ 1 .. n - 1 \subseteq 1 .. n /\ n \in 1 .. n
    BY <1>1
  <2>2. OwnedBy(hs) = UNION {Own(hs[x]) : x \in 1 .. n}
    BY DEF OwnedBy, n
  <2>3. OwnedBy(hs2) = UNION {Own(hs[x]) : x \in 1 .. n - 1}
    BY <1>2 DEF OwnedBy
  <2> QED
    BY <1>3, <2>1, <2>2, <2>3
<1>5. Apart(hs2)
  <2>1. 1 .. n - 1 \subseteq 1 .. Len(hs)
    BY <1>1 DEF n
  <2> QED
    BY <1>2, <2>1 DEF Apart
<1>6. hs[n] \in HandleType
  BY <1>1
<1> QED
  BY <1>2, <1>4, <1>5, <1>6 DEF hs2, n

\* The value can be had: there is room for it.
Fit(m, value) ==
    IF IsCopy(value) THEN value.of \in InUse(m) /\ Room(m, 0)
    ELSE value.kind \in Kinds \ {"free", "dead"} /\ Spare(m, 1)

\* No handle is lost: it is as it was, or a node it points to has died.
Keeps(m, m2) == \A h \in HandleType : Still(m, h) => Still(m2, h)

KeepsBut(m, m2, S) ==
    \A h \in HandleType : Still(m, h) /\ h.node \notin S => Still(m2, h)

\* The handles that have none of the nodes are as they were.
HoldsBut(m, m2, S) ==
    \A h \in HandleType : HandleOK(m, h) /\ h.node \notin S => HandleOK(m2, h)

SameBut(m, m2, S) == \A k \in Nodes \ S : m2[k] = m[k]

LEMMA NothingUnder ==
    ASSUME NEW m, NEW R, World(m, R), NEW n \in InUse(m), Len(m[n].items) = 0
    PROVE  Under(m, n) = {n}
<1>1. HeapOK(m) /\ Closed(m, InUse(m))
  BY ForestClosed DEF World
<1>2. {n} \in SUBSET InUse(m) /\ Closed(m, {n})
  BY DEF Closed, Has
<1> QED
  BY <1>1, <1>2, UnderFacts

LEMMA NewNodeFacts ==
    ASSUME NEW m, NEW R, World(m, R), NEW value, Fit(m, value)
    PROVE  LET new == NewNode(m, value)
           IN  /\ World(new.mem, R \cup {new.node}) /\ Extends(m, new.mem)
               /\ new.node \in FreeNodes(m) /\ new.node \in InUse(new.mem)
               /\ InUse(m) \subseteq InUse(new.mem)
               /\ Under(new.mem, new.node) \cap InUse(m) = {}
               /\ \A r \in Nat : Room(m, r + 1) => Spare(new.mem, r)
               /\ ~IsCopy(value) =>
                     /\ new.mem[new.node] = Leaf(value.kind)
                     /\ \A r \in Int : Room(m, r + 2) => Room(new.mem, r)
<1> DEFINE new == NewNode(m, value)
<1>1. CASE IsCopy(value)
  <2>1. value.of \in InUse(m) /\ Room(m, 0)
    BY <1>1 DEF Fit
  <2>2. new = json_value_copy(m, value.of)
    BY <1>1 DEF NewNode
  <2> DEFINE copy == json_value_copy(m, value.of)
  <2>3. /\ World(copy.mem, R \cup {copy.node}) /\ Extends(m, copy.mem)
        /\ copy.node \in FreeNodes(m) /\ InUse(m) \subseteq InUse(copy.mem)
        /\ Under(copy.mem, copy.node) \cap InUse(m) = {}
        /\ \A r \in Int : Room(m, r) => Spare(copy.mem, r)
    BY <2>1, NewCopy
  <2> HIDE DEF copy, new
  <2>4. new = copy
    BY <2>2 DEF copy
  <2>5. copy.node \in InUse(copy.mem)
    BY <2>3 DEF World, Forest
  <2>6. ASSUME NEW r \in Nat, Room(m, r + 1) PROVE Spare(copy.mem, r)
    BY <2>3, <2>6, LessRoom
  <2> QED
    BY <1>1, <2>3, <2>4, <2>5, <2>6 DEF new
<1>2. CASE ~IsCopy(value)
  <2> DEFINE f == Fresh(m)
             m2 == [m EXCEPT ![f] = Leaf(value.kind)]
  <2>1. value.kind \in Kinds \ {"free", "dead"} /\ Spare(m, 1)
    BY <1>2 DEF Fit
  <2>2. /\ World(m2, R \cup {f}) /\ Extends(m, m2)
        /\ f \in FreeNodes(m) /\ m2[f] = Leaf(value.kind)
        /\ InUse(m2) = InUse(m) \cup {f}
        /\ \A r \in Int : (Room(m, r + 2) => Room(m2, r)) /\ (Spare(m, r + 1) => Spare(m2, r))
    BY <2>1, NewLeaf
  <2>3. new.mem = m2 /\ new.node = f
    BY <1>2 DEF NewNode
  <2> HIDE DEF new, m2, f
  <2>4. Under(m2, f) = {f}
    <3>1. Len(m2[f].items) = 0
      BY <2>1, <2>2, LeafFacts
    <3> QED
      BY <2>2, <3>1, NothingUnder
  <2>5. f \notin InUse(m)
    BY <2>2, Counts
  <2>6. ASSUME NEW r \in Nat, Room(m, r + 1) PROVE Spare(m2, r)
    BY <2>2, <2>6, RoomIsSpare
  <2> QED
    BY <2>2, <2>3, <2>4, <2>5, <2>6 DEF new
<1> QED
  BY <1>1, <1>2

\* A temporary or a variable goes.
LEMMA DropFacts ==
    ASSUME NEW m, NEW R, World(m, R), NEW h \in HandleType, Own(h) \subseteq R
    PROVE  LET m2 == destroy_node(m, h)
           IN  /\ World(m2, R \ Own(h))
               /\ Keeps(m, m2)
<1>1. CASE h.allocated
  BY <1>1, Destroy DEF destroy_node, Own, Keeps
<1>2. CASE ~h.allocated
  <2>1. R \ {} = R
    OBVIOUS
  <2> QED
    BY <1>2, <2>1 DEF destroy_node, Own, Keeps
<1> QED
  BY <1>1, <1>2

\* No other handle has the node that one owns.
LEMMA OwnNode ==
    ASSUME NEW m, NEW R, World(m, R), NEW g \in HandleType, NEW h \in HandleType,
           Own(h) \subseteq R, HandleOK(m, g), Own(g) \cap Own(h) = {}
    PROVE  g.node \notin Own(h)
<1> SUFFICES ASSUME h.allocated, g.node = h.node PROVE FALSE
  BY DEF Own
<1>1. ~g.allocated /\ h.node \in R
  BY DEF Own
<1>2. ~IsRoot(g) /\ WatcherAt(m, g)
  BY <1>1 DEF HandleOK
<1>3. g.parent \in Nodes /\ g.node \in Nodes
  BY <1>2, HandleFacts
<1>4. Has(m, g.parent, g.node)
  BY <1>2 DEF WatcherAt, Has
<1> QED
  BY <1>1, <1>3, <1>4 DEF World, Forest

\* to_object, to_array: the other handles do not have the node.
LEMMA ConvertFacts ==
    ASSUME NEW m, NEW R, World(m, R), NEW h \in HandleType, HandleOK(m, h), Own(h) \subseteq R,
           NEW kind \in {"object", "array"}
    PROVE  LET m2 == Converted(m, h, kind)
           IN  /\ World(m2, R) /\ HandleOK(m2, h)
               /\ InUse(m2) = InUse(m) /\ FreeNodes(m2) = FreeNodes(m)
               /\ IsNull(m, h) /\ IsRoot(h) => m2[h.node].kind = kind
               /\ HoldsBut(m, m2, Own(h))
<1> DEFINE m2 == Converted(m, h, kind)
           n == h.node
<1>1. CASE ~(IsNull(m, h) /\ IsRoot(h))
  BY <1>1 DEF Converted, HoldsBut
<1>2. CASE IsNull(m, h) /\ IsRoot(h)
  <2>1. HeapOK(m) /\ Forest(m, R) /\ NoCircle(m)
    BY DEF World
  <2>2. /\ n \in Nodes /\ m[n].kind = "null" /\ h.allocated /\ Own(h) = {n}
        /\ n \in InUse(m) /\ h.key \in Names
    BY <1>2, HandleFacts DEF IsNull, HandleOK, Own
  <2>3. m2 = [m EXCEPT ![n].kind = kind] /\ kind \in Kinds
    BY <1>2 DEF Converted, Kinds
  <2> HIDE DEF m2, n
  <2>4. /\ m2 \in [Nodes -> NodeType]
        /\ \A k \in Nodes : m2[k].items = m[k].items /\ (k # n => m2[k] = m[k])
        /\ m2[n].kind = kind
    <3>1. m \in [Nodes -> NodeType] /\ m[n] \in NodeType
      BY <2>1, <2>2 DEF HeapOK
    <3>2. [m[n] EXCEPT !.kind = kind] \in NodeType
      BY <2>3, <3>1 DEF NodeType
    <3> QED
      BY <2>2, <2>3, <3>1, <3>2 DEF NodeType
  <2>5. Len(m[n].items) = 0
    BY <2>1, <2>2 DEF HeapOK
  <2>6. HeapOK(m2)
    <3> SUFFICES ASSUME NEW k \in Nodes
                 PROVE  /\ m2[k].kind \notin {"object", "array"} => Len(m2[k].items) = 0
                        /\ m2[k].kind = "array" =>
                              \A i \in 1 .. Len(m2[k].items) : m2[k].items[i].key = NoKey
      BY <2>4 DEF HeapOK
    <3>1. CASE k = n
      BY <2>4, <2>5, <3>1
    <3>2. CASE k # n
      BY <2>1, <2>4, <3>2 DEF HeapOK
    <3> QED
      BY <3>1, <3>2
  <2>7. InUse(m2) = InUse(m) /\ FreeNodes(m2) = FreeNodes(m)
    BY <2>2, <2>4 DEF InUse, FreeNodes
  <2>8. \A k, l \in Nodes : Has(m2, k, l) <=> Has(m, k, l)
    BY <2>4 DEF Has
  <2>9. Forest(m2, R)
    <3>1. R \subseteq InUse(m2)
      BY <2>1, <2>7 DEF Forest
    <3>2. \A k, l \in Nodes : Has(m2, k, l) => l \in InUse(m2) \ R
      BY <2>1, <2>7, <2>8 DEF Forest
    <3>3. \A k, l \in Nodes : \A i \in 1 .. Len(m2[k].items), j \in 1 .. Len(m2[l].items) :
             m2[k].items[i].node = m2[l].items[j].node => k = l /\ i = j
      BY <2>1, <2>4 DEF Forest
    <3>4. \A l \in InUse(m2) \ R : \E k \in Nodes : Has(m2, k, l)
      BY <2>1, <2>7, <2>8, Counts DEF Forest
    <3> QED
      BY <3>1, <3>2, <3>3, <3>4 DEF Forest
  <2>10. NoCircle(m2)
    <3> SUFFICES ASSUME NEW S \in SUBSET InUse(m2), S # {}
                 PROVE  \E l \in S : \A k \in S : ~Has(m2, k, l)
      BY DEF NoCircle
    <3>1. S \subseteq Nodes /\ S \in SUBSET InUse(m)
      BY <2>7, Counts
    <3>2. PICK l \in S : \A k \in S : ~Has(m, k, l)
      BY <2>1, <3>1 DEF NoCircle
    <3> QED
      BY <2>8, <3>1, <3>2
  <2>11. HandleOK(m2, h)
    BY <1>2, <2>2, <2>7 DEF HandleOK, n
  <2>12. ASSUME NEW g \in HandleType, HandleOK(m, g), g.node \notin Own(h)
         PROVE  HandleOK(m2, g)
    <3>1. g.node \in Nodes /\ g.node # n /\ (~IsRoot(g) => g.parent \in Nodes /\ g.parent # n)
      BY <2>2, <2>12, HandleFacts DEF HandleOK
    <3>2. m2[g.node] = m[g.node] /\ (~IsRoot(g) => m2[g.parent] = m[g.parent])
      BY <2>4, <3>1
    <3> QED
      BY <2>7, <2>12, <3>2 DEF HandleOK, IsNull, WatcherAt
  <2> QED
    BY <2>4, <2>6, <2>7, <2>9, <2>10, <2>11, <2>12 DEF World, m2, n, HoldsBut
<1> QED
  BY <1>1, <1>2

LEMMA DestroyFacts ==
    ASSUME NEW m, NEW R, World(m, R), NEW n \in R, NEW m2, m2 = json_value_destroy(m, n)
    PROVE  /\ World(m2, R \ {n})
           /\ InUse(m2) = InUse(m) \ Under(m, n)
           /\ FreeNodes(m2) = FreeNodes(m)
           /\ \A k \in Under(m, n) : m2[k].kind = "dead"
           /\ SameBut(m, m2, Under(m, n)) /\ Keeps(m, m2)
<1>1. LET m3 == json_value_destroy(m, n)
      IN  /\ World(m3, R \ {n})
          /\ InUse(m3) = InUse(m) \ Under(m, n)
          /\ FreeNodes(m3) = FreeNodes(m)
          /\ \A k \in Nodes : IF k \in Under(m, n) THEN m3[k].kind = "dead"
                              ELSE m3[k] = m[k]
          /\ \A h \in HandleType : Still(m, h) => Still(m3, h)
  BY Destroy
<1>2. /\ World(m2, R \ {n})
      /\ InUse(m2) = InUse(m) \ Under(m, n)
      /\ FreeNodes(m2) = FreeNodes(m)
      /\ \A k \in Nodes : IF k \in Under(m, n) THEN m2[k].kind = "dead"
                          ELSE m2[k] = m[k]
      /\ \A h \in HandleType : Still(m, h) => Still(m2, h)
  BY <1>1
<1>3. /\ \A k \in Nodes : k \in Under(m, n) => m2[k].kind = "dead"
      /\ \A k \in Nodes : k \notin Under(m, n) => m2[k] = m[k]
  BY <1>2
<1>4. \A k \in Under(m, n) : m2[k].kind = "dead"
  <2>1. Under(m, n) \subseteq Nodes
    BY Counts, ForestClosed, UnderFacts DEF World, Forest
  <2> QED
    BY <1>3, <2>1
<1> QED
  BY <1>2, <1>3, <1>4 DEF SameBut, Keeps

IsAt(m, p, i, n) == i \in 1 .. Len(m[p].items) /\ m[p].items[i].node = n

Swapped(m, p, i, n) == [m EXCEPT ![p].items[i].node = n]

LEMMA SwapFacts ==
    ASSUME NEW m, NEW R, World(m, R), NEW p \in Nodes,
           NEW i, NEW old, IsAt(m, p, i, old), NEW n \in R, p \notin Under(m, n),
           NEW m2, m2 = Swapped(m, p, i, n)
    PROVE  /\ World(m2, (R \ {n}) \cup {old})
           /\ KeepsBut(m, m2, {old})
<1>1. LET m3 == [m EXCEPT ![p].items[i].node = n]
          was == m[p].items[i].node
      IN  /\ World(m3, (R \ {n}) \cup {was})
          /\ InUse(m3) = InUse(m) /\ FreeNodes(m3) = FreeNodes(m)
          /\ \A h \in HandleType : Still(m, h) /\ h.node # was => Still(m3, h)
  <2>1. i \in 1 .. Len(m[p].items)
    BY DEF IsAt
  <2> QED
    BY <2>1, Swap, Zenon
<1>2. old = m[p].items[i].node
  BY DEF IsAt
<1>3. /\ World(m2, (R \ {n}) \cup {old})
      /\ \A h \in HandleType : Still(m, h) /\ h.node # old => Still(m2, h)
  BY <1>1, <1>2, Zenon DEF Swapped
<1> QED
  BY <1>3 DEF KeepsBut

\* The first member with the name.
LEMMA FindFacts ==
    ASSUME NEW m, HeapOK(m), NEW n \in Nodes, NEW key
    PROVE  LET found == json_object_find(m, n, key)
           IN  /\ found = 0 \/ found \in 1 .. Len(m[n].items)
               /\ found # 0 => m[n].items[found].key = key
               /\ \A i \in 1 .. Len(m[n].items) : m[n].items[i].key = key => found # 0
<1> DEFINE named == {i \in DOMAIN m[n].items : m[n].items[i].key = key}
           found == json_object_find(m, n, key)
<1>1. DOMAIN m[n].items = 1 .. Len(m[n].items) /\ Len(m[n].items) \in Nat
  BY NodeOf
<1>2. found = IF named = {} THEN 0 ELSE Min(named)
  BY DEF json_object_find
<1>3. named \subseteq 1 .. Len(m[n].items) /\ named \subseteq Nat
  BY <1>1
<1> HIDE DEF found
<1> DEFINE Found == /\ found = 0 \/ found \in 1 .. Len(m[n].items)
                    /\ found # 0 => m[n].items[found].key = key
                    /\ \A i \in 1 .. Len(m[n].items) : m[n].items[i].key = key => found # 0
<1>5. ASSUME named # {} PROVE Found
  <2> HIDE DEF named
  <2>1. \E i \in named : \A j \in named : i <= j
    BY <1>3, <1>5, Smallest
  <2>2. Min(named) \in named
    BY <2>1 DEF Min
  <2>3. found \in named
    BY <1>2, <1>5, <2>2
  <2> QED
    BY <1>1, <2>3 DEF named
<1>6. Found
  <2>1. named = {} => Found
    BY <1>1, <1>2
  <2> QED
    BY <1>5, <2>1
<1> QED
  BY <1>6 DEF found

\* A place gets a new value, and the value it had dies.
LEMMA ReplacedFacts ==
    ASSUME NEW m, NEW R, World(m, R), NEW p \in InUse(m), NEW i \in 1 .. Len(m[p].items),
           NEW value, Fit(m, value)
    PROVE  LET m2 == Replaced(m, p, i, value)
           IN  World(m2, R) /\ Keeps(m, m2)
<1> DEFINE new == NewNode(m, value)
           m1 == new.mem
           n == new.node
           old == m[p].items[i].node
           swapped == [m1 EXCEPT ![p].items[i].node = n]
<1>1. /\ World(m1, R \cup {n}) /\ Extends(m, m1)
      /\ n \in FreeNodes(m) /\ n \in InUse(m1)
      /\ Under(m1, n) \cap InUse(m) = {}
  BY NewNodeFacts
<1>2. HeapOK(m) /\ Forest(m, R) /\ p \in Nodes /\ R \subseteq InUse(m)
  BY Counts DEF World, Forest
<1> HIDE DEF new
<1>3. m1[p] = m[p] /\ p \notin Under(m1, n)
  BY <1>1, <1>2 DEF Extends, InUse
<1>4. old \in InUse(m) \ R
  <2>1. old \in Nodes /\ Has(m, p, old)
    BY <1>2, NodeOf
  <2> QED
    BY <1>2, <2>1 DEF Forest
<1> DEFINE R2 == ((R \cup {n}) \ {n}) \cup {old}
<1>5. /\ World(swapped, R2)
      /\ KeepsBut(m1, swapped, {old})
  <2>1. swapped = Swapped(m1, p, i, n)
    BY DEF Swapped
  <2> HIDE DEF m1, n, old, swapped
  <2>2. IsAt(m1, p, i, old)
    BY <1>3 DEF old, IsAt
  <2> DEFINE roots == R \cup {n}
  <2>3. World(m1, roots) /\ n \in roots /\ p \in Nodes /\ p \notin Under(m1, n)
    BY <1>1, <1>2, <1>3
  <2> HIDE DEF roots
  <2>4. /\ World(swapped, (roots \ {n}) \cup {old})
        /\ KeepsBut(m1, swapped, {old})
    <3>1. World(swapped, (roots \ {n}) \cup {old})
      BY <2>1, <2>2, <2>3, SwapFacts, Zenon
    <3>2. KeepsBut(m1, swapped, {old})
      BY <2>1, <2>2, <2>3, SwapFacts, Zenon
    <3> QED
      BY <3>1, <3>2
  <2> QED
    BY <2>4 DEF roots
<1>6. n \notin R /\ R2 \ {old} = R
  BY <1>1, <1>2, <1>4, Counts
<1> DEFINE m2 == json_value_destroy(swapped, old)
<1>7. Replaced(m, p, i, value) = m2
  BY DEF Replaced, new
<1> HIDE DEF m1, n, old, swapped
<1>a. m2 = json_value_destroy(swapped, old) /\ old \in R2
  OBVIOUS
<1> HIDE DEF m2, R2
<1>8. /\ World(m2, R2 \ {old})
      /\ \A k \in Under(swapped, old) : m2[k].kind = "dead"
      /\ Keeps(swapped, m2)
  BY <1>5, <1>a, DestroyFacts
<1>9. old \in Under(swapped, old) /\ old \in Nodes
  <2>1. HeapOK(swapped) /\ Closed(swapped, InUse(swapped)) /\ old \in InUse(swapped)
    BY <1>5, ForestClosed DEF World, Forest, R2
  <2> QED
    BY <2>1, UnderFacts, Counts
<1>10. ASSUME NEW g \in HandleType, Still(m, g) PROVE Still(m2, g)
  <2>1. CASE g.node = old
    BY <1>8, <1>9, <2>1 DEF Still, Gone
  <2>2. CASE g.node # old
    BY <1>1, <1>5, <1>8, <1>10, <2>2, HandlesExtend DEF Keeps, KeepsBut
  <2> QED
    BY <2>1, <2>2
<1> QED
  BY <1>6, <1>7, <1>8, <1>10, <1>a DEF Keeps

\* A null in which there is nothing is taken away.
LEMMA DestroyNull ==
    ASSUME NEW m, NEW R, World(m, R), NEW h \in HandleType, Own(h) \subseteq R,
           ~IsRoot(h), HandleOK(m, h)
    PROVE  LET m2 == destroy_node(m, h)
           IN  /\ InUse(m2) = InUse(m) \ Own(h) /\ FreeNodes(m2) = FreeNodes(m)
               /\ \A r \in Int : Room(m, r) => Room(m2, r)
               /\ SameBut(m, m2, Own(h)) /\ HoldsBut(m, m2, Own(h))
<1> DEFINE m2 == destroy_node(m, h)
<1>1. CASE ~h.allocated
  BY <1>1 DEF destroy_node, Own, SameBut, HoldsBut
<1>2. CASE h.allocated
  <2>1. /\ h.node \in InUse(m) /\ m[h.node].kind = "null" /\ h.node \in R /\ Own(h) = {h.node}
    BY <1>2 DEF HandleOK, Own, IsNull
  <2>2. Len(m[h.node].items) = 0
    BY <2>1, HandleFacts DEF World, HeapOK
  <2>3. Under(m, h.node) = {h.node}
    BY <2>1, <2>2, NothingUnder
  <2>4. /\ InUse(m2) = InUse(m) \ {h.node} /\ FreeNodes(m2) = FreeNodes(m)
        /\ \A k \in Nodes : k # h.node => m2[k] = m[k]
    <3>2. m2 = json_value_destroy(m, h.node)
      BY <1>2 DEF destroy_node
    <3> DEFINE n == h.node
    <3>3. n \in R /\ m2 = json_value_destroy(m, n)
      BY <2>1, <3>2
    <3> HIDE DEF m2, n
    <3>4. /\ InUse(m2) = InUse(m) \ Under(m, n) /\ FreeNodes(m2) = FreeNodes(m)
          /\ SameBut(m, m2, Under(m, n))
      BY <3>3, DestroyFacts
    <3> QED
      BY <2>3, <3>4 DEF n, SameBut
  <2> HIDE DEF m2
  <2>5. Cardinality(InUse(m2)) <= Cardinality(InUse(m))
    BY <2>4, Counts, FS_Subset
  <2>6. \A r \in Int : Room(m, r) => Room(m2, r)
    BY <2>4, <2>5, Counts DEF Room
  <2>7. ASSUME NEW g \in HandleType, HandleOK(m, g), g.node \notin Own(h)
        PROVE  HandleOK(m2, g)
    <3>1. /\ g.node \in Nodes /\ g.node # h.node
          /\ ~IsRoot(g) => g.parent \in Nodes /\ g.parent # h.node
      BY <2>1, <2>7, HandleFacts DEF HandleOK
    <3>2. m2[g.node] = m[g.node] /\ (~IsRoot(g) => m2[g.parent] = m[g.parent])
      BY <2>4, <3>1
    <3> QED
      BY <2>4, <2>7, <3>1, <3>2 DEF HandleOK, IsNull, WatcherAt
  <2> QED
    BY <2>1, <2>4, <2>6, <2>7 DEF m2, SameBut, HoldsBut
<1> QED
  BY <1>1, <1>2

-----------------------------------------------------------------------------
(* Assigning.                                                               *)

SameKinds(m, m2) == \A k \in Nodes : m2[k].kind = m[k].kind

CanPut(m, R, p, n, key) ==
    /\ World(m, R) /\ p \in InUse(m) /\ n \in R /\ key \in Names
    /\ m[p].kind \in {"object", "array"} /\ (m[p].kind = "array" => key = NoKey)
    /\ p \notin Under(m, n)

HasPut(m, m2, R, p, n, key) ==
    /\ World(m2, R \ {n}) /\ InUse(m2) = InUse(m) /\ FreeNodes(m2) = FreeNodes(m)
    /\ SameKinds(m, m2) /\ SameBut(m, m2, {p})
    /\ Keeps(m, m2) /\ HoldsBut(m, m2, {})
    /\ \A h \in HandleType :
          h.parent = p /\ h.key = key /\ h.node = n => WatcherAt(m2, h)

LEMMA PutFacts ==
    ASSUME NEW m, NEW R, NEW p, NEW n, NEW key, CanPut(m, R, p, n, key)
    PROVE  HasPut(m, Appended(m, p, key, n), R, p, n, key)
<1> DEFINE m2 == Appended(m, p, key, n)
<1>a. /\ World(m, R) /\ p \in InUse(m) /\ n \in R /\ key \in Names
      /\ m[p].kind \in {"object", "array"} /\ (m[p].kind = "array" => key = NoKey)
      /\ p \notin Under(m, n)
  BY DEF CanPut
<1>1. LET m3 == Appended(m, p, key, n)
      IN  /\ World(m3, R \ {n})
          /\ InUse(m3) = InUse(m) /\ FreeNodes(m3) = FreeNodes(m)
          /\ \A k \in Nodes : m3[k].kind = m[k].kind /\ (k # p => m3[k] = m[k])
          /\ \A h \in HandleType :
                /\ HandleOK(m, h) => HandleOK(m3, h)
                /\ Still(m, h) => Still(m3, h)
          /\ \A h \in HandleType :
                h.parent = p /\ h.key = key /\ h.node = n => WatcherAt(m3, h)
  BY <1>a, Put
<1>2. /\ World(m2, R \ {n})
      /\ InUse(m2) = InUse(m) /\ FreeNodes(m2) = FreeNodes(m)
      /\ \A k \in Nodes : m2[k].kind = m[k].kind /\ (k # p => m2[k] = m[k])
      /\ \A h \in HandleType :
            /\ HandleOK(m, h) => HandleOK(m2, h)
            /\ Still(m, h) => Still(m2, h)
      /\ \A h \in HandleType :
            h.parent = p /\ h.key = key /\ h.node = n => WatcherAt(m2, h)
  BY <1>1
<1> QED
  BY <1>2 DEF HasPut, SameKinds, SameBut, Keeps, HoldsBut

LEMMA ExtendsFacts ==
    ASSUME NEW m, NEW m2, Extends(m, m2)
    PROVE  Keeps(m, m2) /\ HoldsBut(m, m2, {}) /\ SameBut(m, m2, FreeNodes(m))
<1>1. Keeps(m, m2) /\ HoldsBut(m, m2, {})
  BY HandlesExtend DEF Keeps, HoldsBut
<1>2. SameBut(m, m2, FreeNodes(m))
  BY DEF Extends, SameBut, FreeNodes
<1> QED
  BY <1>1, <1>2

LEMMA KeepsOn ==
    ASSUME NEW m1, NEW m2, NEW m3, Keeps(m1, m2), Keeps(m2, m3)
    PROVE  Keeps(m1, m3)
BY DEF Keeps

LEMMA HoldsOn ==
    ASSUME NEW m1, NEW m2, NEW m3, NEW S, HoldsBut(m1, m2, S), HoldsBut(m2, m3, {})
    PROVE  HoldsBut(m1, m3, S)
BY DEF HoldsBut

LEMMA SameOn ==
    ASSUME NEW m1, NEW m2, NEW m3, NEW S, NEW T, SameBut(m1, m2, S), SameBut(m2, m3, T)
    PROVE  SameBut(m1, m3, S \cup T)
BY DEF SameBut

\* What the first assignment to a placeholder, or one to a null member, does.
LEMMA PlacedFacts ==
    ASSUME NEW m, NEW R, World(m, R), NEW h \in HandleType, HandleOK(m, h), ~IsRoot(h),
           Own(h) \subseteq R, m[h.parent].kind = "object",
           NEW value, Fit(m, value), IsCopy(value) => value.of \notin Own(h)
    PROVE  LET placed == Placed(m, h, value)
           IN  /\ placed.self \in HandleType /\ ~placed.self.allocated
               /\ HandleOK(placed.mem, placed.self) /\ ~IsRoot(placed.self)
               /\ World(placed.mem, R \ Own(h))
               /\ Keeps(m, placed.mem) /\ HoldsBut(m, placed.mem, Own(h))
               /\ placed.self.node \in FreeNodes(m)
               /\ SameBut(m, placed.mem, (Own(h) \cup FreeNodes(m)) \cup {h.parent})
               /\ ~IsCopy(value) =>
                     /\ placed.mem[placed.self.node].kind = value.kind
                     /\ \A r \in Int : Room(m, r + 2) => Room(placed.mem, r)
<1> DEFINE m1 == destroy_node(m, h)
           R1 == R \ Own(h)
           new == NewNode(m1, value)
           m2 == new.mem
           n == new.node
           p == h.parent
           m3 == Appended(m2, p, h.key, n)
           self == Watcher(n, p, h.key)
<1>1. /\ World(m1, R1) /\ Keeps(m, m1) /\ InUse(m1) = InUse(m) \ Own(h)
      /\ FreeNodes(m1) = FreeNodes(m) /\ (\A r \in Int : Room(m, r) => Room(m1, r))
      /\ SameBut(m, m1, Own(h)) /\ HoldsBut(m, m1, Own(h))
  BY DropFacts, DestroyNull
<1>2. Placed(m, h, value).mem = m3 /\ Placed(m, h, value).self = self
  BY DEF Placed
<1> HIDE DEF m1
<1>3. /\ p \in Nodes /\ h.key \in Names /\ p \in InUse(m) /\ p \notin Own(h)
      /\ p \in InUse(m1) /\ m1[p] = m[p]
  <2>1. p \in Nodes /\ h.key \in Names
    BY HandleFacts
  <2>2. h.allocated => m[h.node].kind = "null"
    BY DEF HandleOK, IsNull
  <2>3. p \in InUse(m) /\ p \notin Own(h)
    BY <2>1, <2>2 DEF InUse, Own
  <2> QED
    BY <1>1, <2>1, <2>3 DEF SameBut
<1>4. Fit(m1, value)
  BY <1>1 DEF Fit, Spare
<1>5. /\ World(m2, R1 \cup {n}) /\ Extends(m1, m2)
      /\ n \in FreeNodes(m1) /\ n \in InUse(m2)
      /\ InUse(m1) \subseteq InUse(m2)
      /\ Under(m2, n) \cap InUse(m1) = {}
      /\ ~IsCopy(value) =>
            /\ m2[n] = Leaf(value.kind)
            /\ \A r \in Int : Room(m1, r + 2) => Room(m2, r)
  BY <1>1, <1>4, NewNodeFacts
<1> HIDE DEF new, R1
<1>6. /\ m2[p] = m[p] /\ p \in InUse(m2) /\ p \notin Under(m2, n) /\ n \in Nodes
      /\ n \in FreeNodes(m) /\ n \notin R1 /\ n # p
  <2>1. R1 \subseteq InUse(m1)
    BY <1>1 DEF World, Forest
  <2> QED
    BY <1>1, <1>3, <1>5, <2>1, Counts DEF Extends, InUse
<1> HIDE DEF m2, n, p
<1>7. m3 = Appended(m2, p, h.key, n)
  OBVIOUS
<1>8. m2[p].kind = "object"
  BY <1>6 DEF p
<1> HIDE DEF m3
<1> DEFINE roots == R1 \cup {n}
<1>9. World(m2, roots) /\ n \in roots /\ roots \ {n} = R1
  BY <1>5, <1>6
<1> HIDE DEF roots
<1>10. /\ World(m3, roots \ {n}) /\ InUse(m3) = InUse(m2) /\ FreeNodes(m3) = FreeNodes(m2)
       /\ SameKinds(m2, m3) /\ SameBut(m2, m3, {p})
       /\ Keeps(m2, m3) /\ HoldsBut(m2, m3, {})
       /\ \A g \in HandleType :
             g.parent = p /\ g.key = h.key /\ g.node = n => WatcherAt(m3, g)
  <2>1. CanPut(m2, roots, p, n, h.key)
    BY <1>3, <1>6, <1>8, <1>9 DEF CanPut
  <2>2. HasPut(m2, m3, roots, p, n, h.key)
    BY <1>7, <2>1, PutFacts
  <2> QED
    BY <2>2 DEF HasPut
<1>11. /\ self \in HandleType /\ self.node = n /\ self.parent = p /\ self.key = h.key
       /\ self.allocated = FALSE
  BY <1>3, <1>6 DEF HandleType, Watcher
<1> HIDE DEF self
<1>12. HandleOK(m3, self) /\ ~IsRoot(self)
  <2>1. ~IsRoot(self)
    BY <1>3, <1>11, NodesFinite DEF IsRoot
  <2>2. m3[p].kind = "object"
    BY <1>3, <1>8, <1>10 DEF SameKinds
  <2>3. WatcherAt(m3, self)
    BY <1>10, <1>11
  <2> QED
    BY <1>5, <1>10, <1>11, <2>1, <2>2, <2>3 DEF HandleOK
<1>13. Keeps(m, m3)
  BY <1>1, <1>5, <1>10, ExtendsFacts, KeepsOn
<1>14. HoldsBut(m, m3, Own(h))
  BY <1>1, <1>5, <1>10, ExtendsFacts, HoldsOn
<1>15. SameBut(m, m3, (Own(h) \cup FreeNodes(m)) \cup {p})
  <2>1. SameBut(m1, m2, FreeNodes(m))
    BY <1>1, <1>5, ExtendsFacts
  <2> QED
    BY <1>1, <1>10, <2>1, SameOn
<1>16. ASSUME ~IsCopy(value)
       PROVE  /\ m3[n].kind = value.kind
              /\ \A r \in Int : Room(m, r + 2) => Room(m3, r)
  <2>1. m3[n].kind = value.kind
    BY <1>5, <1>6, <1>10, <1>16 DEF SameKinds, Leaf
  <2>2. ASSUME NEW r \in Int, Room(m, r + 2) PROVE Room(m3, r)
    <3>1. Room(m1, r + 2)
      BY <1>1, <2>2
    <3>2. Room(m2, r)
      BY <1>5, <1>16, <3>1
    <3> QED
      BY <1>10, <3>2 DEF Room
  <2> QED
    BY <2>1, <2>2
<1>17. World(m3, R \ Own(h)) /\ n \in FreeNodes(m)
  BY <1>6, <1>9, <1>10 DEF R1
<1> QED
  BY <1>2, <1>11, <1>12, <1>13, <1>14, <1>15, <1>16, <1>17 DEF p

CanAssign(m, R, h, value) ==
    /\ World(m, R) /\ h \in HandleType /\ HandleOK(m, h) /\ Own(h) \subseteq R
    /\ Fit(m, value)
    /\ IsCopy(value) /\ h.allocated => value.of \notin Under(m, h.node)
    /\ h.allocated /\ ~IsRoot(h) => m[h.parent].kind = "object"

HasAssigned(m, a, R, h) ==
    /\ a.self \in HandleType /\ Own(a.self) \cap (R \ Own(h)) = {}
    /\ World(a.mem, (R \ Own(h)) \cup Own(a.self))
    /\ Keeps(m, a.mem) /\ Still(a.mem, a.self)
    /\ a.self.allocated => h.allocated

LEMMA RootCopied ==
    ASSUME NEW m, NEW R, NEW h, NEW value, CanAssign(m, R, h, value),
           IsRoot(h), IsCopy(value)
    PROVE  HasAssigned(m, Assigned(m, h, value), R, h)
<1> DEFINE m1 == destroy_node(m, h)
           R1 == R \ Own(h)
           new == NewNode(m1, value)
           self == Root(new.node)
<1>1. /\ World(m, R) /\ h \in HandleType /\ HandleOK(m, h) /\ Own(h) \subseteq R
      /\ Fit(m, value) /\ value.of \notin Under(m, h.node)
      /\ h.allocated /\ Own(h) = {h.node} /\ h.node \in R
  BY DEF CanAssign, HandleOK, Own
<1>2. Assigned(m, h, value).mem = new.mem /\ Assigned(m, h, value).self = self
  BY DEF Assigned
<1>3. m1 = json_value_destroy(m, h.node)
  BY <1>1 DEF destroy_node
<1> DEFINE n == h.node
<1>4. n \in R /\ m1 = json_value_destroy(m, n)
  BY <1>1, <1>3
<1> HIDE DEF m1, n
<1>5. InUse(m1) = InUse(m) \ Under(m, n) /\ FreeNodes(m1) = FreeNodes(m)
  BY <1>1, <1>4, DestroyFacts
<1>6. World(m1, R1) /\ Keeps(m, m1)
  BY <1>1, DropFacts DEF m1
<1>7. Fit(m1, value)
  <2>1. value.of \in InUse(m) /\ Room(m, 0)
    BY <1>1 DEF Fit
  <2>2. Cardinality(InUse(m1)) <= Cardinality(InUse(m))
    BY <1>5, Counts, FS_Subset
  <2>3. Room(m1, 0)
    BY <1>5, <2>1, <2>2, Counts DEF Room
  <2> QED
    BY <1>1, <1>5, <2>1, <2>3 DEF Fit, n
<1> HIDE DEF R1
<1>8. /\ World(new.mem, R1 \cup {new.node}) /\ Extends(m1, new.mem)
      /\ new.node \in FreeNodes(m1) /\ new.node \in InUse(new.mem)
  BY <1>6, <1>7, NewNodeFacts
<1> HIDE DEF new
<1>9. self \in HandleType /\ Own(self) = {new.node}
  BY <1>8, Counts DEF Root, HandleType, Own, Names
<1>10. HandleOK(new.mem, self)
  BY <1>8 DEF HandleOK, Root, IsRoot
<1>11. new.node \notin R1
  BY <1>6, <1>8, Counts DEF World, Forest
<1>12. Keeps(m, new.mem)
  BY <1>6, <1>8, ExtendsFacts, KeepsOn
<1>13. /\ self \in HandleType /\ Own(self) \cap R1 = {}
       /\ World(new.mem, R1 \cup Own(self))
       /\ Keeps(m, new.mem) /\ Still(new.mem, self)
       /\ h.allocated
  BY <1>1, <1>8, <1>9, <1>10, <1>11, <1>12 DEF Still
<1> HIDE DEF self
<1> QED
  BY <1>2, <1>13 DEF HasAssigned, R1

LEMMA PlaceReplaced ==
    ASSUME NEW m, NEW R, NEW h, NEW value, CanAssign(m, R, h, value),
           ~IsRoot(h), ~h.allocated,
           NEW i \in 1 .. Len(m[h.parent].items),
           NEW a, a.mem = Replaced(m, h.parent, i, value), a.self = h
    PROVE  HasAssigned(m, a, R, h)
<1>1. /\ World(m, R) /\ h \in HandleType /\ HandleOK(m, h) /\ Fit(m, value)
  BY DEF CanAssign
<1> DEFINE p == h.parent
           m2 == Replaced(m, p, i, value)
<1>2. p \in InUse(m)
  BY <1>1, HandleFacts DEF HandleOK, InUse
<1>3. i \in 1 .. Len(m[p].items)
  OBVIOUS
<1> HIDE DEF p
<1>4. World(m2, R) /\ Keeps(m, m2)
  BY <1>1, <1>2, <1>3, ReplacedFacts
<1>5. a.mem = m2
  BY DEF p
<1> HIDE DEF m2
<1>6. Still(m2, h)
  BY <1>1, <1>4 DEF Still, Keeps
<1>7. Own(h) = {}
  BY DEF Own
<1>8. (R \ {}) \cup {} = R
  OBVIOUS
<1> QED
  BY <1>1, <1>4, <1>5, <1>6, <1>7, <1>8 DEF HasAssigned

LEMMA AssignedFacts ==
    ASSUME NEW m, NEW R, NEW h, NEW value, CanAssign(m, R, h, value)
    PROVE  HasAssigned(m, Assigned(m, h, value), R, h)
<1> DEFINE a == Assigned(m, h, value)
           p == h.parent
<1>1. /\ World(m, R) /\ h \in HandleType /\ HandleOK(m, h) /\ Own(h) \subseteq R
      /\ Fit(m, value)
      /\ IsCopy(value) /\ h.allocated => value.of \notin Under(m, h.node)
      /\ h.allocated /\ ~IsRoot(h) => m[p].kind = "object"
  BY DEF CanAssign
<1>2. /\ ~IsRoot(h) => m[p].kind \in {"object", "array"} /\ p \in Nodes
      /\ ~h.allocated => ~IsRoot(h) /\ WatcherAt(m, h)
  BY <1>1, HandleFacts DEF HandleOK
<1>3. CASE IsRoot(h) /\ IsCopy(value)
  BY <1>3, RootCopied
<1>4. CASE IsRoot(h) /\ ~IsCopy(value)
  <2>1. a.mem = m /\ a.self = h
    BY <1>4 DEF Assigned
  <2>2. (R \ Own(h)) \cup Own(h) = R /\ Own(h) \cap (R \ Own(h)) = {}
    BY <1>1
  <2> HIDE DEF a
  <2> QED
    BY <1>1, <2>1, <2>2 DEF HasAssigned, Keeps, Still, a
<1>5. CASE ~IsRoot(h) /\ m[p].kind = "array"
  <2> DEFINE i == Place(m, p, h.node)
  <2>1. a.mem = Replaced(m, p, i, value) /\ a.self = h
    BY <1>5 DEF Assigned
  <2>2. ~h.allocated
    BY <1>1, <1>5
  <2>3. i \in 1 .. Len(m[p].items)
    <3>1. DOMAIN m[p].items = 1 .. Len(m[p].items)
      BY <1>1, <1>2, <1>5, NodeOf DEF World
    <3>2. \E j \in DOMAIN m[p].items : m[p].items[j].node = h.node
      BY <1>2, <2>2, <3>1 DEF WatcherAt
    <3> QED
      BY <3>1, <3>2 DEF Place
  <2> HIDE DEF a, i
  <2> QED
    BY <1>5, <2>1, <2>2, <2>3, PlaceReplaced DEF a
<1>6. CASE ~IsRoot(h) /\ m[p].kind = "object" /\ IsNull(m, h)
  <2>1. a = Placed(m, h, value)
    BY <1>6 DEF Assigned, IsPlaceholder
  <2>2. IsCopy(value) => value.of \notin Own(h)
    <3> SUFFICES ASSUME IsCopy(value), h.allocated, value.of = h.node PROVE FALSE
      BY DEF Own
    <3>1. HeapOK(m) /\ Closed(m, InUse(m)) /\ h.node \in InUse(m)
      BY <1>1, ForestClosed DEF World, HandleOK
    <3> QED
      BY <1>1, <3>1, UnderFacts
  <2> DEFINE placed == Placed(m, h, value)
  <2>3. /\ placed.self \in HandleType /\ ~placed.self.allocated
        /\ HandleOK(placed.mem, placed.self)
        /\ World(placed.mem, R \ Own(h)) /\ Keeps(m, placed.mem)
    BY <1>1, <1>6, <2>2, PlacedFacts
  <2> HIDE DEF a, placed
  <2>4. Own(placed.self) = {} /\ (R \ Own(h)) \cup {} = R \ Own(h)
    BY <2>3 DEF Own
  <2>5. HasAssigned(m, placed, R, h)
    BY <2>3, <2>4 DEF HasAssigned, Still
  <2> QED
    BY <2>1, <2>5 DEF a, placed
<1>7. CASE ~IsRoot(h) /\ m[p].kind = "object" /\ ~IsNull(m, h)
  <2> DEFINE i == json_object_find(m, p, h.key)
  <2>1. a.mem = Replaced(m, p, i, value) /\ a.self = h
    BY <1>7 DEF Assigned, IsPlaceholder
  <2>2. ~h.allocated
    BY <1>1, <1>7 DEF HandleOK
  <2>3. i \in 1 .. Len(m[p].items)
    <3>1. PICK j \in 1 .. Len(m[p].items) : m[p].items[j].key = h.key
      BY <1>2, <2>2 DEF WatcherAt
    <3>2. HeapOK(m) /\ p \in Nodes
      BY <1>1, <1>2, <1>7 DEF World
    <3> QED
      BY <3>1, <3>2, FindFacts
  <2> HIDE DEF a, i
  <2> QED
    BY <1>7, <2>1, <2>2, <2>3, PlaceReplaced DEF a
<1> QED
  BY <1>2, <1>3, <1>4, <1>5, <1>6, <1>7

-----------------------------------------------------------------------------
(* Subscripting.                                                            *)

CanSubscript(m, R, h) ==
    /\ World(m, R) /\ h \in HandleType /\ HandleOK(m, h) /\ Own(h) \subseteq R
    /\ IsPlaceholder(m, h) => m[h.parent].kind = "object"
    /\ Room(m, 4)

HasSubscript(m, r, R, h) ==
    /\ r.self \in HandleType /\ HandleOK(r.mem, r.self)
    /\ r.sub \in HandleType /\ HandleOK(r.mem, r.sub)
    /\ Own(r.self) \cap (R \ Own(h)) = {}
    /\ Own(r.sub) \cap ((R \ Own(h)) \cup Own(r.self)) = {}
    /\ World(r.mem, ((R \ Own(h)) \cup Own(r.self)) \cup Own(r.sub))
    /\ HoldsBut(m, r.mem, Own(h))
    /\ IsPlaceholder(r.mem, r.sub) => r.mem[r.sub.parent].kind = "object"
    /\ r.sub.allocated => IsNull(r.mem, r.sub)
    /\ \A q \in Int : Room(m, q + 4) => Room(r.mem, q)

\* What a handle is once it has been made an object, if it can be.
Based(m, h) ==
    IF IsPlaceholder(m, h) THEN Placed(m, h, New("object"))
    ELSE [mem |-> Converted(m, h, "object"), self |-> h]

HasBased(m, b, R, h) ==
    /\ b.self \in HandleType /\ HandleOK(b.mem, b.self)
    /\ Own(b.self) \cap (R \ Own(h)) = {}
    /\ World(b.mem, (R \ Own(h)) \cup Own(b.self))
    /\ HoldsBut(m, b.mem, Own(h))
    /\ \A q \in Int : Room(m, q + 2) => Room(b.mem, q)

LEMMA NewFacts ==
    ASSUME NEW kind \in Kinds
    PROVE  ~IsCopy(New(kind)) /\ New(kind).kind = kind
<1>1. "copy" \notin Kinds
  BY HeapAssumption DEF Kinds
<1> QED
  BY <1>1 DEF New, IsCopy

LEMMA BasedFacts ==
    ASSUME NEW m, NEW R, NEW h, CanSubscript(m, R, h)
    PROVE  HasBased(m, Based(m, h), R, h)
<1> DEFINE b == Based(m, h)
<1>1. /\ World(m, R) /\ h \in HandleType /\ HandleOK(m, h) /\ Own(h) \subseteq R
      /\ IsPlaceholder(m, h) => m[h.parent].kind = "object"
      /\ Room(m, 4)
  BY DEF CanSubscript
<1>2. CASE IsPlaceholder(m, h)
  <2> DEFINE value == New("object")
             placed == Placed(m, h, value)
  <2>1. ~IsCopy(value) /\ value.kind = "object" /\ "object" \in Kinds
    BY NewFacts, StateKinds
  <2>2. Fit(m, value)
    <3>1. Spare(m, 1)
      BY <1>1, RoomIsSpare, LessRoom
    <3> QED
      BY <2>1, <3>1 DEF Fit
  <2> HIDE DEF value
  <2>3. /\ placed.self \in HandleType /\ ~placed.self.allocated
        /\ HandleOK(placed.mem, placed.self)
        /\ World(placed.mem, R \ Own(h))
        /\ HoldsBut(m, placed.mem, Own(h))
        /\ \A q \in Int : Room(m, q + 2) => Room(placed.mem, q)
    BY <1>1, <1>2, <2>1, <2>2, PlacedFacts DEF IsPlaceholder
  <2>4. b = placed
    BY <1>2 DEF Based, value
  <2> HIDE DEF placed, b
  <2>5. Own(placed.self) = {} /\ (R \ Own(h)) \cup {} = R \ Own(h)
    BY <2>3 DEF Own
  <2>6. HasBased(m, placed, R, h)
    BY <2>3, <2>5 DEF HasBased
  <2> QED
    BY <2>4, <2>6 DEF b
<1>3. CASE ~IsPlaceholder(m, h)
  <2> DEFINE m2 == Converted(m, h, "object")
  <2>1. /\ World(m2, R) /\ HandleOK(m2, h)
        /\ InUse(m2) = InUse(m) /\ FreeNodes(m2) = FreeNodes(m)
        /\ HoldsBut(m, m2, Own(h))
    BY <1>1, ConvertFacts
  <2>2. b.mem = m2 /\ b.self = h
    BY <1>3 DEF Based
  <2> HIDE DEF m2, b
  <2>3. ASSUME NEW q \in Int, Room(m, q + 2) PROVE Room(m2, q)
    <3>1. Room(m, q)
      BY <2>3, LessRoom
    <3> QED
      BY <2>1, <3>1 DEF Room
  <2>4. (R \ Own(h)) \cup Own(h) = R /\ Own(h) \cap (R \ Own(h)) = {}
    BY <1>1
  <2> QED
    BY <1>1, <2>1, <2>2, <2>3, <2>4 DEF HasBased, b
<1> QED
  BY <1>2, <1>3

\* A member that is there.
LEMMA FoundFacts ==
    ASSUME NEW m, NEW R, NEW h, CanSubscript(m, R, h), NEW key \in Keys,
           m[h.node].kind = "object", NEW i \in 1 .. Len(m[h.node].items),
           m[h.node].items[i].key = key,
           NEW r, r.mem = m, r.self = h, r.sub = Watcher(m[h.node].items[i].node, h.node, key)
    PROVE  HasSubscript(m, r, R, h)
<1> DEFINE n == h.node
           k == m[n].items[i].node
           sub == Watcher(k, n, key)
<1>1. /\ World(m, R) /\ h \in HandleType /\ HandleOK(m, h) /\ Own(h) \subseteq R
  BY DEF CanSubscript
<1>2. HeapOK(m) /\ Forest(m, R) /\ n \in Nodes
  BY <1>1, HandleFacts DEF World
<1>3. m[n].items[i] \in ItemType /\ k \in Nodes /\ Has(m, n, k)
  BY <1>2, NodeOf
<1>4. k \in InUse(m)
  BY <1>2, <1>3 DEF Forest
<1>5. m[n].items[i] = [key |-> key, node |-> k]
  BY <1>3 DEF ItemType
<1> HIDE DEF k, n
<1>6. /\ sub \in HandleType /\ sub.node = k /\ sub.parent = n /\ sub.key = key
      /\ sub.allocated = FALSE
  BY <1>2, <1>3 DEF HandleType, Watcher, Names
<1>7. r.sub = sub
  BY DEF k, n
<1> HIDE DEF sub
<1>8. m[n].kind = "object" /\ i \in 1 .. Len(m[n].items)
  BY DEF n
<1>9. HandleOK(m, sub) /\ Own(sub) = {}
  <2>1. WatcherAt(m, sub)
    BY <1>5, <1>6, <1>8 DEF WatcherAt
  <2>2. ~IsRoot(sub)
    BY <1>2, <1>6, NodesFinite DEF IsRoot
  <2> QED
    BY <1>4, <1>6, <1>8, <2>1, <2>2 DEF HandleOK, Own
<1>10. /\ ((R \ Own(h)) \cup Own(h)) \cup {} = R /\ Own(h) \cap (R \ Own(h)) = {}
  BY <1>1
<1>11. HoldsBut(m, m, Own(h)) /\ \A q \in Int : Room(m, q + 4) => Room(m, q)
  BY LessRoom DEF HoldsBut
<1> QED
  BY <1>1, <1>6, <1>7, <1>8, <1>9, <1>10, <1>11 DEF HasSubscript

\* One that is not.
LEMMA NotFoundFacts ==
    ASSUME NEW m, NEW R, NEW h, CanSubscript(m, R, h), NEW key \in Keys,
           NEW b, b = Based(m, h), NEW null, null = NewNode(b.mem, New("null")),
           NEW r, r.mem = null.mem, r.self = b.self,
           r.sub = IF b.mem[b.self.node].kind = "object"
                   THEN Placeholder(null.node, b.self.node, key) ELSE Root(null.node)
    PROVE  HasSubscript(m, r, R, h)
<1> DEFINE value == New("null")
           R2 == (R \ Own(h)) \cup Own(b.self)
           n == null.node
           p == b.self.node
<1>1. /\ b.self \in HandleType /\ HandleOK(b.mem, b.self)
      /\ Own(b.self) \cap (R \ Own(h)) = {}
      /\ World(b.mem, R2)
      /\ HoldsBut(m, b.mem, Own(h))
      /\ \A q \in Int : Room(m, q + 2) => Room(b.mem, q)
  BY BasedFacts DEF HasBased
<1>2. Room(m, 4) /\ Room(b.mem, 2)
  <2>1. Room(m, 4) /\ 2 + 2 = 4
    BY DEF CanSubscript
  <2> QED
    BY <1>1, <2>1
<1>3. ~IsCopy(value) /\ value.kind = "null" /\ Leaf("null").kind = "null" /\ "null" \in Kinds
  BY NewFacts, LeafFacts, StateKinds
<1>4. Fit(b.mem, value)
  <2>1. Spare(b.mem, 1)
    BY <1>2, RoomIsSpare, LessRoom
  <2> QED
    BY <1>3, <2>1 DEF Fit
<1> HIDE DEF value, R2
<1>5. /\ World(null.mem, R2 \cup {n}) /\ Extends(b.mem, null.mem)
      /\ n \in FreeNodes(b.mem) /\ n \in InUse(null.mem)
      /\ null.mem[n] = Leaf(value.kind)
      /\ \A q \in Int : Room(b.mem, q + 2) => Room(null.mem, q)
  <2> DEFINE new == NewNode(b.mem, value)
  <2>1. /\ World(new.mem, R2 \cup {new.node}) /\ Extends(b.mem, new.mem)
        /\ new.node \in FreeNodes(b.mem) /\ new.node \in InUse(new.mem)
        /\ ~IsCopy(value) =>
              /\ new.mem[new.node] = Leaf(value.kind)
              /\ \A q \in Int : Room(b.mem, q + 2) => Room(new.mem, q)
    BY <1>1, <1>4, NewNodeFacts
  <2>2. null = new
    BY DEF value
  <2> HIDE DEF new
  <2> QED
    BY <1>3, <2>1, <2>2
<1>6. n \in Nodes /\ p \in Nodes /\ n \notin R2 /\ null.mem[n].kind = "null" /\ null.mem[p] = b.mem[p]
  <2>1. n \in Nodes /\ n \notin R2
    BY <1>1, <1>5, Counts DEF World, Forest
  <2>2. p \in Nodes /\ p \in InUse(b.mem)
    BY <1>1, HandleFacts DEF HandleOK
  <2>3. null.mem[p] = b.mem[p]
    BY <1>5, <2>2 DEF Extends, InUse
  <2> QED
    BY <1>3, <1>5, <2>1, <2>2, <2>3
<1>7. /\ Keeps(b.mem, null.mem) /\ HoldsBut(b.mem, null.mem, {})
  BY <1>5, ExtendsFacts
<1>8. HandleOK(null.mem, b.self)
  BY <1>1, <1>7 DEF HoldsBut
<1>9. HoldsBut(m, null.mem, Own(h))
  BY <1>1, <1>7, HoldsOn
<1>10. ASSUME NEW q \in Int, Room(m, q + 4) PROVE Room(null.mem, q)
  <2>1. (q + 2) \in Int /\ (q + 2) + 2 = q + 4
    OBVIOUS
  <2>2. Room(b.mem, q + 2)
    BY <1>1, <1>10, <2>1
  <2> QED
    BY <1>5, <2>2
<1> DEFINE sub == r.sub
<1>11. /\ sub \in HandleType /\ sub.node = n /\ sub.allocated = TRUE
       /\ sub.parent = (IF b.mem[p].kind = "object" THEN p ELSE NoNode)
  <2>1. sub = IF b.mem[p].kind = "object" THEN Placeholder(n, p, key) ELSE Root(n)
    OBVIOUS
  <2> HIDE DEF sub, n, p
  <2> DEFINE w == Watcher(n, p, key)
  <2>2. w \in HandleType /\ w.node = n /\ w.parent = p
    BY <1>6 DEF Watcher, HandleType, Names
  <2>3. /\ Placeholder(n, p, key) \in HandleType /\ Placeholder(n, p, key).node = n
        /\ Placeholder(n, p, key).allocated = TRUE /\ Placeholder(n, p, key).parent = p
    <3>1. Placeholder(n, p, key) = [w EXCEPT !.allocated = TRUE]
      BY DEF Placeholder
    <3> HIDE DEF w
    <3> QED
      BY <2>2, <3>1 DEF HandleType
  <2>4. /\ Root(n) \in HandleType /\ Root(n).node = n
        /\ Root(n).allocated = TRUE /\ Root(n).parent = NoNode
    BY <1>6 DEF HandleType, Names, Root
  <2> QED
    BY <2>1, <2>3, <2>4
<1> HIDE DEF sub, n, p
<1>12. IsNull(null.mem, sub) /\ Own(sub) = {n} /\ (IsRoot(sub) <=> b.mem[p].kind # "object")
  BY <1>6, <1>11, NodesFinite DEF IsNull, Own, IsRoot
<1>13. ~IsRoot(sub) => null.mem[sub.parent].kind = "object"
  BY <1>6, <1>11, <1>12
<1>14. HandleOK(null.mem, sub)
  BY <1>5, <1>11, <1>12, <1>13 DEF HandleOK
<1>15. IsPlaceholder(null.mem, sub) => null.mem[sub.parent].kind = "object"
  BY <1>13 DEF IsPlaceholder
<1>16. Own(sub) \cap R2 = {} /\ World(null.mem, R2 \cup Own(sub))
  BY <1>5, <1>6, <1>12
<1>17. r.sub = sub
  BY DEF sub
<1> QED
  BY <1>1, <1>8, <1>9, <1>10, <1>11, <1>12, <1>14, <1>15, <1>16, <1>17
  DEF HasSubscript, R2

LEMMA SubscriptFacts ==
    ASSUME NEW m, NEW R, NEW h, CanSubscript(m, R, h), NEW key \in Keys
    PROVE  HasSubscript(m, Subscript(m, h, key), R, h)
<1> DEFINE found == IF m[h.node].kind = "object" THEN json_object_find(m, h.node, key) ELSE 0
           b == Based(m, h)
           null == NewNode(b.mem, New("null"))
           r == Subscript(m, h, key)
<1>1. CASE found = 0
  <2>1. /\ r.mem = null.mem /\ r.self = b.self
        /\ r.sub = IF b.mem[b.self.node].kind = "object"
                   THEN Placeholder(null.node, b.self.node, key) ELSE Root(null.node)
    BY <1>1 DEF Subscript, Based
  <2> HIDE DEF r, b
  <2>2. b = Based(m, h) /\ null = NewNode(b.mem, New("null"))
    BY DEF b
  <2> HIDE DEF null
  <2>3. HasSubscript(m, r, R, h)
    BY <2>1, <2>2, NotFoundFacts
  <2> QED
    BY <2>3 DEF r
<1>2. CASE found # 0
  <2> DEFINE i == json_object_find(m, h.node, key)
  <2>1. m[h.node].kind = "object" /\ i # 0
    BY <1>2
  <2>2. HeapOK(m) /\ h.node \in Nodes
    BY HandleFacts DEF CanSubscript, World
  <2>3. i \in 1 .. Len(m[h.node].items) /\ m[h.node].items[i].key = key
    BY <2>1, <2>2, FindFacts
  <2>4. r.mem = m /\ r.self = h /\ r.sub = Watcher(m[h.node].items[i].node, h.node, key)
    BY <1>2, <2>1 DEF Subscript
  <2> HIDE DEF r, i
  <2>5. HasSubscript(m, r, R, h)
    BY <2>1, <2>3, <2>4, FoundFacts
  <2> QED
    BY <2>5 DEF r
<1> QED
  BY <1>1, <1>2

-----------------------------------------------------------------------------
(* Statements.                                                              *)

\* Between two statements.
Inv ==
    /\ vars \in Seq(HandleType) /\ Apart(vars)
    /\ World(mem, OwnedBy(vars))
    /\ \A x \in 1 .. Len(vars) : x \in stale \/ HandleOK(mem, vars[x])
    /\ \A n \in Nodes : mem[n].kind # "dead"
    /\ Room(mem, 8)

\* At the end of one, when its temporaries have gone.
Sound(m, hs) ==
    /\ hs \in Seq(HandleType) /\ Apart(hs)
    /\ World(m, OwnedBy(hs))
    /\ \A x \in 1 .. Len(hs) : x \in stale \/ Still(m, hs[x])

\* In one, whose temporaries own T.
Amid(m, hs, T) ==
    /\ hs \in Seq(HandleType) /\ Apart(hs) /\ Len(hs) = Len(vars)
    /\ World(m, OwnedBy(hs) \cup T) /\ T \cap OwnedBy(hs) = {}
    /\ \A x \in 1 .. Len(hs) : x \in stale \/ HandleOK(m, hs[x])

LEMMA SweptFacts ==
    ASSUME NEW m, NEW R, World(m, R),
           NEW m2, m2 = [n \in Nodes |-> IF m[n].kind = "dead" THEN Leaf("free") ELSE m[n]]
    PROVE  /\ World(m2, R)
           /\ \A n \in Nodes : m2[n].kind # "dead"
           /\ HoldsBut(m, m2, {})
           /\ Cardinality(InUse(m)) <= MaxLive => Room(m2, 8)
<1> DEFINE leaf == Leaf("free")
<1>1. leaf \in NodeType /\ leaf.kind = "free" /\ Len(leaf.items) = 0
  BY LeafFacts, StateKinds
<1>2. HeapOK(m) /\ Forest(m, R) /\ NoCircle(m)
  BY DEF World
<1>3. m2 = [n \in Nodes |-> IF m[n].kind = "dead" THEN leaf ELSE m[n]]
  OBVIOUS
<1> HIDE DEF leaf
<1>4. /\ m2 \in [Nodes -> NodeType]
      /\ \A n \in Nodes : /\ m[n].kind = "dead" => m2[n] = leaf
                          /\ m[n].kind # "dead" => m2[n] = m[n]
  BY <1>1, <1>2, <1>3 DEF HeapOK
<1>5. HeapOK(m2)
  BY <1>1, <1>2, <1>4 DEF HeapOK
<1>6. InUse(m2) = InUse(m)
  BY <1>1, <1>4 DEF InUse
<1>7. \A n \in Nodes : m2[n].kind # "dead"
  BY <1>1, <1>4
<1>8. \A k \in Nodes : m[k].kind = "dead" => Len(m[k].items) = 0 /\ Len(m2[k].items) = 0
  BY <1>1, <1>2, <1>4 DEF HeapOK
<1>9. \A k, l \in Nodes : Has(m2, k, l) <=> Has(m, k, l)
  <2> SUFFICES ASSUME NEW k \in Nodes, NEW l \in Nodes
               PROVE  Has(m2, k, l) <=> Has(m, k, l)
    OBVIOUS
  <2>1. CASE m[k].kind = "dead"
    BY <1>8, <2>1 DEF Has
  <2>2. CASE m[k].kind # "dead"
    BY <1>4, <2>2 DEF Has
  <2> QED
    BY <2>1, <2>2
<1>10. Forest(m2, R)
  <2>1. R \subseteq InUse(m2)
    BY <1>2, <1>6 DEF Forest
  <2>2. \A k, l \in Nodes : Has(m2, k, l) => l \in InUse(m2) \ R
    BY <1>2, <1>6, <1>9 DEF Forest
  <2>3. ASSUME NEW k \in Nodes, NEW l \in Nodes, NEW i \in 1 .. Len(m2[k].items),
               NEW j \in 1 .. Len(m2[l].items), m2[k].items[i].node = m2[l].items[j].node
        PROVE  k = l /\ i = j
    <3>1. m2[k] = m[k] /\ m2[l] = m[l]
      BY <1>4, <1>8
    <3> QED
      BY <1>2, <2>3, <3>1 DEF Forest
  <2>4. \A l \in InUse(m2) \ R : \E k \in Nodes : Has(m2, k, l)
    BY <1>2, <1>6, <1>9, Counts DEF Forest
  <2> QED
    BY <2>1, <2>2, <2>3, <2>4 DEF Forest
<1>11. NoCircle(m2)
  <2> SUFFICES ASSUME NEW S \in SUBSET InUse(m2), S # {}
               PROVE  \E l \in S : \A k \in S : ~Has(m2, k, l)
    BY DEF NoCircle
  <2>1. S \subseteq Nodes /\ S \in SUBSET InUse(m)
    BY <1>6, Counts
  <2>2. PICK l \in S : \A k \in S : ~Has(m, k, l)
    BY <1>2, <2>1 DEF NoCircle
  <2> QED
    BY <1>9, <2>1, <2>2
<1>12. ASSUME NEW h \in HandleType, HandleOK(m, h) PROVE HandleOK(m2, h)
  <2>1. h.node \in Nodes /\ (~IsRoot(h) => h.parent \in Nodes)
    BY HandleFacts
  <2>2. m2[h.node] = m[h.node] /\ (~IsRoot(h) => m2[h.parent] = m[h.parent])
    BY <1>4, <1>12, <2>1 DEF HandleOK, InUse
  <2> QED
    BY <1>6, <1>12, <2>2 DEF HandleOK, IsNull, WatcherAt
<1>13. ASSUME Cardinality(InUse(m)) <= MaxLive PROVE Room(m2, 8)
  <2>1. FreeNodes(m2) = Nodes \ InUse(m2)
    BY <1>7 DEF FreeNodes, InUse
  <2> DEFINE used == InUse(m2)
             rest == Nodes \ used
             all == Cardinality(Nodes)
             c == Cardinality(used)
  <2>2. Cardinality(rest) = all - c
    <3>1. Nodes \cap used = used
      BY Counts
    <3> HIDE DEF used
    <3>2. Cardinality(Nodes \ used) = Cardinality(Nodes) - Cardinality(Nodes \cap used)
      BY FS_Difference, NodesFinite
    <3> QED
      BY <3>1, <3>2
  <2>3. /\ c \in Nat /\ c <= MaxLive /\ MaxLive \in Nat
        /\ all = 2 * MaxLive + 8
    BY <1>6, <1>13, Counts, NodesFinite
  <2>4. Room(m2, 8) <=> Cardinality(rest) >= c + 8
    BY <2>1 DEF Room
  <2> HIDE DEF rest, c, all
  <2> QED
    BY <2>2, <2>3, <2>4
<1> QED
  BY <1>5, <1>7, <1>10, <1>11, <1>12, <1>13 DEF World, HoldsBut

LEMMA EndsFacts ==
    ASSUME NEW m, NEW hs, Sound(m, hs), Ends(m, hs)
    PROVE  Inv'
<1>1. /\ hs \in Seq(HandleType) /\ Apart(hs) /\ World(m, OwnedBy(hs))
      /\ \A x \in 1 .. Len(hs) : x \in stale \/ Still(m, hs[x])
  BY DEF Sound
<1>2. /\ Cardinality(InUse(m)) <= MaxLive
      /\ mem' = [n \in Nodes |-> IF m[n].kind = "dead" THEN Leaf("free") ELSE m[n]]
      /\ vars' = hs
      /\ stale' = {x \in DOMAIN hs :
                      x \in stale \/ m[hs[x].node].kind = "dead"
                                  \/ (~IsRoot(hs[x]) /\ m[hs[x].parent].kind = "dead")}
  BY DEF Ends
<1> DEFINE m2 == mem'
<1>3. /\ World(m2, OwnedBy(hs)) /\ \A n \in Nodes : m2[n].kind # "dead"
      /\ HoldsBut(m, m2, {}) /\ Room(m2, 8)
  BY <1>1, <1>2, SweptFacts
<1>4. DOMAIN hs = 1 .. Len(hs)
  BY <1>1, LenProperties
<1> HIDE DEF m2
<1>5. ASSUME NEW x \in 1 .. Len(hs), x \notin stale' PROVE HandleOK(m2, hs[x])
  <2>1. hs[x] \in HandleType
    BY <1>1, HandleAt
  <2>2. Still(m, hs[x]) /\ ~Gone(m, hs[x])
    BY <1>1, <1>2, <1>4, <1>5 DEF Gone
  <2>3. HandleOK(m, hs[x])
    BY <2>2 DEF Still
  <2> QED
    BY <1>3, <2>1, <2>3 DEF HoldsBut
<1>6. /\ hs \in Seq(HandleType) /\ Apart(hs) /\ World(m2, OwnedBy(hs))
      /\ \A x \in 1 .. Len(hs) : x \in stale' \/ HandleOK(m2, hs[x])
      /\ \A n \in Nodes : m2[n].kind # "dead"
      /\ Room(m2, 8)
  BY <1>1, <1>3, <1>5
<1>7. m2 = mem' /\ hs = vars'
  BY <1>2 DEF m2
<1> QED
  BY <1>6, <1>7 DEF Inv

LEMMA InvFacts ==
    ASSUME Inv
    PROVE  /\ Amid(mem, vars, {}) /\ Room(mem, 8) /\ Room(mem, 4) /\ Room(mem, 0)
           /\ vars \in Seq(HandleType) /\ Apart(vars) /\ World(mem, OwnedBy(vars))
           /\ DOMAIN vars = 1 .. Len(vars) /\ Len(vars) \in Nat
           /\ \A x \in DOMAIN vars : /\ vars[x] \in HandleType
                                     /\ Own(vars[x]) \subseteq OwnedBy(vars)
                                     /\ x \notin stale => HandleOK(mem, vars[x])
<1>1. /\ vars \in Seq(HandleType) /\ Apart(vars) /\ World(mem, OwnedBy(vars))
      /\ \A x \in 1 .. Len(vars) : x \in stale \/ HandleOK(mem, vars[x])
      /\ Room(mem, 8)
  BY DEF Inv
<1>2. DOMAIN vars = 1 .. Len(vars) /\ Len(vars) \in Nat
  BY <1>1, LenProperties
<1>3. \A x \in 1 .. Len(vars) : vars[x] \in HandleType /\ Own(vars[x]) \subseteq OwnedBy(vars)
  BY <1>1, HandleAt DEF OwnedBy
<1>4. Room(mem, 4) /\ Room(mem, 0)
  BY <1>1, LessRoom
<1>5. Amid(mem, vars, {})
  <2>1. OwnedBy(vars) \cup {} = OwnedBy(vars)
    OBVIOUS
  <2> QED
    BY <1>1, <2>1 DEF Amid
<1> QED
  BY <1>1, <1>2, <1>3, <1>4, <1>5

LEMMA SpareOne ==
    ASSUME NEW m, Room(m, 0), NEW n \in InUse(m)
    PROVE  Spare(m, 1)
<1>1. Cardinality(InUse(m)) # 0
  BY Counts, FS_EmptySet
<1> QED
  BY <1>1, Counts DEF Room, Spare

AllValues == Values \cup {New("object"), New("array")}

\* What a statement assigns can be had, and is not among its temporaries.
LEMMA ValueFacts ==
    ASSUME Inv, NEW m, NEW hs, NEW T, Amid(m, hs, T), Room(m, 0), Spare(m, 1),
           NEW value \in AllValues, NEW v, v = Then(value, hs)
    PROVE  /\ Fit(m, v)
           /\ \A h \in HandleType : IsCopy(v) /\ Own(h) \subseteq T => v.of \notin Own(h)
<1>1. /\ hs \in Seq(HandleType) /\ Len(hs) = Len(vars)
      /\ World(m, OwnedBy(hs) \cup T) /\ T \cap OwnedBy(hs) = {}
      /\ \A y \in 1 .. Len(hs) : y \in stale \/ HandleOK(m, hs[y])
  BY DEF Amid
<1>2. CASE \E kind \in Scalars \cup {"null", "object", "array"} : value = New(kind)
  <2>1. PICK kind \in Scalars \cup {"null", "object", "array"} : value = New(kind)
    BY <1>2
  <2>2. kind \in Kinds \ {"free", "dead"}
    BY HeapAssumption DEF Kinds
  <2>3. ~IsCopy(value) /\ value.kind = kind
    BY <2>1, <2>2, NewFacts
  <2>4. v = value
    BY <2>3 DEF Then
  <2> QED
    BY <2>2, <2>3, <2>4 DEF Fit
<1>3. CASE \E y \in DOMAIN vars \ stale : value = CopyOf(y)
  <2>1. PICK y \in DOMAIN vars \ stale : value = CopyOf(y)
    BY <1>3
  <2>2. IsCopy(value) /\ value.of = y
    BY <2>1 DEF IsCopy, CopyOf
  <2>3. v = CopyOf(hs[y].node)
    BY <2>2 DEF Then
  <2>4. IsCopy(v) /\ v.of = hs[y].node
    BY <2>3 DEF IsCopy, CopyOf
  <2>5. y \in 1 .. Len(hs) /\ hs[y] \in HandleType /\ HandleOK(m, hs[y])
    BY <1>1, InvFacts, HandleAt
  <2>6. hs[y].node \in InUse(m)
    BY <2>5 DEF HandleOK
  <2>7. ASSUME NEW h \in HandleType, Own(h) \subseteq T PROVE hs[y].node \notin Own(h)
    <3>1. Own(hs[y]) \subseteq OwnedBy(hs)
      BY <2>5 DEF OwnedBy
    <3>2. Own(hs[y]) \cap Own(h) = {} /\ Own(h) \subseteq OwnedBy(hs) \cup T
      BY <1>1, <2>7, <3>1
    <3> QED
      BY <1>1, <2>5, <3>2, OwnNode
  <2> QED
    BY <2>4, <2>6, <2>7 DEF Fit
<1> QED
  BY <1>2, <1>3 DEF AllValues, Values

LEMMA SubscriptedVars ==
    ASSUME Inv, NEW x \in DOMAIN vars, Usable(x), NEW key \in Keys,
           NEW r, r = Subscript(mem, vars[x], key),
           NEW hs, hs = [vars EXCEPT ![x] = r.self]
    PROVE  /\ Amid(r.mem, hs, Own(r.sub))
           /\ CanSubscript(r.mem, OwnedBy(hs) \cup Own(r.sub), r.sub)
           /\ r.sub.allocated => IsNull(r.mem, r.sub)
           /\ r.sub.allocated /\ ~IsRoot(r.sub) => r.mem[r.sub.parent].kind = "object"
<1> DEFINE h == vars[x]
           R == OwnedBy(vars)
<1>1. /\ vars \in Seq(HandleType) /\ Apart(vars) /\ World(mem, R) /\ Room(mem, 8) /\ Room(mem, 4)
      /\ DOMAIN vars = 1 .. Len(vars)
      /\ \A y \in DOMAIN vars : /\ vars[y] \in HandleType /\ Own(vars[y]) \subseteq R
                                /\ y \notin stale => HandleOK(mem, vars[y])
  BY InvFacts
<1>2. CanSubscript(mem, R, h)
  BY <1>1 DEF CanSubscript, Usable
<1>3. HasSubscript(mem, r, R, h)
  BY <1>2, SubscriptFacts
<1>4. /\ r.self \in HandleType /\ HandleOK(r.mem, r.self)
      /\ r.sub \in HandleType /\ HandleOK(r.mem, r.sub)
      /\ Own(r.self) \cap (R \ Own(h)) = {}
      /\ Own(r.sub) \cap ((R \ Own(h)) \cup Own(r.self)) = {}
      /\ World(r.mem, ((R \ Own(h)) \cup Own(r.self)) \cup Own(r.sub))
      /\ HoldsBut(mem, r.mem, Own(h))
      /\ IsPlaceholder(r.mem, r.sub) => r.mem[r.sub.parent].kind = "object"
      /\ r.sub.allocated => IsNull(r.mem, r.sub)
      /\ \A q \in Int : Room(mem, q + 4) => Room(r.mem, q)
  BY <1>3 DEF HasSubscript
<1> DEFINE self == r.self
           hs2 == [vars EXCEPT ![x] = self]
<1>5. /\ hs2 \in Seq(HandleType) /\ Len(hs2) = Len(vars) /\ hs2[x] = self
      /\ \A y \in 1 .. Len(vars) : y # x => hs2[y] = vars[y]
      /\ OwnedBy(hs2) = (OwnedBy(vars) \ Own(vars[x])) \cup Own(self) /\ Apart(hs2)
  <2>1. x \in 1 .. Len(vars) /\ self \in HandleType
    BY <1>1, <1>4
  <2>2. Own(self) \cap (OwnedBy(vars) \ Own(vars[x])) = {}
    BY <1>4
  <2> HIDE DEF self
  <2> QED
    BY <1>1, <2>1, <2>2, OwnedExcept
<1>6. hs2 = hs
  OBVIOUS
<1> HIDE DEF hs2
<1>7. ASSUME NEW y \in 1 .. Len(vars), y \notin stale PROVE HandleOK(r.mem, hs[y])
  <2>1. CASE y = x
    BY <1>4, <1>5, <1>6, <2>1
  <2>2. CASE y # x
    <3>1. vars[y] \in HandleType /\ HandleOK(mem, vars[y])
      BY <1>1, <1>7
    <3>2. Own(vars[y]) \cap Own(h) = {}
      BY <1>1, <2>2 DEF Apart, Own
    <3>3. vars[y].node \notin Own(h)
      BY <1>1, <3>1, <3>2, OwnNode
    <3> QED
      BY <1>4, <1>5, <1>6, <2>2, <3>1, <3>3 DEF HoldsBut
  <2> QED
    BY <2>1, <2>2
<1>8. Room(r.mem, 4)
  <2>1. 4 \in Int /\ 4 + 4 = 8
    OBVIOUS
  <2> QED
    BY <1>1, <1>4, <2>1
<1>9. OwnedBy(hs) = (R \ Own(h)) \cup Own(r.self)
  BY <1>5, <1>6
<1> HIDE DEF R, h
<1>10. World(r.mem, OwnedBy(hs) \cup Own(r.sub)) /\ Own(r.sub) \cap OwnedBy(hs) = {}
  BY <1>4, <1>9
<1>11. Amid(r.mem, hs, Own(r.sub))
  BY <1>5, <1>6, <1>7, <1>10 DEF Amid
<1>12. CanSubscript(r.mem, OwnedBy(hs) \cup Own(r.sub), r.sub)
  BY <1>4, <1>8, <1>10 DEF CanSubscript
<1> QED
  BY <1>4, <1>11, <1>12 DEF IsPlaceholder

\* A temporary can be assigned a value.
LEMMA TempCanAssign ==
    ASSUME Inv, NEW m, NEW hs, NEW T, Amid(m, hs, T), Room(m, 0),
           NEW sub \in HandleType, HandleOK(m, sub), Own(sub) \subseteq T,
           sub.allocated /\ ~IsRoot(sub) => m[sub.parent].kind = "object",
           sub.allocated => IsNull(m, sub),
           NEW value \in AllValues, NEW v, v = Then(value, hs)
    PROVE  Fit(m, v) /\ CanAssign(m, OwnedBy(hs) \cup T, sub, v)
<1> DEFINE R == OwnedBy(hs) \cup T
<1>1. World(m, R) /\ Own(sub) \subseteq R
  BY DEF Amid
<1>2. sub.node \in InUse(m)
  BY DEF HandleOK
<1>3. Spare(m, 1)
  BY <1>2, SpareOne
<1>4. Fit(m, v) /\ (IsCopy(v) => v.of \notin Own(sub))
  BY <1>3, ValueFacts
<1>5. sub.allocated => Under(m, sub.node) = {sub.node} /\ Own(sub) = {sub.node}
  <2>1. sub.allocated => Len(m[sub.node].items) = 0
    BY <1>1, HandleFacts DEF World, HeapOK, IsNull
  <2> QED
    BY <1>1, <1>2, <2>1, NothingUnder DEF Own
<1> QED
  BY <1>1, <1>4, <1>5 DEF CanAssign

\* A temporary is assigned a value, and goes.
LEMMA TempAssigned ==
    ASSUME Inv, NEW m, NEW hs, NEW T, Amid(m, hs, T), Room(m, 0),
           NEW sub \in HandleType, HandleOK(m, sub), Own(sub) \subseteq T,
           sub.allocated /\ ~IsRoot(sub) => m[sub.parent].kind = "object",
           sub.allocated => IsNull(m, sub),
           NEW value \in AllValues, NEW v, v = Then(value, hs),
           NEW a, a = Assigned(m, sub, v)
    PROVE  /\ World(destroy_node(a.mem, a.self), OwnedBy(hs) \cup (T \ Own(sub)))
           /\ Keeps(m, destroy_node(a.mem, a.self))
           /\ ~sub.allocated => ~a.self.allocated
<1> DEFINE R == OwnedBy(hs) \cup T
<1>1. World(m, R) /\ T \cap OwnedBy(hs) = {} /\ Own(sub) \subseteq R
  BY DEF Amid
<1>2. CanAssign(m, R, sub, v)
  BY TempCanAssign
<1> HIDE DEF R
<1>3. HasAssigned(m, a, R, sub)
  BY <1>2, AssignedFacts
<1>4. /\ a.self \in HandleType /\ Own(a.self) \cap (R \ Own(sub)) = {}
      /\ World(a.mem, (R \ Own(sub)) \cup Own(a.self))
      /\ Keeps(m, a.mem)
      /\ a.self.allocated => sub.allocated
  BY <1>3 DEF HasAssigned
<1> DEFINE m2 == destroy_node(a.mem, a.self)
           R2 == (R \ Own(sub)) \cup Own(a.self)
<1>5. World(m2, R2 \ Own(a.self)) /\ Keeps(a.mem, m2)
  <2>1. Own(a.self) \subseteq R2 /\ World(a.mem, R2)
    BY <1>4
  <2> HIDE DEF R2
  <2> QED
    BY <1>4, <2>1, DropFacts
<1>6. R2 \ Own(a.self) = OwnedBy(hs) \cup (T \ Own(sub))
  BY <1>1, <1>4 DEF R
<1> HIDE DEF m2, R2
<1>7. Keeps(m, m2)
  BY <1>4, <1>5, KeepsOn
<1> QED
  BY <1>4, <1>5, <1>6, <1>7 DEF m2

LEMMA SoundAgain ==
    ASSUME NEW m, NEW hs, NEW T, Amid(m, hs, T), NEW m2, World(m2, OwnedBy(hs)), Keeps(m, m2)
    PROVE  Sound(m2, hs)
<1>1. /\ hs \in Seq(HandleType) /\ Apart(hs)
      /\ \A x \in 1 .. Len(hs) : x \in stale \/ HandleOK(m, hs[x])
  BY DEF Amid
<1>2. \A x \in 1 .. Len(hs) : hs[x] \in HandleType
  BY <1>1, HandleAt
<1> QED
  BY <1>1, <1>2 DEF Sound, Keeps, Still

LEMMA SoundAppended ==
    ASSUME NEW m, NEW hs, NEW T, Amid(m, hs, T), NEW m2, Keeps(m, m2),
           NEW h \in HandleType, Own(h) \cap OwnedBy(hs) = {},
           World(m2, OwnedBy(hs) \cup Own(h)), Still(m2, h)
    PROVE  Sound(m2, Append(hs, h))
<1> DEFINE hs2 == Append(hs, h)
<1>1. /\ hs \in Seq(HandleType) /\ Apart(hs)
      /\ \A x \in 1 .. Len(hs) : x \in stale \/ HandleOK(m, hs[x])
  BY DEF Amid
<1>2. /\ \A x \in 1 .. Len(hs) : hs[x] \in HandleType
      /\ Len(hs) \in Nat
  BY <1>1, HandleAt, LenProperties
<1>3. /\ hs2 \in Seq(HandleType) /\ Len(hs2) = Len(hs) + 1 /\ hs2[Len(hs) + 1] = h
      /\ \A x \in 1 .. Len(hs) : hs2[x] = hs[x]
      /\ OwnedBy(hs2) = OwnedBy(hs) \cup Own(h) /\ Apart(hs2)
  BY <1>1, OwnedAppend
<1> HIDE DEF hs2
<1>4. ASSUME NEW x \in 1 .. Len(hs2), x \notin stale PROVE Still(m2, hs2[x])
  <2>1. CASE x \in 1 .. Len(hs)
    BY <1>1, <1>2, <1>3, <1>4, <2>1 DEF Keeps, Still
  <2>2. CASE x = Len(hs) + 1
    BY <1>3, <2>2
  <2> QED
    BY <1>2, <1>3, <2>1, <2>2
<1>5. Sound(m2, hs2)
  BY <1>3, <1>4 DEF Sound
<1> QED
  BY <1>5 DEF hs2

LEMMA SoundExcept ==
    ASSUME NEW m, NEW hs, NEW T, Amid(m, hs, T), NEW m2, Keeps(m, m2),
           NEW x \in 1 .. Len(hs), NEW h \in HandleType,
           Own(h) \cap (OwnedBy(hs) \ Own(hs[x])) = {},
           World(m2, (OwnedBy(hs) \ Own(hs[x])) \cup Own(h)), Still(m2, h)
    PROVE  Sound(m2, [hs EXCEPT ![x] = h])
<1> DEFINE hs2 == [hs EXCEPT ![x] = h]
<1>1. /\ hs \in Seq(HandleType) /\ Apart(hs)
      /\ \A y \in 1 .. Len(hs) : y \in stale \/ HandleOK(m, hs[y])
  BY DEF Amid
<1>2. \A y \in 1 .. Len(hs) : hs[y] \in HandleType
  BY <1>1, HandleAt
<1>3. /\ hs2 \in Seq(HandleType) /\ Len(hs2) = Len(hs) /\ hs2[x] = h
      /\ \A y \in 1 .. Len(hs) : y # x => hs2[y] = hs[y]
      /\ OwnedBy(hs2) = (OwnedBy(hs) \ Own(hs[x])) \cup Own(h) /\ Apart(hs2)
  BY <1>1, OwnedExcept
<1> HIDE DEF hs2
<1>4. ASSUME NEW y \in 1 .. Len(hs2), y \notin stale PROVE Still(m2, hs2[y])
  <2>1. CASE y = x
    BY <1>3, <2>1
  <2>2. CASE y # x
    BY <1>1, <1>2, <1>3, <1>4, <2>2 DEF Keeps, Still
  <2> QED
    BY <2>1, <2>2
<1>5. Sound(m2, hs2)
  BY <1>3, <1>4 DEF Sound
<1> QED
  BY <1>5 DEF hs2

LEMMA InitStep ==
    ASSUME Init
    PROVE  Inv
<1>1. mem = [n \in Nodes |-> Leaf("free")] /\ vars = <<>> /\ stale = {}
  BY DEF Init
<1> DEFINE leaf == Leaf("free")
<1>2. leaf \in NodeType /\ leaf.kind = "free" /\ Len(leaf.items) = 0
  BY LeafFacts, StateKinds
<1> HIDE DEF leaf
<1>3. mem \in [Nodes -> NodeType] /\ \A n \in Nodes : mem[n] = leaf
  BY <1>1, <1>2 DEF leaf
<1>4. HeapOK(mem)
  BY <1>2, <1>3 DEF HeapOK
<1>5. InUse(mem) = {} /\ FreeNodes(mem) = Nodes
  BY <1>2, <1>3 DEF InUse, FreeNodes
<1>6. \A k, l \in Nodes : ~Has(mem, k, l)
  BY <1>2, <1>3 DEF Has
<1>7. Forest(mem, {})
  BY <1>2, <1>3, <1>5, <1>6 DEF Forest
<1>8. NoCircle(mem)
  BY <1>5 DEF NoCircle
<1>9. vars \in Seq(HandleType) /\ Len(vars) = 0
  BY <1>1, EmptySeq
<1>10. OwnedBy(vars) = {} /\ Apart(vars)
  BY <1>9 DEF OwnedBy, Apart
<1>11. Room(mem, 8)
  BY <1>5, NodesFinite, FS_EmptySet DEF Room
<1> QED
  BY <1>2, <1>3, <1>4, <1>7, <1>8, <1>9, <1>10, <1>11 DEF Inv, World

LEMMA DeclareStep ==
    ASSUME Inv, NEW value \in AllValues, Declare(value)
    PROVE  Inv'
<1> DEFINE v == Then(value, vars)
           new == NewNode(mem, v)
           n == new.node
           h == Root(n)
<1>1. /\ Amid(mem, vars, {}) /\ Room(mem, 8) /\ Room(mem, 0)
      /\ World(mem, OwnedBy(vars))
  BY InvFacts
<1>2. Spare(mem, 1)
  BY <1>1, RoomIsSpare, LessRoom
<1>3. Fit(mem, v)
  BY <1>1, <1>2, ValueFacts
<1>4. Ends(new.mem, Append(vars, h))
  BY DEF Declare
<1> HIDE DEF v
<1>5. /\ World(new.mem, OwnedBy(vars) \cup {n}) /\ Extends(mem, new.mem)
      /\ n \in FreeNodes(mem) /\ n \in InUse(new.mem)
  BY <1>1, <1>3, NewNodeFacts
<1> HIDE DEF new, n
<1>6. h \in HandleType /\ Own(h) = {n} /\ HandleOK(new.mem, h)
  BY <1>5, Counts DEF Root, HandleType, Own, Names, HandleOK, IsRoot
<1>7. n \notin OwnedBy(vars)
  BY <1>1, <1>5, Counts DEF World, Forest
<1>8. Keeps(mem, new.mem)
  BY <1>5, ExtendsFacts
<1> HIDE DEF h
<1>9. Sound(new.mem, Append(vars, h))
  <2>1. Own(h) \cap OwnedBy(vars) = {} /\ Still(new.mem, h)
        /\ World(new.mem, OwnedBy(vars) \cup Own(h))
    BY <1>5, <1>6, <1>7 DEF Still
  <2> QED
    BY <1>1, <1>6, <1>8, <2>1, SoundAppended
<1> QED
  BY <1>4, <1>9, EndsFacts

LEMMA WatchStep ==
    ASSUME Inv, NEW x \in DOMAIN vars, NEW key \in Keys, Watch(x, key)
    PROVE  Inv'
<1> DEFINE r == Subscript(mem, vars[x], key)
           hs == [vars EXCEPT ![x] = r.self]
<1>1. Usable(x) /\ Ends(r.mem, Append(hs, r.sub))
  BY DEF Watch
<1>2. /\ Amid(r.mem, hs, Own(r.sub))
      /\ CanSubscript(r.mem, OwnedBy(hs) \cup Own(r.sub), r.sub)
  BY <1>1, SubscriptedVars
<1> HIDE DEF r, hs
<1>3. /\ r.sub \in HandleType /\ HandleOK(r.mem, r.sub)
      /\ World(r.mem, OwnedBy(hs) \cup Own(r.sub)) /\ Own(r.sub) \cap OwnedBy(hs) = {}
  BY <1>2 DEF CanSubscript, Amid
<1>4. Keeps(r.mem, r.mem) /\ Still(r.mem, r.sub)
  BY <1>3 DEF Keeps, Still
<1>5. Sound(r.mem, Append(hs, r.sub))
  BY <1>2, <1>3, <1>4, SoundAppended
<1> QED
  BY <1>1, <1>5, EndsFacts

LEMMA ItemFacts ==
    ASSUME Inv, NEW x \in DOMAIN vars, x \notin stale,
           mem[vars[x].node].kind = "array", NEW i \in Items(x),
           NEW h, h = Watcher(mem[vars[x].node].items[i].node, vars[x].node, NoKey)
    PROVE  h \in HandleType /\ HandleOK(mem, h) /\ ~h.allocated /\ Own(h) = {} /\ ~IsRoot(h)
<1> DEFINE n == vars[x].node
           k == mem[n].items[i].node
<1>1. World(mem, OwnedBy(vars)) /\ vars[x] \in HandleType
  BY InvFacts
<1>2. HeapOK(mem) /\ Forest(mem, OwnedBy(vars)) /\ n \in Nodes
  BY <1>1, HandleFacts DEF World
<1> HIDE DEF n
<1>3. i \in 1 .. Len(mem[n].items) /\ mem[n].kind = "array"
  BY <1>2, NodeOf DEF Items, n
<1>4. mem[n].items[i] \in ItemType /\ k \in Nodes /\ Has(mem, n, k)
  BY <1>2, <1>3, NodeOf
<1>5. k \in InUse(mem)
  BY <1>2, <1>4 DEF Forest
<1>6. mem[n].items[i] = [key |-> NoKey, node |-> k]
  <2>1. mem[n].items[i].key = NoKey
    BY <1>2, <1>3 DEF HeapOK
  <2> QED
    BY <1>4, <2>1 DEF ItemType
<1>7. h = Watcher(k, n, NoKey)
  BY DEF n
<1> HIDE DEF k
<1>8. /\ h \in HandleType /\ h.node = k /\ h.parent = n /\ h.key = NoKey
      /\ h.allocated = FALSE
  BY <1>2, <1>4, <1>7 DEF HandleType, Watcher, Names
<1>9. ~IsRoot(h)
  BY <1>2, <1>8, NodesFinite DEF IsRoot
<1>10. WatcherAt(mem, h)
  BY <1>3, <1>6, <1>8 DEF WatcherAt
<1> QED
  BY <1>3, <1>5, <1>8, <1>9, <1>10 DEF HandleOK, Own

LEMMA WatchItemStep ==
    ASSUME Inv, NEW x \in DOMAIN vars, NEW i \in Items(x), WatchItem(x, i)
    PROVE  Inv'
<1> DEFINE h == Watcher(mem[vars[x].node].items[i].node, vars[x].node, NoKey)
<1>1. x \notin stale /\ mem[vars[x].node].kind = "array" /\ Ends(mem, Append(vars, h))
  BY DEF WatchItem
<1>2. h \in HandleType /\ HandleOK(mem, h) /\ Own(h) = {}
  BY <1>1, ItemFacts
<1> HIDE DEF h
<1>3. Amid(mem, vars, {}) /\ World(mem, OwnedBy(vars))
  BY InvFacts
<1>4. /\ Keeps(mem, mem) /\ Still(mem, h) /\ Own(h) \cap OwnedBy(vars) = {}
      /\ OwnedBy(vars) \cup Own(h) = OwnedBy(vars)
  BY <1>2 DEF Keeps, Still
<1>5. Sound(mem, Append(vars, h))
  BY <1>2, <1>3, <1>4, SoundAppended
<1> QED
  BY <1>1, <1>5, EndsFacts

LEMMA MoveStep ==
    ASSUME Inv, NEW x \in DOMAIN vars, NEW key \in Keys, MoveToMember(x, key)
    PROVE  Inv'
<1> DEFINE r == Subscript(mem, vars[x], key)
           hs == [vars EXCEPT ![x] = r.self]
           m2 == destroy_node(r.mem, r.sub)
<1>1. Usable(x) /\ Ends(m2, hs)
  BY DEF MoveToMember
<1>2. /\ Amid(r.mem, hs, Own(r.sub))
      /\ CanSubscript(r.mem, OwnedBy(hs) \cup Own(r.sub), r.sub)
  BY <1>1, SubscriptedVars
<1> HIDE DEF r, hs
<1> DEFINE R == OwnedBy(hs) \cup Own(r.sub)
<1>3. /\ r.sub \in HandleType /\ World(r.mem, R) /\ Own(r.sub) \subseteq R
      /\ R \ Own(r.sub) = OwnedBy(hs)
  BY <1>2 DEF CanSubscript, Amid
<1> HIDE DEF R
<1>4. World(m2, OwnedBy(hs)) /\ Keeps(r.mem, m2)
  BY <1>3, DropFacts
<1> HIDE DEF m2
<1>5. Sound(m2, hs)
  BY <1>2, <1>4, SoundAgain
<1> QED
  BY <1>1, <1>5, EndsFacts

LEMMA SetMemberStep ==
    ASSUME Inv, NEW x \in DOMAIN vars, NEW key \in Keys, NEW value \in AllValues,
           SetMember(x, key, value)
    PROVE  Inv'
<1> DEFINE r == Subscript(mem, vars[x], key)
           hs == [vars EXCEPT ![x] = r.self]
           v == Then(value, hs)
           a == Assigned(r.mem, r.sub, v)
           m2 == destroy_node(a.mem, a.self)
<1>1. Usable(x) /\ Ends(m2, hs)
  BY DEF SetMember
<1>2. /\ Amid(r.mem, hs, Own(r.sub))
      /\ CanSubscript(r.mem, OwnedBy(hs) \cup Own(r.sub), r.sub)
      /\ r.sub.allocated => IsNull(r.mem, r.sub)
      /\ r.sub.allocated /\ ~IsRoot(r.sub) => r.mem[r.sub.parent].kind = "object"
  BY <1>1, SubscriptedVars
<1> HIDE DEF r, hs
<1>3. r.sub \in HandleType /\ HandleOK(r.mem, r.sub) /\ Room(r.mem, 4)
  BY <1>2 DEF CanSubscript
<1>4. Room(r.mem, 0)
  BY <1>3, LessRoom
<1> HIDE DEF v
<1>5. v = Then(value, hs) /\ a = Assigned(r.mem, r.sub, v)
  BY DEF v
<1> HIDE DEF a
<1> DEFINE T == Own(r.sub)
<1>6. Amid(r.mem, hs, T) /\ Own(r.sub) \subseteq T /\ T \ Own(r.sub) = {}
  BY <1>2
<1> HIDE DEF T
<1>7. World(m2, OwnedBy(hs) \cup (T \ Own(r.sub))) /\ Keeps(r.mem, m2)
  BY <1>2, <1>3, <1>4, <1>5, <1>6, TempAssigned
<1>8. World(m2, OwnedBy(hs))
  <2>1. OwnedBy(hs) \cup {} = OwnedBy(hs)
    OBVIOUS
  <2> QED
    BY <1>6, <1>7, <2>1
<1> HIDE DEF m2
<1>9. Sound(m2, hs)
  BY <1>6, <1>7, <1>8, SoundAgain
<1> QED
  BY <1>1, <1>9, EndsFacts

\* Two subscripts in a statement.
LEMMA DeepVars ==
    ASSUME Inv, NEW x \in DOMAIN vars, Usable(x), NEW key1 \in Keys, NEW key2 \in Keys,
           NEW r1, r1 = Subscript(mem, vars[x], key1),
           NEW hs, hs = [vars EXCEPT ![x] = r1.self],
           NEW r2, r2 = Subscript(r1.mem, r1.sub, key2)
    PROVE  /\ CanSubscript(r1.mem, OwnedBy(hs) \cup Own(r1.sub), r1.sub)
           /\ Amid(r2.mem, hs, Own(r2.self) \cup Own(r2.sub)) /\ Room(r2.mem, 0)
           /\ Own(r2.sub) \cap Own(r2.self) = {}
           /\ r2.self \in HandleType /\ HandleOK(r2.mem, r2.self)
           /\ r2.sub \in HandleType /\ HandleOK(r2.mem, r2.sub)
           /\ r2.sub.allocated => IsNull(r2.mem, r2.sub)
           /\ r2.sub.allocated /\ ~IsRoot(r2.sub) => r2.mem[r2.sub.parent].kind = "object"
<1>1. /\ Amid(r1.mem, hs, Own(r1.sub))
      /\ CanSubscript(r1.mem, OwnedBy(hs) \cup Own(r1.sub), r1.sub)
  BY SubscriptedVars
<1> DEFINE R1 == OwnedBy(hs) \cup Own(r1.sub)
<1>2. HasSubscript(r1.mem, r2, R1, r1.sub)
  BY <1>1, SubscriptFacts
<1>3. /\ r1.sub \in HandleType /\ World(r1.mem, R1) /\ Room(r1.mem, 4)
      /\ Own(r1.sub) \subseteq R1 /\ R1 \ Own(r1.sub) = OwnedBy(hs)
      /\ hs \in Seq(HandleType) /\ Apart(hs) /\ Len(hs) = Len(vars)
      /\ Own(r1.sub) \cap OwnedBy(hs) = {}
      /\ \A y \in 1 .. Len(hs) : y \in stale \/ HandleOK(r1.mem, hs[y])
  BY <1>1 DEF CanSubscript, Amid
<1> HIDE DEF R1
<1>4. /\ r2.self \in HandleType /\ HandleOK(r2.mem, r2.self)
      /\ r2.sub \in HandleType /\ HandleOK(r2.mem, r2.sub)
      /\ Own(r2.self) \cap OwnedBy(hs) = {}
      /\ Own(r2.sub) \cap (OwnedBy(hs) \cup Own(r2.self)) = {}
      /\ World(r2.mem, (OwnedBy(hs) \cup Own(r2.self)) \cup Own(r2.sub))
      /\ HoldsBut(r1.mem, r2.mem, Own(r1.sub))
      /\ IsPlaceholder(r2.mem, r2.sub) => r2.mem[r2.sub.parent].kind = "object"
      /\ r2.sub.allocated => IsNull(r2.mem, r2.sub)
      /\ \A q \in Int : Room(r1.mem, q + 4) => Room(r2.mem, q)
  BY <1>2, <1>3 DEF HasSubscript
<1>5. Room(r2.mem, 0)
  <2>1. 0 \in Int /\ 0 + 4 = 4
    OBVIOUS
  <2> QED
    BY <1>3, <1>4, <2>1
<1>6. ASSUME NEW y \in 1 .. Len(hs), y \notin stale PROVE HandleOK(r2.mem, hs[y])
  <2>1. hs[y] \in HandleType /\ HandleOK(r1.mem, hs[y]) /\ Own(hs[y]) \subseteq OwnedBy(hs)
    BY <1>3, <1>6, HandleAt DEF OwnedBy
  <2>2. Own(hs[y]) \cap Own(r1.sub) = {}
    BY <1>3, <2>1
  <2>3. hs[y].node \notin Own(r1.sub)
    BY <1>3, <2>1, <2>2, OwnNode
  <2> QED
    BY <1>4, <2>1, <2>3 DEF HoldsBut
<1> DEFINE T == Own(r2.self) \cup Own(r2.sub)
<1>7. Amid(r2.mem, hs, T)
  <2>1. OwnedBy(hs) \cup T = (OwnedBy(hs) \cup Own(r2.self)) \cup Own(r2.sub)
    OBVIOUS
  <2>2. T \cap OwnedBy(hs) = {}
    BY <1>4
  <2> HIDE DEF T
  <2> QED
    BY <1>3, <1>4, <1>6, <2>1, <2>2 DEF Amid
<1> QED
  BY <1>1, <1>4, <1>5, <1>7 DEF IsPlaceholder

LEMMA SetDeepStep ==
    ASSUME Inv, NEW x \in DOMAIN vars, NEW key1 \in Keys, NEW key2 \in Keys,
           NEW value \in AllValues, SetDeep(x, key1, key2, value)
    PROVE  Inv'
<1> DEFINE r1 == Subscript(mem, vars[x], key1)
           r2 == Subscript(r1.mem, r1.sub, key2)
           hs == [vars EXCEPT ![x] = r1.self]
           v == Then(value, hs)
           a == Assigned(r2.mem, r2.sub, v)
           m2 == destroy_node(a.mem, a.self)
           m3 == destroy_node(m2, r2.self)
<1>1. Usable(x) /\ Ends(m3, hs)
  BY DEF SetDeep
<1> DEFINE T == Own(r2.self) \cup Own(r2.sub)
<1>2. /\ Amid(r2.mem, hs, T) /\ Room(r2.mem, 0)
      /\ Own(r2.sub) \cap Own(r2.self) = {}
      /\ r2.self \in HandleType
      /\ r2.sub \in HandleType /\ HandleOK(r2.mem, r2.sub)
      /\ r2.sub.allocated => IsNull(r2.mem, r2.sub)
      /\ r2.sub.allocated /\ ~IsRoot(r2.sub) => r2.mem[r2.sub.parent].kind = "object"
  BY <1>1, DeepVars
<1> HIDE DEF r1, r2, hs
<1>3. /\ Own(r2.sub) \subseteq T /\ T \ Own(r2.sub) = Own(r2.self)
      /\ OwnedBy(hs) \cap Own(r2.self) = {}
  BY <1>2 DEF Amid
<1> HIDE DEF T, v
<1>4. v = Then(value, hs) /\ a = Assigned(r2.mem, r2.sub, v)
  BY DEF v
<1> HIDE DEF a
<1>5. World(m2, OwnedBy(hs) \cup (T \ Own(r2.sub))) /\ Keeps(r2.mem, m2)
  BY <1>2, <1>3, <1>4, TempAssigned
<1> HIDE DEF m2
<1> DEFINE R2 == OwnedBy(hs) \cup Own(r2.self)
<1>6. World(m2, R2) /\ Own(r2.self) \subseteq R2 /\ R2 \ Own(r2.self) = OwnedBy(hs)
  BY <1>3, <1>5
<1> HIDE DEF R2
<1>7. World(m3, OwnedBy(hs)) /\ Keeps(m2, m3)
  BY <1>2, <1>6, DropFacts
<1> HIDE DEF m3
<1>8. Sound(m3, hs)
  BY <1>2, <1>5, <1>7, KeepsOn, SoundAgain
<1> QED
  BY <1>1, <1>8, EndsFacts

LEMMA SetItemStep ==
    ASSUME Inv, NEW x \in DOMAIN vars, NEW i \in Items(x), NEW value \in AllValues,
           SetItem(x, i, value)
    PROVE  Inv'
<1> DEFINE h == Watcher(mem[vars[x].node].items[i].node, vars[x].node, NoKey)
           v == Then(value, vars)
           a == Assigned(mem, h, v)
           m2 == destroy_node(a.mem, a.self)
<1>1. x \notin stale /\ mem[vars[x].node].kind = "array" /\ Ends(a.mem, vars)
  BY DEF SetItem
<1>2. h \in HandleType /\ HandleOK(mem, h) /\ ~h.allocated /\ Own(h) = {}
  BY <1>1, ItemFacts
<1> HIDE DEF h, v
<1>3. Amid(mem, vars, {}) /\ Room(mem, 0)
  BY InvFacts
<1>4. v = Then(value, vars) /\ a = Assigned(mem, h, v)
  BY DEF v
<1> HIDE DEF a
<1>5. /\ World(m2, OwnedBy(vars) \cup ({} \ Own(h))) /\ Keeps(mem, m2)
      /\ ~a.self.allocated
  <2>1. Own(h) \subseteq {}
    BY <1>2
  <2> QED
    BY <1>2, <1>3, <1>4, <2>1, TempAssigned
<1>6. m2 = a.mem
  BY <1>5 DEF destroy_node
<1>7. OwnedBy(vars) \cup ({} \ Own(h)) = OwnedBy(vars)
  OBVIOUS
<1> HIDE DEF m2
<1>8. Sound(a.mem, vars)
  BY <1>3, <1>5, <1>6, <1>7, SoundAgain
<1> QED
  BY <1>1, <1>8, EndsFacts

LEMMA AssignStep ==
    ASSUME Inv, NEW x \in DOMAIN vars, NEW value \in AllValues, Assign(x, value)
    PROVE  Inv'
<1> DEFINE h == vars[x]
           R == OwnedBy(vars)
           v == Then(value, vars)
           a == Assigned(mem, h, v)
<1>1. /\ Usable(x) /\ Ends(a.mem, [vars EXCEPT ![x] = a.self])
      /\ h.allocated /\ IsCopy(value) => vars[value.of].node \notin Under(mem, h.node)
  BY DEF Assign
<1>2. /\ Amid(mem, vars, {}) /\ Room(mem, 8) /\ Room(mem, 0) /\ World(mem, R)
      /\ DOMAIN vars = 1 .. Len(vars)
      /\ h \in HandleType /\ Own(h) \subseteq R /\ HandleOK(mem, h)
  BY <1>1, InvFacts DEF Usable
<1>3. Spare(mem, 1)
  BY <1>2, RoomIsSpare, LessRoom
<1>4. Fit(mem, v)
  BY <1>2, <1>3, ValueFacts
<1>5. IsCopy(v) /\ h.allocated => v.of \notin Under(mem, h.node)
  <2>1. IsCopy(value) => v.of = vars[value.of].node
    BY DEF Then, CopyOf
  <2>2. IsCopy(v) => IsCopy(value)
    BY DEF Then
  <2> HIDE DEF v, h
  <2> QED
    BY <1>1, <2>1, <2>2
<1>6. h.allocated /\ ~IsRoot(h) => mem[h.parent].kind = "object"
  BY <1>1, <1>2 DEF Usable, IsPlaceholder, HandleOK
<1>7. x \in 1 .. Len(vars)
  BY <1>2
<1> HIDE DEF v
<1>8. CanAssign(mem, R, h, v)
  BY <1>2, <1>4, <1>5, <1>6 DEF CanAssign
<1>9. HasAssigned(mem, a, R, h)
  BY <1>8, AssignedFacts
<1> HIDE DEF a
<1>10. /\ a.self \in HandleType /\ Own(a.self) \cap (OwnedBy(vars) \ Own(vars[x])) = {}
       /\ World(a.mem, (OwnedBy(vars) \ Own(vars[x])) \cup Own(a.self))
       /\ Keeps(mem, a.mem) /\ Still(a.mem, a.self)
  BY <1>9 DEF HasAssigned
<1>11. Sound(a.mem, [vars EXCEPT ![x] = a.self])
  BY <1>2, <1>7, <1>10, SoundExcept
<1> QED
  BY <1>1, <1>11, EndsFacts

LEMMA EraseStep ==
    ASSUME Inv, NEW x \in DOMAIN vars, NEW i \in Items(x), Erase(x, i)
    PROVE  Inv'
<1> DEFINE n == vars[x].node
           R == OwnedBy(vars)
           old == mem[n].items[i].node
           m1 == [mem EXCEPT ![n].items = RemoveAt(@, i)]
           m2 == json_value_destroy(m1, old)
<1>1. Ends(m2, vars) /\ x \notin stale
  BY DEF Erase
<1>2. Amid(mem, vars, {}) /\ World(mem, R) /\ vars[x] \in HandleType
  BY InvFacts
<1>3. n \in Nodes /\ i \in 1 .. Len(mem[n].items)
  BY <1>2, HandleFacts, NodeOf DEF Items, World
<1>4. /\ World(m1, R \cup {old})
      /\ \A h \in HandleType : Still(mem, h) /\ h.node # old => Still(m1, h)
  <2> HIDE DEF n, R
  <2>1. LET m3 == [mem EXCEPT ![n].items = RemoveAt(@, i)]
            was == mem[n].items[i].node
        IN  /\ World(m3, R \cup {was})
            /\ InUse(m3) = InUse(mem) /\ FreeNodes(m3) = FreeNodes(mem)
            /\ \A h \in HandleType : Still(mem, h) /\ h.node # was => Still(m3, h)
    BY <1>2, <1>3, TakenOut, Zenon
  <2> QED
    BY <2>1
<1>5. old \in Nodes /\ old \notin R
  <2>1. old \in Nodes /\ Has(mem, n, old)
    BY <1>2, <1>3, NodeOf DEF World
  <2> QED
    BY <1>2, <1>3, <2>1 DEF World, Forest
<1> DEFINE R2 == R \cup {old}
<1>6. m2 = json_value_destroy(m1, old) /\ World(m1, R2) /\ old \in R2 /\ R2 \ {old} = R
  BY <1>4, <1>5
<1> HIDE DEF m1, m2, old, R2
<1>7. /\ World(m2, R) /\ Keeps(m1, m2) /\ \A k \in Under(m1, old) : m2[k].kind = "dead"
  BY <1>6, DestroyFacts
<1>8. old \in Under(m1, old)
  <2>1. HeapOK(m1) /\ Closed(m1, InUse(m1)) /\ old \in InUse(m1)
    BY <1>6, ForestClosed DEF World, Forest
  <2> QED
    BY <2>1, UnderFacts
<1>9. Keeps(mem, m2)
  <2> SUFFICES ASSUME NEW h \in HandleType, Still(mem, h) PROVE Still(m2, h)
    BY DEF Keeps
  <2>1. CASE h.node = old
    BY <1>7, <1>8, <2>1 DEF Still, Gone
  <2>2. CASE h.node # old
    BY <1>4, <1>7, <2>2 DEF Keeps
  <2> QED
    BY <2>1, <2>2
<1>10. Sound(m2, vars)
  BY <1>2, <1>7, <1>9, SoundAgain
<1> QED
  BY <1>1, <1>10, EndsFacts

LEMMA LeaveStep ==
    ASSUME Inv, Leave
    PROVE  Inv'
<1> DEFINE last == vars[Len(vars)]
           hs == Front(vars)
           m2 == destroy_node(mem, last)
<1>1. vars # <<>> /\ Ends(m2, hs)
  BY DEF Leave
<1>2. /\ vars \in Seq(HandleType) /\ Apart(vars) /\ World(mem, OwnedBy(vars))
      /\ Len(vars) \in Nat
      /\ \A x \in 1 .. Len(vars) : x \in stale \/ HandleOK(mem, vars[x])
  BY InvFacts DEF Inv
<1>3. Len(vars) # 0
  BY <1>1, <1>2, EmptySeq
<1>4. /\ hs \in Seq(HandleType) /\ Len(hs) = Len(vars) - 1
      /\ last \in HandleType
      /\ \A x \in 1 .. Len(vars) - 1 : hs[x] = vars[x]
      /\ OwnedBy(hs) = OwnedBy(vars) \ Own(last) /\ Own(last) \subseteq OwnedBy(vars)
      /\ Apart(hs)
  BY <1>2, <1>3, OwnedFront
<1> HIDE DEF hs, last
<1>5. World(m2, OwnedBy(hs)) /\ Keeps(mem, m2)
  BY <1>2, <1>4, DropFacts
<1> HIDE DEF m2
<1>6. ASSUME NEW x \in 1 .. Len(hs), x \notin stale PROVE Still(m2, hs[x])
  <2>1. x \in 1 .. Len(vars) /\ hs[x] = vars[x]
    BY <1>2, <1>4
  <2>2. hs[x] \in HandleType /\ HandleOK(mem, hs[x])
    BY <1>2, <1>6, <2>1, HandleAt
  <2> QED
    BY <1>5, <2>2 DEF Keeps, Still
<1>7. Sound(m2, hs)
  BY <1>4, <1>5, <1>6 DEF Sound
<1> QED
  BY <1>1, <1>7, EndsFacts

\* push_back: what is put is new, so the handle is not in it.
LEMMA UnderSame ==
    ASSUME NEW m, NEW R, World(m, R), NEW n \in InUse(m), NEW m2, NEW R2, World(m2, R2),
           NEW S, SameBut(m, m2, S), Under(m, n) \cap S = {}
    PROVE  Under(m2, n) \subseteq Under(m, n)
<1> DEFINE T == Under(m, n)
<1>1. /\ HeapOK(m) /\ Closed(m, InUse(m)) /\ HeapOK(m2) /\ Closed(m2, InUse(m2))
      /\ InUse(m) \subseteq Nodes
  BY ForestClosed, Counts DEF World
<1>2. T \subseteq InUse(m) /\ n \in T /\ Closed(m, T)
  BY <1>1, UnderFacts
<1> HIDE DEF T
<1>3. \A k \in T : m2[k] = m[k]
  BY <1>1, <1>2 DEF SameBut, T
<1>4. T \subseteq InUse(m2)
  BY <1>1, <1>2, <1>3 DEF InUse
<1>5. Closed(m2, T)
  BY <1>2, <1>3 DEF Closed, Has
<1>6. n \in InUse(m2)
  BY <1>2, <1>4
<1> QED
  BY <1>1, <1>2, <1>4, <1>5, <1>6, UnderFacts DEF T

CanPush(kind, key, value) ==
    /\ kind \in {"object", "array"} /\ key \in Names /\ value \in AllValues
    /\ kind = "array" => key = NoKey

LEMMA PushToPlaceholder ==
    ASSUME Inv, NEW x \in DOMAIN vars, Usable(x), IsPlaceholder(mem, vars[x]),
           NEW kind, NEW key, NEW value, CanPush(kind, key, value),
           NEW new, new = NewNode(mem, Then(value, vars)),
           NEW p, p = Placed(new.mem, vars[x], New(kind)),
           Ends(Appended(p.mem, p.self.node, key, new.node), [vars EXCEPT ![x] = p.self])
    PROVE  Inv'
<1> DEFINE h == vars[x]
           R == OwnedBy(vars)
           v == Then(value, vars)
           n == new.node
           q == p.self.node
           m3 == Appended(p.mem, q, key, n)
<1>1. /\ Amid(mem, vars, {}) /\ Room(mem, 8) /\ Room(mem, 0) /\ World(mem, R)
      /\ DOMAIN vars = 1 .. Len(vars)
      /\ h \in HandleType /\ Own(h) \subseteq R /\ HandleOK(mem, h)
      /\ mem[h.parent].kind = "object" /\ ~IsRoot(h)
  BY InvFacts DEF Usable, IsPlaceholder
<1>2. Spare(mem, 1) /\ Room(mem, 2)
  BY <1>1, RoomIsSpare, LessRoom
<1>3. Fit(mem, v)
  <2>1. value \in AllValues
    BY DEF CanPush
  <2> QED
    BY <1>1, <1>2, <2>1, ValueFacts
<1> HIDE DEF v
<1>4. /\ World(new.mem, R \cup {n}) /\ Extends(mem, new.mem)
      /\ n \in FreeNodes(mem) /\ n \in InUse(new.mem)
      /\ InUse(mem) \subseteq InUse(new.mem)
      /\ Under(new.mem, n) \cap InUse(mem) = {}
      /\ \A r \in Nat : Room(mem, r + 1) => Spare(new.mem, r)
  <2> DEFINE new2 == NewNode(mem, v)
  <2>1. /\ World(new2.mem, R \cup {new2.node}) /\ Extends(mem, new2.mem)
        /\ new2.node \in FreeNodes(mem) /\ new2.node \in InUse(new2.mem)
        /\ InUse(mem) \subseteq InUse(new2.mem)
        /\ Under(new2.mem, new2.node) \cap InUse(mem) = {}
        /\ \A r \in Nat : Room(mem, r + 1) => Spare(new2.mem, r)
    BY <1>1, <1>3, NewNodeFacts
  <2>2. new = new2
    BY DEF v
  <2> HIDE DEF new2
  <2> QED
    BY <2>1, <2>2
<1>5. /\ Keeps(mem, new.mem) /\ HandleOK(new.mem, h) /\ Spare(new.mem, 1)
  <2>1. Keeps(mem, new.mem) /\ HoldsBut(mem, new.mem, {})
    BY <1>4, ExtendsFacts
  <2>2. 1 \in Nat /\ 1 + 1 = 2
    OBVIOUS
  <2> QED
    BY <1>1, <1>2, <1>4, <2>1, <2>2 DEF HoldsBut
<1>6. /\ h.parent \in InUse(mem) /\ h.parent \in Nodes /\ Own(h) \subseteq InUse(mem)
      /\ new.mem[h.parent].kind = "object" /\ n \notin R
  <2>1. h.parent \in Nodes /\ h.parent \in InUse(mem)
    BY <1>1, HandleFacts DEF InUse
  <2>2. new.mem[h.parent] = mem[h.parent]
    BY <1>4, <2>1 DEF Extends, InUse
  <2>3. R \subseteq InUse(mem)
    BY <1>1 DEF World, Forest
  <2>4. n \notin InUse(mem)
    BY <1>4, Counts
  <2> QED
    BY <1>1, <2>1, <2>2, <2>3, <2>4
<1> DEFINE R2 == R \cup {n}
           empty == New(kind)
<1>7. ~IsCopy(empty) /\ empty.kind = kind /\ Fit(new.mem, empty)
  <2>1. kind \in Kinds \ {"free", "dead"}
    BY DEF CanPush, Kinds
  <2>2. ~IsCopy(empty) /\ empty.kind = kind
    BY <2>1, NewFacts
  <2> QED
    BY <1>5, <2>1, <2>2 DEF Fit
<1> HIDE DEF empty
<1> DEFINE placed == Placed(new.mem, h, empty)
<1>8. /\ placed.self \in HandleType /\ ~placed.self.allocated
      /\ HandleOK(placed.mem, placed.self)
      /\ World(placed.mem, R2 \ Own(h))
      /\ Keeps(new.mem, placed.mem)
      /\ placed.self.node \in FreeNodes(new.mem)
      /\ SameBut(new.mem, placed.mem, (Own(h) \cup FreeNodes(new.mem)) \cup {h.parent})
      /\ placed.mem[placed.self.node].kind = kind
  <2>1. World(new.mem, R2) /\ Own(h) \subseteq R2
    BY <1>1, <1>4
  <2> DEFINE m1 == new.mem
  <2>2. /\ World(m1, R2) /\ h \in HandleType /\ HandleOK(m1, h) /\ ~IsRoot(h)
        /\ Own(h) \subseteq R2 /\ m1[h.parent].kind = "object"
        /\ Fit(m1, empty) /\ (IsCopy(empty) => empty.of \notin Own(h))
    BY <1>1, <1>5, <1>6, <1>7, <2>1
  <2>3. placed = Placed(m1, h, empty)
    OBVIOUS
  <2> HIDE DEF R2, m1, h, placed
  <2>4. LET placed2 == Placed(m1, h, empty)
        IN  /\ placed2.self \in HandleType /\ ~placed2.self.allocated
            /\ HandleOK(placed2.mem, placed2.self) /\ ~IsRoot(placed2.self)
            /\ World(placed2.mem, R2 \ Own(h))
            /\ Keeps(m1, placed2.mem) /\ HoldsBut(m1, placed2.mem, Own(h))
            /\ placed2.self.node \in FreeNodes(m1)
            /\ SameBut(m1, placed2.mem, (Own(h) \cup FreeNodes(m1)) \cup {h.parent})
            /\ ~IsCopy(empty) =>
                  /\ placed2.mem[placed2.self.node].kind = empty.kind
                  /\ \A r \in Int : Room(m1, r + 2) => Room(placed2.mem, r)
    BY <2>2, PlacedFacts, Zenon
  <2> QED
    BY <1>7, <2>3, <2>4 DEF m1
<1>9. p = placed
  BY DEF empty
<1> HIDE DEF placed, m3
<1> DEFINE S == (Own(h) \cup FreeNodes(new.mem)) \cup {h.parent}
           R3 == R2 \ Own(h)
<1>10. /\ p.self \in HandleType /\ ~p.self.allocated /\ HandleOK(p.mem, p.self)
       /\ World(p.mem, R3) /\ Keeps(new.mem, p.mem) /\ q \in FreeNodes(new.mem)
       /\ SameBut(new.mem, p.mem, S) /\ p.mem[q].kind = kind
  BY <1>8, <1>9
<1>11. n \in R3 /\ R3 \ {n} = R \ Own(h)
  BY <1>1, <1>6
<1>12. Under(new.mem, n) \cap S = {} /\ q \notin Under(new.mem, n)
  <2>1. Under(new.mem, n) \subseteq InUse(new.mem)
    BY <1>4, ForestClosed, UnderFacts DEF World
  <2> QED
    BY <1>4, <1>6, <1>10, <2>1, Counts
<1> HIDE DEF R2, R3, S
<1>13. q \notin Under(p.mem, n)
  BY <1>4, <1>10, <1>12, UnderSame
<1>14. CanPut(p.mem, R3, q, n, key)
  <2>1. q \in InUse(p.mem)
    BY <1>10 DEF HandleOK
  <2> QED
    BY <1>10, <1>11, <1>13, <2>1 DEF CanPut, CanPush
<1>15. HasPut(p.mem, m3, R3, q, n, key)
  BY <1>14, PutFacts DEF m3
<1>16. World(m3, R3 \ {n}) /\ Keeps(p.mem, m3) /\ HandleOK(m3, p.self)
  BY <1>10, <1>15 DEF HasPut, HoldsBut
<1>17. Keeps(mem, m3)
  BY <1>5, <1>10, <1>16, KeepsOn
<1>18. Sound(m3, [vars EXCEPT ![x] = p.self])
  <2>1. Own(p.self) = {} /\ Still(m3, p.self)
    BY <1>10, <1>16 DEF Own, Still
  <2>2. World(m3, (OwnedBy(vars) \ Own(vars[x])) \cup Own(p.self))
    <3>1. (R \ Own(h)) \cup {} = R \ Own(h)
      OBVIOUS
    <3> QED
      BY <1>11, <1>16, <2>1, <3>1
  <2>3. Own(p.self) \cap (OwnedBy(vars) \ Own(vars[x])) = {} /\ x \in 1 .. Len(vars)
    BY <1>1, <2>1
  <2> QED
    BY <1>1, <1>10, <1>17, <2>1, <2>2, <2>3, SoundExcept
<1>19. Ends(m3, [vars EXCEPT ![x] = p.self])
  BY DEF m3
<1> QED
  BY <1>18, <1>19, EndsFacts

LEMMA PushToOther ==
    ASSUME Inv, NEW x \in DOMAIN vars, Usable(x),
           NEW kind, NEW key, NEW value, CanPush(kind, key, value),
           NEW m, m = Converted(mem, vars[x], kind), m[vars[x].node].kind = kind,
           NEW new, new = NewNode(m, Then(value, vars)),
           Ends(Appended(new.mem, vars[x].node, key, new.node), vars)
    PROVE  Inv'
<1> DEFINE h == vars[x]
           R == OwnedBy(vars)
           v == Then(value, vars)
           n == new.node
           q == h.node
           m3 == Appended(new.mem, q, key, n)
<1>0. kind \in {"object", "array"} /\ value \in AllValues
  BY DEF CanPush
<1>1. /\ Amid(mem, vars, {}) /\ Room(mem, 8) /\ World(mem, R)
      /\ vars \in Seq(HandleType) /\ Apart(vars)
      /\ DOMAIN vars = 1 .. Len(vars)
      /\ h \in HandleType /\ Own(h) \subseteq R /\ HandleOK(mem, h)
      /\ \A y \in DOMAIN vars : /\ vars[y] \in HandleType
                                /\ Own(vars[y]) \subseteq R
                                /\ y \notin stale => HandleOK(mem, vars[y])
  BY InvFacts DEF Usable
<1>2. /\ World(m, R) /\ HandleOK(m, h)
      /\ InUse(m) = InUse(mem) /\ FreeNodes(m) = FreeNodes(mem)
      /\ HoldsBut(mem, m, Own(h))
  BY <1>0, <1>1, ConvertFacts
<1>3. ASSUME NEW y \in 1 .. Len(vars), y \notin stale PROVE HandleOK(m, vars[y])
  <2>1. CASE y = x
    BY <1>2, <2>1
  <2>2. CASE y # x
    <3>1. vars[y] \in HandleType /\ HandleOK(mem, vars[y])
      BY <1>1, <1>3
    <3>2. Own(vars[y]) \cap Own(h) = {}
      BY <1>1, <2>2 DEF Apart, Own
    <3>3. vars[y].node \notin Own(h)
      BY <1>1, <3>1, <3>2, OwnNode
    <3> QED
      BY <1>2, <3>1, <3>3 DEF HoldsBut
  <2> QED
    BY <2>1, <2>2
<1>4. Amid(m, vars, {})
  <2>1. R \cup {} = R
    OBVIOUS
  <2> QED
    BY <1>1, <1>2, <1>3, <2>1 DEF Amid
<1>5. Room(m, 0) /\ Spare(m, 1)
  <2>1. Room(m, 8)
    BY <1>1, <1>2 DEF Room
  <2> QED
    BY <2>1, RoomIsSpare, LessRoom
<1>6. Fit(m, v)
  BY <1>0, <1>4, <1>5, ValueFacts
<1> HIDE DEF v
<1>7. /\ World(new.mem, R \cup {n}) /\ Extends(m, new.mem)
      /\ n \in FreeNodes(m) /\ InUse(m) \subseteq InUse(new.mem)
      /\ Under(new.mem, n) \cap InUse(m) = {}
  <2> DEFINE new2 == NewNode(m, v)
  <2>1. /\ World(new2.mem, R \cup {new2.node}) /\ Extends(m, new2.mem)
        /\ new2.node \in FreeNodes(m)
        /\ InUse(m) \subseteq InUse(new2.mem)
        /\ Under(new2.mem, new2.node) \cap InUse(m) = {}
    BY <1>2, <1>6, NewNodeFacts
  <2>2. new = new2
    BY DEF v
  <2> HIDE DEF new2
  <2> QED
    BY <2>1, <2>2
<1>8. q \in InUse(m) /\ q \in Nodes /\ new.mem[q].kind = kind /\ n \notin R
  <2>1. q \in InUse(m) /\ q \in Nodes
    BY <1>1, <1>2, HandleFacts DEF HandleOK
  <2>2. new.mem[q] = m[q]
    BY <1>7, <2>1 DEF Extends, InUse
  <2>3. n \notin R
    BY <1>2, <1>7, Counts DEF World, Forest
  <2> QED
    BY <2>1, <2>2, <2>3
<1> HIDE DEF m3, n, q
<1> DEFINE R2 == R \cup {n}
<1>9. n \in R2 /\ R2 \ {n} = R /\ World(new.mem, R2)
  BY <1>7, <1>8
<1> HIDE DEF R2
<1>10. CanPut(new.mem, R2, q, n, key)
  BY <1>7, <1>8, <1>9 DEF CanPut, CanPush
<1>11. HasPut(new.mem, m3, R2, q, n, key)
  BY <1>10, PutFacts DEF m3
<1>12. World(m3, R) /\ Keeps(new.mem, m3)
  BY <1>9, <1>11 DEF HasPut
<1>13. Keeps(m, m3)
  BY <1>7, <1>12, ExtendsFacts, KeepsOn
<1>14. Sound(m3, vars)
  BY <1>4, <1>12, <1>13, SoundAgain
<1>15. Ends(m3, vars)
  BY DEF m3, n, q
<1> QED
  BY <1>14, <1>15, EndsFacts

LEMMA PushMemberStep ==
    ASSUME Inv, NEW x \in DOMAIN vars, NEW key \in Keys, NEW value \in AllValues,
           PushMember(x, key, value)
    PROVE  Inv'
<1>1. Usable(x) /\ CanPush("object", key, value)
  BY DEF PushMember, CanPush, Names
<1>2. CASE IsPlaceholder(mem, vars[x])
  <2> DEFINE new == NewNode(mem, Then(value, vars))
             p == Placed(new.mem, vars[x], New("object"))
  <2>1. Ends(Appended(p.mem, p.self.node, key, new.node), [vars EXCEPT ![x] = p.self])
    BY <1>2 DEF PushMember
  <2> HIDE DEF p
  <2>2. p = Placed(new.mem, vars[x], New("object"))
    BY DEF p
  <2> HIDE DEF new
  <2>3. new = NewNode(mem, Then(value, vars))
    BY DEF new
  <2> QED
    BY <1>1, <1>2, <2>1, <2>2, <2>3, PushToPlaceholder
<1>3. CASE ~IsPlaceholder(mem, vars[x])
  <2> DEFINE m == Converted(mem, vars[x], "object")
             new == NewNode(m, Then(value, vars))
  <2>1. /\ m[vars[x].node].kind = "object"
        /\ Ends(Appended(new.mem, vars[x].node, key, new.node), vars)
    BY <1>3 DEF PushMember
  <2> HIDE DEF new
  <2>2. new = NewNode(m, Then(value, vars))
    BY DEF new
  <2> HIDE DEF m
  <2>3. m = Converted(mem, vars[x], "object")
    BY DEF m
  <2> QED
    BY <1>1, <2>1, <2>2, <2>3, PushToOther
<1> QED
  BY <1>2, <1>3

LEMMA PushStep ==
    ASSUME Inv, NEW x \in DOMAIN vars, NEW value \in AllValues, Push(x, value)
    PROVE  Inv'
<1>1. Usable(x) /\ CanPush("array", NoKey, value)
  BY DEF Push, CanPush, Names
<1>2. CASE IsPlaceholder(mem, vars[x])
  <2> DEFINE new == NewNode(mem, Then(value, vars))
             p == Placed(new.mem, vars[x], New("array"))
  <2>1. Ends(Appended(p.mem, p.self.node, NoKey, new.node), [vars EXCEPT ![x] = p.self])
    BY <1>2 DEF Push
  <2> HIDE DEF p
  <2>2. p = Placed(new.mem, vars[x], New("array"))
    BY DEF p
  <2> HIDE DEF new
  <2>3. new = NewNode(mem, Then(value, vars))
    BY DEF new
  <2> QED
    BY <1>1, <1>2, <2>1, <2>2, <2>3, PushToPlaceholder
<1>3. CASE ~IsPlaceholder(mem, vars[x])
  <2> DEFINE m == Converted(mem, vars[x], "array")
             new == NewNode(m, Then(value, vars))
  <2>1. /\ m[vars[x].node].kind = "array"
        /\ Ends(Appended(new.mem, vars[x].node, NoKey, new.node), vars)
    BY <1>3 DEF Push
  <2> HIDE DEF new
  <2>2. new = NewNode(m, Then(value, vars))
    BY DEF new
  <2> HIDE DEF m
  <2>3. m = Converted(mem, vars[x], "array")
    BY DEF m
  <2> QED
    BY <1>1, <2>1, <2>2, <2>3, PushToOther
<1> QED
  BY <1>2, <1>3

LEMMA NextStep ==
    ASSUME Inv, [Next]_state
    PROVE  Inv'
<1>1. CASE Declares
  <2>1. PICK value \in Values \cup {New("object"), New("array")} : Declare(value)
    BY <1>1 DEF Declares
  <2> QED
    BY <2>1, DeclareStep DEF AllValues
<1>2. CASE Leave
  BY <1>2, LeaveStep
<1>3. CASE \E x \in DOMAIN vars : Does(x)
  <2>1. PICK x \in DOMAIN vars : Does(x)
    BY <1>3
  <2>2. CASE \E key \in Keys : Watch(x, key) \/ MoveToMember(x, key)
    BY <2>2, WatchStep, MoveStep
  <2>3. CASE \E i \in Items(x) : WatchItem(x, i) \/ Erase(x, i)
    BY <2>3, WatchItemStep, EraseStep
  <2>4. CASE \E value \in Values :
                \/ Assign(x, value) \/ Push(x, value)
                \/ \E key \in Keys : PushMember(x, key, value)
    <3>1. PICK value \in AllValues :
                \/ Assign(x, value) \/ Push(x, value)
                \/ \E key \in Keys : PushMember(x, key, value)
      BY <2>4 DEF AllValues
    <3> QED
      BY <3>1, AssignStep, PushStep, PushMemberStep
  <2> QED
    BY <2>1, <2>2, <2>3, <2>4 DEF Does
<1>4. CASE \E x \in DOMAIN vars : \E value \in Values : SetsAt(x, value)
  <2>1. PICK x \in DOMAIN vars, value \in AllValues : SetsAt(x, value)
    BY <1>4 DEF AllValues
  <2> QED
    BY <2>1, SetMemberStep, SetDeepStep, SetItemStep DEF SetsAt
<1>5. CASE UNCHANGED state
  <2>1. mem' = mem /\ vars' = vars /\ stale' = stale
    BY <1>5 DEF state
  <2>2. /\ vars \in Seq(HandleType) /\ Apart(vars) /\ World(mem, OwnedBy(vars))
        /\ \A x \in 1 .. Len(vars) : x \in stale \/ HandleOK(mem, vars[x])
        /\ \A n \in Nodes : mem[n].kind # "dead"
        /\ Room(mem, 8)
    BY DEF Inv
  <2>3. /\ vars' \in Seq(HandleType) /\ Apart(vars') /\ World(mem', OwnedBy(vars'))
        /\ \A x \in 1 .. Len(vars') : x \in stale' \/ HandleOK(mem', vars'[x])
        /\ \A n \in Nodes : mem'[n].kind # "dead"
        /\ Room(mem', 8)
    BY <2>1, <2>2
  <2> QED
    BY <2>3 DEF Inv
<1> QED
  BY <1>1, <1>2, <1>3, <1>4, <1>5 DEF Next

\* Between two statements the nodes are trees with one owner each, and the
\* variables are what the Json class takes them for (Json.h:577-627).
THEOREM HeapIsForest == Spec => []Inv
<1>1. Init => Inv
  BY InitStep
<1>2. Inv /\ [Next]_state => Inv'
  BY NextStep
<1> QED
  BY <1>1, <1>2, PTL DEF Spec

\* A variable that does not point to what has died is right about it.
LEMMA InvWatchers == Inv => WatchersTrue
<1> SUFFICES ASSUME Inv, NEW x \in DOMAIN vars \ stale
             PROVE  /\ mem[vars[x].node].kind # "free"
                    /\ ~IsRoot(vars[x]) => mem[vars[x].parent].kind \in {"object", "array"}
                    /\ ~vars[x].allocated =>
                          \E i \in DOMAIN mem[vars[x].parent].items :
                             mem[vars[x].parent].items[i] =
                                [key |-> vars[x].key, node |-> vars[x].node]
  BY DEF WatchersTrue
<1> DEFINE h == vars[x]
<1>1. HeapOK(mem) /\ h \in HandleType /\ HandleOK(mem, h)
  BY InvFacts DEF World
<1> HIDE DEF h
<1>2. mem[h.node].kind # "free" /\ (~IsRoot(h) => mem[h.parent].kind \in {"object", "array"})
  BY <1>1 DEF HandleOK, InUse
<1>3. ASSUME ~h.allocated
      PROVE  \E i \in DOMAIN mem[h.parent].items :
                mem[h.parent].items[i] = [key |-> h.key, node |-> h.node]
  <2>1. WatcherAt(mem, h) /\ h.parent \in Nodes
    BY <1>1, <1>3, HandleFacts DEF HandleOK
  <2>2. DOMAIN mem[h.parent].items = 1 .. Len(mem[h.parent].items)
    BY <1>1, <2>1, NodeOf
  <2> QED
    BY <2>1, <2>2 DEF WatcherAt
<1> QED
  BY <1>2, <1>3 DEF h

Slots == UNION {{<<n, i>> : i \in DOMAIN mem[n].items} : n \in Nodes}
PlacesOf(n) == {s \in Slots : mem[s[1]].items[s[2]].node = n}
OwnersOf(n) == {x \in DOMAIN vars : vars[x].allocated /\ vars[x].node = n}

LEMMA PlaceFacts ==
    ASSUME HeapOK(mem), NEW n
    PROVE  \A s : s \in PlacesOf(n) <=>
              \E k \in Nodes : \E i \in 1 .. Len(mem[k].items) :
                 s = <<k, i>> /\ mem[k].items[i].node = n
<1>1. \A k \in Nodes : DOMAIN mem[k].items = 1 .. Len(mem[k].items)
  BY NodeOf
<1>2. \A s : s \in Slots <=> \E k \in Nodes : \E i \in 1 .. Len(mem[k].items) : s = <<k, i>>
  <2> SUFFICES ASSUME NEW s
               PROVE  s \in Slots <=>
                         \E k \in Nodes : \E i \in 1 .. Len(mem[k].items) : s = <<k, i>>
    OBVIOUS
  <2>1. s \in Slots <=> \E k \in Nodes : s \in {<<k, i>> : i \in DOMAIN mem[k].items}
    BY DEF Slots
  <2> QED
    BY <1>1, <2>1
<1> SUFFICES ASSUME NEW s
             PROVE  s \in PlacesOf(n) <=>
                       \E k \in Nodes : \E i \in 1 .. Len(mem[k].items) :
                          s = <<k, i>> /\ mem[k].items[i].node = n
  OBVIOUS
<1>3. s \in PlacesOf(n) <=> s \in Slots /\ mem[s[1]].items[s[2]].node = n
  BY DEF PlacesOf
<1>4. ASSUME s \in PlacesOf(n)
      PROVE  \E k \in Nodes : \E i \in 1 .. Len(mem[k].items) :
                s = <<k, i>> /\ mem[k].items[i].node = n
  <2>1. PICK k \in Nodes : \E i \in 1 .. Len(mem[k].items) : s = <<k, i>>
    BY <1>2, <1>3, <1>4
  <2>2. PICK i \in 1 .. Len(mem[k].items) : s = <<k, i>>
    BY <2>1
  <2>3. mem[k].items[i].node = n
    BY <1>3, <1>4, <2>2
  <2> QED
    BY <2>2, <2>3
<1>5. ASSUME NEW k \in Nodes, NEW i \in 1 .. Len(mem[k].items),
             s = <<k, i>>, mem[k].items[i].node = n
      PROVE  s \in PlacesOf(n)
  BY <1>2, <1>3, <1>5
<1> QED
  BY <1>4, <1>5

LEMMA OwnersFacts ==
    ASSUME Inv, NEW n
    PROVE  /\ n \in OwnedBy(vars) => \E x \in DOMAIN vars : OwnersOf(n) = {x}
           /\ n \notin OwnedBy(vars) => OwnersOf(n) = {}
<1>1. Apart(vars) /\ DOMAIN vars = 1 .. Len(vars)
  BY InvFacts
<1>2. n \in OwnedBy(vars) <=> \E x \in 1 .. Len(vars) : n \in Own(vars[x])
  BY DEF OwnedBy
<1>3. \A x \in DOMAIN vars : n \in Own(vars[x]) <=> x \in OwnersOf(n)
  BY DEF Own, OwnersOf
<1>4. \A x, y \in OwnersOf(n) : x = y
  BY <1>1 DEF Apart, OwnersOf
<1>5. OwnersOf(n) \subseteq DOMAIN vars
  BY DEF OwnersOf
<1>6. ASSUME n \in OwnedBy(vars) PROVE \E x \in DOMAIN vars : OwnersOf(n) = {x}
  <2>1. PICK x \in DOMAIN vars : x \in OwnersOf(n)
    BY <1>1, <1>2, <1>3, <1>6
  <2>2. OwnersOf(n) = {x}
    BY <1>4, <2>1
  <2> QED
    BY <2>1, <2>2
<1>7. ASSUME n \notin OwnedBy(vars) PROVE OwnersOf(n) = {}
  BY <1>1, <1>2, <1>3, <1>5, <1>7
<1> QED
  BY <1>6, <1>7

LEMMA OneOwner ==
    ASSUME Inv, NEW n \in Nodes
    PROVE  Cardinality(PlacesOf(n)) + Cardinality(OwnersOf(n))
              = IF n \in InUse(mem) THEN 1 ELSE 0
<1> DEFINE R == OwnedBy(vars)
<1>1. HeapOK(mem) /\ Forest(mem, R)
  BY InvFacts DEF World
<1>2. /\ n \in R => \E x \in DOMAIN vars : OwnersOf(n) = {x}
      /\ n \notin R => OwnersOf(n) = {}
  BY OwnersFacts
<1> HIDE DEF R
<1>3. \A s : s \in PlacesOf(n) <=>
         \E k \in Nodes : \E i \in 1 .. Len(mem[k].items) :
            s = <<k, i>> /\ mem[k].items[i].node = n
  BY <1>1, PlaceFacts
<1>4. ASSUME n \in InUse(mem) \ R PROVE \E s : PlacesOf(n) = {s}
  <2>1. PICK k \in Nodes : Has(mem, k, n)
    BY <1>1, <1>4 DEF Forest
  <2>2. PICK i \in 1 .. Len(mem[k].items) : mem[k].items[i].node = n
    BY <2>1 DEF Has
  <2>3. <<k, i>> \in PlacesOf(n)
    BY <1>3, <2>2
  <2>4. ASSUME NEW s \in PlacesOf(n) PROVE s = <<k, i>>
    <3>0. PICK l \in Nodes : \E j \in 1 .. Len(mem[l].items) :
             s = <<l, j>> /\ mem[l].items[j].node = n
      BY <1>3, <2>4
    <3>1. PICK j \in 1 .. Len(mem[l].items) : s = <<l, j>> /\ mem[l].items[j].node = n
      BY <3>0
    <3>2. l = k /\ j = i
      BY <1>1, <2>2, <3>1 DEF Forest
    <3> QED
      BY <3>1, <3>2
  <2> QED
    BY <2>3, <2>4
<1>5. ASSUME n \notin InUse(mem) \ R PROVE PlacesOf(n) = {}
  <2> SUFFICES ASSUME NEW s \in PlacesOf(n) PROVE FALSE
    OBVIOUS
  <2>1. PICK k \in Nodes : \E i \in 1 .. Len(mem[k].items) : mem[k].items[i].node = n
    BY <1>3
  <2>2. Has(mem, k, n)
    BY <2>1 DEF Has
  <2> QED
    BY <1>1, <1>5, <2>2 DEF Forest
<1>6. R \subseteq InUse(mem)
  BY <1>1 DEF Forest
<1>7. CASE n \in InUse(mem) \ R
  <2>1. PICK s : PlacesOf(n) = {s}
    BY <1>4, <1>7
  <2>2. Cardinality(PlacesOf(n)) = 1 /\ Cardinality(OwnersOf(n)) = 0
    BY <1>2, <1>7, <2>1, FS_Singleton, FS_EmptySet
  <2> QED
    BY <1>7, <2>2
<1>8. CASE n \in R
  <2>1. PICK x \in DOMAIN vars : OwnersOf(n) = {x}
    BY <1>2, <1>8
  <2>2. Cardinality(PlacesOf(n)) = 0 /\ Cardinality(OwnersOf(n)) = 1
    BY <1>5, <1>8, <2>1, FS_Singleton, FS_EmptySet
  <2> QED
    BY <1>6, <1>8, <2>2
<1>9. CASE n \notin InUse(mem)
  <2>1. Cardinality(PlacesOf(n)) = 0 /\ Cardinality(OwnersOf(n)) = 0
    BY <1>2, <1>5, <1>6, <1>9, FS_EmptySet
  <2> QED
    BY <1>9, <2>1
<1> QED
  BY <1>7, <1>8, <1>9

LEMMA InOwnedTree ==
    ASSUME Inv, NEW n \in InUse(mem)
    PROVE  \E x \in DOMAIN vars : vars[x].allocated /\ n \in Under(mem, vars[x].node)
<1> DEFINE R == OwnedBy(vars)
           S == {k \in InUse(mem) : n \in Under(mem, k)}
<1>1. /\ HeapOK(mem) /\ Forest(mem, R) /\ NoCircle(mem)
      /\ DOMAIN vars = 1 .. Len(vars)
  BY InvFacts DEF World
<1>2. Closed(mem, InUse(mem)) /\ InUse(mem) \subseteq Nodes
  BY <1>1, ForestClosed, Counts
<1>3. n \in S
  BY <1>1, <1>2, UnderFacts
<1>4. PICK l \in S : \A k \in S : ~Has(mem, k, l)
  <2>1. S \in SUBSET InUse(mem) /\ S # {}
    BY <1>3
  <2> HIDE DEF S
  <2> QED
    BY <1>1, <2>1 DEF NoCircle
<1>5. l \in R
  <2> SUFFICES ASSUME l \notin R PROVE FALSE
    OBVIOUS
  <2>1. l \in InUse(mem) /\ n \in Under(mem, l)
    OBVIOUS
  <2>2. PICK k \in Nodes : Has(mem, k, l)
    BY <1>1, <2>1 DEF Forest
  <2>3. k \in InUse(mem)
    <3>1. Len(mem[k].items) # 0
      BY <1>1, <2>2, NodeOf DEF Has
    <3> QED
      BY <1>1, <3>1 DEF HeapOK, InUse
  <2>4. Under(mem, k) \subseteq InUse(mem) /\ k \in Under(mem, k) /\ Closed(mem, Under(mem, k))
    BY <1>1, <1>2, <2>3, UnderFacts
  <2>5. l \in Under(mem, k)
    BY <1>2, <2>1, <2>2, <2>4 DEF Closed
  <2>6. Under(mem, l) \subseteq Under(mem, k)
    BY <1>1, <1>2, <2>1, <2>4, <2>5, UnderFacts
  <2>7. k \in S
    BY <2>1, <2>3, <2>6
  <2> QED
    BY <1>4, <2>2, <2>7
<1>6. PICK x \in 1 .. Len(vars) : l \in Own(vars[x])
  BY <1>5 DEF OwnedBy
<1>7. vars[x].allocated /\ vars[x].node = l
  BY <1>6 DEF Own
<1> QED
  BY <1>1, <1>4, <1>7

LEMMA InvOwnedOnce == Inv => OwnedOnce
<1> SUFFICES ASSUME Inv PROVE OwnedOnce
  OBVIOUS
<1>1. \A n \in Nodes : Cardinality(PlacesOf(n)) + Cardinality(OwnersOf(n))
                          = IF n \in InUse(mem) THEN 1 ELSE 0
  BY OneOwner
<1>2. \A n \in InUse(mem) : \E x \in DOMAIN vars :
         vars[x].allocated /\ n \in Under(mem, vars[x].node)
  BY InOwnedTree
<1>3. \A n \in Nodes :
         Cardinality({s \in UNION {{<<k, i>> : i \in DOMAIN mem[k].items} : k \in Nodes} :
                         mem[s[1]].items[s[2]].node = n})
           + Cardinality({x \in DOMAIN vars : vars[x].allocated /\ vars[x].node = n})
         = IF n \in InUse(mem) THEN 1 ELSE 0
  BY <1>1, Zenon DEF PlacesOf, OwnersOf, Slots
<1> QED
  BY <1>2, <1>3, Zenon DEF OwnedOnce

\* Every node in use has exactly one owner, a place in a tree or a variable, and
\* is in the tree of a variable that owns one; what is not in use has no owner
\* (Json.cc:67-114, Json.h:579-585).
THEOREM NodesOwnedOnce == Spec => []OwnedOnce
<1>1. Inv => OwnedOnce
  BY InvOwnedOnce
<1> QED
  BY <1>1, HeapIsForest, PTL

\* A variable under which nothing has died points to what its parent has under
\* its name (Json.cc:158-176).
THEOREM WatchersStayTrue == Spec => []WatchersTrue
<1>1. Inv => WatchersTrue
  BY InvWatchers
<1> QED
  BY <1>1, HeapIsForest, PTL

-----------------------------------------------------------------------------
(* What is in new nodes.                                                    *)

\* What the value was is at n, in nodes that were free.
Made(m, m2, value, n) ==
    LET nodes == NodesOf(m, value)
    IN  \E image \in [DOMAIN nodes -> FreeNodes(m)] :
           /\ image[Top(value)] = n
           /\ \A k \in DOMAIN nodes : m2[image[k]] = Renamed(nodes[k], image)

LEMMA NodesOfFacts ==
    ASSUME NEW m, NEW R, World(m, R), NEW value, Fit(m, value)
    PROVE  /\ Top(value) \in DOMAIN NodesOf(m, value)
           /\ \A k \in DOMAIN NodesOf(m, value) :
                 NodesOf(m, value)[k].kind \notin {"free", "dead"}
           /\ IsCopy(value) => NodesOf(m, value) = [k \in Under(m, value.of) |-> m[k]]
           /\ ~IsCopy(value) => NodesOf(m, value) = [k \in {Top(value)} |-> Leaf(value.kind)]
<1>1. CASE IsCopy(value)
  <2>1. HeapOK(m) /\ Closed(m, InUse(m)) /\ value.of \in InUse(m)
    BY <1>1, ForestClosed DEF World, Fit
  <2>2. Under(m, value.of) \subseteq InUse(m) /\ value.of \in Under(m, value.of)
    BY <2>1, UnderFacts
  <2> QED
    BY <1>1, <2>2 DEF NodesOf, Top, InUse
<1>2. CASE ~IsCopy(value)
  BY <1>2 DEF NodesOf, Top, Fit, Leaf
<1> QED
  BY <1>1, <1>2

LEMMA EmptyRenamed ==
    ASSUME NEW kind, NEW image
    PROVE  Renamed(Leaf(kind), image) = Leaf(kind)
<1>1. DOMAIN Leaf(kind).items = {}
  BY DEF Leaf
<1> QED
  BY <1>1 DEF Renamed, Leaf

LEMMA CopyMade ==
    ASSUME NEW m, NEW R, World(m, R), NEW value, Fit(m, value), IsCopy(value)
    PROVE  Made(m, NewNode(m, value).mem, value, NewNode(m, value).node)
<1> DEFINE n == value.of
           tree == Under(m, n)
           free == FreeNodes(m)
           image == Image(tree, free)
<1>1. json_value_copy(m, n) = [mem |-> Copied(m, image), node |-> image[n]]
  BY CopyIs
<1>2. image \in [tree -> free] /\ \A k, l \in tree : image[k] = image[l] => k = l
  <2>1. HeapOK(m) /\ Closed(m, InUse(m)) /\ n \in InUse(m) /\ Room(m, 0)
    BY ForestClosed DEF World, Fit
  <2>2. tree \subseteq InUse(m)
    BY <2>1, UnderFacts
  <2>3. /\ IsFiniteSet(InUse(m)) /\ free \subseteq Nodes
        /\ Cardinality(InUse(m)) \in Nat /\ Cardinality(free) \in Nat
    BY Counts
  <2>4. /\ IsFiniteSet(tree) /\ Cardinality(tree) \in Nat
        /\ Cardinality(tree) <= Cardinality(InUse(m))
    BY <2>2, <2>3, FS_Subset, FS_CardinalityType
  <2>5. Cardinality(tree) <= Cardinality(free)
    BY <2>1, <2>3, <2>4 DEF Room
  <2> QED
    BY <2>3, <2>4, <2>5, ImageFacts
<1>3. DOMAIN NodesOf(m, value) = tree /\ \A k \in tree : NodesOf(m, value)[k] = m[k]
  BY DEF NodesOf
<1>4. free \subseteq Nodes
  BY Counts
<1>5. NewNode(m, value).mem = Copied(m, image) /\ NewNode(m, value).node = image[Top(value)]
  BY <1>1 DEF NewNode, Top
<1> HIDE DEF image, tree, free
<1>6. ASSUME NEW k \in tree
      PROVE  Copied(m, image)[image[k]] = Renamed(m[k], image)
  <2> DEFINE l == CHOOSE l \in DOMAIN image : image[l] = image[k]
  <2>1. DOMAIN image = tree /\ image[k] \in Nodes
    BY <1>2, <1>4
  <2>2. l \in tree /\ image[l] = image[k]
    BY <2>1
  <2>3. l = k
    BY <1>2, <2>2
  <2>4. Copied(m, image)[image[k]] = Renamed(m[l], image)
    BY <2>1 DEF Copied, Renamed
  <2> QED
    BY <2>3, <2>4
<1> QED
  BY <1>2, <1>3, <1>5, <1>6 DEF Made, free

LEMMA NewMade ==
    ASSUME NEW m, NEW R, World(m, R), NEW value, Fit(m, value)
    PROVE  Made(m, NewNode(m, value).mem, value, NewNode(m, value).node)
<1>1. CASE IsCopy(value)
  BY <1>1, CopyMade
<1>2. CASE ~IsCopy(value)
  <2> DEFINE n == NewNode(m, value).node
             top == Top(value)
             image == [k \in {top} |-> n]
             nodes == NodesOf(m, value)
  <2>1. n \in FreeNodes(m) /\ NewNode(m, value).mem[n] = Leaf(value.kind)
    BY <1>2, NewNodeFacts
  <2>2. DOMAIN nodes = {top} /\ nodes[top] = Leaf(value.kind)
    BY <1>2 DEF NodesOf, Top
  <2> HIDE DEF n, nodes, top
  <2>3. image \in [DOMAIN nodes -> FreeNodes(m)] /\ image[top] = n
    BY <2>1, <2>2
  <2>4. Renamed(nodes[top], image) = Leaf(value.kind)
    BY <2>2, EmptyRenamed
  <2> HIDE DEF image
  <2>5. \A k \in DOMAIN nodes : NewNode(m, value).mem[image[k]] = Renamed(nodes[k], image)
    BY <2>1, <2>2, <2>3, <2>4
  <2> QED
    BY <2>3, <2>5 DEF Made, nodes, n, top
<1> QED
  BY <1>1, <1>2

\* It is the value as long as nothing happens to the new nodes.
LEMMA MadeKept ==
    ASSUME NEW m, NEW R, World(m, R), NEW value, Fit(m, value),
           NEW m2, NEW n, Made(m, m2, value, n),
           NEW m3, \A k \in FreeNodes(m) \cap InUse(m2) : m3[k] = m2[k]
    PROVE  /\ Made(m, m3, value, n) /\ n \in FreeNodes(m) \cap InUse(m2)
           /\ Alike(m3, NodesOf(m, value), Top(value), n)
<1> DEFINE nodes == NodesOf(m, value)
           top == Top(value)
<1>1. top \in DOMAIN nodes /\ \A k \in DOMAIN nodes : nodes[k].kind \notin {"free", "dead"}
  BY NodesOfFacts
<1> HIDE DEF nodes, top
<1>2. PICK image \in [DOMAIN nodes -> FreeNodes(m)] :
         /\ image[top] = n
         /\ \A k \in DOMAIN nodes : m2[image[k]] = Renamed(nodes[k], image)
  BY DEF Made, nodes, top
<1>3. FreeNodes(m) \subseteq Nodes
  BY Counts
<1>4. ASSUME NEW k \in DOMAIN nodes
      PROVE  /\ image[k] \in FreeNodes(m) /\ image[k] \in InUse(m2) /\ image[k] \in InUse(m3)
             /\ m3[image[k]] = Renamed(nodes[k], image)
  <2>1. image[k] \in FreeNodes(m) /\ image[k] \in Nodes
    BY <1>2, <1>3
  <2>2. Renamed(nodes[k], image).kind = nodes[k].kind
    BY DEF Renamed
  <2>3. m2[image[k]].kind \notin {"free", "dead"}
    BY <1>1, <1>2, <2>2
  <2>4. image[k] \in InUse(m2)
    BY <2>1, <2>3 DEF InUse
  <2>5. m3[image[k]] = m2[image[k]]
    BY <2>1, <2>4
  <2> QED
    BY <1>2, <2>1, <2>3, <2>4, <2>5 DEF InUse
<1>5. image \in [DOMAIN nodes -> InUse(m3)]
  BY <1>2, <1>4
<1>6. Made(m, m3, value, n)
  BY <1>2, <1>4 DEF Made, nodes, top
<1>7. Alike(m3, nodes, top, n)
  BY <1>2, <1>4, <1>5 DEF Alike
<1> QED
  BY <1>1, <1>2, <1>4, <1>6, <1>7 DEF nodes, top

-----------------------------------------------------------------------------
(* What a handle owns that is no root is a null in no tree.                  *)

\* A tree is the same in two memories that differ elsewhere.
LEMMA UnderEqual ==
    ASSUME NEW m, NEW R, World(m, R), NEW n \in InUse(m), NEW m2, NEW R2, World(m2, R2),
           NEW S, SameBut(m, m2, S), Under(m, n) \cap S = {}, InUse(m2) \cap S = {}
    PROVE  Under(m2, n) = Under(m, n)
<1>1. /\ HeapOK(m) /\ Closed(m, InUse(m)) /\ HeapOK(m2) /\ Closed(m2, InUse(m2))
      /\ InUse(m) \subseteq Nodes /\ InUse(m2) \subseteq Nodes
  BY ForestClosed, Counts DEF World
<1>2. n \in Under(m, n) /\ Under(m, n) \subseteq InUse(m)
  BY <1>1, UnderFacts
<1>3. n \in InUse(m2)
  BY <1>1, <1>2 DEF SameBut, InUse
<1>4. Under(m2, n) \subseteq Under(m, n)
  BY UnderSame
<1>5. Under(m2, n) \cap S = {}
  BY <1>1, <1>3, UnderFacts
<1>6. SameBut(m2, m, S)
  BY DEF SameBut
<1>7. Under(m, n) \subseteq Under(m2, n)
  BY <1>3, <1>5, <1>6, UnderSame
<1> QED
  BY <1>4, <1>7

\* What a handle owns is in no tree but its own.
LEMMA OwnNotUnder ==
    ASSUME NEW m, NEW R, World(m, R), NEW n \in InUse(m), NEW o \in R, o # n
    PROVE  o \notin Under(m, n)
<1>1. HeapOK(m) /\ Closed(m, InUse(m)) /\ InUse(m) \subseteq Nodes
  BY ForestClosed, Counts DEF World
<1>2. Under(m, n) \subseteq Nodes
  BY <1>1, UnderFacts
<1> SUFFICES ASSUME o \in Under(m, n) PROVE FALSE
  OBVIOUS
<1>3. PICK k \in Under(m, n) : Has(m, k, o)
  BY <1>1, UnderFacts
<1> QED
  BY <1>2, <1>3 DEF World, Forest

\* The null of a placeholder is no part of a value.
LEMMA NodesAfterDestroy ==
    ASSUME NEW m, NEW R, World(m, R), NEW h \in HandleType, HandleOK(m, h), ~IsRoot(h),
           Own(h) \subseteq R,
           NEW value, Fit(m, value), IsCopy(value) => value.of \notin Own(h),
           NEW m1, m1 = destroy_node(m, h)
    PROVE  NodesOf(m1, value) = NodesOf(m, value)
<1>1. CASE ~IsCopy(value)
  BY <1>1 DEF NodesOf
<1>2. CASE IsCopy(value)
  <2> DEFINE n == value.of
  <2>1. n \in InUse(m) /\ n \notin Own(h)
    BY <1>2 DEF Fit
  <2>2. /\ World(m1, R \ Own(h)) /\ InUse(m1) = InUse(m) \ Own(h)
        /\ SameBut(m, m1, Own(h))
    BY DropFacts, DestroyNull
  <2>3. Under(m, n) \cap Own(h) = {}
    BY <2>1, OwnNotUnder DEF Own
  <2>4. InUse(m1) \cap Own(h) = {}
    BY <2>2
  <2> HIDE DEF n
  <2>5. Under(m1, n) = Under(m, n)
    BY <2>1, <2>2, <2>3, <2>4, UnderEqual
  <2>6. Under(m, n) \subseteq Nodes
    BY <2>1, UnderFacts, ForestClosed, Counts DEF World
  <2>7. \A k \in Under(m, n) : m1[k] = m[k]
    BY <2>2, <2>3, <2>6 DEF SameBut
  <2>8. [k \in Under(m1, n) |-> m1[k]] = [k \in Under(m, n) |-> m[k]]
    BY <2>5, <2>7
  <2> QED
    BY <1>2, <2>8 DEF NodesOf, n
<1> QED
  BY <1>1, <1>2

\* What the two ways to write do to the owner of the place.
HasAppended(m, m2, p, key, n) ==
    m2[p] = [m[p] EXCEPT !.items = Append(@, [key |-> key, node |-> n])]

HasReplaced(m, m2, p, i, n) == m2[p] = [m[p] EXCEPT !.items[i].node = n]

\* No node that holds one is under it.
LEMMA HolderNotUnder ==
    ASSUME NEW m, NEW R, World(m, R), NEW p \in Nodes, NEW n \in Nodes, Has(m, p, n)
    PROVE  p \notin Under(m, n)
<1>1. /\ HeapOK(m) /\ Closed(m, InUse(m)) /\ InUse(m) \subseteq Nodes
      /\ n \in InUse(m)
  BY ForestClosed, Counts DEF World, Forest
<1> DEFINE S == Under(m, n)
<1>2. /\ S \in SUBSET InUse(m) /\ n \in S
      /\ \A k \in S : k = n \/ \E q \in S : Has(m, q, k)
  BY <1>1, UnderFacts
<1> HIDE DEF S
<1>3. PICK k \in S : \A q \in S : ~Has(m, q, k)
  BY <1>2 DEF World, NoCircle
<1>4. k = n
  BY <1>2, <1>3
<1> QED
  BY <1>3, <1>4 DEF S

\* A placeholder has got the value, behind the members that were there.
LEMMA PlacedMade ==
    ASSUME NEW m, NEW R, World(m, R), NEW h \in HandleType, HandleOK(m, h), ~IsRoot(h),
           Own(h) \subseteq R, m[h.parent].kind = "object",
           NEW value, Fit(m, value), IsCopy(value) => value.of \notin Own(h),
           NEW placed, placed = Placed(m, h, value)
    PROVE  /\ Made(m, placed.mem, value, placed.self.node)
           /\ placed.self = Watcher(placed.self.node, h.parent, h.key)
           /\ HasAppended(m, placed.mem, h.parent, h.key, placed.self.node)
           /\ \A q \in Nodes : Has(m, q, h.parent) => placed.mem[q] = m[q]
<1> DEFINE m1 == destroy_node(m, h)
           new == NewNode(m1, value)
           m2 == new.mem
           n == new.node
           p == h.parent
           m3 == Appended(m2, p, h.key, n)
<1>1. /\ World(m1, R \ Own(h)) /\ InUse(m1) = InUse(m) \ Own(h)
      /\ FreeNodes(m1) = FreeNodes(m) /\ (\A r \in Int : Room(m, r) => Room(m1, r))
      /\ SameBut(m, m1, Own(h))
  BY DropFacts, DestroyNull
<1>2. NodesOf(m1, value) = NodesOf(m, value)
  BY NodesAfterDestroy
<1>3. placed = [mem |-> m3, self |-> Watcher(n, p, h.key)]
  BY DEF Placed
<1> HIDE DEF m1
<1>4. p \in Nodes /\ p \in InUse(m) /\ p \notin Own(h) /\ p \in InUse(m1) /\ m1[p] = m[p]
  <2>1. p \in Nodes
    BY HandleFacts
  <2>2. h.allocated => m[h.node].kind = "null"
    BY DEF HandleOK, IsNull
  <2>3. p \in InUse(m) /\ p \notin Own(h)
    BY <2>1, <2>2 DEF InUse, Own
  <2> QED
    BY <1>1, <2>1, <2>3 DEF SameBut
<1>5. Fit(m1, value)
  BY <1>1 DEF Fit, Spare
<1>6. Extends(m1, m2) /\ World(m2, (R \ Own(h)) \cup {n})
  BY <1>1, <1>5, NewNodeFacts
<1>7. Made(m1, m2, value, n)
  BY <1>1, <1>5, NewMade
<1>8. Made(m, m2, value, n)
  BY <1>1, <1>2, <1>7 DEF Made
<1> HIDE DEF new, m2, n, p
<1>9. m2 \in [Nodes -> NodeType] /\ m2[p] = m[p]
  BY <1>4, <1>6 DEF World, HeapOK, Extends, InUse
<1>10. /\ m3[p] = [m2[p] EXCEPT !.items = Append(@, [key |-> h.key, node |-> n])]
       /\ \A k \in Nodes : k # p => m3[k] = m2[k]
  BY <1>4, <1>9 DEF Appended
<1>11. \A k \in FreeNodes(m) \cap InUse(m2) : m3[k] = m2[k]
  BY <1>4, <1>10, Counts
<1> HIDE DEF m3
<1>12. Made(m, m3, value, n)
  BY <1>8, <1>11, MadeKept
<1>13. Watcher(n, p, h.key).node = n
  BY DEF Watcher
<1>14. ASSUME NEW q \in Nodes, Has(m, q, p) PROVE m3[q] = m[q]
  <2>1. q # p
    <3>1. p \in Under(m, p)
      BY <1>4, UnderFacts, ForestClosed DEF World
    <3> QED
      BY <1>4, <1>14, <3>1, HolderNotUnder
  <2>2. m[q].kind \in {"object", "array"}
    BY <1>14 DEF World, HeapOK, Has
  <2>3. q \in InUse(m) /\ q \notin Own(h)
    BY <2>2 DEF InUse, Own, HandleOK, IsNull
  <2>4. m1[q] = m[q] /\ q \in InUse(m1)
    BY <1>1, <2>3 DEF SameBut
  <2> QED
    BY <1>6, <1>10, <2>1, <2>4 DEF Extends, InUse
<1> QED
  BY <1>3, <1>9, <1>10, <1>12, <1>13, <1>14 DEF p, HasAppended

\* A place has got the new value; what has the owner of the place is as it was.
LEMMA ReplacedMade ==
    ASSUME NEW m, NEW R, World(m, R), NEW p \in InUse(m), NEW i \in 1 .. Len(m[p].items),
           NEW value, Fit(m, value), NEW m2, m2 = Replaced(m, p, i, value)
    PROVE  \E n \in FreeNodes(m) :
              /\ Made(m, m2, value, n)
              /\ HasReplaced(m, m2, p, i, n)
              /\ \A q \in Nodes : Has(m, q, p) => m2[q] = m[q]
<1> DEFINE new == NewNode(m, value)
           m1 == new.mem
           n == new.node
           old == m[p].items[i].node
           swapped == Swapped(m1, p, i, n)
           roots == R \cup {n}
           R2 == (roots \ {n}) \cup {old}
<1>1. /\ World(m1, roots) /\ Extends(m, m1)
      /\ n \in FreeNodes(m) /\ n \in InUse(m1)
      /\ InUse(m) \subseteq InUse(m1)
      /\ Under(m1, n) \cap InUse(m) = {}
  BY NewNodeFacts
<1>2. /\ HeapOK(m) /\ Forest(m, R) /\ p \in Nodes /\ R \subseteq InUse(m)
      /\ Closed(m, InUse(m))
  BY Counts, ForestClosed DEF World, Forest
<1>3. Made(m, m1, value, n)
  BY NewMade
<1> HIDE DEF new
<1>4. m1[p] = m[p] /\ p \notin Under(m1, n)
  BY <1>1, <1>2 DEF Extends, InUse
<1>5. old \in Nodes /\ Has(m, p, old) /\ old \in InUse(m)
  <2>1. old \in Nodes /\ Has(m, p, old)
    BY <1>2, NodeOf
  <2> QED
    BY <1>2, <2>1 DEF Forest
<1>6. m2 = json_value_destroy(swapped, old) /\ n \in roots /\ old \in R2
  BY DEF Replaced, Swapped, new
<1> HIDE DEF m1, n, roots
<1>7. World(swapped, R2)
  <2>1. IsAt(m1, p, i, old)
    BY <1>4 DEF IsAt
  <2> HIDE DEF swapped, old
  <2>2. swapped = Swapped(m1, p, i, n)
    BY DEF swapped
  <2> QED
    BY <1>1, <1>2, <1>4, <1>6, <2>1, <2>2, SwapFacts, Zenon
<1>8. m1 \in [Nodes -> NodeType]
  BY <1>1 DEF World, HeapOK
<1>9. /\ swapped[p] = [m[p] EXCEPT !.items[i].node = n]
      /\ \A k \in Nodes : k # p => swapped[k] = m1[k]
      /\ \A k \in Nodes : swapped[k].kind = m1[k].kind
  BY <1>2, <1>4, <1>8 DEF Swapped, NodeType
<1> HIDE DEF swapped, old, R2
<1>10. InUse(swapped) = InUse(m1)
  BY <1>9 DEF InUse
<1> DEFINE S == Under(m, old)
<1>11. S \subseteq InUse(m) /\ old \in S /\ Closed(m, S)
  BY <1>2, <1>5, UnderFacts
<1>12. p \notin S
  BY <1>2, <1>5, HolderNotUnder
<1> HIDE DEF S
<1>13. Closed(swapped, S)
  <2> SUFFICES ASSUME NEW k \in S, NEW l \in Nodes, Has(swapped, k, l) PROVE l \in S
    BY DEF Closed
  <2>1. swapped[k] = m[k]
    BY <1>1, <1>9, <1>11, <1>12 DEF Extends, InUse
  <2>2. Has(m, k, l)
    BY <2>1 DEF Has
  <2> QED
    BY <1>11, <2>2 DEF Closed
<1>14. Under(swapped, old) \subseteq S
  <2>1. HeapOK(swapped) /\ Closed(swapped, InUse(swapped))
    BY <1>7, ForestClosed DEF World
  <2> QED
    BY <1>1, <1>5, <1>10, <1>11, <1>13, <2>1, UnderFacts
<1>15. SameBut(swapped, m2, S)
  <2>1. SameBut(swapped, m2, Under(swapped, old))
    BY <1>6, <1>7, DestroyFacts
  <2> QED
    BY <1>14, <2>1 DEF SameBut
<1>16. \A k \in FreeNodes(m) \cap InUse(m1) : m2[k] = m1[k]
  BY <1>2, <1>9, <1>11, <1>15, Counts DEF SameBut
<1>17. Made(m, m2, value, n)
  BY <1>3, <1>16, MadeKept
<1>18. m2[p] = [m[p] EXCEPT !.items[i].node = n]
  BY <1>2, <1>9, <1>12, <1>15 DEF SameBut
<1>19. ASSUME NEW q \in Nodes, Has(m, q, p) PROVE m2[q] = m[q]
  <2>1. q # p
    <3>1. p \in Under(m, p)
      BY <1>2, UnderFacts
    <3> QED
      BY <1>2, <1>19, <3>1, HolderNotUnder
  <2>2. q \notin S
    BY <1>2, <1>11, <1>12, <1>19 DEF Closed
  <2>3. q \in InUse(m)
    BY <1>2, <1>19 DEF InUse, HeapOK, Has
  <2>4. m1[q] = m[q]
    BY <1>1, <2>3 DEF Extends, InUse
  <2> QED
    BY <1>9, <1>15, <2>1, <2>2, <2>4 DEF SameBut
<1> QED
  BY <1>1, <1>17, <1>18, <1>19 DEF n, HasReplaced

-----------------------------------------------------------------------------
(* Names.                                                                   *)

\* The first with the name is found.
LEMMA FindsFirst ==
    ASSUME NEW m, HeapOK(m), NEW n \in Nodes, NEW key,
           NEW i \in 1 .. Len(m[n].items), m[n].items[i].key = key,
           \A j \in 1 .. Len(m[n].items) : j < i => m[n].items[j].key # key
    PROVE  json_object_find(m, n, key) = i
<1> DEFINE named == {j \in DOMAIN m[n].items : m[n].items[j].key = key}
<1>1. DOMAIN m[n].items = 1 .. Len(m[n].items) /\ Len(m[n].items) \in Nat
  BY NodeOf
<1>2. i \in named /\ named \subseteq Nat /\ \A j \in named : i <= j
  BY <1>1
<1>3. json_object_find(m, n, key) = Min(named)
  BY <1>2 DEF json_object_find
<1> HIDE DEF named
<1>4. Min(named) \in named /\ \A j \in named : Min(named) <= j
  BY <1>2 DEF Min
<1>5. Min(named) = i
  BY <1>2, <1>4
<1> QED
  BY <1>3, <1>5

\* The same names are found at the same positions.
LEMMA FindSame ==
    ASSUME NEW m, NEW m2, NEW n, NEW key,
           DOMAIN m2[n].items = DOMAIN m[n].items,
           \A i \in DOMAIN m[n].items : m2[n].items[i].key = m[n].items[i].key
    PROVE  json_object_find(m2, n, key) = json_object_find(m, n, key)
<1>1. {i \in DOMAIN m2[n].items : m2[n].items[i].key = key}
         = {i \in DOMAIN m[n].items : m[n].items[i].key = key}
  OBVIOUS
<1> QED
  BY <1>1 DEF json_object_find

\* A name that is new is found where it was appended.
LEMMA AppendedReads ==
    ASSUME NEW m, HeapOK(m), NEW m2, HeapOK(m2), NEW p \in Nodes, NEW key, NEW n,
           m[p].kind = "object", json_object_find(m, p, key) = 0,
           HasAppended(m, m2, p, key, n)
    PROVE  n \in Reads(m2, p, key)
<1> DEFINE old == m[p].items
           item == [key |-> key, node |-> n]
           last == Len(old) + 1
<1>1. old \in Seq(ItemType) /\ Len(old) \in Nat /\ m[p] \in NodeType
  BY NodeOf
<1>2. m2[p].items = Append(old, item) /\ m2[p].kind = "object"
  BY <1>1 DEF NodeType, HasAppended
<1>3. /\ Len(m2[p].items) = last /\ m2[p].items[last] = item
      /\ \A j \in 1 .. Len(old) : m2[p].items[j] = old[j]
      /\ DOMAIN m2[p].items = 1 .. last
  BY <1>1, <1>2
<1>4. \A j \in 1 .. Len(old) : old[j].key # key
  BY FindFacts
<1>5. \A j \in 1 .. Len(m2[p].items) : j < last => m2[p].items[j].key # key
  BY <1>1, <1>3, <1>4
<1>6. last \in 1 .. Len(m2[p].items) /\ m2[p].items[last].key = key
  BY <1>1, <1>3
<1> HIDE DEF last
<1>7. json_object_find(m2, p, key) = last
  BY <1>5, <1>6, FindsFirst
<1>8. m2[p].items[last].node = n
  BY <1>3
<1> QED
  BY <1>2, <1>3, <1>6, <1>7, <1>8 DEF Reads

\* A name is found where it was.
LEMMA ReplacedReads ==
    ASSUME NEW m, HeapOK(m), NEW m2, NEW p \in Nodes, NEW at, NEW n,
           NEW i \in 1 .. Len(m[p].items),
           i = IF m[p].kind = "object" THEN json_object_find(m, p, at) ELSE at,
           HasReplaced(m, m2, p, i, n)
    PROVE  n \in Reads(m2, p, at)
<1> DEFINE old == m[p].items
<1>1. /\ old \in Seq(ItemType) /\ DOMAIN old = 1 .. Len(old) /\ m[p] \in NodeType
      /\ \A j \in 1 .. Len(old) : old[j] \in ItemType
  BY NodeOf
<1>2. m2[p].items = [old EXCEPT ![i].node = n] /\ m2[p].kind = m[p].kind
  BY <1>1 DEF NodeType, HasReplaced
<1>3. /\ DOMAIN m2[p].items = DOMAIN old
      /\ \A j \in DOMAIN old : m2[p].items[j].key = old[j].key
      /\ m2[p].items[i].node = n
  BY <1>1, <1>2 DEF ItemType
<1>4. json_object_find(m2, p, at) = json_object_find(m, p, at)
  BY <1>3, FindSame
<1> QED
  BY <1>1, <1>2, <1>3, <1>4 DEF Reads

-----------------------------------------------------------------------------
(* Writing where a temporary is.                                            *)

\* The temporary is the member of an object that is found by its name, or the
\* name is not there yet.
Found(m, h) ==
    LET i == json_object_find(m, h.parent, h.key)
    IN  /\ ~IsRoot(h) /\ m[h.parent].kind = "object"
        /\ h.allocated => i = 0
        /\ ~h.allocated => /\ i \in 1 .. Len(m[h.parent].items)
                           /\ m[h.parent].items[i].node = h.node

\* The value is what is read at the place, and what has the owner of the place is
\* as it was.
Wrote(m, m2, p, at, value, n) ==
    /\ Made(m, m2, value, n) /\ n \in Reads(m2, p, at)
    /\ m2[p].kind = m[p].kind
    /\ \A q \in Nodes : Has(m, q, p) => m2[q] = m[q]

LEMMA PlaceWritten ==
    ASSUME NEW m, NEW R, World(m, R), NEW p \in InUse(m), NEW at,
           NEW i \in 1 .. Len(m[p].items),
           i = IF m[p].kind = "object" THEN json_object_find(m, p, at) ELSE at,
           NEW value, Fit(m, value), NEW m2, m2 = Replaced(m, p, i, value)
    PROVE  \E n : Wrote(m, m2, p, at, value, n)
<1>1. HeapOK(m) /\ p \in Nodes /\ m[p] \in NodeType
  BY Counts, NodeOf DEF World
<1>2. PICK n \in FreeNodes(m) :
         /\ Made(m, m2, value, n)
         /\ HasReplaced(m, m2, p, i, n)
         /\ \A q \in Nodes : Has(m, q, p) => m2[q] = m[q]
  BY ReplacedMade
<1>3. m2[p].kind = m[p].kind
  BY <1>1, <1>2 DEF NodeType, HasReplaced
<1>4. n \in Reads(m2, p, at)
  BY <1>1, <1>2, ReplacedReads
<1> QED
  BY <1>2, <1>3, <1>4 DEF Wrote

LEMMA TempWritten ==
    ASSUME NEW m, NEW R, NEW h, NEW value, CanAssign(m, R, h, value),
           Found(m, h), Lands(m, h), NEW a, a = Assigned(m, h, value)
    PROVE  ~a.self.allocated /\ \E n : Wrote(m, a.mem, h.parent, h.key, value, n)
<1> DEFINE p == h.parent
           i == json_object_find(m, p, h.key)
<1>1. /\ World(m, R) /\ h \in HandleType /\ HandleOK(m, h) /\ Own(h) \subseteq R
      /\ Fit(m, value)
      /\ IsCopy(value) /\ h.allocated => value.of \notin Under(m, h.node)
  BY DEF CanAssign
<1>2. /\ ~IsRoot(h) /\ m[p].kind = "object" /\ p \in Nodes
      /\ h.allocated => i = 0 /\ IsNull(m, h)
      /\ ~h.allocated => i \in 1 .. Len(m[p].items) /\ ~IsNull(m, h)
  BY <1>1, HandleFacts DEF Found, Lands, HandleOK
<1>3. HeapOK(m) /\ Closed(m, InUse(m)) /\ p \in InUse(m) /\ m[p] \in NodeType
  BY <1>1, <1>2, ForestClosed, NodeOf DEF World, InUse
<1>4. CASE h.allocated
  <2>1. a = Placed(m, h, value)
    BY <1>2, <1>4 DEF Assigned, IsPlaceholder
  <2>2. IsCopy(value) => value.of \notin Own(h)
    BY <1>1, <1>3, <1>4, UnderFacts DEF Own, HandleOK
  <2>3. /\ Made(m, a.mem, value, a.self.node)
        /\ HasAppended(m, a.mem, p, h.key, a.self.node)
        /\ \A q \in Nodes : Has(m, q, p) => a.mem[q] = m[q]
    BY <1>1, <1>2, <2>1, <2>2, PlacedMade
  <2>4. World(a.mem, R \ Own(h)) /\ ~a.self.allocated
    <3> DEFINE placed == Placed(m, h, value)
    <3>1. World(placed.mem, R \ Own(h)) /\ ~placed.self.allocated
      BY <1>1, <1>2, <2>2, PlacedFacts
    <3> HIDE DEF placed
    <3>2. a = placed
      BY <2>1 DEF placed
    <3> QED
      BY <3>1, <3>2
  <2>5. a.mem[p].kind = m[p].kind
    BY <1>3, <2>3 DEF NodeType, HasAppended
  <2>6. HeapOK(a.mem) /\ json_object_find(m, p, h.key) = 0
    BY <1>2, <1>4, <2>4 DEF World
  <2> HIDE DEF p, i
  <2>7. a.self.node \in Reads(a.mem, p, h.key)
    BY <1>2, <1>3, <2>3, <2>6, AppendedReads
  <2>8. Wrote(m, a.mem, p, h.key, value, a.self.node)
    BY <2>3, <2>5, <2>7 DEF Wrote
  <2> QED
    BY <2>4, <2>8 DEF p
<1>5. CASE ~h.allocated
  <2>1. a.mem = Replaced(m, p, i, value) /\ a.self = h
    BY <1>2, <1>5 DEF Assigned, IsPlaceholder
  <2>2. i = json_object_find(m, p, h.key)
    OBVIOUS
  <2> HIDE DEF p, i
  <2>3. \E n : Wrote(m, a.mem, p, h.key, value, n)
    BY <1>1, <1>2, <1>3, <1>5, <2>1, <2>2, PlaceWritten
  <2> QED
    BY <1>5, <2>1, <2>3 DEF p
<1> QED
  BY <1>4, <1>5

\* What operator[] returns is the member, or has its name.
LEMMA SubscriptFound ==
    ASSUME NEW m, NEW R, NEW h, CanSubscript(m, R, h), NEW key \in Keys,
           NEW r, r = Subscript(m, h, key), ~IsRoot(r.sub)
    PROVE  Found(r.mem, r.sub) /\ r.sub.parent = r.self.node /\ r.sub.key = key
<1> DEFINE found == IF m[h.node].kind = "object" THEN json_object_find(m, h.node, key) ELSE 0
           b == Based(m, h)
           null == NewNode(b.mem, New("null"))
<1>1. /\ World(m, R) /\ h \in HandleType /\ HandleOK(m, h) /\ Own(h) \subseteq R
      /\ IsPlaceholder(m, h) => m[h.parent].kind = "object"
      /\ Room(m, 4)
  BY DEF CanSubscript
<1>2. HeapOK(m) /\ h.node \in Nodes
  BY <1>1, HandleFacts DEF World
<1>3. CASE found # 0
  <2> DEFINE i == json_object_find(m, h.node, key)
             n == m[h.node].items[i].node
  <2>1. m[h.node].kind = "object" /\ i # 0
    BY <1>3
  <2>2. i \in 1 .. Len(m[h.node].items)
    BY <1>2, <2>1, FindFacts
  <2>3. r.mem = m /\ r.self = h /\ r.sub = Watcher(n, h.node, key)
    BY <1>3, <2>1 DEF Subscript
  <2>4. /\ r.sub.parent = h.node /\ r.sub.key = key /\ r.sub.node = n
        /\ r.sub.allocated = FALSE
    BY <2>3 DEF Watcher
  <2>5. i = json_object_find(r.mem, r.sub.parent, r.sub.key)
    BY <2>3, <2>4
  <2> QED
    BY <2>1, <2>2, <2>3, <2>4, <2>5 DEF Found
<1>4. CASE found = 0
  <2> DEFINE p == b.self.node
  <2>1. /\ r.mem = null.mem /\ r.self = b.self
        /\ r.sub = IF b.mem[p].kind = "object"
                   THEN Placeholder(null.node, p, key) ELSE Root(null.node)
    BY <1>4 DEF Subscript, Based
  <2>2. b.mem[p].kind = "object"
    BY <2>1 DEF Root, IsRoot
  <2>3. r.sub.parent = p /\ r.sub.key = key /\ r.sub.allocated = TRUE
    BY <2>1, <2>2 DEF Placeholder, Watcher
  <2>4. /\ HandleOK(b.mem, b.self) /\ b.self \in HandleType
        /\ World(b.mem, (R \ Own(h)) \cup Own(b.self))
        /\ \A q \in Int : Room(m, q + 2) => Room(b.mem, q)
    BY BasedFacts DEF HasBased
  <2>5. p \in InUse(b.mem) /\ p \in Nodes
    BY <2>4, HandleFacts DEF HandleOK
  <2>6. json_object_find(b.mem, p, key) = 0
    <3>1. CASE IsPlaceholder(m, h)
      <4> DEFINE value == New("object")
      <4>1. ~IsCopy(value) /\ value.kind = "object" /\ "object" \in Kinds
        BY NewFacts, StateKinds
      <4>2. Fit(m, value)
        <5>1. Spare(m, 1)
          BY <1>1, RoomIsSpare, LessRoom
        <5> QED
          BY <4>1, <5>1 DEF Fit
      <4>3. b = Placed(m, h, value)
        BY <3>1 DEF Based
      <4> HIDE DEF b, value
      <4>4. Made(m, b.mem, value, p)
        BY <1>1, <3>1, <4>1, <4>2, <4>3, PlacedMade DEF IsPlaceholder
      <4>5. b.mem[p] = Leaf("object")
        <5> DEFINE top == Top(value)
                   nodes == NodesOf(m, value)
        <5>1. DOMAIN nodes = {top} /\ nodes[top] = Leaf("object")
          BY <4>1 DEF NodesOf, Top
        <5> HIDE DEF nodes, top
        <5>2. PICK image \in [DOMAIN nodes -> FreeNodes(m)] :
                 image[top] = p /\ b.mem[image[top]] = Renamed(nodes[top], image)
          BY <4>4, <5>1 DEF Made, nodes, top
        <5> QED
          BY <5>1, <5>2, EmptyRenamed
      <4>6. DOMAIN b.mem[p].items = {}
        BY <4>5 DEF Leaf
      <4> QED
        BY <4>6 DEF json_object_find
    <3>2. CASE ~IsPlaceholder(m, h)
      <4>1. b.mem = Converted(m, h, "object") /\ p = h.node
        BY <3>2 DEF Based
      <4>2. m \in [Nodes -> NodeType]
        BY <1>2 DEF HeapOK
      <4> HIDE DEF b
      <4>3. CASE IsNull(m, h) /\ IsRoot(h)
        <5>1. b.mem = [m EXCEPT ![h.node].kind = "object"]
          BY <4>1, <4>3 DEF Converted
        <5>2. b.mem[p].items = m[h.node].items
          BY <1>2, <4>1, <4>2, <5>1 DEF NodeType
        <5>3. Len(m[h.node].items) = 0
          BY <1>2, <4>3 DEF HeapOK, IsNull
        <5>4. DOMAIN b.mem[p].items = {}
          BY <1>2, <5>2, <5>3, NodeOf
        <5> QED
          BY <5>4 DEF json_object_find
      <4>4. CASE ~(IsNull(m, h) /\ IsRoot(h))
        BY <1>4, <2>2, <4>1, <4>4 DEF Converted
      <4> QED
        BY <4>3, <4>4
    <3> QED
      BY <3>1, <3>2
  <2>7. null.mem[p] = b.mem[p]
    <3>1. Spare(b.mem, 1)
      <4>1. 2 \in Int /\ 2 + 2 = 4
        OBVIOUS
      <4>2. Room(b.mem, 2)
        BY <1>1, <2>4, <4>1
      <4> QED
        BY <4>2, RoomIsSpare, LessRoom
    <3>2. Fit(b.mem, New("null"))
      BY <3>1, NewFacts, StateKinds DEF Fit
    <3>3. Extends(b.mem, null.mem)
      BY <2>4, <3>2, NewNodeFacts
    <3> QED
      BY <2>5, <3>3 DEF Extends, InUse
  <2> HIDE DEF b, null, p
  <2>8. json_object_find(null.mem, p, key) = 0
    BY <2>6, <2>7 DEF json_object_find
  <2>9. ~IsRoot(r.sub) /\ r.mem[r.sub.parent].kind = "object"
    BY <2>1, <2>2, <2>3, <2>7
  <2>10. json_object_find(r.mem, r.sub.parent, r.sub.key) = 0
    BY <2>1, <2>3, <2>8
  <2>11. Found(r.mem, r.sub)
    BY <2>3, <2>9, <2>10 DEF Found
  <2> QED
    BY <2>1, <2>3, <2>11 DEF p
<1> QED
  BY <1>3, <1>4

LEMMA ReadsSame ==
    ASSUME NEW m, NEW m2, NEW p, NEW at, m2[p] = m[p]
    PROVE  Reads(m2, p, at) = Reads(m, p, at)
BY DEF Reads, json_object_find

LEMMA ReadsHas ==
    ASSUME NEW m, HeapOK(m), NEW p \in Nodes, NEW at, NEW n \in Reads(m, p, at)
    PROVE  Has(m, p, n) /\ n \in Nodes
BY NodeOf DEF Reads

\* The null of operator[] is new, whatever the rest is.
LEMMA NullAdded ==
    ASSUME NEW m, NEW R, World(m, R), Room(m, 2),
           NEW null, null = NewNode(m, New("null"))
    PROVE  Extends(m, null.mem)
<1>1. Spare(m, 1)
  BY RoomIsSpare, LessRoom
<1>2. Fit(m, New("null"))
  BY <1>1, NewFacts, StateKinds DEF Fit
<1> QED
  BY <1>2, NewNodeFacts

\* Subscripting what operator[] has returned: a placeholder is a member then, and
\* the member is found by its name.
LEMMA DeepFound ==
    ASSUME NEW m, NEW R, NEW h, CanSubscript(m, R, h), Found(m, h), Lands(m, h),
           NEW key \in Keys, NEW r, r = Subscript(m, h, key)
    PROVE  /\ ~r.self.allocated /\ r.mem[h.parent].kind = "object"
           /\ r.self.node \in Reads(r.mem, h.parent, h.key)
<1> DEFINE found == IF m[h.node].kind = "object" THEN json_object_find(m, h.node, key) ELSE 0
           b == Based(m, h)
           null == NewNode(b.mem, New("null"))
           p == h.parent
           i == json_object_find(m, p, h.key)
<1>1. /\ World(m, R) /\ h \in HandleType /\ HandleOK(m, h) /\ Own(h) \subseteq R
      /\ IsPlaceholder(m, h) => m[h.parent].kind = "object"
      /\ Room(m, 4)
  BY DEF CanSubscript
<1>2. /\ ~IsRoot(h) /\ m[p].kind = "object" /\ p \in Nodes
      /\ h.allocated => i = 0 /\ IsNull(m, h)
      /\ ~h.allocated => /\ i \in 1 .. Len(m[p].items) /\ ~IsNull(m, h)
                         /\ m[p].items[i].node = h.node
  BY <1>1, HandleFacts DEF Found, Lands, HandleOK
<1>3. HeapOK(m) /\ p \in InUse(m)
  BY <1>1, <1>2 DEF World, InUse
<1>4. World(b.mem, (R \ Own(h)) \cup Own(b.self)) /\ Room(b.mem, 2)
  <2>1. /\ World(b.mem, (R \ Own(h)) \cup Own(b.self))
        /\ \A q \in Int : Room(m, q + 2) => Room(b.mem, q)
    BY BasedFacts DEF HasBased
  <2>2. 2 \in Int /\ 2 + 2 = 4
    OBVIOUS
  <2> HIDE DEF b
  <2> QED
    BY <1>1, <2>1, <2>2
<1>5. Extends(b.mem, null.mem)
  <2> HIDE DEF b
  <2>1. null = NewNode(b.mem, New("null"))
    OBVIOUS
  <2> HIDE DEF null
  <2> QED
    BY <1>4, <2>1, NullAdded
<1>6. found = 0 => r.mem = null.mem /\ r.self = b.self
  BY DEF Subscript, Based
<1>7. found # 0 => r.mem = m /\ r.self = h
  BY DEF Subscript
<1>8. CASE ~h.allocated
  <2>1. b.mem = m /\ b.self = h
    BY <1>2, <1>8 DEF Based, Converted, IsPlaceholder
  <2>2. r.self = h /\ r.mem[p] = m[p]
    BY <1>3, <1>5, <1>6, <1>7, <2>1 DEF Extends, InUse
  <2>3. DOMAIN m[p].items = 1 .. Len(m[p].items)
    BY <1>2, <1>3, NodeOf
  <2>4. h.node \in Reads(m, p, h.key)
    BY <1>2, <1>8, <2>3 DEF Reads
  <2>5. h.node \in Reads(r.mem, p, h.key)
    BY <2>2, <2>4, ReadsSame
  <2> QED
    BY <1>2, <1>8, <2>2, <2>5
<1>9. CASE h.allocated
  <2> DEFINE value == New("object")
  <2>1. ~IsCopy(value) /\ value.kind = "object" /\ "object" \in Kinds
    BY NewFacts, StateKinds
  <2>2. Fit(m, value)
    <3>1. Spare(m, 1)
      BY <1>1, RoomIsSpare, LessRoom
    <3> QED
      BY <2>1, <3>1 DEF Fit
  <2>3. b = Placed(m, h, value)
    BY <1>2, <1>9 DEF Based, IsPlaceholder
  <2>4. r.mem = null.mem /\ r.self = b.self
    BY <1>2, <1>6, <1>9 DEF IsNull
  <2> HIDE DEF b, value, null, found
  <2>5. /\ b.self = Watcher(b.self.node, p, h.key)
        /\ HasAppended(m, b.mem, p, h.key, b.self.node)
    BY <1>1, <1>2, <2>1, <2>2, <2>3, PlacedMade
  <2>6. ~b.self.allocated
    BY <2>5 DEF Watcher
  <2>7. m[p] \in NodeType
    BY <1>2, <1>3, NodeOf
  <2>8. b.mem[p].kind = "object"
    BY <1>2, <2>5, <2>7 DEF HasAppended, NodeType
  <2>9. r.mem[p] = b.mem[p]
    BY <1>2, <1>5, <2>4, <2>8 DEF Extends
  <2>10. HeapOK(b.mem) /\ json_object_find(m, p, h.key) = 0
    BY <1>2, <1>4, <1>9 DEF World
  <2> HIDE DEF p, i
  <2>11. b.self.node \in Reads(b.mem, p, h.key)
    BY <1>2, <1>3, <2>5, <2>10, AppendedReads
  <2>12. b.self.node \in Reads(r.mem, p, h.key)
    BY <2>9, <2>11, ReadsSame
  <2> QED
    BY <2>4, <2>6, <2>8, <2>9, <2>12 DEF p
<1> QED
  BY <1>8, <1>9

-----------------------------------------------------------------------------
(* What the statements write is read back.                                  *)

LEMMA TempRead ==
    ASSUME Inv, NEW m, NEW hs, NEW T, Amid(m, hs, T), Room(m, 0),
           NEW sub \in HandleType, HandleOK(m, sub), Own(sub) \subseteq T,
           sub.allocated => IsNull(m, sub), Found(m, sub), Lands(m, sub),
           NEW value \in AllValues, NEW v, v = Then(value, hs),
           NEW a, a = Assigned(m, sub, v)
    PROVE  /\ World(m, OwnedBy(hs) \cup T) /\ Fit(m, v) /\ ~a.self.allocated
           /\ \E n : Wrote(m, a.mem, sub.parent, sub.key, v, n)
<1>1. ~IsRoot(sub) /\ m[sub.parent].kind = "object"
  BY DEF Found
<1>2. Fit(m, v) /\ CanAssign(m, OwnedBy(hs) \cup T, sub, v)
  BY <1>1, TempCanAssign
<1>3. ~a.self.allocated /\ \E n : Wrote(m, a.mem, sub.parent, sub.key, v, n)
  BY <1>2, TempWritten
<1> QED
  BY <1>2, <1>3 DEF Amid

\* The end of a statement leaves what is in use alone.
LEMMA SweptRead ==
    ASSUME NEW m, NEW R, World(m, R), NEW v, Fit(m, v),
           NEW m2, NEW n, Made(m, m2, v, n), NEW hs, Ends(m2, hs)
    PROVE  /\ Alike(mem', NodesOf(m, v), Top(v), n)
           /\ \A k \in InUse(m2) : mem'[k] = m2[k]
<1>1. mem' = [k \in Nodes |-> IF m2[k].kind = "dead" THEN Leaf("free") ELSE m2[k]]
  BY DEF Ends
<1>2. \A k \in InUse(m2) : mem'[k] = m2[k]
  BY <1>1 DEF InUse
<1> DEFINE m3 == mem'
<1>3. \A k \in FreeNodes(m) \cap InUse(m2) : m3[k] = m2[k]
  BY <1>2
<1> HIDE DEF m3
<1>4. Alike(m3, NodesOf(m, v), Top(v), n)
  BY <1>3, MadeKept
<1> QED
  BY <1>2, <1>4 DEF m3

LEMMA NothingWritten ==
    ASSUME written' = NoWrite
    PROVE  WriteRead'
BY DEF WriteRead

\* x[key] = value;
LEMMA MemberRead ==
    ASSUME Inv, NEW x \in DOMAIN vars, NEW key \in Keys, NEW value \in AllValues,
           WritesMember(x, key, value)
    PROVE  WriteRead'
<1> DEFINE r == Subscript(mem, vars[x], key)
           hs == [vars EXCEPT ![x] = r.self]
           v == Then(value, hs)
           a == Assigned(r.mem, r.sub, v)
           m2 == destroy_node(a.mem, a.self)
           p == r.self.node
<1>1. /\ Usable(x) /\ Ends(m2, hs)
      /\ IF Lands(r.mem, r.sub) THEN Writes(x, <<key>>, r.mem, v) ELSE written' = NoWrite
  BY DEF WritesMember, SetMember
<1>2. CASE ~Lands(r.mem, r.sub)
  BY <1>1, <1>2, NothingWritten
<1>3. CASE Lands(r.mem, r.sub)
  <2>1. /\ Amid(r.mem, hs, Own(r.sub))
        /\ CanSubscript(r.mem, OwnedBy(hs) \cup Own(r.sub), r.sub)
        /\ r.sub.allocated => IsNull(r.mem, r.sub)
    BY <1>1, SubscriptedVars
  <2>2. Found(r.mem, r.sub) /\ r.sub.parent = p /\ r.sub.key = key
    <3>1. CanSubscript(mem, OwnedBy(vars), vars[x])
      BY <1>1, InvFacts DEF CanSubscript, Usable
    <3>2. ~IsRoot(r.sub)
      BY <1>3 DEF Lands
    <3> QED
      BY <3>1, <3>2, SubscriptFound
  <2>3. /\ written' = [var |-> x, path |-> <<key>>, top |-> Top(v), nodes |-> NodesOf(r.mem, v)]
        /\ vars' = hs
    BY <1>1, <1>3 DEF Writes, Ends
  <2>4. vars'[x] = r.self
    BY <2>3
  <2> HIDE DEF r, hs
  <2>5. r.sub \in HandleType /\ HandleOK(r.mem, r.sub) /\ Room(r.mem, 4)
    BY <2>1 DEF CanSubscript
  <2>6. Room(r.mem, 0)
    BY <2>5, LessRoom
  <2> HIDE DEF v
  <2>7. v = Then(value, hs) /\ a = Assigned(r.mem, r.sub, v)
    BY DEF v
  <2> HIDE DEF a
  <2> DEFINE T == Own(r.sub)
  <2>8. Amid(r.mem, hs, T) /\ Own(r.sub) \subseteq T
    BY <2>1
  <2> HIDE DEF T
  <2>9. /\ World(r.mem, OwnedBy(hs) \cup T) /\ Fit(r.mem, v) /\ ~a.self.allocated
        /\ \E n : Wrote(r.mem, a.mem, r.sub.parent, r.sub.key, v, n)
    BY <1>3, <2>1, <2>2, <2>5, <2>6, <2>7, <2>8, TempRead
  <2>10. PICK n : Wrote(r.mem, a.mem, p, key, v, n)
    BY <2>2, <2>9
  <2>11. Ends(a.mem, hs)
    BY <1>1, <2>9 DEF destroy_node
  <2>12. /\ Alike(mem', NodesOf(r.mem, v), Top(v), n)
         /\ \A k \in InUse(a.mem) : mem'[k] = a.mem[k]
    BY <2>9, <2>10, <2>11, SweptRead DEF Wrote
  <2>13. mem'[p] = a.mem[p]
    <3>1. p \in Nodes /\ a.mem[p].kind = "object"
      BY <2>2, <2>5, <2>10, HandleFacts DEF Found, Wrote
    <3> QED
      BY <2>12, <3>1 DEF InUse
  <2> DEFINE m3 == mem'
  <2>14. n \in Reads(m3, p, key)
    BY <2>10, <2>13, ReadsSame DEF Wrote
  <2>15. n \in Reached(m3, p, <<key>>)
    BY <2>14 DEF Reached
  <2> HIDE DEF p
  <2>16. \E k \in Reached(m3, p, <<key>>) : Alike(m3, NodesOf(r.mem, v), Top(v), k)
    BY <2>12, <2>15
  <2>17. /\ written'.var = x /\ written'.path = <<key>>
         /\ written'.top = Top(v) /\ written'.nodes = NodesOf(r.mem, v)
         /\ vars'[x].node = p
    BY <2>3, <2>4 DEF p
  <2> QED
    BY <2>16, <2>17 DEF WriteRead
<1> QED
  BY <1>2, <1>3

\* x[key1][key2] = value;
LEMMA DeepRead ==
    ASSUME Inv, NEW x \in DOMAIN vars, NEW key1 \in Keys, NEW key2 \in Keys,
           NEW value \in AllValues, WritesDeep(x, key1, key2, value)
    PROVE  WriteRead'
<1> DEFINE r1 == Subscript(mem, vars[x], key1)
           r2 == Subscript(r1.mem, r1.sub, key2)
           hs == [vars EXCEPT ![x] = r1.self]
           v == Then(value, hs)
           a == Assigned(r2.mem, r2.sub, v)
           m2 == destroy_node(destroy_node(a.mem, a.self), r2.self)
           p == r1.self.node
           q == r2.self.node
           path == <<key1, key2>>
<1>1. /\ Usable(x) /\ Ends(m2, hs)
      /\ IF Lands(r1.mem, r1.sub) /\ Lands(r2.mem, r2.sub)
         THEN Writes(x, path, r2.mem, v) ELSE written' = NoWrite
  BY DEF WritesDeep, SetDeep
<1>2. CASE ~(Lands(r1.mem, r1.sub) /\ Lands(r2.mem, r2.sub))
  BY <1>1, <1>2, NothingWritten
<1>3. CASE Lands(r1.mem, r1.sub) /\ Lands(r2.mem, r2.sub)
  <2>1. Found(r1.mem, r1.sub) /\ r1.sub.parent = p /\ r1.sub.key = key1
    <3>1. CanSubscript(mem, OwnedBy(vars), vars[x])
      BY <1>1, InvFacts DEF CanSubscript, Usable
    <3>2. ~IsRoot(r1.sub)
      BY <1>3 DEF Lands
    <3> QED
      BY <3>1, <3>2, SubscriptFound
  <2>2. /\ written' = [var |-> x, path |-> path, top |-> Top(v), nodes |-> NodesOf(r2.mem, v)]
        /\ vars' = hs /\ vars'[x] = r1.self
    BY <1>1, <1>3 DEF Writes, Ends
  <2> DEFINE T == Own(r2.self) \cup Own(r2.sub)
  <2>3. /\ CanSubscript(r1.mem, OwnedBy(hs) \cup Own(r1.sub), r1.sub)
        /\ Amid(r2.mem, hs, T) /\ Room(r2.mem, 0)
        /\ r2.self \in HandleType
        /\ r2.sub \in HandleType /\ HandleOK(r2.mem, r2.sub)
        /\ r2.sub.allocated => IsNull(r2.mem, r2.sub)
    <3> HIDE DEF r1, r2, hs
    <3>1. r1 = Subscript(mem, vars[x], key1)
      BY DEF r1
    <3>2. hs = [vars EXCEPT ![x] = r1.self] /\ r2 = Subscript(r1.mem, r1.sub, key2)
      BY DEF hs, r2
    <3> QED
      BY <1>1, <3>1, <3>2, DeepVars
  <2>4. r2 = Subscript(r1.mem, r1.sub, key2)
    OBVIOUS
  <2> HIDE DEF r1, r2, hs
  <2>5. /\ ~r2.self.allocated /\ r2.mem[p].kind = "object" /\ q \in Reads(r2.mem, p, key1)
    BY <1>3, <2>1, <2>3, <2>4, DeepFound
  <2>6. Found(r2.mem, r2.sub) /\ r2.sub.parent = q /\ r2.sub.key = key2
    <3>1. ~IsRoot(r2.sub)
      BY <1>3 DEF Lands
    <3> QED
      BY <2>3, <2>4, <3>1, SubscriptFound
  <2> HIDE DEF v
  <2>7. v = Then(value, hs) /\ a = Assigned(r2.mem, r2.sub, v)
    BY DEF v
  <2> HIDE DEF a
  <2>8. Own(r2.sub) \subseteq T
    OBVIOUS
  <2> HIDE DEF T
  <2>9. /\ World(r2.mem, OwnedBy(hs) \cup T) /\ Fit(r2.mem, v) /\ ~a.self.allocated
        /\ \E n : Wrote(r2.mem, a.mem, r2.sub.parent, r2.sub.key, v, n)
    BY <1>3, <2>3, <2>6, <2>7, <2>8, TempRead
  <2>10. PICK n : Wrote(r2.mem, a.mem, q, key2, v, n)
    BY <2>6, <2>9
  <2>11. Ends(a.mem, hs)
    BY <1>1, <2>5, <2>9 DEF destroy_node
  <2>12. /\ Alike(mem', NodesOf(r2.mem, v), Top(v), n)
         /\ \A k \in InUse(a.mem) : mem'[k] = a.mem[k]
    BY <2>9, <2>10, <2>11, SweptRead DEF Wrote
  <2>13. p \in Nodes /\ q \in Nodes /\ Has(r2.mem, p, q)
    <3>1. p \in Nodes
      BY <2>1, <2>3, HandleFacts DEF Found, CanSubscript
    <3> QED
      BY <2>5, <2>9, <3>1, ReadsHas DEF World
  <2>14. a.mem[p] = r2.mem[p] /\ a.mem[q].kind = "object"
    BY <2>6, <2>10, <2>13 DEF Found, Wrote
  <2> DEFINE m3 == mem'
  <2>15. m3[p] = r2.mem[p] /\ m3[q] = a.mem[q]
    BY <2>5, <2>12, <2>13, <2>14 DEF InUse
  <2> HIDE DEF m3
  <2>16. n \in Reads(m3, q, key2)
    BY <2>10, <2>15, ReadsSame DEF Wrote
  <2>17. q \in Reads(m3, p, key1)
    BY <2>5, <2>15, ReadsSame
  <2>18. Len(path) = 2 /\ path[1] = key1 /\ path[2] = key2
    OBVIOUS
  <2> HIDE DEF p, q, path
  <2>19. n \in Reached(m3, p, path)
    BY <2>16, <2>17, <2>18 DEF Reached
  <2>20. \E k \in Reached(m3, p, path) : Alike(m3, NodesOf(r2.mem, v), Top(v), k)
    BY <2>12, <2>19 DEF m3
  <2>21. /\ written'.var = x /\ written'.path = path
         /\ written'.top = Top(v) /\ written'.nodes = NodesOf(r2.mem, v)
         /\ vars'[x].node = p
    BY <2>2 DEF p
  <2> QED
    BY <2>20, <2>21 DEF WriteRead, m3
<1> QED
  BY <1>2, <1>3

\* x[i] = value;
LEMMA ItemRead ==
    ASSUME Inv, NEW x \in DOMAIN vars, NEW i \in Items(x), NEW value \in AllValues,
           WritesItem(x, i, value)
    PROVE  WriteRead'
<1> DEFINE p == vars[x].node
           h == Watcher(mem[p].items[i].node, p, NoKey)
           v == Then(value, vars)
           a == Assigned(mem, h, v)
           path == <<i>>
<1>1. /\ x \notin stale /\ mem[p].kind = "array" /\ Ends(a.mem, vars)
      /\ written' = [var |-> x, path |-> path, top |-> Top(v), nodes |-> NodesOf(mem, v)]
      /\ vars' = vars
  BY DEF WritesItem, SetItem, Writes, Ends
<1>2. /\ Amid(mem, vars, {}) /\ Room(mem, 0) /\ World(mem, OwnedBy(vars))
      /\ vars[x] \in HandleType
  BY InvFacts
<1>3. p \in Nodes /\ p \in InUse(mem) /\ HeapOK(mem)
  BY <1>1, <1>2, HandleFacts DEF World, InUse
<1>4. i \in 1 .. Len(mem[p].items)
  BY <1>3, NodeOf DEF Items
<1>5. Spare(mem, 1)
  BY <1>2, <1>3, SpareOne
<1>6. v = Then(value, vars)
  OBVIOUS
<1> HIDE DEF v
<1>7. Fit(mem, v)
  BY <1>2, <1>5, <1>6, ValueFacts
<1>8. Place(mem, p, mem[p].items[i].node) = i
  <2> DEFINE n == mem[p].items[i].node
             j == Place(mem, p, n)
  <2>1. DOMAIN mem[p].items = 1 .. Len(mem[p].items)
    BY <1>3, NodeOf
  <2>2. j \in 1 .. Len(mem[p].items) /\ mem[p].items[j].node = n
    BY <1>4, <2>1 DEF Place
  <2> QED
    BY <1>2, <1>3, <1>4, <2>2 DEF World, Forest
<1>9. a.mem = Replaced(mem, p, i, v)
  <2>1. h.parent = p /\ h.node = mem[p].items[i].node
    BY DEF Watcher
  <2>2. ~IsRoot(h)
    BY <1>3, <2>1, NodesFinite DEF IsRoot
  <2> HIDE DEF h, p
  <2> QED
    BY <1>1, <1>8, <2>1, <2>2 DEF Assigned
<1> HIDE DEF a, p
<1>10. PICK n : Wrote(mem, a.mem, p, i, v, n)
  BY <1>1, <1>2, <1>3, <1>4, <1>7, <1>9, PlaceWritten
<1>11. /\ Alike(mem', NodesOf(mem, v), Top(v), n)
       /\ \A k \in InUse(a.mem) : mem'[k] = a.mem[k]
  BY <1>1, <1>2, <1>7, <1>10, SweptRead DEF Wrote
<1> DEFINE m3 == mem'
<1>12. m3[p] = a.mem[p]
  BY <1>1, <1>3, <1>10, <1>11 DEF InUse, Wrote
<1> HIDE DEF m3
<1>13. n \in Reads(m3, p, i)
  BY <1>10, <1>12, ReadsSame DEF Wrote
<1>14. Len(path) = 1 /\ path[1] = i
  OBVIOUS
<1> HIDE DEF path
<1>15. n \in Reached(m3, p, path)
  BY <1>13, <1>14 DEF Reached
<1>16. \E k \in Reached(m3, p, path) : Alike(m3, NodesOf(mem, v), Top(v), k)
  BY <1>11, <1>15 DEF m3
<1>17. /\ written'.var = x /\ written'.path = path
       /\ written'.top = Top(v) /\ written'.nodes = NodesOf(mem, v)
       /\ vars'[x].node = p
  BY <1>1 DEF p
<1> QED
  BY <1>16, <1>17 DEF WriteRead, m3

LEMMA WritesIsNext == [WritesNext]_writes => [Next]_state
<1>1. UNCHANGED writes => UNCHANGED state
  BY DEF writes
<1>2. ASSUME NEW x \in DOMAIN vars, NEW value \in Values,
             \/ \E key \in Keys : WritesMember(x, key, value)
             \/ \E key1, key2 \in Keys : WritesDeep(x, key1, key2, value)
             \/ \E i \in Items(x) : WritesItem(x, i, value)
      PROVE  SetsAt(x, value)
  <2>1. \A key \in Keys : WritesMember(x, key, value) => SetMember(x, key, value)
    BY DEF WritesMember
  <2>2. \A key1, key2 \in Keys :
           WritesDeep(x, key1, key2, value) => SetDeep(x, key1, key2, value)
    BY DEF WritesDeep
  <2>3. \A i \in Items(x) : WritesItem(x, i, value) => SetItem(x, i, value)
    BY DEF WritesItem
  <2> QED
    BY <1>2, <2>1, <2>2, <2>3 DEF SetsAt
<1>3. WritesNext => Next
  BY <1>2 DEF WritesNext, Next
<1> QED
  BY <1>1, <1>3

\* The record of what was written changes nothing of what the statements do.
THEOREM WritesAreStatements == WritesSpec => Spec
<1>1. WritesInit => Init
  BY DEF WritesInit
<1> QED
  BY <1>1, WritesIsNext, PTL DEF WritesSpec, Spec

LEMMA WriteReadStep ==
    ASSUME Inv, WriteRead, [WritesNext]_writes
    PROVE  WriteRead'
<1>1. CASE UNCHANGED writes
  BY <1>1 DEF WriteRead, writes, state
<1>2. CASE written' = NoWrite
  BY <1>2, NothingWritten
<1>3. ASSUME NEW x \in DOMAIN vars, NEW value \in Values,
             \/ \E key \in Keys : WritesMember(x, key, value)
             \/ \E key1, key2 \in Keys : WritesDeep(x, key1, key2, value)
             \/ \E i \in Items(x) : WritesItem(x, i, value)
      PROVE  WriteRead'
  <2>1. value \in AllValues
    BY DEF AllValues
  <2> QED
    BY <1>3, <2>1, MemberRead, DeepRead, ItemRead
<1> QED
  BY <1>1, <1>2, <1>3 DEF WritesNext

\* What a statement has written at a name, under two names or at a position is
\* read back there, as the same tree (Json.cc:153-178, 399-470).
THEOREM WriteReadHolds == WritesSpec => []WriteRead
<1>1. WritesInit => Inv /\ WriteRead
  <2>1. WritesInit => WriteRead
    BY DEF WritesInit, WriteRead
  <2> QED
    BY <2>1, InitStep DEF WritesInit
<1>2. Inv /\ WriteRead /\ [WritesNext]_writes => Inv' /\ WriteRead'
  BY WritesIsNext, NextStep, WriteReadStep
<1> QED
  BY <1>1, <1>2, PTL DEF WritesSpec
=============================================================================
