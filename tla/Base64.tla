------------------------------- MODULE Base64 -------------------------------
(***************************************************************************)
(* Base64::encode and Base64::decode (source/Base/Base64.cc).  Bytes are    *)
(* numbers below 256, characters are their places in base64_chars; two more *)
(* stand for '=' and for every character that is not in it.                 *)
(***************************************************************************)
LOCAL INSTANCE Integers
LOCAL INSTANCE Sequences

CONSTANTS
    ByteValues,     \* the bytes of the texts to encode
    MaxBytes        \* bound: their length

ASSUME ByteAssumption == ByteValues \subseteq 0 .. 255 /\ MaxBytes \in Nat

VARIABLES
    bytes,          \* the bytes that were encoded
    encoded         \* their text

codec == <<bytes, encoded>>

Alphabet == 0 .. 63
Pad == 64
Foreign == 65

\* What find gives for a character that is not there, as an unsigned char.
NotFound == 255

\* Three bytes as four characters.
Quartet(a, b, c) ==
    <<a \div 4, (a % 4) * 16 + (b \div 16), (b % 16) * 4 + (c \div 64), c % 64>>

\* Mutant: the second byte takes all bits of the third character.
TripletUnmasked(p, q, r, s) ==
    <<(p * 4 + ((q \div 16) % 4)) % 256, ((q % 16) * 16 + r) % 256,
      ((r % 4) * 64 + s) % 256>>

\* Four characters as three bytes; each sum is kept in an unsigned char.
Triplet(p, q, r, s) ==
    <<(p * 4 + ((q \div 16) % 4)) % 256, ((q % 16) * 16 + ((r \div 4) % 16)) % 256,
      ((r % 4) * 64 + s) % 256>>

\* The last group is filled up with zeros; of its characters those that have
\* a bit of a byte are kept and '=' takes the place of the others.
Encode(input) ==
    LET groups == (Len(input) + 2) \div 3
        byte(i) == IF i <= Len(input) THEN input[i] ELSE 0
        kept == groups * 4 - (groups * 3 - Len(input))
    IN  [k \in 1 .. groups * 4 |->
            LET g == (k - 1) \div 4
            IN  IF k > kept THEN Pad
                ELSE Quartet(byte(g * 3 + 1), byte(g * 3 + 2), byte(g * 3 + 3))
                         [((k - 1) % 4) + 1]]

\* The reading stops at the first character that is none of the alphabet; of
\* the last group i characters give i - 1 bytes.
Decode(text) ==
    LET stops == {k \in DOMAIN text : text[k] \notin Alphabet}
        read == IF stops = {} THEN Len(text)
                ELSE (CHOOSE k \in stops : \A j \in stops : k <= j) - 1
        char(k) == IF k <= read THEN text[k] ELSE NotFound
        size == (read \div 4) * 3 + (IF read % 4 = 0 THEN 0 ELSE (read % 4) - 1)
    IN  [i \in 1 .. size |->
            LET g == (i - 1) \div 3
            IN  Triplet(char(g * 4 + 1), char(g * 4 + 2), char(g * 4 + 3),
                        char(g * 4 + 4))[((i - 1) % 3) + 1]]

-----------------------------------------------------------------------------

CodecInit ==
    /\ bytes \in UNION {[1 .. n -> ByteValues] : n \in 0 .. MaxBytes}
    /\ encoded = <<>>

CodecNext ==
    /\ encoded = <<>> /\ bytes # <<>>
    /\ encoded' = Encode(bytes)
    /\ UNCHANGED bytes

CodecSpec == CodecInit /\ [][CodecNext]_codec

-----------------------------------------------------------------------------

\* Any bytes come back from their text, whatever group they end in; the text
\* has whole groups, '=' only where bytes are missing, and its characters hold
\* the bits of the bytes in order (Base64.cc:22-111).
Base64Inverse ==
    encoded # <<>> =>
        LET bits == 8 * Len(bytes)
            bit(number, i) == (number \div 2 ^ i) % 2
        IN  /\ Decode(encoded) = bytes
            /\ Len(encoded) % 4 = 0
            /\ \A i \in 0 .. bits - 1 :
                  /\ encoded[(i \div 6) + 1] \in Alphabet
                  /\ bit(encoded[(i \div 6) + 1], 5 - (i % 6))
                        = bit(bytes[(i \div 8) + 1], 7 - (i % 8))
            /\ \A k \in DOMAIN encoded : (k - 1) * 6 >= bits => encoded[k] = Pad
=============================================================================
