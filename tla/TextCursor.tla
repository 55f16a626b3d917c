----------------------------- MODULE TextCursor -----------------------------
(***************************************************************************)
(* A text as a parser goes over it.  It is a sequence of bytes; a cursor is *)
(* the place of one of them or the end, where no byte is.                   *)
(***************************************************************************)
EXTENDS Integers, Sequences, SequencesExt

Bytes == 1 .. 255       \* what a text holds; a 0 ends it

DigitBytes == 48 .. 57

\* What a function of a parser gives: nothing, or a value and the cursor
\* behind it.
Bad == [ok |-> FALSE]
Good(v, p) == [ok |-> TRUE, val |-> v, end |-> p]

\* The byte at a cursor, and where a cursor can be: up to the 0 at the end.
At(t, p) == IF p \in DOMAIN t THEN t[p] ELSE 0
Cursors(t) == 1 .. Len(t) + 1

\* The text has these bytes at p.
HasAt(t, p, w) == \A i \in DOMAIN w : At(t, p + i - 1) = w[i]

\* The cursor behind the bytes of the set that are at p.
Behind(t, p, S) ==
    CHOOSE q \in p .. Len(t) + 1 :
        At(t, q) \notin S /\ \A r \in p .. q - 1 : At(t, r) \in S
=============================================================================
