----------------------------- MODULE JsonString -----------------------------
(***************************************************************************)
(* The strings of a JSON text: how __json_string_length and                *)
(* __parse_json_string of source/Base/JsonParser.c read one, and how        *)
(* Json::string_convert of source/Base/Json.cc writes one.  A text is a     *)
(* sequence of bytes.                                                       *)
(*                                                                          *)
(* The parser goes over a string twice: the first pass counts the bytes     *)
(* that the second will write into the buffer that is allocated between     *)
(* them, and the escapes, which are all that tells the second pass how far  *)
(* it may look for a backslash.                                             *)
(***************************************************************************)
EXTENDS TextCursor

Quote == 34
Backslash == 92

-----------------------------------------------------------------------------
(* Reading.                                                                 *)

\* The escapes and the bytes of the string from the cursor on, added to those
\* that were counted before.
json_string_length(t) ==
    LET length[c \in [cursor : Cursors(t), escape : Nat, len : Nat]] ==
            CASE At(t, c.cursor) = Quote ->
                    [ok |-> TRUE, escape |-> c.escape, len |-> c.len, end |-> c.cursor]
              [] At(t, c.cursor) = Backslash /\ At(t, c.cursor + 1) # 0 ->
                    length[[cursor |-> c.cursor + 2, escape |-> c.escape + 1,
                            len |-> c.len + 1]]
              [] OTHER ->
                    IF At(t, c.cursor) < 32 \/ At(t, c.cursor) = Backslash THEN Bad
                    ELSE length[[cursor |-> c.cursor + 1, escape |-> c.escape,
                                 len |-> c.len + 1]]
    IN  length

\* The value of a hex digit; no other byte is one with the bit 0x20 set.
Hex(c) == CASE c \in DigitBytes -> c - 48
            [] c \in 65 .. 70 -> c - 55
            [] c \in 97 .. 102 -> c - 87
            [] OTHER -> -1

IsHex4(t, p) == \A i \in 0 .. 3 : Hex(At(t, p + i)) >= 0
Hex4(t, p) == 4096 * Hex(At(t, p)) + 256 * Hex(At(t, p + 1))
                  + 16 * Hex(At(t, p + 2)) + Hex(At(t, p + 3))

Utf8(code) ==
    LET Low(k) == 128 + ((code \div k) % 64)
    IN  IF code <= 127 THEN <<code>>
        ELSE IF code <= 2047 THEN <<192 + (code \div 64), Low(1)>>
        ELSE IF code <= 65535 THEN <<224 + (code \div 4096), Low(64), Low(1)>>
        ELSE <<240 + (code \div 262144), Low(4096), Low(64), Low(1)>>

FirstOfPair(code) == 55296 <= code /\ code <= 56319
SecondOfPair(code) == 56320 <= code /\ code <= 57343

\* \u at p, which is the byte behind the u.
parse_json_unicode(t, p) ==
    LET code == Hex4(t, p)
        next == Hex4(t, p + 6)
    IN  IF ~IsHex4(t, p) \/ SecondOfPair(code) THEN Bad
        ELSE IF ~FirstOfPair(code) THEN Good(Utf8(code), p + 4)
        ELSE IF /\ At(t, p + 4) = Backslash /\ At(t, p + 5) = 117
                /\ IsHex4(t, p + 6) /\ SecondOfPair(next)
             THEN Good(Utf8(((code % 1024) * 1024) + (next % 1024) + 65536), p + 10)
             ELSE Bad

Escaped == [c \in {34, 92, 47, 98, 102, 110, 114, 116} |->
               CASE c = 98 -> 8 [] c = 102 -> 12 [] c = 110 -> 10
                 [] c = 114 -> 13 [] c = 116 -> 9 [] OTHER -> c]

\* The bytes an escape stands for.
Unescaped(t, p) ==
    LET c == At(t, p + 1)
    IN  CASE c = 117 -> parse_json_unicode(t, p + 2)
          [] c \in DOMAIN Escaped -> Good(<<Escaped[c]>>, p + 2)
          [] OTHER -> Bad

\* Mutant: a pair of surrogates is counted as one escape.
PairCountedOnce(val) == 1

\* A pair of surrogates was counted as two escapes.
EscapesOf(val) == IF Len(val) = 4 THEN 2 ELSE 1

\* The string from the cursor on is written behind str: as long as there are
\* escapes left, only a backslash is looked for, and then the quote.  "over": it
\* went past the text.
parse_json_string(t) ==
    LET Stopped(c, over) ==
            [ok |-> FALSE, str |-> c.str, end |-> c.cursor, over |-> over]
        parse[c \in [cursor : Cursors(t), escape : Int, str : Seq(0 .. 255)]] ==
            CASE At(t, c.cursor) = 0 -> Stopped(c, TRUE)
              [] At(t, c.cursor) = Quote /\ c.escape = 0 ->
                    [ok |-> TRUE, str |-> c.str, end |-> c.cursor + 1, over |-> FALSE]
              [] At(t, c.cursor) = Backslash /\ c.escape # 0 ->
                    LET u == Unescaped(t, c.cursor)
                    IN  IF ~u.ok THEN Stopped(c, FALSE)
                        ELSE parse[[cursor |-> u.end, escape |-> c.escape - EscapesOf(u.val),
                                    str |-> c.str \o u.val]]
              [] OTHER ->
                    parse[[cursor |-> c.cursor + 1, escape |-> c.escape,
                           str |-> Append(c.str, At(t, c.cursor))]]
    IN  parse

Counted(t, p) == json_string_length(t)[[cursor |-> p, escape |-> 0, len |-> 0]]
Written(t, p, escape) == parse_json_string(t)[[cursor |-> p, escape |-> escape, str |-> <<>>]]

\* A string is read up to its first 0, whatever is behind it.
CString(s) ==
    LET Zeros == {i \in DOMAIN s : s[i] = 0}
    IN  IF Zeros = {} THEN s ELSE SubSeq(s, 1, Min(Zeros) - 1)

Copied(l, s) == IF l.ok /\ s.ok THEN Good(CString(s.str), s.end) ELSE Bad

\* The string behind the quote at p - 1, for a value or the name of a member.
ReadString(t, p) == Copied(Counted(t, p), Written(t, p, Counted(t, p).escape))

-----------------------------------------------------------------------------
(* Writing.                                                                 *)

HexDigit(d) == IF d < 10 THEN 48 + d ELSE 87 + d

\* Mutant: only what ends a string is escaped.
QuotesEscaped(c) == IF c \in {Quote, Backslash} THEN <<Backslash, c>> ELSE <<c>>

\* Mutant: a backslash is written as it is.
BackslashKept(c) ==
    IF c = Quote THEN <<Backslash, c>> ELSE IF c < 32 THEN <<Backslash, 110>> ELSE <<c>>

\* How a byte is written in a string.
Convert(c) ==
    CASE c \in {Quote, Backslash} -> <<Backslash, c>>
      [] c \in {8, 9, 10, 12, 13} ->
            <<Backslash, CHOOSE e \in DOMAIN Escaped : Escaped[e] = c>>
      [] c < 32 /\ c \notin {8, 9, 10, 12, 13} ->
            <<Backslash, 117, 48, 48, HexDigit(c \div 16), HexDigit(c % 16)>>
      [] OTHER -> <<c>>

string_convert(str) ==
    <<Quote>> \o FlattenSeq([i \in DOMAIN str |-> Convert(str[i])]) \o <<Quote>>
=============================================================================
