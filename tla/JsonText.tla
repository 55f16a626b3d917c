------------------------------ MODULE JsonText ------------------------------
(***************************************************************************)
(* A value as a text and back: json_value_parse of source/Base/JsonParser.c *)
(* and Json::dump of source/Base/Json.cc.  The frames of the MCP client and *)
(* of the streamed answer end with a newline, so a dump must not hold one.  *)
(*                                                                          *)
(* Of the numbers only those that have at most Figures figures and neither  *)
(* a point nor an exponent: the others are not read here.                   *)
(***************************************************************************)
EXTENDS JsonString

CONSTANTS
    Texts,          \* the texts to parse
    DepthLimit,     \* JSON_DEPTH_LIMIT
    Spaces          \* the indentations to dump with, 0 for one line

ASSUME TextAssumption ==
    /\ Texts \subseteq Seq(Bytes)
    /\ DepthLimit \in Nat /\ Spaces \subseteq Nat

VARIABLES
    text,           \* the text that was parsed or dumped last
    value,          \* the value that was parsed last
    spaces,         \* how it was dumped last
    first           \* the value of the first parse

state == <<text, value, spaces, first>>

Leaf(type) == [type |-> type]
None == Leaf("none")            \* nothing parsed yet
Invalid == Leaf("invalid")      \* the null node

\* What "%.15lg" writes of a number.
Figures == 15

Blanks == {9, 10, 13, 32}

\* The cursor behind the blanks.
SkipSpaces(t, p) == Behind(t, p, Blanks)

\* The only element of a set.
The(S) == CHOOSE x \in S : TRUE

-----------------------------------------------------------------------------
(* Values.                                                                  *)

Literals == {[type |-> "true", text |-> <<116, 114, 117, 101>>],
             [type |-> "false", text |-> <<102, 97, 108, 115, 101>>],
             [type |-> "null", text |-> <<110, 117, 108, 108>>]}

Decimal[n \in Nat] ==
    IF n < 10 THEN <<48 + n>> ELSE Append(Decimal[n \div 10], 48 + (n % 10))

Scalars ==
    {Leaf(l.type) : l \in Literals}
    \cup [type : {"string"}, str : Seq(Bytes)]
    \cup [type : {"number"}, minus : BOOLEAN, n : {n \in Nat : Len(Decimal[n]) <= Figures}]

\* The values that go down at most so many levels.  An element has no name.
Values[levels \in Nat] ==
    IF levels = 0 THEN Scalars
    ELSE Scalars
         \cup [type : {"array"}, items : Seq([name : {<<>>}, val : Values[levels - 1]])]
         \cup [type : {"object"}, items : Seq([name : Seq(Bytes), val : Values[levels - 1]])]

-----------------------------------------------------------------------------
(* Parsing.  The functions give, for every cursor, what is read from there. *)

mantissa(t) ==
    LET number[c \in [cursor : Cursors(t), n : Nat]] ==
            IF At(t, c.cursor) \in DigitBytes
            THEN number[[cursor |-> c.cursor + 1, n |-> 10 * c.n + At(t, c.cursor) - 48]]
            ELSE Good(c.n, c.cursor)
    IN  number

parse_json_number(t, p) ==
    LET minus == At(t, p) = 45
        d == IF minus THEN p + 1 ELSE p
        m == IF At(t, d) = 48 THEN Good(0, d + 1) ELSE mantissa(t)[[cursor |-> d, n |-> 0]]
    IN  IF At(t, d) \in DigitBytes /\ m.end - d <= Figures
        THEN Good([type |-> "number", minus |-> minus, n |-> m.val], m.end)
        ELSE Bad

parse_json_literal(t, p) ==
    LET Here == {l \in Literals : HasAt(t, p, l.text)}
    IN  IF Here = {} THEN Bad ELSE Good(Leaf(The(Here).type), p + Len(The(Here).text))

Named(name, v) == IF v.ok THEN Good([name |-> name, val |-> v.val], v.end) ELSE Bad

\* The colon behind a name, and the value behind it.
parse_json_value_of(t, name, inner) ==
    LET colon == SkipSpaces(t, name.end)
    IN  IF name.ok /\ At(t, colon) = 58
        THEN Named(name.val, inner[SkipSpaces(t, colon + 1)])
        ELSE Bad

parse_json_member(t, p, inner) ==
    IF At(t, p) = Quote
    THEN The({parse_json_value_of(t, name, inner) : name \in {ReadString(t, p + 1)}})
    ELSE Bad

\* An item in front of the others.
Before(item, others) ==
    IF others.ok THEN Good(<<item>> \o others.val, others.end) ELSE Bad

\* What the loop does behind an item: the others follow a comma.
NextItem(t, close, item, items) ==
    LET next == SkipSpaces(t, item.end)
    IN  CASE ~item.ok -> Bad
          [] item.ok /\ At(t, next) = 44 ->
                The({Before(item.val, others) : others \in {items[SkipSpaces(t, next + 1)]}})
          [] item.ok /\ At(t, next) = close -> Good(<<item.val>>, next + 1)
          [] OTHER -> Bad

\* Elements up to the bracket, or members up to the brace; inner reads a value
\* one level down.
parse_json_items(t, close, inner) ==
    LET Item(p) == IF close = 125 THEN parse_json_member(t, p, inner)
                   ELSE Named(<<>>, inner[p])
        items[p \in Cursors(t)] == The({NextItem(t, close, item, items) : item \in {Item(p)}})
    IN  items

Tree(open, r) ==
    IF r.ok
    THEN Good([type |-> IF open = 123 THEN "object" ELSE "array", items |-> r.val], r.end)
    ELSE Bad

\* What is behind an opening bracket or brace.
parse_json_tree(t, p, inner) ==
    LET begin == SkipSpaces(t, p + 1)
        close == At(t, p) + 2
    IN  IF At(t, begin) = close THEN Tree(At(t, p), Good(<<>>, begin + 1))
        ELSE The({Tree(At(t, p), r) : r \in {parse_json_items(t, close, inner)[begin]}})

StringOf(r) == IF r.ok THEN Good([type |-> "string", str |-> r.val], r.end) ELSE Bad

\* The value at p, with so many levels left; inner reads one that is a level down.
ValueAt(t, left, inner, p) ==
    CASE At(t, p) = Quote -> The({StringOf(r) : r \in {ReadString(t, p + 1)}})
      [] At(t, p) \in DigitBytes \cup {45} -> parse_json_number(t, p)
      [] At(t, p) \in {91, 123} -> IF left = 0 THEN Bad ELSE parse_json_tree(t, p, inner)
      [] OTHER -> parse_json_literal(t, p)

parse_json_value(t) ==
    LET value_at[left \in Nat] ==
            [p \in Cursors(t) |-> ValueAt(t, left, value_at[left - 1], p)]
    IN  value_at

json_value_parse(t) ==
    LET Whole(v) == IF v.ok /\ SkipSpaces(t, v.end) = Len(t) + 1 THEN v.val ELSE Invalid
    IN  The({Whole(v) : v \in {parse_json_value(t)[DepthLimit][SkipSpaces(t, 1)]}})

-----------------------------------------------------------------------------
(* Dumping.                                                                 *)

number_convert(v) == (IF v.minus THEN <<45>> ELSE <<>>) \o Decimal[v.n]

Padding(sp, depth) == IF sp = 0 THEN <<>> ELSE <<10>> \o [i \in 1 .. depth * sp |-> 32]

NamePart(type, name, sp) ==
    IF type = "array" THEN <<>>
    ELSE string_convert(name) \o (IF sp = 0 THEN <<58>> ELSE <<58, 32>>)

\* An element or a member on a line of its own, unless all is on one.  Of an
\* empty tree, too, both line breaks are written.
tree_convert(v, sp, depth, inner) ==
    LET Item(i) == (IF i = 1 THEN <<>> ELSE <<44>>) \o Padding(sp, depth + 1)
                     \o NamePart(v.type, v.items[i].name, sp) \o inner[v.items[i].val]
        Items == IF v.items = <<>> THEN Padding(sp, 0)
                 ELSE FlattenSeq([i \in DOMAIN v.items |-> Item(i)])
    IN  (IF v.type = "object" THEN <<123>> ELSE <<91>>)
            \o Items \o Padding(sp, depth)
            \o (IF v.type = "object" THEN <<125>> ELSE <<93>>)

ValueText(v, sp, depth, inner) ==
    CASE v.type = "string" -> string_convert(v.str)
      [] v.type = "number" -> number_convert(v)
      [] v.type \in {"object", "array"} -> tree_convert(v, sp, depth, inner)
      [] OTHER -> (CHOOSE l \in Literals : l.type = v.type).text

value_convert(sp) ==
    LET convert[left \in 0 .. DepthLimit] ==
            [v \in Values[left] |-> ValueText(v, sp, DepthLimit - left, convert[left - 1])]
    IN  convert[DepthLimit]

-----------------------------------------------------------------------------
Init ==
    /\ text \in Texts
    /\ value = None /\ first = None /\ spaces = 0

\* Json::parse of the text that came in.
ParseText ==
    /\ first = None
    /\ value' = json_value_parse(text) /\ first' = value'
    /\ UNCHANGED <<text, spaces>>

\* Json::dump, unless there is no value.
Dump ==
    /\ value \notin {None, Invalid}
    /\ spaces' \in Spaces
    /\ text' = value_convert(spaces')[value]
    /\ value' = None
    /\ UNCHANGED first

\* Json::parse of what was dumped.
ParseDumped ==
    /\ first # None /\ value = None
    /\ value' = json_value_parse(text)
    /\ UNCHANGED <<text, spaces, first>>

Next == ParseText \/ Dump \/ ParseDumped

Spec == Init /\ [][Next]_state

-----------------------------------------------------------------------------
(* Properties.                                                              *)

\* What was parsed is read back from what is dumped of it, on one line or
\* indented: quotes, control characters and surrogates in strings and names,
\* empty trees and members of the same name (Json.cc:669-835).
ReadBack ==
    first # None /\ value # None => value = first

\* Of every string in a text the second pass writes at most the bytes that the
\* first one counted, even if it gives up, and it stops where the first one
\* stopped (JsonParser.c:77-104, 184-266).
FitsBuffer ==
    \A p \in DOMAIN text :
        LET l == Counted(text, p)
            s == Written(text, p, l.escape)
        IN  l.ok => /\ Len(s.str) <= l.len /\ ~s.over
                    /\ s.ok => s.end = l.end + 1

\* A dump without indentation is one line, whatever characters the strings and
\* names have, as the frames of the MCP client and of the streamed answer need
\* it (Json.cc:698-735, ToolMCP.cc:87, Callback.cc:454).
OneLine ==
    first # None /\ value = None /\ spaces = 0 =>
        \A p \in DOMAIN text : text[p] >= 32
=============================================================================
