------------------------------ MODULE MCTexts -------------------------------
(***************************************************************************)
(* The functions on texts: JSON there and back, Base64 and the calculator.  *)
(***************************************************************************)
EXTENDS JsonText, Base64, Calculator

\* Parts of strings: a letter, an n, a quote, a backslash, an escaped quote, a
\* \u0001, a \u0000, an e with an accent, both halves of a pair of surrogates,
\* half of an escape and a raw newline.
InStrings == {<<97>>, <<110>>, <<34>>, <<92>>, <<92, 34>>,
              <<92, 117, 48, 48, 48, 49>>, <<92, 117, 48, 48, 48, 48>>,
              <<92, 117, 48, 48, 101, 57>>, <<92, 117, 68, 56, 51, 52>>,
              <<92, 117, 100, 100, 49, 101>>, <<92, 117, 48>>, <<10>>}

\* Parts of trees: brackets, braces, a comma, a name with its colon, a string,
\* a number, null and a space.
InTrees == {<<91>>, <<93>>, <<123>>, <<125>>, <<44>>, <<34, 97, 34, 58>>,
            <<34, 34>>, <<49, 48>>, <<110, 117, 108, 108>>, <<32>>}

\* The texts of up to n parts.
Parts(S, n) ==
    LET parts[k \in 0 .. n] ==
            IF k = 0 THEN {<<>>}
            ELSE parts[k - 1] \cup {t \o part : t \in parts[k - 1], part \in S}
    IN  parts[n]

MCTexts == {<<34>> \o s \o <<34>> : s \in Parts(InStrings, 3)}
              \cup {<<123, 34>> \o s \o <<34, 58, 45, 49, 125>> : s \in Parts(InStrings, 2)}
              \cup Parts(InTrees, 4)
              \cup {<<91>> \o s \o <<93>> : s \in Parts(InTrees, 4)}

\* 0, 2 and 0.5.
MCNumbers == {[text |-> <<48>>, value |-> <<0, 1>>],
              [text |-> <<50>>, value |-> <<2, 1>>],
              [text |-> <<48, 46, 53>>, value |-> <<1, 2>>]}

\* Three machines side by side, of which one has something to do.
NoJson == text = <<>> /\ value = Invalid /\ first = Invalid /\ spaces = 0
NoCodec == bytes = <<>> /\ encoded = <<>>
NoExpression == expression = <<>> /\ answer = [status |-> "error"]

MCInit == \/ Init /\ NoCodec /\ NoExpression
          \/ NoJson /\ CodecInit /\ NoExpression
          \/ NoJson /\ NoCodec /\ CalculatorInit

MCNext == \/ Next /\ UNCHANGED <<codec, calculation>>
          \/ CodecNext /\ UNCHANGED <<state, calculation>>
          \/ Call /\ UNCHANGED <<state, codec>>

MCSpec == MCInit /\ [][MCNext]_<<state, codec, calculation>>
=============================================================================
