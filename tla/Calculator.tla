----------------------------- MODULE Calculator -----------------------------
(***************************************************************************)
(* MathEvaluator, the recursive descent of the calculator tool, and         *)
(* ToolCalculator::Call (source/Tools/ToolBuildin.cc).  A double is         *)
(* modelled by the rational number it stands for, <<numerator,              *)
(* denominator>>, so rounding is left out.                                  *)
(***************************************************************************)
EXTENDS TextCursor

CONSTANTS
    Numbers,        \* numbers to calculate with: their texts and values
    ExpressionDepth \* bound: operators one inside the other

VARIABLES
    expression,     \* what the LLM wants to know, as it is written and meant
    answer          \* what the tool says

calculation == <<expression, answer>>

Rationals == Int \X (Nat \ {0})

\* The same number.
Same(x, y) == x[1] * y[2] = y[1] * x[2]

Plus(x, y) == <<x[1] * y[2] + y[1] * x[2], x[2] * y[2]>>
Neg(x) == <<-x[1], x[2]>>
Times(x, y) == <<x[1] * y[1], x[2] * y[2]>>
Quotient(x, y) == IF y[1] > 0 THEN <<x[1] * y[2], x[2] * y[1]>>
              ELSE <<-(x[1] * y[2]), x[2] * (-y[1])>>

PlusSign == 43
Minus == 45
Star == 42
Slash == 47
Point == 46
Open == 40
Close == 41

-----------------------------------------------------------------------------
(* The functions of the grammar, on the text t from the cursor p on.  What  *)
(* they throw is Bad; the others pass it on.                                *)

skipSpaces(t, p) == Behind(t, p, {9, 10, 11, 12, 13, 32})

NumberBytes == DigitBytes \cup {Point}

\* Reading goes on up to a second point.
NextByte(x, c) ==
    CASE c = Point -> [x EXCEPT !.points = @ + 1]
      [] c # Point /\ x.points > 1 -> x
      [] OTHER -> [num |-> 10 * x.num + c - 48,
                   den |-> IF x.points = 1 THEN 10 * x.den ELSE x.den,
                   points |-> x.points, digits |-> x.digits + 1]

\* What stod reads of a word.
Stod(word) ==
    LET read[n \in 0 .. Len(word)] ==
            IF n = 0 THEN [num |-> 0, den |-> 1, points |-> 0, digits |-> 0]
            ELSE NextByte(read[n - 1], word[n])
    IN  read[Len(word)]

\* Nothing where a number should be is a zero; stod throws without a digit.
parseNumber(t, p) ==
    LET begin == skipSpaces(t, p)
        end == Behind(t, begin, NumberBytes)
        x == Stod(SubSeq(t, begin, end - 1))
    IN  CASE end = begin -> Good(<<0, 1>>, begin)
          [] end # begin /\ x.digits = 0 -> Bad
          [] OTHER -> Good(<<x.num, x.den>>, end)

Sums == {PlusSign, Minus}
Products == {Star, Slash}

Divides(op, y) == op = Slash /\ y[1] = 0

Apply(x, op, y) ==
    CASE op = PlusSign -> Plus(x, y)
      [] op = Minus -> Plus(x, Neg(y))
      [] op = Star -> Times(x, y)
      [] OTHER -> Quotient(x, y)

\* Mutant: the right operand is the whole rest of the expression.
LoopRight(t, ops, operand) ==
    LET more[left \in [ok : {TRUE}, val : Rationals, end : Cursors(t)]] ==
            LET op == skipSpaces(t, left.end)
                next == operand[op + 1]
                right == IF next.ok THEN more[next] ELSE Bad
            IN  CASE At(t, op) \notin ops -> Good(left.val, op)
                  [] At(t, op) \in ops /\ (~right.ok \/ Divides(At(t, op), right.val)) -> Bad
                  [] OTHER -> Good(Apply(left.val, At(t, op), right.val), right.end)
    IN  more

\* The loop over the operands to the right of the sum or the product so far.
Loop(t, ops, operand) ==
    LET more[left \in [ok : {TRUE}, val : Rationals, end : Cursors(t)]] ==
            LET op == skipSpaces(t, left.end)
                right == operand[op + 1]
            IN  CASE At(t, op) \notin ops -> Good(left.val, op)
                  [] At(t, op) \in ops /\ (~right.ok \/ Divides(At(t, op), right.val)) -> Bad
                  [] OTHER -> more[Good(Apply(left.val, At(t, op), right.val), right.end)]
    IN  more

\* The first operand and the loop behind it.
Chain(t, ops, operand, p) ==
    IF operand[p].ok THEN Loop(t, ops, operand)[operand[p]] ELSE Bad

parseTerm(t, factor) == [p \in Cursors(t) |-> Chain(t, Products, factor, p)]

parseExpression(t, factor) ==
    [p \in Cursors(t) |-> Chain(t, Sums, parseTerm(t, factor), p)]

\* A closing parenthesis may be missing.
Closed(t, r) ==
    LET end == skipSpaces(t, r.end)
    IN  IF r.ok THEN Good(r.val, IF At(t, end) = Close THEN end + 1 ELSE end) ELSE Bad

Negated(r) == IF r.ok THEN Good(Neg(r.val), r.end) ELSE Bad

\* The factor at p, with so many levels left; inner reads one that is a level
\* down.
FactorAt(t, left, inner, p) ==
    LET begin == skipSpaces(t, p)
    IN  CASE At(t, begin) = Open ->
                IF left = 0 THEN Bad ELSE Closed(t, parseExpression(t, inner)[begin + 1])
          [] At(t, begin) = Minus -> IF left = 0 THEN Bad ELSE Negated(inner[begin + 1])
          [] OTHER -> parseNumber(t, begin)

parseFactor(t) ==
    LET factor_at[left \in Nat] ==
            [p \in Cursors(t) |-> FactorAt(t, left, factor_at[left - 1], p)]
    IN  factor_at

Unanswered == [status |-> "none"]

\* What is behind the expression is not looked at.  Each level has a byte of its
\* own, so there are no more levels than bytes.
Evaluate(t) ==
    LET x == parseExpression(t, parseFactor(t)[Len(t)])[1]
    IN  IF x.ok THEN [status |-> "success", result |-> x.val] ELSE [status |-> "error"]

-----------------------------------------------------------------------------
(* Expressions: how each is written where it is an operand, and what it     *)
(* means, which is nothing when a divisor is zero.  Place 1 is that of the  *)
(* right side of a sum and of the left one of a product, place 2 that of a  *)
(* factor; place 0 is every other.                                          *)

Nothing == <<>>

Number(x) == [written |-> [place \in 0 .. 2 |-> x.text], means |-> x.value]

Negation(e) ==
    [written |-> [place \in 0 .. 2 |-> <<Minus>> \o e.written[2]],
     means |-> IF e.means = Nothing THEN Nothing ELSE Neg(e.means)]

Result(x, op, y) ==
    IF Nothing \in {x, y} THEN Nothing ELSE IF Divides(op, y) THEN Nothing ELSE Apply(x, op, y)

\* With as few parentheses as possible, and blanks around the operator of a sum.
Operation(l, op, r) ==
    LET own == IF op \in Sums THEN 0 ELSE 1
        sign == IF op \in Sums THEN <<32, op, 32>> ELSE <<op>>
        text == l.written[own] \o sign \o r.written[own + 1]
    IN  [written |-> [place \in 0 .. 2 |->
                        IF place > own THEN <<Open>> \o text \o <<Close>> ELSE text],
         means |-> Result(l.means, op, r.means)]

Leaves == {Number(x) : x \in Numbers}

\* The expressions with at most so many operators one inside the other.
Expressions[levels \in Nat] ==
    IF levels = 0 THEN Leaves
    ELSE LET E == Expressions[levels - 1]
         IN  Leaves \cup {Negation(e) : e \in E}
               \cup {Operation(l, op, r) : l \in E, op \in Sums \cup Products, r \in E}

ASSUME NumberAssumption ==
    /\ ExpressionDepth \in Nat
    /\ \A x \in Numbers :
          /\ x.text \in Seq(NumberBytes) /\ x.value \in Rationals
          /\ Stod(x.text).digits > 0
          /\ Same(<<Stod(x.text).num, Stod(x.text).den>>, x.value)

-----------------------------------------------------------------------------

CalculatorInit == expression \in Expressions[ExpressionDepth] /\ answer = Unanswered

\* ToolCalculator::Call, with the expression among its parameters.
Call ==
    /\ answer = Unanswered
    /\ answer' = Evaluate(expression.written[0])
    /\ UNCHANGED expression

CalculatorSpec == CalculatorInit /\ [][Call]_calculation

-----------------------------------------------------------------------------

\* "Evaluate a mathematical expression" (ToolBuildin.cc:62): operators bind
\* and associate as they are written down, and a division by zero anywhere is
\* an error and no result (ToolBuildin.cc:76-146).
Calculates ==
    expression # <<>> /\ answer # Unanswered =>
        IF expression.means = Nothing THEN answer.status = "error"
        ELSE answer.status = "success" /\ Same(answer.result, expression.means)
=============================================================================
