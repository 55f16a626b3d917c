------------------------- MODULE SseStream_proofs -------------------------
(***************************************************************************)
(* The framing of LLMBase::ProcessSseChunk for every body and every way of  *)
(* cutting it.                                                              *)
(***************************************************************************)
EXTENDS SseStream, SequenceTheorems, TLAPS

(***************************************************************************)
(* The inductive invariant: the buffer is the end of what was received, and *)
(* between two pieces the position in it is at its beginning.               *)
(***************************************************************************)
Framed ==
    /\ Len(sse_buffer) <= received
    /\ \A i \in 1 .. Len(sse_buffer) :
          sse_buffer[i] = body[(received - Len(sse_buffer)) + i]
    /\ pc = "wait" => pos = 0

IInv == TypeOK /\ Framed

\* The bytes of the body behind the loop.
At == (received - Len(sse_buffer)) + pos

-----------------------------------------------------------------------------
(* Lemmas about the operators.                                              *)

\* A body is a sequence of bytes.
LEMMA BodyType == TypeOK => body \in Seq(STRING) /\ Len(body) \in Nat
BY BodyAssumption DEF TypeOK

\* The text of a field is a sequence of tokens (LLMBase.cc:427-435).
LEMMA TextType == ASSUME NEW field PROVE Text(field) \in Seq(Token)
BY EmptySeq DEF Text

\* A line is a sequence of bytes, and the one the loop takes at byte end of
\* the buffer is the one that ends at the same byte of the body.
LEMMA LineOfBody ==
    ASSUME TypeOK, Framed, NEW end \in pos + 1 .. Len(sse_buffer)
    PROVE  /\ SubSeq(sse_buffer, pos + 1, end - 1) \in Seq(STRING)
           /\ SubSeq(sse_buffer, pos + 1, end - 1)
                = SubSeq(body, At + 1, (At - pos + end) - 1)
<1> DEFINE d == received - Len(sse_buffer)
           s == SubSeq(sse_buffer, pos + 1, end - 1)
           t == SubSeq(body, d + pos + 1, d + end - 1)
<1>1. /\ sse_buffer \in Seq(STRING) /\ Len(sse_buffer) \in Nat
      /\ pos \in 0 .. Len(sse_buffer) /\ received \in 0 .. Len(body)
      /\ body \in Seq(STRING) /\ Len(body) \in Nat
  BY BodyType DEF TypeOK
<1>2. d \in Nat /\ d + Len(sse_buffer) <= Len(body) /\ end \in Int /\ pos \in Int
  BY <1>1 DEF Framed
<1>3. \A i \in pos + 1 .. end - 1 : sse_buffer[i] \in STRING
  BY <1>1, <1>2
<1>4. /\ s \in Seq(STRING)
      /\ Len(s) = IF pos + 1 <= end - 1 THEN (end - 1) - (pos + 1) + 1 ELSE 0
      /\ \A i \in 1 .. (end - 1) - (pos + 1) + 1 :
            s[i] = sse_buffer[(pos + 1) + i - 1]
  <2> HIDE DEF d
  <2> QED
    BY <1>2, <1>3, SubSeqProperties
<1>5. \A i \in d + pos + 1 .. d + end - 1 : body[i] \in STRING
  BY <1>1, <1>2
<1>6. /\ t \in Seq(STRING)
      /\ Len(t) = IF d + pos + 1 <= d + end - 1
                  THEN (d + end - 1) - (d + pos + 1) + 1 ELSE 0
      /\ \A i \in 1 .. (d + end - 1) - (d + pos + 1) + 1 :
            t[i] = body[(d + pos + 1) + i - 1]
  <2> HIDE DEF d
  <2> QED
    BY <1>2, <1>5, SubSeqProperties
<1>7. \A i \in 1 .. Len(s) : s[i] = t[i]
  <2> SUFFICES ASSUME NEW i \in 1 .. Len(s) PROVE s[i] = t[i]
    OBVIOUS
  <2> HIDE DEF s, t
  <2>1. i \in 1 .. end - 1 - pos /\ pos + i \in 1 .. Len(sse_buffer)
    <3> HIDE DEF d
    <3> QED
      BY <1>1, <1>2, <1>4
  <2>2. s[i] = sse_buffer[pos + i] /\ t[i] = body[d + (pos + i)]
    <3>1. s[i] = sse_buffer[(pos + 1) + i - 1]
      <4> HIDE DEF d
      <4> QED
        BY <2>1, <1>1, <1>2, <1>4
    <3>2. t[i] = body[(d + pos + 1) + i - 1]
      <4> HIDE DEF d
      <4> QED
        BY <2>1, <1>1, <1>2, <1>6
    <3>3. (pos + 1) + i - 1 = pos + i /\ (d + pos + 1) + i - 1 = d + (pos + i)
      <4> HIDE DEF d
      <4> QED
        BY <1>1, <1>2
    <3> QED
      BY <3>1, <3>2, <3>3
  <2> QED
    BY <2>1, <2>2 DEF Framed
<1>8. Len(s) = Len(t)
  <2> HIDE DEF d, s, t
  <2> QED
    BY <1>2, <1>4, <1>6
<1>9. s = t
  <2> HIDE DEF d, s, t
  <2> QED
    BY <1>4, <1>6, <1>7, <1>8, SeqEqual
<1>10. At + 1 = d + pos + 1 /\ (At - pos + end) - 1 = d + end - 1
  BY <1>1, <1>2 DEF At
<1> QED
  BY <1>4, <1>9, <1>10

\* A line without its "\r" is a sequence of bytes (LLMBase.cc:395-398).
LEMMA StrippedType ==
    ASSUME NEW line \in Seq(STRING)
    PROVE  Lines!Stripped(line) \in Seq(STRING)
<1>1. CASE line = <<>>
  BY <1>1 DEF Lines!Stripped
<1>2. CASE line # <<>>
  <2>1. Len(line) \in Nat \ {0}
    BY <1>2, EmptySeq
  <2>2. \A i \in 1 .. Len(line) - 1 : line[i] \in STRING
    BY <2>1
  <2>3. SubSeq(line, 1, Len(line) - 1) \in Seq(STRING)
    BY <2>1, <2>2, SubSeqProperties
  <2> QED
    BY <2>3 DEF Lines!Stripped
<1> QED
  BY <1>1, <1>2

\* An iteration that takes a line has the type of the texts it appends and
\* records the line unless it is empty (LLMBase.cc:400-459).
LEMMA LineSeen ==
    ASSUME TypeOK, NEW line \in Seq(STRING), SkipLine(line) \/ EventLine(line)
    PROVE  /\ handled' = IF line = <<>> THEN handled ELSE Append(handled, line)
           /\ handled' \in Seq(Seq(STRING))
           /\ line # Done
           /\ content' \in Seq(Token) /\ reasoning' \in Seq(Token)
           /\ calls' \in Nat
           /\ shown' \in Seq([content : Seq(Token), reasoning : Seq(Token),
                               line : Nat])
           /\ outcome' \in {"open", "complete", "error", "crashed"}
<1> USE DEF TypeOK
<1>1. CASE SkipLine(line)
  <2>1. Append(handled, line) \in Seq(Seq(STRING))
    OBVIOUS
  <2> QED
    BY <1>1, <2>1 DEF SkipLine, message
<1>2. CASE EventLine(line)
  <2>1. line # Done /\ line # <<>>
    <3>1. Len(line) = 5
      BY <1>2 DEF EventLine, IsEvent
    <3>2. Len(Done) # 5
      BY DEF Done
    <3>3. Len(<<>>) # 5
      BY EmptySeq
    <3> QED
      BY <3>1, <3>2, <3>3, Zenon
  <2>2. handled' = Append(handled, line) /\ handled' \in Seq(Seq(STRING))
    BY <1>2 DEF EventLine
  <2>3. Text(line[3]) \in Seq(Token) /\ Text(line[4]) \in Seq(Token)
    BY TextType
  <2>4. content' \in Seq(Token) /\ reasoning' \in Seq(Token)
    BY <1>2, <2>3, ConcatProperties DEF EventLine
  <2>5. [content |-> Text(line[3]), reasoning |-> reasoning',
         line |-> Len(handled')]
            \in [content : Seq(Token), reasoning : Seq(Token), line : Nat]
    BY <2>2, <2>3, <2>4
  <2>6. Append(shown, [content |-> Text(line[3]), reasoning |-> reasoning',
                       line |-> Len(handled')])
            \in Seq([content : Seq(Token), reasoning : Seq(Token), line : Nat])
    BY <2>5
  <2>7. shown' \in Seq([content : Seq(Token), reasoning : Seq(Token),
                        line : Nat])
    BY <1>2, <2>6 DEF EventLine
  <2>8. calls' \in Nat
    <3>1. calls' = calls \/ calls' = calls + 0 \/ calls' = calls + 1
      BY <1>2 DEF EventLine
    <3> QED
      BY <3>1
  <2>9. outcome' \in {"open", "complete", "error", "crashed"}
    BY <1>2 DEF EventLine
  <2> QED
    BY <2>1, <2>2, <2>4, <2>7, <2>8, <2>9
<1> QED
  BY <1>1, <1>2

-----------------------------------------------------------------------------
(* The invariant.                                                           *)

LEMMA InitIInv == Init => IInv
<1> SUFFICES ASSUME Init PROVE IInv
  OBVIOUS
<1>1. body \in Seq(STRING) /\ Len(body) \in Nat
  BY BodyAssumption DEF Init
<1>2. /\ <<>> \in Seq(STRING) /\ <<>> \in Seq(Token)
      /\ <<>> \in Seq(Seq(STRING)) /\ Len(<<>>) = 0
      /\ <<>> \in Seq([content : Seq(Token), reasoning : Seq(Token), line : Nat])
  BY EmptySeq
<1>3. NoAnswer \in [content : Seq(Token), reasoning : Seq(Token), calls : BOOLEAN]
  BY <1>2 DEF NoAnswer
<1>4. TypeOK
  BY <1>1, <1>2, <1>3 DEF Init, TypeOK
<1>5. Framed
  BY <1>2 DEF Init, Framed
<1> QED
  BY <1>4, <1>5 DEF IInv

\* A piece of the body is appended behind what was received before it.
LEMMA ExtractIInv ==
    ASSUME IInv, NEW n \in 1 .. Len(body) - received, Extract(n)
    PROVE  IInv' /\ UNCHANGED <<body, At, handled>>
<1> DEFINE piece == SubSeq(body, received + 1, received + n)
<1>1. /\ sse_buffer \in Seq(STRING) /\ Len(sse_buffer) \in Nat
      /\ received \in 0 .. Len(body) /\ Len(body) \in Nat
      /\ body \in Seq(STRING) /\ pos \in Nat /\ n \in Nat
      /\ Len(sse_buffer) <= received /\ pos = 0
  BY BodyType DEF IInv, Framed, TypeOK, Extract
<1>2. \A i \in received + 1 .. received + n : body[i] \in STRING
  BY <1>1
<1>3. /\ piece \in Seq(STRING) /\ Len(piece) = n
      /\ \A i \in 1 .. n : piece[i] = body[received + i]
  <2>1. /\ piece \in Seq(STRING)
        /\ Len(piece) = IF received + 1 <= received + n
                        THEN (received + n) - (received + 1) + 1 ELSE 0
        /\ \A i \in 1 .. (received + n) - (received + 1) + 1 :
              piece[i] = body[(received + 1) + i - 1]
    <3> DEFINE a == received + 1
               b == received + n
    <3>1. a \in Int /\ b \in Int
      BY <1>1
    <3>2. \A i \in a .. b : body[i] \in STRING
      BY <1>2
    <3> HIDE DEF a, b
    <3>3. /\ SubSeq(body, a, b) \in Seq(STRING)
          /\ Len(SubSeq(body, a, b)) = IF a <= b THEN b - a + 1 ELSE 0
          /\ \A i \in 1 .. b - a + 1 : SubSeq(body, a, b)[i] = body[a + i - 1]
      BY <3>1, <3>2, SubSeqProperties
    <3> QED
      BY <3>3 DEF a, b
  <2> HIDE DEF piece
  <2> QED
    BY <1>1, <2>1
<1>4. /\ sse_buffer' = sse_buffer \o piece
      /\ received' = received + n /\ pos' = 0 /\ pc' = "loop"
      /\ UNCHANGED <<mode, body, handled, message, outcome, answer>>
  BY DEF Extract
<1> HIDE DEF piece
<1>5. /\ sse_buffer' \in Seq(STRING)
      /\ Len(sse_buffer') = Len(sse_buffer) + n
      /\ \A i \in 1 .. Len(sse_buffer) + n :
            sse_buffer'[i] = IF i <= Len(sse_buffer) THEN sse_buffer[i]
                             ELSE piece[i - Len(sse_buffer)]
  BY <1>1, <1>3, <1>4, ConcatProperties
<1>6. \A i \in 1 .. Len(sse_buffer') :
         sse_buffer'[i] = body'[(received' - Len(sse_buffer')) + i]
  <2> SUFFICES ASSUME NEW i \in 1 .. Len(sse_buffer) + n
               PROVE  sse_buffer'[i] = body[(received - Len(sse_buffer)) + i]
    BY <1>1, <1>4, <1>5
  <2>1. CASE i <= Len(sse_buffer)
    <3>1. i \in 1 .. Len(sse_buffer)
      BY <1>1, <2>1
    <3>2. sse_buffer[i] = body[(received - Len(sse_buffer)) + i]
      BY <3>1 DEF IInv, Framed
    <3>3. sse_buffer'[i] = sse_buffer[i]
      BY <1>5, <2>1
    <3> QED
      BY <3>2, <3>3
  <2>2. CASE i > Len(sse_buffer)
    <3>1. i - Len(sse_buffer) \in 1 .. n
      BY <1>1, <2>2
    <3>2. received + (i - Len(sse_buffer)) = (received - Len(sse_buffer)) + i
      BY <1>1
    <3> QED
      BY <1>1, <1>3, <1>5, <2>2, <3>1, <3>2
  <2> QED
    BY <1>1, <2>1, <2>2
<1>7. Framed'
  BY <1>1, <1>4, <1>5, <1>6 DEF Framed
<1>8. TypeOK'
  BY <1>1, <1>4, <1>5 DEF IInv, TypeOK, message
<1>9. At' = At
  BY <1>1, <1>4, <1>5 DEF At
<1> QED
  BY <1>4, <1>7, <1>8, <1>9 DEF IInv

\* What is behind the last newline is kept.
LEMMA RestIInv ==
    ASSUME IInv, Rest
    PROVE  IInv' /\ UNCHANGED <<body, At, handled>>
<1> DEFINE rest == SubSeq(sse_buffer, pos + 1, Len(sse_buffer))
<1>1. /\ sse_buffer \in Seq(STRING) /\ Len(sse_buffer) \in Nat
      /\ received \in 0 .. Len(body) /\ Len(body) \in Nat
      /\ pos \in 0 .. Len(sse_buffer) /\ Len(sse_buffer) <= received
  BY BodyType DEF IInv, Framed, TypeOK
<1>2. /\ rest \in Seq(STRING) /\ Len(rest) = Len(sse_buffer) - pos
      /\ \A i \in 1 .. Len(sse_buffer) - pos : rest[i] = sse_buffer[pos + i]
  <2> DEFINE a == pos + 1
             b == Len(sse_buffer)
  <2>1. a \in Int /\ b \in Int /\ a <= b + 1
    BY <1>1
  <2>2. \A i \in a .. b : sse_buffer[i] \in STRING
    BY <1>1
  <2> HIDE DEF a, b
  <2>3. /\ SubSeq(sse_buffer, a, b) \in Seq(STRING)
        /\ Len(SubSeq(sse_buffer, a, b)) = IF a <= b THEN b - a + 1 ELSE 0
        /\ \A i \in 1 .. b - a + 1 :
              SubSeq(sse_buffer, a, b)[i] = sse_buffer[a + i - 1]
    BY <2>1, <2>2, SubSeqProperties
  <2>4. Len(SubSeq(sse_buffer, a, b)) = b - a + 1
    BY <2>1, <2>3
  <2>5. /\ b - a + 1 = Len(sse_buffer) - pos
        /\ \A i \in 1 .. Len(sse_buffer) - pos : a + i - 1 = pos + i
    BY <1>1 DEF a, b
  <2>6. rest = SubSeq(sse_buffer, a, b)
    BY DEF a, b
  <2> HIDE DEF rest
  <2> QED
    BY <2>3, <2>4, <2>5, <2>6
<1>3. /\ sse_buffer' = rest /\ pos' = 0 /\ pc' = "wait"
      /\ UNCHANGED <<connection, handled, message, outcome, answer>>
  BY DEF Rest
<1> HIDE DEF rest
<1>4. \A i \in 1 .. Len(rest) : rest[i] = body[(received - Len(rest)) + i]
  <2> SUFFICES ASSUME NEW i \in 1 .. Len(rest)
               PROVE  rest[i] = body[(received - Len(rest)) + i]
    OBVIOUS
  <2>1. i \in 1 .. Len(sse_buffer) - pos /\ pos + i \in 1 .. Len(sse_buffer)
    BY <1>1, <1>2
  <2>2. sse_buffer[pos + i] = body[(received - Len(sse_buffer)) + (pos + i)]
    BY <2>1 DEF IInv, Framed
  <2>3. (received - Len(sse_buffer)) + (pos + i) = (received - Len(rest)) + i
    BY <1>1, <1>2
  <2> QED
    BY <1>2, <2>1, <2>2, <2>3
<1>5. Framed'
  BY <1>1, <1>2, <1>3, <1>4 DEF Framed, connection
<1>6. TypeOK'
  BY <1>1, <1>2, <1>3 DEF IInv, TypeOK, connection, message
<1>7. At' = At
  BY <1>1, <1>2, <1>3 DEF At, connection
<1> QED
  BY <1>3, <1>5, <1>6, <1>7 DEF IInv, connection

\* An iteration of the loop is a step of the client that sees its line.
LEMMA TakeIInv ==
    ASSUME IInv, NEW end \in pos + 1 .. Len(sse_buffer),
           TakeLine(end) \/ TakeDone(end)
    PROVE  IInv' /\ Lines!StreamNext
<1> DEFINE e == At - pos + end
           line == Line(end)
<1>1. /\ sse_buffer \in Seq(STRING) /\ Len(sse_buffer) \in Nat
      /\ received \in 0 .. Len(body) /\ Len(body) \in Nat
      /\ pos \in 0 .. Len(sse_buffer) /\ Len(sse_buffer) <= received
      /\ end \in Nat
  BY BodyType DEF IInv, Framed, TypeOK
<1>2. /\ e = (received - Len(sse_buffer)) + end
      /\ e \in At + 1 .. Len(body) /\ At \in Nat
  BY <1>1 DEF At
<1>3. EndsLine(end) /\ outcome = "open" /\ pc = "loop"
  BY DEF TakeLine, TakeDone
<1>4. body[e] = "\n"
  <2>1. end \in 1 .. Len(sse_buffer)
    BY <1>1
  <2>2. sse_buffer[end] = body[(received - Len(sse_buffer)) + end]
    BY <2>1 DEF IInv, Framed
  <2> HIDE DEF e
  <2> QED
    BY <1>2, <1>3, <2>2 DEF EndsLine
<1>5. \A i \in At + 1 .. e - 1 : body[i] # "\n"
  <2> SUFFICES ASSUME NEW i \in At + 1 .. e - 1 PROVE body[i] # "\n"
    OBVIOUS
  <2> DEFINE k == i - (received - Len(sse_buffer))
  <2>1. k \in pos + 1 .. end - 1 /\ k \in 1 .. Len(sse_buffer)
    BY <1>1 DEF At
  <2>2. (received - Len(sse_buffer)) + k = i
    BY <1>1, <1>2
  <2>3. sse_buffer[k] # "\n"
    BY <1>3, <2>1 DEF EndsLine
  <2> HIDE DEF k
  <2>4. sse_buffer[k] = body[(received - Len(sse_buffer)) + k]
    BY <2>1 DEF IInv, Framed
  <2> QED
    BY <2>2, <2>3, <2>4
<1>6. line = Lines!Stripped(SubSeq(body, At + 1, e - 1)) /\ line \in Seq(STRING)
  <2>1. /\ SubSeq(sse_buffer, pos + 1, end - 1) \in Seq(STRING)
        /\ SubSeq(sse_buffer, pos + 1, end - 1) = SubSeq(body, At + 1, e - 1)
    BY LineOfBody DEF IInv
  <2> QED
    BY <2>1, StrippedType DEF Line
<1> HIDE DEF e, line
<1>7. CASE TakeLine(end)
  <2>1. SkipLine(line) \/ EventLine(line)
    BY <1>7 DEF TakeLine, line
  <2>2. /\ handled' = IF line = <<>> THEN handled ELSE Append(handled, line)
        /\ handled' \in Seq(Seq(STRING)) /\ line # Done
        /\ content' \in Seq(Token) /\ reasoning' \in Seq(Token) /\ calls' \in Nat
        /\ shown' \in Seq([content : Seq(Token), reasoning : Seq(Token),
                            line : Nat])
        /\ outcome' \in {"open", "complete", "error", "crashed"}
    BY <1>6, <2>1, LineSeen DEF IInv
  <2>3. pos' = end /\ UNCHANGED <<connection, pc, sse_buffer, answer>>
    BY <1>7 DEF TakeLine
  <2>4. TypeOK'
    BY <1>1, <2>2, <2>3 DEF IInv, TypeOK, connection
  <2>5. Framed'
    BY <1>1, <1>3, <2>3 DEF IInv, Framed, connection
  <2>6. At' = e
    BY <1>1, <1>2, <2>3 DEF At, connection
  <2>7. Lines!SeeLine(e)
    BY <1>4, <1>5, <1>6, <2>2, <2>3, <2>6 DEF Lines!SeeLine, At, connection
  <2> QED
    BY <1>2, <2>4, <2>5, <2>7 DEF IInv, Lines!StreamNext, At
<1>8. CASE TakeDone(end)
  <2>1. /\ line = Done /\ handled' = Append(handled, Done)
        /\ sse_buffer' = <<>> /\ pos' = 0 /\ pc' = "wait"
        /\ UNCHANGED <<connection, message, outcome, answer>>
    BY <1>8 DEF TakeDone, line
  <2>2. <<>> \in Seq(STRING) /\ Len(<<>>) = 0
    BY EmptySeq
  <2>3. handled' \in Seq(Seq(STRING))
    BY <1>6, <2>1 DEF IInv, TypeOK
  <2>4. TypeOK'
    BY <1>1, <2>1, <2>2, <2>3 DEF IInv, TypeOK, connection, message
  <2>5. Framed'
    BY <1>1, <2>1, <2>2 DEF Framed, connection
  <2>6. At' = received /\ received \in e .. Len(body)
    BY <1>1, <1>2, <2>1, <2>2 DEF At, connection
  <2>7. line # <<>>
    BY <2>1, <2>2 DEF Done
  <2>8. Lines!SeeLine(e)
    BY <1>4, <1>5, <1>6, <2>1, <2>6, <2>7 DEF Lines!SeeLine, At, connection
  <2> QED
    BY <1>2, <2>4, <2>5, <2>8 DEF IInv, Lines!StreamNext, At
<1> QED
  BY <1>7, <1>8

\* The end of the task leaves the buffer alone.
LEMMA EndIInv ==
    ASSUME IInv, HandleStreamComplete \/ HttpCallback \/ HttpFails
    PROVE  IInv' /\ UNCHANGED <<body, At, handled>>
<1>1. UNCHANGED <<connection, buffer, message>>
  BY DEF HandleStreamComplete, HttpCallback, HttpFails
<1>2. outcome' \in {"open", "complete", "error", "crashed"}
  BY DEF HandleStreamComplete, HttpCallback, HttpFails
<1>3. answer' \in [content : Seq(Token), reasoning : Seq(Token), calls : BOOLEAN]
  <2>1. CASE HandleStreamComplete
    BY <2>1 DEF HandleStreamComplete, IInv, TypeOK
  <2>2. CASE HttpCallback
    <3>1. Text(body[2]) \in Seq(Token) /\ Text(body[3]) \in Seq(Token)
      BY TextType
    <3>2. \/ answer' = answer
          \/ answer' = [content |-> Text(body[2]), reasoning |-> Text(body[3]),
                        calls |-> body[4] = "calls"]
      BY <2>2 DEF HttpCallback
    <3>3. (body[4] = "calls") \in BOOLEAN
      OBVIOUS
    <3>4. answer \in [content : Seq(Token), reasoning : Seq(Token),
                      calls : BOOLEAN]
      BY DEF IInv, TypeOK
    <3> DEFINE said == body[4] = "calls"
    <3> HIDE DEF said
    <3>5. [content |-> Text(body[2]), reasoning |-> Text(body[3]), calls |-> said]
            \in [content : Seq(Token), reasoning : Seq(Token), calls : BOOLEAN]
      BY <3>1, <3>3 DEF said
    <3> QED
      BY <3>2, <3>4, <3>5 DEF said
  <2>3. CASE HttpFails
    BY <2>3 DEF HttpFails, IInv, TypeOK
  <2> QED
    BY <2>1, <2>2, <2>3
<1>4. TypeOK'
  BY <1>1, <1>2, <1>3 DEF IInv, TypeOK, connection, buffer, message
<1>5. Framed' /\ At' = At /\ UNCHANGED <<body, handled>>
  BY <1>1 DEF IInv, Framed, At, connection, buffer
<1> QED
  BY <1>4, <1>5 DEF IInv

\* The invariant is kept, and every step is one of the line stream or none.
LEMMA StepIInv ==
    ASSUME IInv, [Next]_vars
    PROVE  IInv' /\ (Lines!StreamNext \/ UNCHANGED <<body, At, handled>>)
<1>1. CASE Rest
  BY <1>1, RestIInv
<1>2. ASSUME NEW end \in pos + 1 .. Len(sse_buffer),
             TakeLine(end) \/ TakeDone(end)
      PROVE  IInv' /\ Lines!StreamNext
  BY <1>2, TakeIInv
<1>3. ASSUME NEW n \in 1 .. Len(body) - received, Extract(n)
      PROVE  IInv' /\ UNCHANGED <<body, At, handled>>
  BY <1>3, ExtractIInv
<1>4. CASE HandleStreamComplete \/ HttpCallback \/ HttpFails
  BY <1>4, EndIInv
<1>5. CASE UNCHANGED vars
  BY <1>5 DEF IInv, TypeOK, Framed, At, vars, connection, buffer, message
<1> QED
  BY <1>1, <1>2, <1>3, <1>4, <1>5 DEF Next, Loop, Network, Terminated

-----------------------------------------------------------------------------

\* Every variable of a call keeps its type, for every body and every cut.
THEOREM TypeCorrect == Spec => []TypeOK
<1>1. IInv => TypeOK
  BY DEF IInv
<1> QED
  BY <1>1, InitIInv, StepIInv, PTL DEF Spec

\* However the body is cut into pieces, the loop of ProcessSseChunk sees its
\* lines whole, once and in order (LLMBase.cc:382-409).
THEOREM LinesSeen == Spec => SeesLines
<1>1. Init => Lines!StreamInit
  <2>1. Len(<<>>) = 0
    BY EmptySeq
  <2>2. Init => (received - Len(sse_buffer)) + pos = 0
    <3> SUFFICES ASSUME Init PROVE (received - Len(sse_buffer)) + pos = 0
      OBVIOUS
    <3>1. received = 0 /\ pos = 0 /\ Len(sse_buffer) = 0
      BY <2>1 DEF Init
    <3> QED
      BY <3>1
  <2>3. Init => body \in Seq(STRING) /\ handled = <<>>
    BY BodyAssumption DEF Init
  <2> QED
    BY <2>2, <2>3 DEF Lines!StreamInit
<1>2. IInv /\ [Next]_vars => [Lines!StreamNext]_(Lines!streamVars)
  BY StepIInv DEF Lines!streamVars, At
<1> QED
  BY <1>1, <1>2, InitIInv, StepIInv, PTL DEF Spec, SeesLines, Lines!StreamSpec

-----------------------------------------------------------------------------
(***************************************************************************)
(* The texts of the lines.  Selected is AreTexts with the lines as a        *)
(* parameter.                                                               *)
(***************************************************************************)
Selects(from, texts, field, lines, n) ==
    /\ from \in [DOMAIN texts -> 1 .. n]
    /\ \A i, j \in DOMAIN texts : i < j => from[i] < from[j]
    /\ \A i \in DOMAIN texts :
          IsEvent(lines[from[i]]) /\ texts[i] = lines[from[i]][field]
    /\ \A k \in 1 .. n :
          IsEvent(lines[k]) /\ lines[k][field] \in Token =>
              \E i \in DOMAIN texts : from[i] = k

Selected(texts, field, lines, n) ==
    \E from : Selects(from, texts, field, lines, n)

LEMMA AreTextsSelected ==
    ASSUME NEW texts, NEW field, NEW n
    PROVE  AreTexts(texts, field, n) <=> Selected(texts, field, handled, n)
BY DEF AreTexts, Selected, Selects

\* A line more does not change the texts of the lines before it.
LEMMA SelectedBefore ==
    ASSUME NEW S, NEW lines \in Seq(S), NEW line \in S, NEW texts, NEW field,
           NEW n \in Nat, n <= Len(lines), Selected(texts, field, lines, n)
    PROVE  Selected(texts, field, Append(lines, line), n)
<1> DEFINE more == Append(lines, line)
<1>1. PICK from : Selects(from, texts, field, lines, n)
  BY DEF Selected
<1>2. \A k \in 1 .. n : more[k] = lines[k]
  BY AppendProperties
<1> HIDE DEF more
<1>3. Selects(from, texts, field, more, n)
  BY <1>1, <1>2 DEF Selects
<1> QED
  BY <1>3 DEF Selected, more

\* A line without a text of the field adds none.
LEMMA SelectedNone ==
    ASSUME NEW S, NEW lines \in Seq(S), NEW line \in S, NEW texts, NEW field,
           ~(IsEvent(line) /\ line[field] \in Token),
           Selected(texts, field, lines, Len(lines))
    PROVE  Selected(texts, field, Append(lines, line), Len(Append(lines, line)))
<1> DEFINE more == Append(lines, line)
           n == Len(lines)
<1>1. PICK from : Selects(from, texts, field, lines, n)
  BY DEF Selected
<1>2. /\ n \in Nat /\ Len(more) = n + 1 /\ more[n + 1] = line
      /\ \A k \in 1 .. n : more[k] = lines[k]
  BY LenProperties, AppendProperties
<1> HIDE DEF more, n
<1>3. from \in [DOMAIN texts -> 1 .. n + 1]
  BY <1>1, <1>2 DEF Selects
<1>4. \A i \in DOMAIN texts :
          IsEvent(more[from[i]]) /\ texts[i] = more[from[i]][field]
  BY <1>1, <1>2 DEF Selects
<1>5. \A k \in 1 .. n + 1 : IsEvent(more[k]) /\ more[k][field] \in Token =>
          \E i \in DOMAIN texts : from[i] = k
  <2> SUFFICES ASSUME NEW k \in 1 .. n + 1, IsEvent(more[k]), more[k][field] \in Token
               PROVE  \E i \in DOMAIN texts : from[i] = k
    OBVIOUS
  <2>1. k # n + 1
    BY <1>2
  <2>2. k \in 1 .. n
    BY <1>2, <2>1
  <2> QED
    BY <1>1, <1>2, <2>2 DEF Selects
<1>6. Selects(from, texts, field, more, n + 1)
  BY <1>1, <1>3, <1>4, <1>5 DEF Selects
<1> QED
  BY <1>2, <1>6 DEF Selected, more

\* The text of a line that has one comes last.
LEMMA SelectedOne ==
    ASSUME NEW S, NEW lines \in Seq(S), NEW line \in S, NEW T, NEW texts \in Seq(T),
           NEW field, IsEvent(line), line[field] \in T,
           Selected(texts, field, lines, Len(lines))
    PROVE  Selected(Append(texts, line[field]), field, Append(lines, line),
                    Len(Append(lines, line)))
<1> DEFINE more == Append(lines, line)
           said == Append(texts, line[field])
           n == Len(lines)
           m == Len(texts)
<1>1. PICK from : Selects(from, texts, field, lines, n)
  BY DEF Selected
<1>2. /\ n \in Nat /\ Len(more) = n + 1 /\ more[n + 1] = line
      /\ \A k \in 1 .. n : more[k] = lines[k]
  BY LenProperties, AppendProperties
<1>3. /\ m \in Nat /\ DOMAIN said = 1 .. m + 1 /\ said[m + 1] = line[field]
      /\ \A i \in 1 .. m : said[i] = texts[i]
      /\ DOMAIN texts = 1 .. m
  BY LenProperties, AppendProperties
<1> HIDE DEF more, said, n, m
<1> DEFINE new == [i \in 1 .. m + 1 |-> IF i = m + 1 THEN n + 1 ELSE from[i]]
<1>4. \A i \in 1 .. m : from[i] \in 1 .. n /\ new[i] = from[i]
  BY <1>1, <1>3 DEF Selects
<1>5. new[m + 1] = n + 1 /\ DOMAIN new = 1 .. m + 1
  BY <1>3
<1>6. \A i \in 1 .. m + 1 : i = m + 1 \/ i \in 1 .. m
  BY <1>3
<1>7. new \in [DOMAIN said -> 1 .. n + 1]
  <2>1. \A i \in 1 .. m + 1 : new[i] \in 1 .. n + 1
    <3> HIDE DEF new
    <3> QED
      BY <1>2, <1>4, <1>5, <1>6
  <2> QED
    BY <1>3, <2>1
<1> HIDE DEF new
<1>8. \A i, j \in DOMAIN said : i < j => new[i] < new[j]
  <2> SUFFICES ASSUME NEW i \in 1 .. m + 1, NEW j \in 1 .. m + 1, i < j
               PROVE  new[i] < new[j]
    BY <1>3
  <2>1. i \in 1 .. m
    BY <1>3
  <2>2. CASE j = m + 1
    BY <1>2, <1>4, <1>5, <2>1, <2>2
  <2>3. CASE j \in 1 .. m
    BY <1>1, <1>3, <1>4, <2>1, <2>3 DEF Selects
  <2> QED
    BY <1>6, <2>2, <2>3
<1>9. \A i \in DOMAIN said : IsEvent(more[new[i]]) /\ said[i] = more[new[i]][field]
  <2> SUFFICES ASSUME NEW i \in 1 .. m + 1
               PROVE  IsEvent(more[new[i]]) /\ said[i] = more[new[i]][field]
    BY <1>3
  <2>1. CASE i = m + 1
    BY <1>2, <1>3, <1>5, <2>1
  <2>2. CASE i \in 1 .. m
    <3>1. IsEvent(lines[from[i]]) /\ texts[i] = lines[from[i]][field]
      BY <1>1, <1>3, <2>2 DEF Selects
    <3>2. more[from[i]] = lines[from[i]] /\ new[i] = from[i]
      BY <1>2, <1>4, <2>2
    <3>3. said[i] = texts[i]
      BY <1>3, <2>2
    <3> QED
      BY <3>1, <3>2, <3>3
  <2> QED
    BY <1>6, <2>1, <2>2
<1>10. \A k \in 1 .. n + 1 : IsEvent(more[k]) /\ more[k][field] \in Token =>
           \E i \in DOMAIN said : new[i] = k
  <2> SUFFICES ASSUME NEW k \in 1 .. n + 1, IsEvent(more[k]), more[k][field] \in Token
               PROVE  \E i \in DOMAIN said : new[i] = k
    OBVIOUS
  <2>1. CASE k = n + 1
    <3>1. m + 1 \in DOMAIN said
      BY <1>3
    <3> QED
      BY <1>5, <2>1, <3>1
  <2>2. CASE k # n + 1
    <3>1. k \in 1 .. n
      BY <1>2, <2>2
    <3>2. PICK i \in DOMAIN texts : from[i] = k
      BY <1>1, <1>2, <3>1 DEF Selects
    <3>3. i \in 1 .. m /\ i \in DOMAIN said
      BY <1>3
    <3> QED
      BY <1>4, <3>2, <3>3
  <2> QED
    BY <2>1, <2>2
<1>11. Selects(new, said, field, more, n + 1)
  BY <1>7, <1>8, <1>9, <1>10 DEF Selects
<1> QED
  BY <1>2, <1>11 DEF Selected, more, said

(***************************************************************************)
(* What is accumulated are the texts of the lines so far, what was shown    *)
(* had them up to its line, and the rest that waits has no newline.         *)
(***************************************************************************)
Accumulated ==
    /\ Selected(content, 3, handled, Len(handled))
    /\ Selected(reasoning, 4, handled, Len(handled))

ShownWhole ==
    \A i \in DOMAIN shown :
        /\ shown[i].line <= Len(handled)
        /\ Selected(shown[i].reasoning, 4, handled, shown[i].line)

RestUnended ==
    pc = "wait" => \A i \in 1 .. Len(sse_buffer) : sse_buffer[i] # "\n"

TextInv == Accumulated /\ ShownWhole /\ RestUnended /\ AnswerWhole

LEMMA InitTextInv == Init => TextInv
<1> SUFFICES ASSUME Init PROVE TextInv
  OBVIOUS
<1>1. Len(<<>>) = 0 /\ DOMAIN <<>> = {}
  BY EmptySeq
<1>2. ASSUME NEW field PROVE Selected(<<>>, field, <<>>, 0)
  <2>1. Selects(<<>>, <<>>, field, <<>>, 0)
    BY <1>1 DEF Selects
  <2> QED
    BY <2>1 DEF Selected
<1>3. Accumulated
  BY <1>1, <1>2 DEF Init, Accumulated
<1> QED
  BY <1>1, <1>3 DEF Init, TextInv, ShownWhole, RestUnended, AnswerWhole

\* The texts of an event that is taken are appended (LLMBase.cc:427-435).
LEMMA TextTaken ==
    ASSUME NEW S, NEW lines \in Seq(S), NEW line \in S, NEW texts \in Seq(Token),
           NEW field, IsEvent(line), Selected(texts, field, lines, Len(lines))
    PROVE  Selected(texts \o Text(line[field]), field, Append(lines, line),
                    Len(Append(lines, line)))
<1> DEFINE said == line[field]
<1>1. CASE said \in Token
  <2>1. texts \o <<said>> = Append(texts, said)
    <3> HIDE DEF said
    <3> QED
      BY <1>1, AppendIsConcat
  <2> QED
    BY <1>1, <2>1, SelectedOne DEF Text
<1>2. CASE said \notin Token
  <2>1. texts \o <<>> = texts
    BY ConcatEmptySeq
  <2> QED
    BY <1>2, <2>1, SelectedNone DEF Text
<1> QED
  BY <1>1, <1>2

\* A message of the stream callback is of a line.
LEMMA ShownLine ==
    ASSUME TypeOK, NEW i \in DOMAIN shown
    PROVE  shown[i].line \in Nat
<1> DEFINE M == [content : Seq(Token), reasoning : Seq(Token), line : Nat]
<1>1. shown \in Seq(M)
  BY DEF TypeOK
<1>2. \A m \in M : m.line \in Nat
  OBVIOUS
<1> HIDE DEF M
<1>3. shown[i] \in M
  BY <1>1
<1> QED
  BY <1>2, <1>3

LEMMA AppendedItems ==
    ASSUME NEW S, NEW seq \in Seq(S), NEW e
    PROVE  \A i \in DOMAIN Append(seq, e) :
              (i \in DOMAIN seq /\ Append(seq, e)[i] = seq[i]) \/ Append(seq, e)[i] = e
<1>1. Len(seq) \in Nat /\ DOMAIN seq = 1 .. Len(seq)
  BY LenProperties
<1>2. DOMAIN Append(seq, e) = 1 .. Len(seq) + 1
  OBVIOUS
<1>3. \A i \in 1 .. Len(seq) + 1 :
         Append(seq, e)[i] = IF i = Len(seq) + 1 THEN e ELSE seq[i]
  OBVIOUS
<1> QED
  BY <1>1, <1>2, <1>3

\* A line that is taken (LLMBase.cc:400-459).
LEMMA LineTexts ==
    ASSUME TypeOK, Accumulated, ShownWhole, NEW line \in Seq(STRING),
           SkipLine(line) \/ EventLine(line)
    PROVE  Accumulated' /\ ShownWhole'
<1> DEFINE S == Seq(STRING)
<1>1. /\ handled \in Seq(S) /\ Len(handled) \in Nat
      /\ content \in Seq(Token) /\ reasoning \in Seq(Token)
      /\ shown \in Seq([content : Seq(Token), reasoning : Seq(Token), line : Nat])
      /\ line \in S
  BY DEF TypeOK
<1> HIDE DEF S
<1> DEFINE more == Append(handled, line)
<1>2. Len(more) = Len(handled) + 1
  BY <1>1
<1>3. \A i \in DOMAIN shown :
          /\ shown[i].line <= Len(more)
          /\ Selected(shown[i].reasoning, 4, more, shown[i].line)
  <2> SUFFICES ASSUME NEW i \in DOMAIN shown
               PROVE  /\ shown[i].line <= Len(more)
                      /\ Selected(shown[i].reasoning, 4, more, shown[i].line)
    OBVIOUS
  <2> DEFINE l == shown[i].line
             r == shown[i].reasoning
  <2>1. l \in Nat
    BY ShownLine
  <2>2. l <= Len(handled) /\ Selected(r, 4, handled, l)
    BY DEF ShownWhole
  <2> HIDE DEF l, r
  <2>3. Selected(r, 4, more, l)
    BY <1>1, <2>1, <2>2, SelectedBefore
  <2>4. l <= Len(more)
    BY <1>1, <1>2, <2>1, <2>2
  <2> QED
    BY <2>3, <2>4 DEF l, r
<1>4. CASE line = <<>> /\ SkipLine(line)
  BY <1>4 DEF SkipLine, message, Accumulated, ShownWhole
<1>5. CASE line # <<>> /\ SkipLine(line)
  <2>1. handled' = more /\ ~IsEvent(line) /\ UNCHANGED message
    BY <1>5 DEF SkipLine
  <2>2. Selected(content, 3, more, Len(more)) /\ Selected(reasoning, 4, more, Len(more))
    BY <1>1, <2>1, SelectedNone DEF Accumulated
  <2> HIDE DEF more
  <2> QED
    BY <1>3, <2>1, <2>2 DEF message, Accumulated, ShownWhole
<1>6. CASE EventLine(line)
  <2> DEFINE now == [content |-> Text(line[3]), reasoning |-> reasoning',
                     line |-> Len(handled')]
  <2>1. /\ IsEvent(line) /\ handled' = more
        /\ reasoning' = reasoning \o Text(line[4])
        /\ content' = content \o Text(line[3])
        /\ shown' = shown \/ shown' = Append(shown, now)
    BY <1>6 DEF EventLine
  <2>2. Selected(content \o Text(line[3]), 3, more, Len(more))
    BY <1>1, <2>1, TextTaken DEF Accumulated
  <2>3. Selected(reasoning \o Text(line[4]), 4, more, Len(more))
    BY <1>1, <2>1, TextTaken DEF Accumulated
  <2>4. now.line = Len(more) /\ now.reasoning = reasoning \o Text(line[4])
    BY <2>1
  <2> HIDE DEF more, now
  <2>5. Accumulated'
    BY <2>1, <2>2, <2>3 DEF Accumulated
  <2>6. Len(more) \in Nat
    BY <1>1, <1>2
  <2>7. CASE shown' = shown
    BY <1>3, <2>1, <2>5, <2>7 DEF ShownWhole
  <2>8. CASE shown' = Append(shown, now)
    <3>1. \A i \in DOMAIN Append(shown, now) :
              \/ i \in DOMAIN shown /\ Append(shown, now)[i] = shown[i]
              \/ Append(shown, now)[i] = now
      BY <1>1, AppendedItems
    <3>2. /\ now.line <= Len(more)
          /\ Selected(now.reasoning, 4, more, now.line)
      BY <2>3, <2>4, <2>6
    <3>3. \A i \in DOMAIN Append(shown, now) :
              /\ Append(shown, now)[i].line <= Len(more)
              /\ Selected(Append(shown, now)[i].reasoning, 4, more,
                          Append(shown, now)[i].line)
      BY <1>3, <3>1, <3>2
    <3> QED
      BY <2>1, <2>5, <2>8, <3>3 DEF ShownWhole
  <2> QED
    BY <2>1, <2>5, <2>7, <2>8
<1> QED
  BY <1>4, <1>5, <1>6

LEMMA NextTextInv ==
    ASSUME IInv, TextInv, [Next]_vars
    PROVE  TextInv'
<1> USE DEF TextInv
<1>1. CASE Rest
  <2> DEFINE a == pos + 1
             b == Len(sse_buffer)
  <2>1. /\ sse_buffer \in Seq(STRING) /\ a \in 1 .. b + 1 /\ b \in Nat
        /\ \A i \in a .. b : sse_buffer[i] \in STRING /\ sse_buffer[i] # "\n"
    BY <1>1 DEF Rest, IInv, TypeOK
  <2>2. sse_buffer' = SubSeq(sse_buffer, a, b)
    BY <1>1 DEF Rest
  <2> HIDE DEF a, b
  <2>3. /\ Len(SubSeq(sse_buffer, a, b)) = IF a <= b THEN b - a + 1 ELSE 0
        /\ \A i \in 1 .. b - a + 1 : SubSeq(sse_buffer, a, b)[i] = sse_buffer[a + i - 1]
    BY <2>1, SubSeqProperties
  <2>4. \A i \in 1 .. Len(sse_buffer') : sse_buffer'[i] # "\n"
    <3> SUFFICES ASSUME NEW i \in 1 .. Len(sse_buffer')
                 PROVE  sse_buffer'[i] # "\n"
      OBVIOUS
    <3>1. i \in 1 .. b - a + 1 /\ a + i - 1 \in a .. b
      BY <2>1, <2>2, <2>3
    <3> QED
      BY <2>1, <2>2, <2>3, <3>1
  <2>5. UNCHANGED <<message, handled>> /\ outcome' = "open"
    BY <1>1 DEF Rest
  <2> QED
    BY <2>4, <2>5 DEF message, Accumulated, ShownWhole, RestUnended, AnswerWhole
<1>2. ASSUME NEW end \in pos + 1 .. Len(sse_buffer), TakeLine(end)
      PROVE  TextInv'
  <2>1. Line(end) \in Seq(STRING)
    BY LineOfBody, StrippedType DEF Line, IInv
  <2>2. SkipLine(Line(end)) \/ EventLine(Line(end))
    BY <1>2 DEF TakeLine
  <2>3. Accumulated' /\ ShownWhole'
    BY <2>1, <2>2, LineTexts DEF IInv
  <2>4. outcome' # "complete" /\ pc' # "wait"
    BY <1>2, <2>2 DEF TakeLine, SkipLine, EventLine
  <2> QED
    BY <2>3, <2>4 DEF RestUnended, AnswerWhole
<1>3. ASSUME NEW end \in pos + 1 .. Len(sse_buffer), TakeDone(end)
      PROVE  TextInv'
  <2> DEFINE S == Seq(STRING)
             more == Append(handled, Done)
  <2>1. /\ handled' = more /\ sse_buffer' = <<>> /\ UNCHANGED message
        /\ outcome' = "open"
    BY <1>3 DEF TakeDone
  <2>2. ~IsEvent(Done)
    BY DEF IsEvent, Done
  <2>3. handled \in Seq(S) /\ Done \in S /\ Len(handled) \in Nat
    <3>1. handled \in Seq(S)
      BY DEF IInv, TypeOK
    <3>2. Done \in S
      <4>1. Line(end) \in S
        BY LineOfBody, StrippedType DEF Line, IInv
      <4> QED
        BY <1>3, <4>1 DEF TakeDone
    <3>3. Len(handled) \in Nat
      <4> HIDE DEF S
      <4> QED
        BY <3>1, LenProperties
    <3> QED
      BY <3>1, <3>2, <3>3
  <2> HIDE DEF S
  <2>4. Selected(content, 3, more, Len(more)) /\ Selected(reasoning, 4, more, Len(more))
    <3> DEFINE line == Done
    <3> HIDE DEF line
    <3>1. line \in S /\ ~IsEvent(line)
      BY <2>2, <2>3 DEF line
    <3>2. /\ Selected(content, 3, Append(handled, line), Len(Append(handled, line)))
          /\ Selected(reasoning, 4, Append(handled, line), Len(Append(handled, line)))
      BY <2>3, <3>1, SelectedNone DEF Accumulated
    <3> QED
      BY <3>2 DEF line
  <2>5. \A i \in DOMAIN shown :
            /\ shown[i].line <= Len(more)
            /\ Selected(shown[i].reasoning, 4, more, shown[i].line)
    <3> SUFFICES ASSUME NEW i \in DOMAIN shown
                 PROVE  /\ shown[i].line <= Len(more)
                        /\ Selected(shown[i].reasoning, 4, more, shown[i].line)
      OBVIOUS
    <3> DEFINE l == shown[i].line
               r == shown[i].reasoning
               line == Done
    <3>1. l \in Nat /\ line \in S
      BY <2>3, ShownLine DEF IInv
    <3>2. l <= Len(handled) /\ Selected(r, 4, handled, l)
      BY DEF ShownWhole
    <3>3. more = Append(handled, line)
      OBVIOUS
    <3> HIDE DEF l, r, line, more
    <3>4. Selected(r, 4, Append(handled, line), l)
      BY <2>3, <3>1, <3>2, SelectedBefore
    <3>5. Len(more) = Len(handled) + 1
      BY <2>3, <3>1, <3>3
    <3> QED
      BY <2>3, <3>1, <3>2, <3>3, <3>4, <3>5 DEF l, r
  <2>6. Len(<<>>) = 0
    BY EmptySeq
  <2> HIDE DEF more
  <2>7. Accumulated'
    BY <2>1, <2>4 DEF Accumulated, message
  <2>8. ShownWhole'
    BY <2>1, <2>5 DEF ShownWhole, message
  <2> QED
    BY <2>1, <2>6, <2>7, <2>8 DEF RestUnended, AnswerWhole
<1>4. ASSUME NEW n \in 1 .. Len(body) - received, Extract(n)
      PROVE  TextInv'
  <2>1. UNCHANGED <<message, handled>> /\ outcome' = "open" /\ pc' = "loop"
    BY <1>4 DEF Extract
  <2> QED
    BY <2>1 DEF message, Accumulated, ShownWhole, RestUnended, AnswerWhole
<1>5. CASE HandleStreamComplete
  <2>1. /\ UNCHANGED <<connection, buffer, message>>
        /\ mode = "streamed" /\ pc = "wait" /\ received = Len(body)
        /\ answer'.content = content /\ answer'.reasoning = reasoning
    BY <1>5 DEF HandleStreamComplete
  <2>2. \A i \in (received - Len(sse_buffer)) + 1 .. Len(body) : body[i] # "\n"
    <3> SUFFICES ASSUME NEW i \in (received - Len(sse_buffer)) + 1 .. Len(body)
                 PROVE  body[i] # "\n"
      OBVIOUS
    <3> DEFINE k == i - (received - Len(sse_buffer))
    <3>1. /\ Len(sse_buffer) \in Nat /\ received \in Nat /\ Len(sse_buffer) <= received
          /\ Len(body) \in Nat
      BY BodyType DEF IInv, TypeOK, Framed
    <3>2. k \in 1 .. Len(sse_buffer) /\ (received - Len(sse_buffer)) + k = i
      BY <2>1, <3>1
    <3> HIDE DEF k
    <3>3. sse_buffer[k] = body[(received - Len(sse_buffer)) + k]
      BY <3>2 DEF IInv, Framed
    <3> QED
      BY <2>1, <3>2, <3>3 DEF RestUnended
  <2>3. Accumulated' /\ ShownWhole' /\ RestUnended'
    BY <2>1 DEF connection, buffer, message, Accumulated, ShownWhole, RestUnended
  <2>4. AnswerWhole'
    <3>1. /\ Selected(answer'.content, 3, handled', Len(handled'))
          /\ Selected(answer'.reasoning, 4, handled', Len(handled'))
      BY <2>1 DEF Accumulated, buffer
    <3>2. mode' = "streamed"
      BY <2>1 DEF connection
    <3>3. \A i \in (received' - Len(sse_buffer')) + 1 .. Len(body') : body'[i] # "\n"
      BY <2>1, <2>2 DEF connection, buffer
    <3> QED
      BY <3>1, <3>2, <3>3 DEF AnswerWhole, AreTexts, Selected, Selects
  <2> QED
    BY <2>3, <2>4
<1>6. CASE HttpCallback
  <2>1. /\ UNCHANGED <<connection, buffer, message>> /\ mode' = "plain"
        /\ outcome' = "complete" =>
              IsResponse(body') /\ answer'.content = Text(body'[2])
    BY <1>6 DEF HttpCallback, connection
  <2> QED
    BY <2>1 DEF connection, buffer, message, Accumulated, ShownWhole, RestUnended,
                AnswerWhole
<1>7. CASE HttpFails
  BY <1>7 DEF HttpFails, connection, buffer, message, Accumulated, ShownWhole,
              RestUnended, AnswerWhole
<1>8. CASE UNCHANGED vars
  BY <1>8, SMTT(30) DEF vars, connection, buffer, message, Accumulated, ShownWhole,
              RestUnended, AnswerWhole, AreTexts
<1> QED
  BY <1>1, <1>2, <1>3, <1>4, <1>5, <1>6, <1>7, <1>8 DEF Next, Loop, Network, Terminated

LEMMA TextInvHolds == Spec => []TextInv
<1> QED
  BY InitIInv, StepIInv, InitTextInv, NextTextInv, PTL DEF Spec

\* A message that completes a call has all text and reasoning of the lines of
\* its body, in their order, and no whole line was left in the buffer; a plain
\* one says what its body says (LLMBase.cc:474-490, LLMDeepSeek.cc:101-160).
THEOREM AnswersWhole == Spec => []AnswerWhole
<1>1. TextInv => AnswerWhole
  BY DEF TextInv
<1> QED
  BY <1>1, TextInvHolds, PTL

\* The stream callback is given all reasoning up to its line with the next
\* message it gets (LLMBase.cc:419-435, 457).
THEOREM NoReasoningLost == Spec => []ReasoningKept
<1>1. TextInv => ReasoningKept
  BY AreTextsSelected DEF TextInv, ShownWhole, ReasoningKept
<1> QED
  BY <1>1, TextInvHolds, PTL
=============================================================================
