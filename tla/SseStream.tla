----------------------------- MODULE SseStream -----------------------------
(***************************************************************************)
(* One call of an LLM over HTTP (source/LLM/LLMBase.cc and the providers):  *)
(* ChatImpl makes a chunked task when there is a stream callback, a plain   *)
(* one otherwise.                                                           *)
(*                                                                          *)
(* Of a chunked answer every piece goes through ProcessSseChunk as it       *)
(* comes: the piece is appended to a buffer, each whole line in the buffer  *)
(* is an iteration of a loop, the rest is kept for the next piece.  The     *)
(* body may be cut anywhere.                                                *)
(*                                                                          *)
(* A body is a sequence of bytes, a byte being what no property looks into: *)
(* the payload of an event has three, its content, its reasoning and        *)
(* whether there are tool calls.                                            *)
(***************************************************************************)
EXTENDS Integers, Sequences

CONSTANTS
    Token,          \* pieces of text
    Bodies          \* the bodies an answer may have

ASSUME BodyAssumption ==
    /\ Token \subseteq STRING \ {"absent", "null"}
    /\ Bodies \subseteq Seq(STRING)

VARIABLES
    mode,           \* "streamed" or "plain": stream_cb != nullptr
    body,           \* the body of the response
    received,       \* bytes of it that have been received
    pc,             \* "wait" for a callback of the task, or the "loop" of one
    sse_buffer,     \* LLMStreamContext: what is received and not yet dropped,
    pos,            \*   the local of the loop over it,
    content,        \*   accumulated_content,
    reasoning,      \*   reasoning_content
    calls,          \*   and how many deltas accumulated_tool_calls has merged
    outcome,        \* "open", "complete", "error" or "crashed"
    answer,         \* the last message of the complete callback
    handled,        \* history variable: the lines the loop has taken
    shown           \* the messages given to the stream callback, and history:
                    \*   at which line

connection == <<mode, body, received>>
buffer == <<pc, sse_buffer, pos, handled>>
message == <<content, reasoning, calls, shown>>
vars == <<connection, buffer, message, outcome, answer>>

Done == <<"data:", " ", "[DONE]">>

Lines == INSTANCE LineStream
            WITH at <- (received - Len(sse_buffer)) + pos,
                 lines <- handled

Fields == Token \cup {"absent", "null"}

\* What the payload of a line says, if it parses and has choices.
IsEvent(line) ==
    /\ Len(line) = 5
    /\ line[1] = "data:" /\ line[2] = " "
    /\ line[3] \in Fields /\ line[4] \in Fields
    /\ line[5] \in {"absent", "calls"}

\* A string field, the empty string for one that is not there.
Text(field) == IF field \in Token THEN <<field>> ELSE <<>>

NoAnswer == [content |-> <<>>, reasoning |-> <<>>, calls |-> FALSE]

Init ==
    /\ mode \in {"streamed", "plain"}
    /\ body \in Bodies
    /\ received = 0
    /\ pc = "wait" /\ sse_buffer = <<>> /\ pos = 0 /\ handled = <<>>
    /\ content = <<>> /\ reasoning = <<>> /\ calls = 0 /\ shown = <<>>
    /\ outcome = "open" /\ answer = NoAnswer

-----------------------------------------------------------------------------
(* ProcessSseChunk.                                                         *)

\* The extract callback with n more bytes of the body.
Extract(n) ==
    /\ outcome = "open" /\ mode = "streamed" /\ pc = "wait"
    /\ received + n <= Len(body)
    /\ received' = received + n
    /\ sse_buffer' = sse_buffer \o SubSeq(body, received + 1, received + n)
    /\ pos' = 0
    /\ pc' = "loop"
    /\ UNCHANGED <<mode, body, handled, message, outcome, answer>>

\* Mutant: only what was received without a newline is kept.
RestForgotten ==
    /\ outcome = "open" /\ pc = "loop"
    /\ \A i \in pos + 1 .. Len(sse_buffer) : sse_buffer[i] # "\n"
    /\ sse_buffer' = IF pos = 0 THEN sse_buffer ELSE <<>>
    /\ pos' = 0
    /\ pc' = "wait"
    /\ UNCHANGED <<connection, handled, message, outcome, answer>>

\* Mutant: no break.
RestContinuing ==
    /\ outcome = "open" /\ pc = "loop"
    /\ \A i \in pos + 1 .. Len(sse_buffer) : sse_buffer[i] # "\n"
    /\ sse_buffer' = SubSeq(sse_buffer, pos + 1, Len(sse_buffer))
    /\ pos' = 0
    /\ UNCHANGED <<connection, pc, handled, message, outcome, answer>>

\* There is no newline left: the rest waits for the next piece.
Rest ==
    /\ outcome = "open" /\ pc = "loop"
    /\ \A i \in pos + 1 .. Len(sse_buffer) : sse_buffer[i] # "\n"
    /\ sse_buffer' = SubSeq(sse_buffer, pos + 1, Len(sse_buffer))
    /\ pos' = 0
    /\ pc' = "wait"
    /\ UNCHANGED <<connection, handled, message, outcome, answer>>

\* The line of the iteration ends at byte end of the buffer.
EndsLine(end) ==
    /\ sse_buffer[end] = "\n"
    /\ \A i \in pos + 1 .. end - 1 : sse_buffer[i] # "\n"

Line(end) == Lines!Stripped(SubSeq(sse_buffer, pos + 1, end - 1))

\* The line is empty, has no "data: ", or its payload is not JSON, is an
\* error or has no choices.
SkipLine(line) ==
    /\ line # Done /\ ~IsEvent(line)
    /\ handled' = IF line = <<>> THEN handled ELSE Append(handled, line)
    /\ UNCHANGED <<message, outcome>>

\* Mutant: the reasoning of the event instead of the reasoning so far.
EventLineAlone(line) ==
    /\ IsEvent(line)
    /\ handled' = Append(handled, line)
    /\ reasoning' = Text(line[4])
    /\ content' = content \o Text(line[3])
    /\ shown' = IF Text(line[3]) # <<>>
                THEN Append(shown, [content |-> Text(line[3]),
                                    reasoning |-> reasoning',
                                    line |-> Len(handled')])
                ELSE shown
    /\ UNCHANGED <<calls, outcome>>

\* An event.  A field that is null cannot be cast to a string; nobody
\* catches the exception.  The stream callback is given the content of the
\* event and the reasoning so far, if the event has content or tool calls.
EventLine(line) ==
    /\ IsEvent(line)
    /\ handled' = Append(handled, line)
    /\ reasoning' = reasoning \o Text(line[4])
    /\ content' = content \o Text(line[3])
    /\ IF "null" \in {line[3], line[4]}
       THEN outcome' = "crashed" /\ UNCHANGED <<calls, shown>>
       ELSE /\ calls' = calls + (IF line[5] = "calls" THEN 1 ELSE 0)
            /\ shown' = IF Text(line[3]) # <<>> \/ line[5] = "calls"
                        THEN Append(shown, [content |-> Text(line[3]),
                                            reasoning |-> reasoning',
                                            line |-> Len(handled')])
                        ELSE shown
            /\ UNCHANGED outcome

\* Mutant: one line of each piece is taken.
TakeLineOnce(end) ==
    /\ outcome = "open" /\ pc = "loop"
    /\ EndsLine(end)
    /\ SkipLine(Line(end)) \/ EventLine(Line(end))
    /\ sse_buffer' = SubSeq(sse_buffer, end + 1, Len(sse_buffer))
    /\ pos' = 0 /\ pc' = "wait"
    /\ UNCHANGED <<connection, answer>>

\* Mutant: the position goes one byte too far.
TakeLineTooFar(end) ==
    /\ outcome = "open" /\ pc = "loop"
    /\ EndsLine(end)
    /\ SkipLine(Line(end)) \/ EventLine(Line(end))
    /\ pos' = end + 1
    /\ UNCHANGED <<connection, pc, sse_buffer, answer>>

\* One iteration of the loop.
TakeLine(end) ==
    /\ outcome = "open" /\ pc = "loop"
    /\ EndsLine(end)
    /\ SkipLine(Line(end)) \/ EventLine(Line(end))
    /\ pos' = end
    /\ UNCHANGED <<connection, pc, sse_buffer, answer>>

\* "data: [DONE]": the rest of the piece is dropped.
TakeDone(end) ==
    /\ outcome = "open" /\ pc = "loop"
    /\ EndsLine(end) /\ Line(end) = Done
    /\ handled' = Append(handled, Done)
    /\ sse_buffer' = <<>> /\ pos' = 0 /\ pc' = "wait"
    /\ UNCHANGED <<connection, message, outcome, answer>>

-----------------------------------------------------------------------------
(* The end of the HTTP task.                                                *)

\* The body has been received.  Neither the HTTP status nor what is left in
\* the buffer is looked at.
HandleStreamComplete ==
    /\ outcome = "open" /\ mode = "streamed" /\ pc = "wait"
    /\ received = Len(body)
    /\ outcome' = "complete"
    /\ answer' = [content |-> content, reasoning |-> reasoning,
                  calls |-> calls # 0]
    /\ UNCHANGED <<connection, buffer, message>>

\* ParseFullResponse: fields that are not strings count as not there.
IsResponse(text) ==
    /\ Len(text) = 6 /\ text[1] = "{" /\ text[6] = "}"
    /\ text[2] \in Fields /\ text[3] \in Fields
    /\ text[4] \in {"absent", "calls"} /\ text[5] \in {"absent", "stop"}

\* The callback of the plain task.  A body without a message (it is empty,
\* an error, not JSON) ends the call with an error.
HttpCallback ==
    /\ outcome = "open" /\ mode = "plain"
    /\ IF IsResponse(body) /\ (\/ body[2] \in Token \/ body[4] = "calls"
                               \/ body[5] = "stop")
       THEN /\ outcome' = "complete"
            /\ answer' = [content |-> Text(body[2]), reasoning |-> Text(body[3]),
                          calls |-> body[4] = "calls"]
       ELSE outcome' = "error" /\ UNCHANGED answer
    /\ UNCHANGED <<connection, buffer, message>>

\* The task fails, at any byte of the body.
HttpFails ==
    /\ outcome = "open" /\ pc = "wait"
    /\ outcome' = "error"
    /\ UNCHANGED <<connection, buffer, message, answer>>

Loop == Rest \/ \E end \in pos + 1 .. Len(sse_buffer) :
                    TakeLine(end) \/ TakeDone(end)

Network == \/ \E n \in 1 .. Len(body) - received : Extract(n)
           \/ HandleStreamComplete
           \/ HttpCallback
           \/ HttpFails

Terminated == outcome # "open" /\ UNCHANGED vars

Next == Loop \/ Network \/ Terminated

Spec == Init /\ [][Next]_vars

\* The loop goes on; of the connection, the task has its timeouts.
FairSpec == Spec /\ WF_vars(Loop) /\ WF_vars(Network)

-----------------------------------------------------------------------------
(* Properties.                                                              *)

\* Every variable has its type.
TypeOK ==
    /\ mode \in {"streamed", "plain"} /\ body \in Bodies
    /\ received \in 0 .. Len(body)
    /\ pc \in {"wait", "loop"}
    /\ sse_buffer \in Seq(STRING) /\ pos \in 0 .. Len(sse_buffer)
    /\ content \in Seq(Token) /\ reasoning \in Seq(Token) /\ calls \in Nat
    /\ outcome \in {"open", "complete", "error", "crashed"}
    /\ answer \in [content : Seq(Token), reasoning : Seq(Token), calls : BOOLEAN]
    /\ handled \in Seq(Seq(STRING))
    /\ shown \in Seq([content : Seq(Token), reasoning : Seq(Token), line : Nat])

\* However the body is cut, the loop sees its lines whole, once and in order
\* (LLMBase.cc:382-402): the buffer and the position in it implement the
\* stream of lines.
SeesLines == Lines!StreamSpec

\* The texts are those of a field in the first n lines the loop has seen: each
\* is the text of a line of its own, in their order, and none is left out.
AreTexts(texts, field, n) ==
    \E from \in [DOMAIN texts -> 1 .. n] :
        /\ \A i, j \in DOMAIN texts : i < j => from[i] < from[j]
        /\ \A i \in DOMAIN texts :
              IsEvent(handled[from[i]]) /\ texts[i] = handled[from[i]][field]
        /\ \A k \in 1 .. n :
              IsEvent(handled[k]) /\ handled[k][field] \in Token =>
                  \E i \in DOMAIN texts : from[i] = k

\* A message that completes a call has every piece of text and reasoning of
\* the body, and no whole line of the body was left over in the buffer, or
\* is exactly what a plain body says; a plain body without a message is never
\* passed for one (LLMBase.cc:474-490, LLMDeepSeek.cc:101-160).
AnswerWhole ==
    outcome = "complete" =>
        IF mode = "streamed"
        THEN /\ AreTexts(answer.content, 3, Len(handled))
             /\ AreTexts(answer.reasoning, 4, Len(handled))
             /\ \A i \in (received - Len(sse_buffer)) + 1 .. Len(body) :
                   body[i] # "\n"
        ELSE IsResponse(body) /\ answer.content = Text(body[2])

\* Reasoning that comes without content is kept back, not lost: the next
\* message the stream callback is given has all reasoning up to its line
\* (LLMBase.cc:419-435, 457).
ReasoningKept ==
    \A i \in DOMAIN shown : AreTexts(shown[i].reasoning, 4, shown[i].line)

\* A call ends with one of its callbacks, which ChatSync and the agent wait
\* for (LLMBase.cc:108, 464-495), unless the process dies.
CallEnds == <>(outcome # "open")
=============================================================================
