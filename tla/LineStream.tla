----------------------------- MODULE LineStream -----------------------------
(***************************************************************************)
(* What a client may expect of a response body that comes as a stream of    *)
(* server-sent events: its lines, each whole, once and in order, however    *)
(* the body is cut on its way.  Empty lines only separate events.  Behind   *)
(* the line that ends the stream nothing is promised.                       *)
(*                                                                          *)
(* The module is the promise only; SseStream shows that the buffer of       *)
(* LLMBase::ProcessSseChunk keeps it.                                       *)
(***************************************************************************)
EXTENDS Integers, Sequences

CONSTANT
    Done            \* the line that ends a stream

VARIABLES
    body,           \* the bytes of the response
    at,             \* how many of them are behind the client
    lines           \* the lines it has seen

streamVars == <<body, at, lines>>

\* A line without the "\r" that may come before the newline.
Stripped(line) ==
    IF line # <<>> /\ line[Len(line)] = "\r"
    THEN SubSeq(line, 1, Len(line) - 1)
    ELSE line

StreamInit ==
    /\ body \in Seq(STRING)
    /\ at = 0
    /\ lines = <<>>

\* The client sees the next line, which ends at byte end.
SeeLine(end) ==
    /\ body[end] = "\n"
    /\ \A i \in at + 1 .. end - 1 : body[i] # "\n"
    /\ LET line == Stripped(SubSeq(body, at + 1, end - 1))
       IN  /\ lines' = IF line = <<>> THEN lines ELSE Append(lines, line)
           /\ at' \in IF line = Done THEN end .. Len(body) ELSE {end}
    /\ UNCHANGED body

StreamNext == \E end \in at + 1 .. Len(body) : SeeLine(end)

StreamSpec == StreamInit /\ [][StreamNext]_streamVars
=============================================================================
