----------------------------- MODULE ChatStream -----------------------------
(***************************************************************************)
(* One streamed chat request, from the callback of its LRANGE task to the   *)
(* end of its series (ChatCompletions in source/Server/Callback.cc).        *)
(*                                                                          *)
(* Three threads work on the request at once: the thread of the LRANGE      *)
(* callback, which starts the agent and then queues the agent_wait task; the *)
(* thread of the LLM callbacks, which pushes the chunks, queues the saving   *)
(* of the context and frees the ChatContext; and the thread that runs the   *)
(* tasks of the series one after the other.  A push writes to the socket at *)
(* once; what does not fit is left to a timer task that goes to the front of *)
(* the series.                                                              *)
(*                                                                          *)
(* The agent is its contract (AgentRun).  The series, the timers and the    *)
(* socket belong to the workflow library and are modelled from their use.   *)
(***************************************************************************)
EXTENDS Integers, Sequences, FiniteSets

CONSTANTS
    MaxTurns,       \* bound: LLM calls of the run that stream text
    MaxChunks,      \* bound: stream callbacks of the run
    MaxThoughts,    \* bound: pieces of reasoning of an LLM call
    Size,           \* length of every block of data that is pushed
    SizeMod,        \* the range of size_t
    Faults,         \* what the socket may do: "partial", "again", "lost"
    MaxStalls       \* bound: short or refused writes

ASSUME BoundAssumption ==
    /\ MaxTurns \in Nat \ {0}
    /\ MaxChunks \in Nat
    /\ MaxThoughts \in Nat
    /\ MaxStalls \in Nat
    /\ Size \in Nat \ {0}
    /\ SizeMod \in Nat /\ SizeMod > 4 * (Size + MaxStalls)
    /\ Faults \subseteq {"partial", "again", "lost"}

\* A piece of text is known by its LLM call and its place in what that says.
Token == (1 .. MaxTurns) \X Nat

VARIABLES
    outcome, text, reasoning,   \* the run of the agent (AgentRun)
    turn,           \* the LLM call whose text streams in
    thoughts,       \* pieces of reasoning that call has sent
    chunks,         \* stream callbacks so far
    handler,        \* LRANGE callback: "load", "run" (agent started), "returned"
    callback,       \* statements left of the running complete or error callback
    ctx,            \* the ChatContext: "live" or "freed"
    last_sent_len,              \* ChatContext::last_sent_len
    last_reasoning_sent_len,    \* ChatContext::last_reasoning_sent_len
    wg,             \* count of the WaitGroup
    current,        \* task the series is running, or Idle
    queue,          \* tasks of the series behind it
    finished,       \* the series has ended and the HTTP task is gone
    blocks,         \* the data given to PushWithRetry, in order
    wire,           \* the bytes written to the socket: <<block, offset>>
    connected,      \* the socket is open
    stalls,         \* short and refused writes so far
    refused,        \* a write has been refused
    commands,       \* redis commands of the request, in order
    crashed         \* the process died of a use after free

agent == <<outcome, text, reasoning, turn, thoughts, chunks>>
lengths == <<last_sent_len, last_reasoning_sent_len>>
series == <<current, queue, finished>>
socket == <<blocks, wire, connected, stalls, refused>>
vars == <<agent, handler, callback, ctx, lengths, wg, series, socket,
          commands, crashed>>

Agent == INSTANCE AgentRun

-----------------------------------------------------------------------------
(* Tasks and blocks.                                                        *)

Saves == <<"rpush user", "rpush assistant", "ltrim">>

Kinds == {"idle", "lrange", "agent_wait", "timer"} \cup {Saves[i] : i \in 1 .. 3}

Task(kind) == [kind |-> kind, block |-> 0, nleft |-> 0]

Idle == Task("idle")

Timer(block, nleft) == [kind |-> "timer", block |-> block, nleft |-> nleft]

\* What is pushed; a chunk carries what is new of the content and the reasoning.
Delta(content, reasoned) ==
    [kind |-> "chunk", content |-> content, reasoning |-> reasoned]

Block(kind) == [Delta(<<>>, <<>>) EXCEPT !.kind = kind]

-----------------------------------------------------------------------------
(* Writing to the socket.                                                   *)

Wrap(n) == n % SizeMod                              \* conversion to size_t

Offset(n) == IF 2 * n < SizeMod THEN n ELSE n - SizeMod     \* ptr + size_t

Bytes(block, pos, n) == [i \in 1 .. n |-> <<block, pos + i>>]

\* WFHttpTask::push of n bytes from pos on, with result r: everything, the
\* part that fits, or -1 when nothing fits or the connection is gone.
HttpPush(block, pos, n, r) ==
    \/ /\ connected /\ r = n
       /\ wire' = wire \o Bytes(block, pos, n)
       /\ UNCHANGED <<connected, stalls, refused>>
    \/ /\ connected /\ "partial" \in Faults /\ stalls < MaxStalls
       /\ r \in 1 .. n - 1
       /\ wire' = wire \o Bytes(block, pos, r)
       /\ stalls' = stalls + 1
       /\ UNCHANGED <<connected, refused>>
    \/ /\ connected /\ "again" \in Faults /\ stalls < MaxStalls
       /\ r = -1
       /\ stalls' = stalls + 1
       /\ refused' = TRUE
       /\ UNCHANGED <<wire, connected>>
    \/ /\ "lost" \in Faults
       /\ r = -1
       /\ connected' = FALSE
       /\ refused' = TRUE
       /\ UNCHANGED <<wire, stalls>>

\* Mutant: a refused write loses the block.
RemainingDropped(nleft, r) == IF r < 0 THEN 0 ELSE nleft - r

\* nwritten is a size_t: the test nwritten >= 0 holds for every result, the
\* branch that looks at errno is never taken, and -1 leaves one byte more.
\* Past Size + MaxStalls a further -1 changes nothing the properties see.
Remaining(nleft, r) ==
    LET left == Wrap(nleft - Wrap(r))
    IN  IF left > Size + MaxStalls THEN Size + MaxStalls ELSE left

\* The timer task for what is left of a block, at the front of the series.
Retrying(block, nleft, tasks) ==
    IF nleft > 0 THEN <<Timer(block, nleft)>> \o tasks ELSE tasks

PushWithRetry(block) ==
    LET b == Len(blocks) + 1
    IN  /\ blocks' = Append(blocks, block)
        /\ \E r \in -1 .. Size :
              /\ HttpPush(b, 0, Size, r)
              /\ queue' = Retrying(b, Remaining(Size, r), queue)

-----------------------------------------------------------------------------

Init ==
    /\ Agent!ContractInit
    /\ turn = 1 /\ thoughts = 0 /\ chunks = 0
    /\ handler = "load" /\ callback = <<>>
    /\ ctx = "live" /\ last_sent_len = 0 /\ last_reasoning_sent_len = 0
    /\ wg = 1
    /\ current = Task("lrange") /\ queue = <<>> /\ finished = FALSE
    /\ blocks = <<>> /\ wire = <<>> /\ connected = TRUE /\ stalls = 0
    /\ refused = FALSE
    /\ commands = <<>>
    /\ crashed = FALSE

\* The LRANGE callback up to and with Agent::Run.  Whether the context could
\* be loaded makes no difference to what follows.
StartAgent ==
    /\ handler = "load"
    /\ handler' = "run"
    /\ PushWithRetry(Block("header"))
    /\ Agent!Begin
    /\ UNCHANGED <<turn, thoughts, chunks, callback, ctx, lengths, wg, current,
                   finished, commands, crashed>>

\* Mutant: the callback returns without agent_wait.
ReturnAtOnce ==
    /\ handler = "run"
    /\ handler' = "returned"
    /\ current' = Idle
    /\ UNCHANGED <<agent, callback, ctx, lengths, wg, queue, finished,
                   socket, commands, crashed>>

\* The rest of the LRANGE callback.  It reads ctx->http_task; once an LLM
\* callback has freed ctx the read may still give the pointer, or not.
QueueWait ==
    /\ handler = "run"
    /\ handler' = "returned"
    /\ queue' = Append(queue, Task("agent_wait"))
    /\ current' = Idle
    /\ UNCHANGED <<agent, callback, ctx, lengths, wg, finished, socket,
                   commands, crashed>>

UseAfterFree ==
    /\ handler = "run"
    /\ ctx = "freed"
    /\ crashed' = TRUE
    /\ UNCHANGED <<agent, handler, callback, ctx, lengths, wg, series,
                   socket, commands>>

-----------------------------------------------------------------------------
(* The LLM thread.  Its callbacks run one after the other.                  *)

\* The part of a message's text that is new by length; behind a text that is
\* shorter than what was sent a new turn is taken to begin.
Unsent(said, sent) ==
    IF Len(said) < sent THEN said ELSE SubSeq(said, sent + 1, Len(said))

\* The agent shows the message with more content and what the LLM has reasoned
\* by now, of which events that carry nothing else are not shown.
Shown ==
    /\ chunks < MaxChunks
    /\ chunks' = chunks + 1
    /\ \E more \in {<<>>, << <<turn, Len(text) + 1>> >>}, n \in thoughts .. MaxThoughts :
          /\ thoughts' = n
          /\ Agent!Stream(more, [i \in 1 .. n |-> <<turn, i>>])
    /\ UNCHANGED turn

\* What the stream callback sends, unless it is nothing.
PushDelta(content, reasoned) ==
    IF content # <<>> \/ reasoned # <<>>
    THEN PushWithRetry(Delta(content, reasoned))
    ELSE UNCHANGED <<socket, queue>>

\* Mutant: one length for both fields.
ChunkConfused ==
    /\ callback = <<>>
    /\ Shown
    /\ PushDelta(Unsent(text', last_sent_len), Unsent(reasoning', last_sent_len))
    /\ last_sent_len' = Len(text') /\ last_reasoning_sent_len' = Len(reasoning')
    /\ UNCHANGED <<handler, callback, ctx, wg, current, finished, commands,
                   crashed>>

\* The stream callback.  Whichever branch it takes for a field, the length it
\* notes is that of the field.
Chunk ==
    /\ callback = <<>>
    /\ Shown
    /\ PushDelta(Unsent(text', last_sent_len),
                 Unsent(reasoning', last_reasoning_sent_len))
    /\ last_sent_len' = Len(text') /\ last_reasoning_sent_len' = Len(reasoning')
    /\ UNCHANGED <<handler, callback, ctx, wg, current, finished, commands,
                   crashed>>

\* The agent runs tools and calls the LLM again; the handler is not told.
NewTurn ==
    /\ callback = <<>>
    /\ turn < MaxTurns
    /\ Agent!NewTurn
    /\ turn' = turn + 1 /\ thoughts' = 0
    /\ UNCHANGED <<chunks, handler, callback, ctx, lengths, wg, series,
                   socket, commands, crashed>>

\* Mutant: ctx is deleted too early.
CompleteBodyDeleting == <<"delete", "done", "end", "rpush user",
                          "rpush assistant", "ltrim", "signal">>

CompleteBody == <<"done", "end", "rpush user", "rpush assistant", "ltrim",
                  "delete", "signal">>

\* Mutants: the end goes before [DONE]; done() twice; done() never.
ErrorBodyReordered == <<"error", "end", "done", "delete", "signal">>

ErrorBodySignallingTwice == <<"error", "done", "end", "delete", "signal",
                              "signal">>

ErrorBodySilent == <<"error", "done", "end", "delete">>

ErrorBody == <<"error", "done", "end", "delete", "signal">>

\* The agent calls the complete or the error callback.
Completes ==
    /\ outcome = "running" /\ callback = <<>>
    /\ Agent!Complete
    /\ callback' = CompleteBody
    /\ UNCHANGED <<turn, thoughts, chunks, handler, ctx, lengths, wg, series,
                   socket, commands, crashed>>

Fails ==
    /\ outcome = "running" /\ callback = <<>>
    /\ Agent!Fail
    /\ callback' = ErrorBody
    /\ UNCHANGED <<turn, thoughts, chunks, handler, ctx, lengths, wg, series,
                   socket, commands, crashed>>

\* One statement of that callback.
PushStatement ==
    /\ callback # <<>> /\ Head(callback) \in {"error", "done", "end"}
    /\ PushWithRetry(Block(Head(callback)))
    /\ callback' = Tail(callback)
    /\ UNCHANGED <<agent, handler, ctx, lengths, wg, current, finished,
                   commands, crashed>>

\* Mutant: push_front for push_back.
SaveStatementFront ==
    /\ callback # <<>> /\ \E i \in 1 .. 3 : Head(callback) = Saves[i]
    /\ queue' = <<Task(Head(callback))>> \o queue
    /\ callback' = Tail(callback)
    /\ UNCHANGED <<agent, handler, ctx, lengths, wg, current, finished,
                   socket, commands, crashed>>

SaveStatement ==
    /\ callback # <<>> /\ \E i \in 1 .. 3 : Head(callback) = Saves[i]
    /\ queue' = Append(queue, Task(Head(callback)))
    /\ callback' = Tail(callback)
    /\ UNCHANGED <<agent, handler, ctx, lengths, wg, current, finished,
                   socket, commands, crashed>>

DeleteStatement ==
    /\ callback # <<>> /\ Head(callback) = "delete"
    /\ ctx' = "freed"
    /\ callback' = Tail(callback)
    /\ UNCHANGED <<agent, handler, lengths, wg, series, socket,
                   commands, crashed>>

SignalStatement ==
    /\ callback # <<>> /\ Head(callback) = "signal"
    /\ wg' = wg - 1
    /\ callback' = Tail(callback)
    /\ UNCHANGED <<agent, handler, ctx, lengths, series, socket,
                   commands, crashed>>

-----------------------------------------------------------------------------
(* The series.                                                              *)

\* The next task starts when the callback of the one before has returned.
NextTask ==
    /\ current = Idle /\ queue # <<>>
    /\ current' = Head(queue)
    /\ queue' = Tail(queue)
    /\ UNCHANGED <<agent, handler, callback, ctx, lengths, wg, finished,
                   socket, commands, crashed>>

\* agent_wait holds the series until the agent has ended.
WaitReturns ==
    /\ current.kind = "agent_wait"
    /\ wg = 0
    /\ current' = Idle
    /\ UNCHANGED <<agent, handler, callback, ctx, lengths, wg, queue,
                   finished, socket, commands, crashed>>

\* push_retry_callback, 1 ms after its timer task was started.
Retry ==
    /\ current.kind = "timer"
    /\ LET pos == Offset(Wrap(Size - current.nleft))
       IN  \E r \in -1 .. current.nleft :
              /\ HttpPush(current.block, pos, current.nleft, r)
              /\ queue' = Retrying(current.block,
                                   Remaining(current.nleft, r), queue)
    /\ current' = Idle
    /\ UNCHANGED <<agent, handler, callback, ctx, lengths, wg, finished,
                   blocks, commands, crashed>>

\* A redis task has ended; nobody looks at its result.
Saved ==
    /\ \E i \in 1 .. 3 : current.kind = Saves[i]
    /\ commands' = Append(commands, current.kind)
    /\ current' = Idle
    /\ UNCHANGED <<agent, handler, callback, ctx, lengths, wg, queue,
                   finished, socket, crashed>>

\* The series has run out of tasks: the HTTP task replies and is destroyed.
Finish ==
    /\ current = Idle /\ queue = <<>> /\ ~finished
    /\ finished' = TRUE
    /\ UNCHANGED <<agent, handler, callback, ctx, lengths, wg, current,
                   queue, socket, commands, crashed>>

-----------------------------------------------------------------------------

LLMThread == PushStatement \/ SaveStatement \/ DeleteStatement
                \/ SignalStatement

SeriesThread == NextTask \/ WaitReturns \/ Retry \/ Saved \/ Finish

\* The request is over, or the process is.
Terminated == (finished \/ crashed) /\ UNCHANGED vars

Next ==
    \/ /\ ~crashed
       /\ \/ StartAgent \/ QueueWait \/ UseAfterFree
          \/ Chunk \/ NewTurn \/ Completes \/ Fails
          \/ LLMThread
          \/ SeriesThread
    \/ Terminated

Spec == Init /\ [][Next]_vars

\* Threads that can go on do, and the agent ends (Assistant's RunCompletes).
Fairness ==
    /\ WF_vars(~crashed /\ (StartAgent \/ QueueWait))
    /\ WF_vars(~crashed /\ (Completes \/ Fails))
    /\ WF_vars(~crashed /\ LLMThread)
    /\ WF_vars(~crashed /\ SeriesThread)

FairSpec == Spec /\ Fairness

-----------------------------------------------------------------------------
(* Properties.                                                              *)

Statements == {"error", "done", "end", "delete", "signal"}
                \cup {Saves[i] : i \in 1 .. 3}

Tasks == [kind : Kinds, block : Nat, nleft : Nat]

\* Every variable has its type.
TypeOK ==
    /\ Agent!ContractTypeOK
    /\ turn \in 1 .. MaxTurns /\ thoughts \in 0 .. MaxThoughts
    /\ chunks \in 0 .. MaxChunks
    /\ handler \in {"load", "run", "returned"}
    /\ callback \in Seq(Statements)
    /\ ctx \in {"live", "freed"}
    /\ last_sent_len \in Nat /\ last_reasoning_sent_len \in Nat
    /\ wg \in {0, 1}
    /\ current \in Tasks /\ queue \in Seq(Tasks) /\ finished \in BOOLEAN
    /\ blocks \in Seq([kind : {"header", "chunk", "error", "done", "end"},
                       content : Seq(Token), reasoning : Seq(Token)])
    /\ wire \in Seq((1 .. Len(blocks)) \X Int)
    /\ connected \in BOOLEAN /\ stalls \in 0 .. MaxStalls
    /\ refused \in BOOLEAN
    /\ commands \in Seq({Saves[i] : i \in 1 .. 3})
    /\ crashed \in BOOLEAN

\* The HTTP task and its series outlive the run of the agent: no callback is
\* running or still to come when they go, although the agent runs outside of
\* the series and may end before the series knows of it (Callback.cc:507-511).
SeriesOutlivesRun ==
    finished => outcome \in {"complete", "error"} /\ callback = <<>>

\* The ChatContext is freed by the last callback only, once, and before the
\* series can end: no callback of the agent finds it gone and no request
\* leaks it (Callback.cc:490, 503).
ContextLifetime ==
    /\ ctx = "freed" => /\ outcome \in {"complete", "error"}
                        /\ callback \in {<<>>, <<"signal">>}
    /\ finished => ctx = "freed"

\* What is handed to the socket is a well-formed stream at every moment: the
\* header first and once, behind the end of the chunked body nothing, and that
\* end is there when the request has finished (Callback.cc:404, 457-458,
\* 499-502).
StreamShape ==
    /\ \A i \in DOMAIN blocks :
          /\ blocks[i].kind = "header" <=> i = 1
          /\ blocks[i].kind = "end" => i = Len(blocks) /\ blocks[i-1].kind = "done"
    /\ finished => blocks[Len(blocks)].kind = "end"

\* How often a byte was written.
Written(b, offset) ==
    Cardinality({i \in DOMAIN wire : wire[i] = <<b, offset>>})

\* However short the writes are, when the request has finished every byte of
\* the stream was written, exactly once if no write was refused; behind a
\* refused one perhaps twice, and with the byte in front of its block
\* (Callback.cc:44-90).
Delivered ==
    finished =>
        \A b \in DOMAIN blocks, offset \in 1 .. Size :
            IF refused THEN Written(b, offset) >= 1 ELSE Written(b, offset) = 1

\* The context is saved user message first, then the answer, then trimmed,
\* completely by the end of a completed request, and not at all for a failed
\* one, wherever the saving tasks end up around agent_wait (Callback.cc:484).
SavedInOrder ==
    /\ commands = SubSeq(Saves, 1, Len(commands))
    /\ finished => commands = IF outcome = "complete" THEN Saves ELSE <<>>

\* The request ends, unless the process dies: the series is not held for ever
\* by agent_wait or by a retry.
SeriesEnds == <>(finished \/ crashed)

\* The deltas with a piece of LLM call n are what it said, cut into consecutive
\* pieces.
Cut(deltas, said, n) ==
    \E sent \in [0 .. Len(deltas) -> 0 .. Len(said)] :
        /\ sent[0] = 0 /\ sent[Len(deltas)] = Len(said)
        /\ \A i \in DOMAIN deltas :
              IF \E k \in DOMAIN deltas[i] : deltas[i][k][1] = n
              THEN deltas[i] = SubSeq(said, sent[i - 1] + 1, sent[i])
              ELSE sent[i] = sent[i - 1]

Contents == [i \in DOMAIN blocks |-> blocks[i].content]

Reasonings == [i \in DOMAIN blocks |-> blocks[i].reasoning]

\* The client has been sent exactly the content of the turn as far as the agent
\* has it: each chunk of the turn goes on where the one before it ended ("each
\* chunk the LLM returns is pushed to the client at once", ReadMe.md:47).
TurnSent == outcome = "running" => Cut(Contents, text, turn)

\* While the run is in its first LLM call the client has been sent the content
\* that the agent has shown, no piece twice and none left out, and likewise the
\* reasoning that the agent has accumulated: there, as the agent appends all of
\* it with each event, the same piece does come again (Callback.cc:413-440).
FirstTurnSent ==
    turn = 1 /\ outcome = "running" =>
        /\ Cut(Contents, text, 1)
        /\ Cut(Reasonings, reasoning, 1)
=============================================================================
