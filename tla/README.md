# WFChatbot in TLA+

WFChatbot is a chatbot server on the *workflow* framework: an HTTP request becomes a
series of asynchronous tasks, an agent calls an LLM in a loop and runs tools for it, the
answer is streamed to the client chunk by chunk, and the conversation is kept in redis.
The modules in this directory describe that control flow, TLC checks it on small instances
and TLAPS proves part of it for all of them. Sources are named relative to `source/`.

## The parts of the system

| part | source | state | operations | modelled by |
|---|---|---|---|---|
| agent, tool loop | `Agent/Agent.cc` | `RunContext` (history, accumulated message, call count, done flag, the function that refers to itself) | `Run`, stream/complete/error callbacks, `CallTool`, `PrependSystemMessage` | `AgentRun`, `Assistant`, `AssistantRequests` |
| LLM stream | `LLM/LLMBase.cc`, `LLM/LLMSchema.h` | `LLMStreamContext` (buffer, accumulated content, reasoning, tool calls) | a piece of the body, one event, end of the HTTP task, request body | `SseStream`, `LineStream`, `Assistant`, `AssistantRequests` |
| providers | `LLM/LLM{OpenAI,DeepSeek,DashScope}.cc` | a task per request | streamed and plain `ChatImpl` | `SseStream` |
| chat handler, streamed | `Server/Callback.cc` | `ChatContext`, `WaitGroup`, the series of the request, push retries | LRANGE callback, the three agent callbacks, `PushWithRetry`, `push_retry_callback`, `agent_wait` | `ChatStream` |
| conversation context | `Server/Callback.cc` | one redis list per user | load, two RPUSH, LTRIM, DEL | `ContextStore` |
| threads | `Server/Callback.cc`, `Agent/Agent.cc`, `Tools/ToolAmapWeather.cc` | handler threads, compute threads, the MCP mutex | `RunSync`, weather call, MCP call, `agent_wait` | `ThreadPools` |
| MCP client | `Tools/ToolMCP.cc` | process, two pipes, a mutex, a request counter | `Start`, handshake, `Transact`, `CallTool`, `Stop` | `McpProcess` |
| Json | `Base/Json.cc`, `Base/JsonParser.c` | trees and handles into them | declare, subscript, assign, push_back, erase, scope; parse, dump | `JsonDom`, `JsonWrites`, `TextCursor`, `JsonString`, `JsonText` |
| Base64 | `Base/Base64.cc` | - | encode, decode | `Base64` |
| tools | `Tools/ToolBase.cc`, `ToolBuildin.cc` | registry maps, filled before the server starts | register, create, calculator | lookup in `Assistant`; `Calculator` |
| server, router | `Server/ChatbotServer.cc` | server, agent | `Start`, `Stop`, `Process` | left out |
| logger, timers, files, paths | `Base/`, `Util/` | - | - | left out |

How they meet: the HTTP handler queues an LRANGE task in its series; that task's callback
starts `Agent::Run` and returns; the agent runs on the LLM's callbacks, outside of the
series, and calls back into the handler, which pushes to the socket at once and queues redis
tasks into the series; a task `agent_wait` keeps the series, and with it the HTTP task,
alive until the last callback. Tools run inside an LLM callback; an MCP tool blocks it on a
pipe shared with all other runs.

What is hard about it: three threads work on one request and own parts of it by convention
only (who deletes `ChatContext`, who may still use the HTTP task); a callback must come
exactly once on every path or the series hangs; results of short writes, timeouts and
failed commands are dealt with by retries, or not at all; data is recognised by position
(a new turn by a shorter text, an MCP answer by being the next line) rather than by
identity. `PROJECT.json` lists these hazards at their lines.

## Modules

### AgentRun: what Agent::Run promises
State: `outcome` (idle, running, complete, error) and the `text` and `reasoning` the caller
was last shown. A run begins once, both grow within a turn, a new turn starts from nothing,
the run ends once, and nothing follows the end. An event adds to the text what is new of it,
perhaps nothing; to the reasoning it adds the whole reasoning of the LLM call so far, because
`LLMBase` puts that into every message (LLMBase.cc:432-435) and the agent appends it
(Agent.cc:302). This is the interface between the agent and the HTTP handler: `Assistant`
implements it, `ChatStream` uses it.

### Assistant: the tool-calling loop
One action per callback: `Run` (with or without an LLM), `Delta` (one SSE event merged into
the stream context, then `AgentStreamCallback`), `RunTools` (the LLM's answer asks for tools:
the assistant message and one tool message per call go into the history, the accumulated
message is reset and the LLM is called again), `Reply` (no tools: the run completes) and
`StreamFailed`. `DoLLMCall` is `RunContext::do_llm_call`: it returns when the run is done,
completes it at the limit of calls, or counts and sends. `Finish` and `FinishError` are the
two endings. `history`, `accumulated`, `call_count`, `done`, `do_llm_call` are the fields of
`RunContext`; `stream` is `LLMStreamContext`. Texts are sequences of pieces; a tool's result
is one of three values. Omitted: the older `function_call` branch.

### AssistantRequests: what the LLM is sent
The steps of `Assistant` with one variable more, the body of the last request.
`PrependSystemMessage` puts the instruction and today's date into a copy of the history,
`BuildRequestBody` turns that into messages, of which only an assistant's has calls and only
a tool's an id. The date may change during a run. `PrefixesApart` says what a request can be
sound for: a caller may have written the instruction or a date himself, once and where the
code looks for it (the instruction in a system message in front, a date in the first message
of the user), and neither the LLM nor a tool says them. The handlers only pass on messages of
users and assistants, and the prompts of the run keep to it, which TLC evaluates.

### SseStream and LineStream: one call of the LLM over HTTP
`SseStream` has both kinds of `ChatImpl`. Of a streamed body `Extract` receives any number of
bytes, then the loop of `ProcessSseChunk` takes a line per step (`TakeLine`,
`TakeDone`) until none is whole (`Rest`); `HandleStreamComplete` and the failures end it. A
plain body goes through `HttpCallback` in one step. The body is a sequence of bytes as far as
lines are concerned; a payload has a byte for its content, its reasoning and its tool calls.
`LineStream` is the abstract view: a body, a place in it and the lines seen so far.

### ChatStream: one streamed request
State: where the LRANGE callback is, the statements left of the complete or error callback
(`callback`), `ctx`, `wg`, the series (`current`, `queue`, `finished`) and the socket
(`blocks` given to `PushWithRetry`, `wire` the bytes written). Actions of three threads:
`StartAgent`, `QueueWait` (and `UseAfterFree`, the read of `ctx->http_task` after the
delete); `Chunk`, `NewTurn`, `Completes`, `Fails` and the statements of the callback one at
a time, since the other threads run between them; `NextTask`, `WaitReturns`, `Retry`,
`Saved`, `Finish` for the series. The agent is an instance of `AgentRun`. A chunk carries
what is new by length of the content and of the reasoning (`Unsent`, with a length of its own
for each); an event may bring content, reasoning with it, or neither (a part of a tool call),
and when nothing is new nothing is pushed (`PushDelta`). As the agent's reasoning repeats, the
client is sent the same reasoning again with every event of a turn. A short write
leaves a timer task at the front of the series. `Remaining` keeps the arithmetic in `size_t`
(modulo `SizeMod`), which is what makes the refused write interesting. Reads of freed memory
are a choice between going on and the end of the process (`crashed`).

### ContextStore: the conversation of one user
State: the redis list, and per request where it is, how it is answered, what it loaded.
Each redis command is one atomic action in the order of the series, and any may fail
(`CommandFails`). A `patient` client waits for each response before it sends or clears.
`log`, `latest` and `before` are history variables: what was pushed since the last DEL, and
which exchange the client had seen when it sent a request.

### McpProcess: a server process and its callers
State: the stage of `AddServer`, `pid_`, the process, its pipes byte by byte (a line is two
bytes and a newline), the mutex and the callers. The stdin pipe holds `PipeRoom` requests;
while it is full `Write` waits with the mutex held, as `write` does (a request that a signal
or the server's death cuts in the middle is left out). The stdout pipe has no bound: a server
that waits for room in it is one that writes later, or, if both pipes are full, one that does
not read, which the fairness leaves out. `Transact` is `Lock`, `Write`, `Read`, `TimeOut`,
`EndOfFile`; with the end of the loop (`LoopEnds`) it returns to the handshake or
to `CallTool` in the same step, as it holds the mutex and touches nothing shared besides.
`CallToolBadly` is a call with arguments that are not JSON. The server's steps are external:
it answers in order, flushes any part of a line, may write unasked, be slow, fail, die.

### ThreadPools: who waits for whom
Requests that share the handler threads of the library. A plain one blocks its thread in
`RunSync` until the agent has called back, a weather call blocks that callback's thread until
an HTTP task has called back, an MCP call waits for the mutex and then in `poll`; a streamed
request blocks one of the compute threads in `agent_wait`. A blocked `WaitGroup` makes the
library add a thread (`Waits`); this is the one assumption about it that the result hangs
on, and it is not in this repository.

### JsonDom and JsonWrites: handles into trees
State: the nodes of all trees, the variables in scope, and as history which of them point to
a node that has died; `JsonWrites` adds what the last statement wrote (the variable, the path,
and the nodes of the value as they were). A `Json` is a root, a watcher or a placeholder;
each action is one C++ statement with its temporaries: `Declare`, `Watch`, `WatchItem`,
`SetMember`, `MoveToMember`, `SetDeep`, `SetItem`, `Assign`, `PushMember`, `Push`, `Erase`,
`Leave`. Statements whose effect is undefined are left out: through a stale variable (by
`Usable`), from a tree into its own owner (by the guard of `Assign`), and
`x.push_back(key, value)` of a watcher of a scalar or an array in an object, which
`can_obj_push_back` lets pass (Json.cc:264) and which then writes through a null pointer (by
the guard of `PushMember`). The tree at a node, `Under`, is the least set with the node and
what its members have, which is what the recursion of `json_value_destroy` visits. `malloc`
is the lowest nodes that are free, in any order for a copy; nothing that is checked or proved
depends on which.

### TextCursor, JsonString, JsonText, Base64, Calculator: functions on texts
Each is a small machine that takes an input and applies the code's function to it; a text is
its sequence of bytes, because what is checked is the conversion. `TextCursor` has what both
parsers say of a text: its bytes up to the 0, the cursors in it, the cursor behind a run of
bytes. `JsonString` has both
passes of the parser over a string (`json_string_length`, `parse_json_string` with its
buffer) and `string_convert`. `JsonText` has the values around the strings, parsing and
`Json::dump`. The loops and recursions of the code are recursive functions of the cursor, of
the levels that are left, or of the value, so that they can be reasoned about. Of the numbers
it reads only those of at most 15 figures without a point or an exponent, which is what
`"%.15lg"` writes as it was read; the others are not read there. `Base64` has the groups and the
unsigned char arithmetic. `Calculator` has the recursive descent; a double is the rational
number it stands for. Its inputs are expressions by their structure, each with the text it
is written as, with the parentheses it needs, and what it means; a number may have any text
`stod` reads as its value. The recursion of `parseFactor` is by levels, of which there are as
many as bytes: each takes a parenthesis or a minus, so none is ever missing.

`MC*` modules bind constants and list inputs (`MCTexts` also runs the three function machines
side by side); each `.cfg` is one run.

## Runs

| run | instance | shows |
|---|---|---|
| `assistant` | 2 LLM calls, 2 events per answer, tool indices 0..1, one known tool and calls without a name, 3 prompts, 2 dates | one ending; every tool call answered; the accumulators agree; the cycle is cut exactly at the end; instruction and date once in every request, and requests that extend each other; termination; the contract |
| `sse_stream` | bodies of two lines of eight kinds with either line end, and a rest; plain answers, errors, nothing | lines whole and in order however the body is cut; the answer has all of its text and no error passes for a plain answer; reasoning is not lost; every call ends |
| `chat_stream` | 2 turns, 2 chunks, 1 piece of reasoning per turn, blocks of 2 bytes, 2 short or refused writes | in every order of the threads: lifetimes, stream shape, saving, termination; short writes deliver every byte once, refused ones lose none; of the first turn all content and all accumulated reasoning is sent |
| `context_store` | 3 requests, list of 2, one DEL, one failing command | list = end of what was saved, questions before answers; a client that waits for plain responses finds its last exchange |
| `mcp_process` | 2 threads, 2 calls after the handshake, room for one request, a line unasked, every fault | own answer and clean pipes until the first disturbance, no answer twice, every call returns |
| `thread_pools` | a plain and two streamed requests, 1 handler and 1 compute thread, 1 tool call each | waits never use up the threads that end them; every request is served |
| `json_dom` | 2 variables, 3 nodes between statements | no leak, no double free, no shared subtree; watchers point to their member; what is written is read back |
| `texts` | strings of up to 3 of 12 parts, trees of up to 4 of 10, bytes up to 4, expressions of depth 2 | dump and parse are inverse, the two passes fit, a dump is a line; Base64 bit by bit; the calculator computes what an expression means |

Runs that are expected to be violated, each with a finding in `PROJECT.json`:

| run | what the code does |
|---|---|
| `lost_connection` | -1 as `size_t` passes for a length: retries on a lost connection never end |
| `new_turn` | the beginning of a second turn's text is lost if it is not shorter than the first's |
| `mcp_late_answer` | after a timeout each call gets the answer of an earlier one |
| `context_quoted` | a message with a quote is saved and never loaded |

### Bounds
`MaxLLMCalls = 2` has a first call, a call after tools and the cut-off at the limit;
two events are the fewest that merge, and index 1 first leaves a gap. The prompts have an
earlier exchange, a system message of their own, the instruction or the date already in
them, and no user; the second date is a midnight between two calls of a run. In `SseStream`
two lines are the fewest after which a loop can go wrong in the second, and every cut of
every body is tried. In `ChatStream` two turns and two chunks have a new turn before, between
and after chunks and a run without any; one piece of reasoning is enough to come twice, and
a second length for it to be mixed up with; two bytes per block are the fewest a short write can
cut. In `ContextStore` two entries are one exchange, so the second exchange is trimmed
already (the code keeps 20), and three requests can each be in another of the three commands.
In `McpProcess` two calls after the handshake are the fewest of which one can take the
other's answer, and with room for one request a call behind one that timed out finds the pipe
full; the server flushes any part of a line, so a line comes in several reads, and
a buffer of four bytes holds the end of one line and the start of another. In `ThreadPools`
one thread of each kind is the worst case, and the two streamed requests compete for the
compute thread while the plain one holds the handler. In `JsonDom` three nodes are a tree
with a grandchild, or two trees; a statement may need more in between, for which `Nodes` has
room: as many nodes again for a copy, and eight for temporaries. `texts` has every broken
escape, surrogate halves in both orders, nesting up to and past the limit (`DepthLimit` 2 for the code's 1024), and every length of a last Base64 group.
`MaxStalls`, `MaxFailures` and `MaxRounds` bound how often the environment does something,
`SizeMod` stands for 2^64.

### Fairness
`Assistant`: weak fairness of `Run` and of the end of the HTTP task (workflow always calls a
task's callback, if only with a timeout); none for the events. `SseStream`: weak fairness of
the loop and of the network, which gives bytes, an end or a failure. `ChatStream`: weak
fairness of each thread, and the agent's last callback comes, which is `RunCompletes` of
`Assistant`; none for chunks or faults, and nothing is assumed of a lost connection.
`McpProcess`: a thread that can go on does, and a running server reads its requests in the
end (without which the write on a full pipe has no end: TLC finds that if the assumption is
taken away); nothing is assumed of its answers, so that it is the time-out that ends a call.
`ThreadPools`: a running thread goes on (weak); a
callback gets a thread, and a caller the mutex, if these become free again and again
(strong), because the pool's queue is served in order and a mutex is not kept from one
waiting thread for ever. The others have safety properties only.

## Proofs

`Assistant_proofs` proves, for every limit, tool set, prompt and answer (the constants' named
assumptions are all that is used):

* `TypeCorrect`, `EndsOnceAlways`, `RequestsBounded`, `TurnsAgree`, `RunsStayAlive`: the
  invariants the run checks. None is inductive alone. That the caller gets one ending needs
  that a done run has no stream left open whose end would call back again
  (`OneAnswerPending`); the bound on requests needs that `call_count` is never behind them
  (`CountInv`); the agreement of the two accumulators needs that an idle run has shown
  nothing (`IdleInv`). `IInv` is their conjunction; `Invariance` is its induction, with one
  lemma per action (`RunIInv`, `DeltaIInv`, `RunToolsIInv`, `EndIInv`) and one for
  `DoLLMCall`, which two of them share. The lemmas before them are about the operators:
  `ResizedType`, `MergedType` for the merging of deltas, `ResultsType`, `AnswerType`,
  `TurnShape` for what a tool round appends.
* `CallsAnswered`: in the history every call is followed by its tool message under its id, in
  order. By `TurnAnswers`: a tool round has this shape whatever the number of calls and gaps.
* `ImplementsContract`: `Spec` implements `ContractSpec` of `AgentRun`, step by step under
  the invariant: text and reasoning of the accumulated message are the contract's, and both
  are empty when a run has not shown anything (`IdleInv`).
* `RequestsSound` (`RequestSound`), for any number of tool rounds and any dates. The steps of
  the code are followed one by one: what `Instruction`, `Dated` and `Sent` make of messages
  that have each prefix at most once and in its place (`OwnPrefixes`) has it once. The
  invariant is that the history keeps to `OwnPrefixes` and to `Answered`; that it does for the
  prompt is the hypothesis `PrefixesApart`. It is needed, since the code looks for a prefix
  only in the one message it would put it in, and puts a date in front of a system message
  without looking when there is no user.
* `RequestsGoOn` (`RequestsExtend`), without it: the last request is a copy of the history
  with the prefixes (`LastRequest`), the next one is made of a longer history with the same
  beginning, and the prefixes go to the same two places (`RequestRepeats`), with another date
  at most.

`SseStream_proofs`, for every body and every way of cutting it: `TypeCorrect`, and
`LinesSeen`, the refinement of `LineStream`. The invariant (`Framed`) says that the buffer is
the end of what has been received; a place in the buffer is then a place in the body, so a
line found in one is a line of the other (`LineOfBody`, `LineSeen`). `AnswersWhole` and
`NoReasoningLost` (`AnswerWhole`, `ReasoningKept`) have the invariant `TextInv`: what is
accumulated is the texts of the events among the lines so far, chosen by an increasing
function (`Selected`), and what was shown with a line is that up to the line.

`ChatStream_proofs`, for any number of turns, chunks, faults and retries: `TypeCorrect`,
`SeriesOutlives`, `ContextLives`, `StreamWellFormed`, `SavesInOrder`. The inductive invariant
has two halves. `Phase` follows the agent's thread: before its last callback the context is
alive and nothing was saved; in the callback, statement k is due, and what the first k - 1
have pushed, queued, freed and signalled is known (`Doing`, `Completing`, `Failing`). The
other half follows the series: before the LRANGE callback returns its task is at the front
(`Handler`), from then until the signal `agent_wait` is somewhere in it (`WaitThere`), and
the saving tasks that have not run are in it each once and in order (`Saving`), however many
retries have been put in front.

`EveryByteDelivered` (`Delivered`) holds for any sizes of blocks and any range of `size_t`
large enough. Its invariant (`DInv`) gives every block a number l of
bytes left: exactly one timer task of the block, with that l, is running or in the series if
l > 0 and none otherwise (`Pending`, `Alone`), and all bytes but the last l are on the wire,
once each unless a write was refused (`WrittenBut`). A refused write may make l larger than
the block, which the wrapped arithmetic (`LeftOver`, `Position`) turns into a start in front
of it. The request is over when the series is empty, so that l is 0 for every block.

`FirstTurnGoesOut` (`FirstTurnSent`): as long as the first LLM call streams, the contents in
the blocks that have been handed to `PushWithRetry` are the content the agent has shown, cut
into consecutive pieces (`Cut`), and their reasoning is the accumulated reasoning, cut
likewise. The invariant (`FirstInv`) is that each of the two lengths is that of what was
accumulated; then what is new by length (`UnsentMore`) is what the agent put behind it, and a
block more carries that (`SentMore`, `DeltasMore`), or nothing was new and none is pushed. It
says nothing of repetitions within the accumulated reasoning, which are there, nor of the
bytes on the wire, which `Delivered` is about. A second turn may lose its beginning, which is
the finding of `new_turn`.

`McpProcess_proofs`, for any number of threads and calls, any pipe and any buffer: `TypeCorrect`,
`OneAtATime`, `PipesStayClean`, `AnswersMatch`. The invariant follows one line: what the
caller has kept, what is in the pipe and what the server has still to write are, put
together, the beginning of the one line that answers the request of the thread that holds
the mutex (`Way`, `InPipes`). `AnsweredAtMostOnce` (`AnsweredOnce`) holds also when answers
come late and needs another invariant (`OInv`): a request is in one place at a time, with
the thread that has not written it, in the pipe, as an answer on the way, or in the results.

`SequenceFacts` has what these use of sequences: what a sequence holds, and whether once,
when others are put behind or in front of it or its head is taken. Its `Smallest`, that a
set of numbers has a least one, gives the first newline of a buffer and the first message
of the user, and takes the place of induction.

`Server_proofs`, of `ContextStore`, for any number of requests, failures and entries to keep:
`ListStaysRecent`, `PairsStayInOrder`; `ExchangeStored`, that the list ends with the exchange
a patient client has seen when it is loaded; and from that `PlainRemembered`
(`RemembersPlain`), with what the code makes of a list (`DecodedWhole`). Hypotheses: two
entries or more are kept (the code keeps 20), and no message has a character JSON escapes;
one that does is lost, which is the finding of `context_quoted`.

`Base_proofs`, of Base64: `Base64InverseHolds` (`Base64Inverse`) for bytes of any number and value.
A group of three bytes and its four characters have the same bits in the same order
(`GroupBits`), `Encode` and `Decode` are equal to a function of the groups, and the
characters of the last, shorter group stand for the bytes there are.

`Base_proofs`, of Json, for any number of nodes, names, values and variables:
`NodesOwnedOnce` (`OwnedOnce`) and `WatchersStayTrue` (`WatchersTrue`). Neither is inductive:
a node with one owner could be in a circle that no variable reaches. The invariant
(`HeapIsForest`) is that the heap is a `World` for the set R of nodes that variables own: each
node in use is in R or has exactly one place (`Forest`), and among any nodes there is one that
none of them has (`NoCircle`), which stands for the induction over the height of a tree. With
it: no two variables own the same node (`Apart`), every variable that is not stale is a root,
a watcher in its parent or the owner of a null (`HandleOK`), and the nodes do not run out.
Within a statement temporaries own nodes too and variables may lose theirs; `Amid` and `Sound`
say so, and the lemmas follow the statement call by call: `Destroy`, `NewLeaf`, `NewCopy` for
what happens to trees, `Put`, `Swap`, `TakenOut` for a place in one, then `PlacedFacts`,
`AssignedFacts` and `SubscriptFacts` for what the class makes of these. Each says what becomes
of R and that a handle is lost only to a node that has died (`Keeps`).

`WriteReadHolds` (`WriteRead`) follows the same calls for what they put into the tree. The new
nodes hold the value under an image (`Made`: a new leaf is at one, a copy at as many as the value
has), and whatever leaves the new nodes alone keeps that (`MadeKept`). The place that is replaced
or appended is the owner's (`ReplacedMade`, `PlacedMade`), and neither that nor the destruction
of what was there touches the node that has it, for no holder is under what it holds
(`HolderNotUnder`, from `NoCircle`). What `operator[]` returns is then the first member with its
name, or a placeholder for a name the object does not have (`SubscriptFound`, `DeepFound`), so
the name finds what was written. `WritesAreStatements` brings the heap's invariant along. The
exception for a null is needed: there the name finds the null first. Under a scalar nothing is
written at all.

`Server_proofs`, of `ThreadPools`, for any number of requests and threads: `PoolTypeCorrect`,
`ThreadsStayLeft`, `SomebodyGoesOn` (if no handler thread is free, one of them runs, polls or
may take the mutex: the pool cannot be stuck). Its invariant says that the mutex is held
exactly by the request that polls (`Held`) and that a request in the compute pool has
`agent_wait` at the front of its series (`WaitFirst`).

`Texts_proofs`, of Json, for every text, any depth limit and any indentation: `ReadBackCorrect`
(`ReadBack`), `FitsBufferCorrect` (`FitsBuffer`), `OneLineCorrect` (`OneLine`). The invariant
(`TextInv`) is that the value is the one that was parsed first, or the text is a dump of it;
the rest is about the functions.

* A recursive function is what its definition says only if there is such a function.
  `Recursion` gives one whenever the recursion asks for elements of a lower rank alone, by
  the least element that would have none; with the rank "bytes left" it gives the parser's
  loops (`CountSolved`, `ReadSolved`, `MantissaSolved`, `ItemsSolved`), with the number
  itself `DecimalSolved`. `LevelRecursion` does the same for the levels of the values, of the
  parser and of the writer (`ValuesSolved`, `ParserSolved`, `DumpSolved`).
* `Fits`: by what is at a cursor, each case of the second pass is one of the first. The first
  pass counts a `\uXXXX` as five bytes and one escape, so a surrogate pair as ten and two; the
  second writes at most three bytes, or four, and takes off as many escapes. `CountShift` and `ReadShift`
  say that what was counted or written before changes nothing, so the argument goes from a
  cursor to the later ones (`Downward`).
* `ParseTyped`, `DumpTyped`: what is parsed is a value of as many levels as were left, what is
  written of a value is text, on one line without control characters.
* `DumpBack`, by levels: if the values a level down are read back wherever they stand
  (`Back`), so are items, members and trees (`ItemBack`, `ItemsBack`, `TreeBack`). A string
  comes back byte by byte from its end (`EscapeBack`, `CodeBack`, `BytesBack`), a number because
  what follows it is no figure (`Ended`), a literal because the first bytes differ. The writer
  never goes deeper than the parser, since both are bounded by the value's levels.

`Texts_proofs`, of the calculator, for expressions of any depth over any numbers:
`CalculatesCorrect` (`Calculates`). The loops and the levels have a solution as above
(`LoopSolved`, `FactorSolved`), since an operand ends behind where it begins (`Operands`). An
expression is then `Understood`: wherever its text stands and nothing behind it belongs to it,
`parseFactor` reads the text it has as a factor, `parseTerm` that of an operand of a product
and `parseExpression` that of a sum, and what they read is what it means. For the last two the
claim is that the loop goes on behind the text with the value so far (`Continued`), which is
what makes operators group to the left: an operator more is one round of the loop
(`ProductIsTerm`, `SumIsSum`), parentheses and signs make a factor (`ClosedIsFactor`,
`NegationIsFactor`). A value that is `Nothing` follows a division by zero to the top. The
assumption on the numbers is that each has the value `stod` reads.

Only model-checked: the five liveness properties (`RunCompletes`, `CallEnds`, `SeriesEnds`,
`CallReturns`, `EveryoneServed`), which are beyond this prover. Every invariant and every
property of single steps that a passing run checks is a theorem.

## Plan

1. (done) `Assistant` with its contract and proofs, `ChatStream`, `ContextStore`, `McpProcess`.
2. (done) `SseStream` and the refinement of `LineStream`; `AssistantRequests`; `ThreadPools`.
3. (done) `JsonDom`, `JsonText`, `Base64`, `Calculator`.
4. (done) Proofs about `SseStream`, `ChatStream`, `ContextStore`, `McpProcess`, `ThreadPools`.
5. (done) Proofs of the remaining invariants and of `RequestsExtend` in these modules, and of
   `Base64Inverse`; ownership and watchers in `JsonDom`, what is written read back in
   `JsonWrites`; parsing and dumping in `JsonText`; the calculator.
6. Next: `ChatStream` with `Assistant` in place of the contract and `ContextStore` behind it;
   the `function_call` branch.

## Not modelled, and why

Server and router: routes are regular expressions over method and URI without state, and
start and stop are calls into the workflow library, of which only the use is known here. The
whole URI has to match, so the query parameters that the chat handler reads never reach it;
this is a fact about one expression and no behaviour. Endpoints that only read (`getHealth`,
`getModels`), the formatting of the weather tool, URLs and headers: no state. The tool
registry is filled before the server starts and read afterwards. `TruncateMessages` is not
called. Logging, timers and file helpers do nothing the chatbot depends on.

Of Json: fractions and exponents of numbers, iterators, and the overloads that differ in the
type of the value alone. Memory is modelled where ownership is passed on (`ctx`, the run's
cycle, the nodes of a tree) and not elsewhere. Workflow, redis, the LLM and the MCP server are
external and appear as the actions their use in the code implies.

Four fifths of the repository's lines are the vendored spdlog and fmt, which are no part of
the chatbot; of its own code the modules stand for about a third.
