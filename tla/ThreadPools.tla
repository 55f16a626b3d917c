---------------------------- MODULE ThreadPools ----------------------------
(***************************************************************************)
(* Several chat requests at once, and the threads they wait on.             *)
(*                                                                          *)
(* All callbacks of the server run on the handler threads of the workflow   *)
(* library: those of redis tasks, of LLM tasks and of the HTTP task that the *)
(* weather tool starts.  A plain request keeps its thread in RunSync until   *)
(* the agent has called back, on another thread; a weather call keeps that  *)
(* thread until the HTTP task has called back, on a third.  Both wait on a  *)
(* WaitGroup, for which the library adds a thread.  A call of an MCP tool   *)
(* keeps its thread too, first for the mutex of the server process and then *)
(* in poll, and for these no thread is added.  A streamed request keeps no   *)
(* handler thread; its agent_wait task keeps one of the compute threads, of  *)
(* which there are as many as the machine has cores.                         *)
(*                                                                          *)
(* The library is modelled from its use; that it makes up for a thread that  *)
(* is blocked in a WaitGroup is taken from the library.                     *)
(***************************************************************************)
EXTENDS Integers, FiniteSets, Sequences

CONSTANTS
    Chats,          \* chat requests
    Streamed,       \* those with "stream": true
    NoChat,         \* none of them
    HandlerThreads, \* handler threads at the start
    ComputeThreads, \* compute threads
    MaxRounds       \* bound: LLM answers with a tool call, per request

ASSUME PoolAssumption ==
    /\ IsFiniteSet(Chats) /\ Streamed \subseteq Chats
    /\ NoChat \notin Chats
    /\ HandlerThreads \in Nat \ {0}
    /\ ComputeThreads \in Nat \ {0}
    /\ MaxRounds \in Nat

VARIABLES
    handlers,       \* number of handler threads
    load,           \* the LRANGE callback of a request
    run,            \* the LLM task of a request, then its callback
    http,           \* the HTTP task of its weather call
    mutex,          \* request whose tool call holds MCPProcess::mutex_
    rounds,         \* LLM answers with a tool call so far
    wg,             \* count of the request's WaitGroup
    queue,          \* the series: tasks of a request that are still to run
    compute,        \* agent_wait tasks waiting for a compute thread, in order
    computing       \* requests whose agent_wait has one

pools == <<handlers, load, run, http, mutex, rounds, wg, queue, compute, computing>>

PlainChats == Chats \ Streamed

\* "due", "sent": the task is under way, or its callback waits for a thread.
LoadStages == {"due", "running", "waiting", "returned"}
RunStages == {"none", "sent", "weather", "waiting", "lock", "poll", "answered", "failed"}
HttpStages == {"none", "sent"}

-----------------------------------------------------------------------------
(* Threads.                                                                 *)

\* Blocked in a WaitGroup: in RunSync, in the weather tool.
InRunSync == {r \in Chats : load[r] = "waiting"}
InWeather == {r \in Chats : run[r] = "waiting"}

Loading == {r \in Chats : load[r] \in {"running", "waiting"}}
Calling == {r \in Chats : run[r] \in {"weather", "waiting", "lock", "poll"}}

FreeThread == Cardinality(Loading) + Cardinality(Calling) < handlers

\* WaitGroup::wait with so many threads blocked already: there is one thread
\* more for the most that were ever blocked at a time.
Waits(blocked) ==
    handlers' = IF HandlerThreads + blocked + 1 > handlers
                THEN HandlerThreads + blocked + 1 ELSE handlers

Blocked == Cardinality(InRunSync) + Cardinality(InWeather)

-----------------------------------------------------------------------------
(* The handler.                                                             *)

PoolInit ==
    /\ handlers = HandlerThreads
    /\ load = [r \in Chats |-> "due"]
    /\ run = [r \in Chats |-> "none"]
    /\ http = [r \in Chats |-> "none"]
    /\ mutex = NoChat
    /\ rounds = [r \in Chats |-> 0]
    /\ wg = [r \in Chats |-> 1]
    /\ queue = [r \in Chats |-> <<>>]
    /\ compute = <<>> /\ computing = {}

\* The LRANGE callback starts the agent, which starts the first LLM task.
LoadContext(r) ==
    /\ load[r] = "due" /\ FreeThread
    /\ load' = [load EXCEPT ![r] = "running"]
    /\ run' = [run EXCEPT ![r] = "sent"]
    /\ UNCHANGED <<handlers, http, mutex, rounds, wg, queue, compute, computing>>

\* A streamed request: agent_wait is queued and the callback returns.
QueueWait(r) ==
    /\ r \in Streamed /\ load[r] = "running"
    /\ load' = [load EXCEPT ![r] = "returned"]
    /\ queue' = [queue EXCEPT ![r] = Append(@, "agent_wait")]
    /\ UNCHANGED <<handlers, run, http, mutex, rounds, wg, compute, computing>>

\* Mutant: it waits for something for which the library adds no thread.
RunSyncWaitsAlone(r) ==
    /\ r \in PlainChats /\ load[r] = "running" /\ wg[r] = 1
    /\ load' = [load EXCEPT ![r] = "waiting"]
    /\ UNCHANGED <<handlers, run, http, mutex, rounds, wg, queue, compute, computing>>

\* A plain request: RunSync waits, unless the run is over already.
RunSyncWaits(r) ==
    /\ r \in PlainChats /\ load[r] = "running" /\ wg[r] = 1
    /\ load' = [load EXCEPT ![r] = "waiting"]
    /\ Waits(Blocked)
    /\ UNCHANGED <<run, http, mutex, rounds, wg, queue, compute, computing>>

\* RunSync returns: the response is set and, if there is one, saved.
RunSyncReturns(r) ==
    /\ r \in PlainChats /\ load[r] \in {"running", "waiting"} /\ wg[r] = 0
    /\ load' = [load EXCEPT ![r] = "returned"]
    /\ queue' = [queue EXCEPT ![r] = IF run[r] = "answered"
                                     THEN Append(@, "save") ELSE @]
    /\ UNCHANGED <<handlers, run, http, mutex, rounds, wg, compute, computing>>

-----------------------------------------------------------------------------
(* The agent.                                                               *)

\* Mutant: the error callback does not signal the WaitGroup.
LastUnsignalled(r, answered) ==
    /\ run' = [run EXCEPT ![r] = IF answered THEN "answered" ELSE "failed"]
    /\ wg' = [wg EXCEPT ![r] = IF answered THEN 0 ELSE @]
    /\ queue' = [queue EXCEPT ![r] = IF answered /\ r \in Streamed
                                     THEN Append(@, "save") ELSE @]

\* The complete or the error callback of the run: of a streamed request it
\* queues the saving of an answer.
Last(r, answered) ==
    /\ run' = [run EXCEPT ![r] = IF answered THEN "answered" ELSE "failed"]
    /\ wg' = [wg EXCEPT ![r] = 0]
    /\ queue' = [queue EXCEPT ![r] = IF answered /\ r \in Streamed
                                     THEN Append(@, "save") ELSE @]

\* The LLM's callback without a tool call.
RunEnds(r, answered) ==
    /\ run[r] = "sent" /\ FreeThread
    /\ Last(r, answered)
    /\ UNCHANGED <<handlers, load, http, mutex, rounds, compute, computing>>

\* The LLM's callback with a tool call.
ToolCall(r) ==
    /\ run[r] = "sent" /\ FreeThread /\ rounds[r] < MaxRounds
    /\ rounds' = [rounds EXCEPT ![r] = @ + 1]

\* After the tool the next LLM task is started and the callback returns.
NextLLMCall(r) == run' = [run EXCEPT ![r] = "sent"]

\* A tool that needs nobody else.
CallBuildin(r) ==
    /\ ToolCall(r) /\ NextLLMCall(r)
    /\ UNCHANGED <<handlers, load, http, mutex, wg, queue, compute, computing>>

\* ToolAmapWeather::Call starts its HTTP task.
CallWeather(r) ==
    /\ ToolCall(r)
    /\ run' = [run EXCEPT ![r] = "weather"]
    /\ http' = [http EXCEPT ![r] = "sent"]
    /\ UNCHANGED <<handlers, load, mutex, wg, queue, compute, computing>>

\* It waits, unless the answer is there already.
WeatherWaits(r) ==
    /\ run[r] = "weather" /\ http[r] # "none"
    /\ run' = [run EXCEPT ![r] = "waiting"]
    /\ Waits(Blocked)
    /\ UNCHANGED <<load, http, mutex, rounds, wg, queue, compute, computing>>

\* The callback of the HTTP task.
WeatherDone(r) ==
    /\ http[r] = "sent" /\ FreeThread
    /\ http' = [http EXCEPT ![r] = "none"]
    /\ UNCHANGED <<handlers, load, run, mutex, rounds, wg, queue, compute, computing>>

WeatherReturns(r) ==
    /\ run[r] \in {"weather", "waiting"} /\ http[r] = "none"
    /\ NextLLMCall(r)
    /\ UNCHANGED <<handlers, load, http, mutex, rounds, wg, queue, compute, computing>>

\* MCPProcess::Transact takes the mutex, writes and polls; an answer, the end
\* of the pipe or ten seconds without either end it.
CallMcp(r) ==
    /\ ToolCall(r)
    /\ run' = [run EXCEPT ![r] = "lock"]
    /\ UNCHANGED <<handlers, load, http, mutex, wg, queue, compute, computing>>

Lock(r) ==
    /\ run[r] = "lock" /\ mutex = NoChat
    /\ run' = [run EXCEPT ![r] = "poll"]
    /\ mutex' = r
    /\ UNCHANGED <<handlers, load, http, rounds, wg, queue, compute, computing>>

PollEnds(r) ==
    /\ run[r] = "poll"
    /\ NextLLMCall(r) /\ mutex' = NoChat
    /\ UNCHANGED <<handlers, load, http, rounds, wg, queue, compute, computing>>

-----------------------------------------------------------------------------
(* The series, which goes on when the callback of its first task is over.   *)

Task(r, kind) == load[r] = "returned" /\ queue[r] # <<>> /\ Head(queue[r]) = kind

StartWait(r) ==
    /\ Task(r, "agent_wait") /\ r \notin computing
    /\ \A i \in DOMAIN compute : compute[i] # r
    /\ compute' = Append(compute, r)
    /\ UNCHANGED <<handlers, load, run, http, mutex, rounds, wg, queue, computing>>

\* A compute thread takes the first task of its queue.
Compute ==
    /\ compute # <<>> /\ Cardinality(computing) < ComputeThreads
    /\ computing' = computing \cup {Head(compute)}
    /\ compute' = Tail(compute)
    /\ UNCHANGED <<handlers, load, run, http, mutex, rounds, wg, queue>>

WaitEnds(r) ==
    /\ r \in computing /\ wg[r] = 0
    /\ computing' = computing \ {r}
    /\ queue' = [queue EXCEPT ![r] = Tail(@)]
    /\ UNCHANGED <<handlers, load, run, http, mutex, rounds, wg, compute>>

\* The redis tasks that save, which end on a handler thread.
Save(r) ==
    /\ Task(r, "save") /\ FreeThread
    /\ queue' = [queue EXCEPT ![r] = Tail(@)]
    /\ UNCHANGED <<handlers, load, run, http, mutex, rounds, wg, compute, computing>>

-----------------------------------------------------------------------------

\* Steps that need a free handler thread; a request has one of them to do at
\* a time.
Callback(r) ==
    \/ LoadContext(r) \/ WeatherDone(r) \/ Save(r)
    \/ \E answered \in BOOLEAN : RunEnds(r, answered)
    \/ CallBuildin(r) \/ CallWeather(r) \/ CallMcp(r)

\* Steps of a thread that is running, and of the series.
Step(r) ==
    \/ QueueWait(r) \/ RunSyncWaits(r) \/ RunSyncReturns(r)
    \/ WeatherWaits(r) \/ WeatherReturns(r) \/ PollEnds(r)
    \/ StartWait(r) \/ WaitEnds(r)

PoolNext == Compute \/ \E r \in Chats : Callback(r) \/ Lock(r) \/ Step(r)

\* Threads go on and tasks end; a callback that is due gets one of the threads
\* that become free again and again, a call the mutex.
Fairness ==
    /\ WF_pools(Compute)
    /\ \A r \in Chats : SF_pools(Callback(r)) /\ SF_pools(Lock(r)) /\ WF_pools(Step(r))

PoolSpec == PoolInit /\ [][PoolNext]_pools /\ Fairness

-----------------------------------------------------------------------------
(* Properties.                                                              *)

\* Every variable has its type.
PoolTypeOK ==
    /\ handlers \in Nat
    /\ load \in [Chats -> LoadStages]
    /\ run \in [Chats -> RunStages]
    /\ http \in [Chats -> HttpStages]
    /\ mutex \in Chats \cup {NoChat}
    /\ rounds \in [Chats -> 0 .. MaxRounds]
    /\ wg \in [Chats -> {0, 1}]
    /\ queue \in [Chats -> Seq({"agent_wait", "save"})]
    /\ compute \in Seq(Chats)
    /\ computing \subseteq Chats

\* A request has been served: its series is over, so the response of a plain
\* one goes out and the connection of a streamed one is free.
Served(r) == load[r] = "returned" /\ run[r] \in {"answered", "failed"} /\ queue[r] = <<>>

\* The waits of the requests for each other's callbacks are never closed to a
\* circle: of the threads that are not blocked in a WaitGroup there are always
\* as many as at the start, whatever requests and weather calls wait
\* (Agent.cc:78, ToolAmapWeather.cc:97).
ThreadsLeft == handlers >= HandlerThreads + Blocked

\* Every request is served in the end, whatever the others do: wait for the
\* LLM, for the weather or for the mutex of an MCP server, or hold the compute
\* threads (Agent.cc:78, ToolAmapWeather.cc:97, ToolMCP.cc:81, Callback.cc:508).
EveryoneServed == <>(\A r \in Chats : Served(r))
=============================================================================
