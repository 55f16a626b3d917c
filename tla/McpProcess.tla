----------------------------- MODULE McpProcess -----------------------------
(***************************************************************************)
(* One MCP server process and its callers (source/Tools/ToolMCP.cc).         *)
(*                                                                          *)
(* AddServer starts the process and makes the handshake; then the tools are *)
(* registered and any thread may call them.  A request is a line into the    *)
(* stdin pipe of the process, the answer the next line out of its stdout     *)
(* pipe; Transact does both under the mutex of the process, and gives up     *)
(* when the pipe has been silent for ten seconds.  Nobody looks at the ids   *)
(* of the answers.                                                           *)
(*                                                                          *)
(* Requests are numbered in the order of their making, 1 and 2 being the     *)
(* handshake.  (The JSON id of a call is its number minus two: the counter   *)
(* starts at one, and nothing keeps it apart from the handshake's ids.)      *)
(***************************************************************************)
EXTENDS Integers, Sequences

CONSTANTS
    Threads,        \* threads that call tools of the server
    Main,           \* the one that runs AddServer
    NoThread,
    MaxRequests,    \* bound: requests made, those of the handshake included
    PipeRoom,       \* requests that the stdin pipe of the server can hold
    BufSize,        \* size of the read buffer, in bytes of the model
    MaxNotices,     \* bound: lines the server writes unasked
    Faults          \* "slow", "dies", "fails": the server; "badargs": the LLM

ASSUME ThreadAssumption == Main \in Threads /\ NoThread \notin Threads

ASSUME BoundAssumption ==
    /\ MaxRequests \in Nat /\ MaxRequests >= 2
    /\ PipeRoom \in Nat \ {0}
    /\ BufSize \in Nat \ {0}
    /\ MaxNotices \in Nat
    /\ Faults \subseteq {"slow", "dies", "fails", "badargs"}

VARIABLES
    stage,          \* AddServer: "initialize", "list", "registered", "failed",
                    \* "stopped"
    pid,            \* pid_: "child", or "none" for -1
    server,         \* the process: "running" or "dead"
    taken,          \* what the server has begun to write and not yet written
    stdin, stdout,  \* the two pipes
    notices,        \* lines the server has written unasked
    mutex,          \* holder of MCPProcess::mutex_
    pc,             \* thread -> "idle", "lock", "write", "read"
    request,        \* thread -> its request
    line,           \* response_line of the holder of the mutex
    requests,       \* requests made so far
    results,        \* thread -> <<request, answer>> of the results it was given
    disturbed,      \* history variable: a poll has timed out, or the server
                    \* has written unasked
    crashed         \* the chatbot has died of a null node

child == <<server, taken, notices>>
caller == <<stage, pid, mutex, pc, request, line, requests, results, crashed>>
vars == <<caller, child, stdin, stdout, disturbed>>

-----------------------------------------------------------------------------
(* Lines.  A line has two bytes of JSON and its end; a line with an answer  *)
(* is known by the request it answers, 0 for a line nobody asked for.        *)

Newline == <<"newline">>

JsonText(n, kind) == <<<<n, kind, 1>>, <<n, kind, 2>>>>

Line(n, kind) == Append(JsonText(n, kind), Newline)

Kinds == {"result", "error", "notice"}

Texts == {JsonText(n, k) : n \in 0 .. MaxRequests, k \in Kinds}

Json(n, kind) == [request |-> n, kind |-> kind]

EmptyObject == Json(0, "empty")

\* Json::parse of a line that is not JSON gives a node that is null; it does
\* not throw.
Parses(text) == text \in Texts

Parsed(text) == Json(text[1][1], text[1][2])

-----------------------------------------------------------------------------

Init ==
    /\ stage = "initialize"
    /\ pid = "child" /\ server = "running"
    /\ taken = <<>> /\ stdin = <<>> /\ stdout = <<>> /\ notices = 0
    /\ mutex = NoThread
    /\ pc = [t \in Threads |-> IF t = Main THEN "lock" ELSE "idle"]
    /\ request = [t \in Threads |-> IF t = Main THEN 1 ELSE 0]
    /\ line = <<>>
    /\ requests = 1
    /\ results = [t \in Threads |-> <<>>]
    /\ disturbed = FALSE /\ crashed = FALSE

-----------------------------------------------------------------------------
(* The server, an external program.                                         *)

\* It takes its requests in order and answers each with a result or an error.
ServerTakes ==
    /\ server = "running" /\ stdin # <<>>
    /\ \E kind \in {"result"} \cup (IF "fails" \in Faults THEN {"error"} ELSE {}) :
          taken' = taken \o Line(Head(stdin), kind)
    /\ stdin' = Tail(stdin)
    /\ UNCHANGED <<caller, server, notices, stdout, disturbed>>

\* A notification of the protocol.
ServerNotes ==
    /\ server = "running" /\ notices < MaxNotices
    /\ notices' = notices + 1
    /\ taken' = taken \o Line(0, "notice")
    /\ disturbed' = TRUE
    /\ UNCHANGED <<caller, server, stdin, stdout>>

\* The pipe takes as much of a line as the server flushes.
ServerWrites ==
    /\ server = "running" /\ taken # <<>>
    /\ \E n \in 1 .. Len(taken) :
          /\ stdout' = stdout \o SubSeq(taken, 1, n)
          /\ taken' = SubSeq(taken, n + 1, Len(taken))
    /\ UNCHANGED <<caller, server, notices, stdin, disturbed>>

ServerDies ==
    /\ "dies" \in Faults /\ server = "running"
    /\ server' = "dead"
    /\ taken' = <<>>
    /\ UNCHANGED <<caller, notices, stdin, stdout, disturbed>>

Server == ServerTakes \/ ServerNotes \/ ServerWrites \/ ServerDies

-----------------------------------------------------------------------------
(* MCPManager.                                                              *)

\* CallTool up to Transact.
CallTool(t) ==
    /\ stage = "registered" /\ pc[t] = "idle" /\ requests < MaxRequests
    /\ requests' = requests + 1
    /\ request' = [request EXCEPT ![t] = requests']
    /\ pc' = [pc EXCEPT ![t] = "lock"]
    /\ UNCHANGED <<stage, pid, mutex, line, results, crashed, child, stdin,
                   stdout, disturbed>>

\* The arguments are the LLM's.  When they are not JSON, the null node that
\* parse gives is copied into the request.
CallToolBadly(t) ==
    /\ "badargs" \in Faults
    /\ stage = "registered" /\ pc[t] = "idle" /\ requests < MaxRequests
    /\ crashed' = TRUE
    /\ UNCHANGED <<stage, pid, mutex, pc, request, line, requests, results,
                   child, stdin, stdout, disturbed>>

\* PerformHandshake with the response of its request: "initialize" is
\* followed by a notification, which has no answer, and by "tools/list", that
\* by the registration of the tools.
Handshake(response) ==
    IF response.kind # "result"
    THEN /\ stage' = "failed"
         /\ pc' = [pc EXCEPT ![Main] = "idle"]
         /\ UNCHANGED <<request, requests>>
    ELSE IF stage = "initialize"
    THEN /\ stage' = "list"
         /\ pc' = [pc EXCEPT ![Main] = "lock"]
         /\ requests' = requests + 1
         /\ request' = [request EXCEPT ![Main] = requests']
    ELSE /\ stage' = "registered"
         /\ pc' = [pc EXCEPT ![Main] = "idle"]
         /\ UNCHANGED <<request, requests>>

\* AddServer drops a process without a handshake; its destructor stops it.
Stop ==
    /\ stage = "failed"
    /\ stage' = "stopped"
    /\ pid' = "none" /\ server' = "dead" /\ taken' = <<>>
    /\ UNCHANGED <<mutex, pc, request, line, requests, results, crashed,
                   notices, stdin, stdout, disturbed>>

\* Mutant: the mutex is not given back.
ReturnLocked(t, response) ==
    /\ line' = <<>>
    /\ IF stage # "registered"
       THEN Handshake(response) /\ UNCHANGED results
       ELSE /\ pc' = [pc EXCEPT ![t] = "idle"]
            /\ results' = [results EXCEPT ![t] =
                              Append(@, <<request[t], response.request>>)]
            /\ UNCHANGED <<stage, request, requests>>
    /\ UNCHANGED mutex

\* Transact returns: the mutex is free again, the response goes to the
\* handshake or to CallTool, which hands on a result and makes an error of
\* everything else.
Return(t, response) ==
    /\ mutex' = NoThread
    /\ line' = <<>>
    /\ IF stage # "registered"
       THEN Handshake(response) /\ UNCHANGED results
       ELSE /\ pc' = [pc EXCEPT ![t] = "idle"]
            /\ results' = IF response.kind = "result"
                          THEN [results EXCEPT ![t] =
                                  Append(@, <<request[t], response.request>>)]
                          ELSE results
            /\ UNCHANGED <<stage, request, requests>>

-----------------------------------------------------------------------------
(* Transact.                                                                *)

\* Mutant: no lock_guard.
LockUnguarded(t) ==
    /\ pc[t] = "lock"
    /\ mutex' = t
    /\ pc' = [pc EXCEPT ![t] = "write"]
    /\ UNCHANGED <<stage, pid, request, line, requests, results, crashed, child,
                   stdin, stdout, disturbed>>

Lock(t) ==
    /\ pc[t] = "lock" /\ mutex = NoThread
    /\ mutex' = t
    /\ pc' = [pc EXCEPT ![t] = "write"]
    /\ UNCHANGED <<stage, pid, request, line, requests, results, crashed, child,
                   stdin, stdout, disturbed>>

\* Mutant: the request is written again, just to be sure.
WriteTwice(t) ==
    /\ pc[t] = "write"
    /\ pid = "child" /\ server = "running" => Len(stdin) < PipeRoom
    /\ IF pid = "child" /\ server = "running"
       THEN /\ stdin' = stdin \o <<request[t], request[t]>>
            /\ pc' = [pc EXCEPT ![t] = "read"]
            /\ UNCHANGED <<stage, mutex, request, line, requests, results>>
       ELSE Return(t, EmptyObject) /\ UNCHANGED stdin
    /\ UNCHANGED <<pid, crashed, child, stdout, disturbed>>

\* A process known to be dead is not asked, one that is dead but not known to
\* be refuses the write.  While the pipe of a live one is full write() blocks,
\* with the mutex held and without a time-out.
Write(t) ==
    /\ pc[t] = "write"
    /\ pid = "child" /\ server = "running" => Len(stdin) < PipeRoom
    /\ IF pid = "child" /\ server = "running"
       THEN /\ stdin' = Append(stdin, request[t])
            /\ pc' = [pc EXCEPT ![t] = "read"]
            /\ UNCHANGED <<stage, mutex, request, line, requests, results>>
       ELSE Return(t, EmptyObject) /\ UNCHANGED stdin
    /\ UNCHANGED <<pid, crashed, child, stdout, disturbed>>

\* Mutant: without a text the loop starts again.
LoopGoesOn(t, text) ==
    /\ text # <<>>
    /\ IF Parses(text)
       THEN Return(t, Parsed(text)) /\ UNCHANGED <<pid, crashed>>
       ELSE /\ crashed' = TRUE
            /\ UNCHANGED <<stage, pid, mutex, pc, request, line, requests,
                           results>>

\* The loop has ended with the text.  Without any, the process may be found
\* to have died (waitpid does not wait: the end of the pipe may come first).
LoopEnds(t, text) ==
    \/ /\ text = <<>>
       /\ pid' \in IF server = "dead" THEN {pid, "none"} ELSE {pid}
       /\ Return(t, EmptyObject)
       /\ UNCHANGED crashed
    \/ /\ text # <<>> /\ Parses(text)
       /\ Return(t, Parsed(text))
       /\ UNCHANGED <<pid, crashed>>
    \/ /\ text # <<>> /\ ~Parses(text)      \* has() of a null node
       /\ crashed' = TRUE
       /\ UNCHANGED <<stage, pid, mutex, pc, request, line, requests, results>>

\* Mutant: the search for the newline starts at the second byte.
ReadFromSecond(t) ==
    /\ pc[t] = "read" /\ stdout # <<>>
    /\ LET n == IF Len(stdout) < BufSize THEN Len(stdout) ELSE BufSize
           buf == SubSeq(stdout, 1, n)
           ends == {i \in 2 .. n : buf[i] = Newline}
       IN  /\ stdout' = SubSeq(stdout, n + 1, Len(stdout))
           /\ IF ends = {}
              THEN /\ line' = line \o buf
                   /\ UNCHANGED <<stage, pid, mutex, pc, request, requests,
                                  results, crashed>>
              ELSE LET end == CHOOSE i \in ends : \A j \in ends : i <= j
                   IN  LoopEnds(t, line \o SubSeq(buf, 1, end - 1))
    /\ UNCHANGED <<child, stdin, disturbed>>

\* read() gives what is there, at most a buffer of it.  The bytes up to the
\* first newline are kept; what follows it in the buffer is dropped.
Read(t) ==
    /\ pc[t] = "read" /\ stdout # <<>>
    /\ LET n == IF Len(stdout) < BufSize THEN Len(stdout) ELSE BufSize
           buf == SubSeq(stdout, 1, n)
           ends == {i \in 1 .. n : buf[i] = Newline}
       IN  /\ stdout' = SubSeq(stdout, n + 1, Len(stdout))
           /\ IF ends = {}
              THEN /\ line' = line \o buf
                   /\ UNCHANGED <<stage, pid, mutex, pc, request, requests,
                                  results, crashed>>
              ELSE LET end == CHOOSE i \in ends : \A j \in ends : i <= j
                   IN  LoopEnds(t, line \o SubSeq(buf, 1, end - 1))
    /\ UNCHANGED <<child, stdin, disturbed>>

\* poll() has waited ten seconds.
TimeOut(t) ==
    /\ "slow" \in Faults
    /\ pc[t] = "read" /\ stdout = <<>> /\ server = "running"
    /\ LoopEnds(t, line)
    /\ disturbed' = TRUE
    /\ UNCHANGED <<child, stdin, stdout>>

EndOfFile(t) ==
    /\ pc[t] = "read" /\ stdout = <<>> /\ server = "dead"
    /\ LoopEnds(t, line)
    /\ UNCHANGED <<child, stdin, stdout, disturbed>>

Transact(t) == Lock(t) \/ Write(t) \/ Read(t) \/ TimeOut(t) \/ EndOfFile(t)

-----------------------------------------------------------------------------

\* Nobody has anything to do any more.
Quiet ==
    /\ \/ crashed
       \/ stage = "stopped"
       \/ stage = "registered" /\ \A t \in Threads : pc[t] = "idle"
    /\ UNCHANGED vars

Next ==
    \/ ~crashed /\ \E t \in Threads :
                     CallTool(t) \/ CallToolBadly(t) \/ Transact(t)
    \/ ~crashed /\ Stop
    \/ ~crashed /\ Server
    \/ Quiet

Spec == Init /\ [][Next]_vars

\* A thread that can go on does (calls are bounded, so the mutex need not be
\* fair).  The server reads its requests in the end, without which a write
\* could block for ever; it need not answer them.
Fairness ==
    /\ \A t \in Threads : WF_vars(~crashed /\ Transact(t))
    /\ WF_vars(~crashed /\ ServerTakes)

FairSpec == Spec /\ Fairness

-----------------------------------------------------------------------------
(* Properties.                                                              *)

JsonBytes == {text[i] : text \in Texts, i \in 1 .. 2}

\* Every variable has its type.
TypeOK ==
    /\ stage \in {"initialize", "list", "registered", "failed", "stopped"}
    /\ pid \in {"child", "none"} /\ server \in {"running", "dead"}
    /\ taken \in Seq(JsonBytes \cup {Newline})
    /\ stdout \in Seq(JsonBytes \cup {Newline})
    /\ stdin \in Seq(1 .. MaxRequests)
    /\ notices \in 0 .. MaxNotices
    /\ mutex \in Threads \cup {NoThread}
    /\ pc \in [Threads -> {"idle", "lock", "write", "read"}]
    /\ request \in [Threads -> 0 .. MaxRequests]
    /\ line \in Seq(JsonBytes)
    /\ requests \in 1 .. MaxRequests
    /\ results \in [Threads -> Seq((1 .. MaxRequests) \X (0 .. MaxRequests))]
    /\ disturbed \in BOOLEAN /\ crashed \in BOOLEAN

\* The result CallTool returns ("execute an MCP tool call", ToolMCP.h:36) is
\* the server's answer to that very request, though nobody compares the ids
\* and several threads share the process (ToolMCP.cc:256-264).
AnswerMatches ==
    \A t \in Threads : \A i \in DOMAIN results[t] :
        results[t][i][1] = results[t][i][2]

\* It is as long as the server answers in time and writes nothing unasked,
\* whatever else fails and however lines and buffers meet.
MatchesUndisturbed == ~disturbed => AnswerMatches

\* Until then nothing is left in the pipes or on its way between two
\* transactions: this is all that makes the next line the answer
\* (ToolMCP.cc:98-126).
PipesClean ==
    ~disturbed /\ server = "running" /\ mutex = NoThread => stdin = <<>> /\ taken = <<>> /\ stdout = <<>>

\* However late the answers are and whatever is dropped with a buffer, no
\* answer is given to two calls.
AnsweredOnce ==
    \A t, u \in Threads : \A i \in DOMAIN results[t], j \in DOMAIN results[u] :
        results[t][i][2] = results[u][j][2] => t = u /\ i = j

\* Every caller comes back from the mutex and from both pipes, also when the
\* process never answers or has died (ToolMCP.cc:92-117), as long as it reads
\* what it is sent, unless the chatbot dies.
CallReturns ==
    \A t \in Threads : pc[t] # "idle" ~> (pc[t] = "idle" \/ crashed)
=============================================================================
