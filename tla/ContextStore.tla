---------------------------- MODULE ContextStore ----------------------------
(***************************************************************************)
(* The conversation of one user in redis (source/Server/Callback.cc).        *)
(*                                                                          *)
(* A chat request loads the list chat:context:<user>, runs the agent, and    *)
(* then saves by three commands of its series: RPUSH of the user's message,  *)
(* RPUSH of the answer, LTRIM to the last Keep entries.  DELETE of the        *)
(* context is one DEL.  Requests of the same user run side by side, each     *)
(* command is atomic, and what a command returned is looked at only for      *)
(* LRANGE.  A streamed response is complete before its commands have run, a *)
(* plain one is sent by the end of the series, behind them.                  *)
(***************************************************************************)
EXTENDS Integers, Sequences, FiniteSets

CONSTANTS
    Requests,       \* the chat requests of the user
    NoRequest,
    Keep,           \* entries LTRIM leaves (20 in the code)
    Modes,          \* of a request: "stream", "plain"
    Prompts,        \* "plain", or "quoted": with characters JSON escapes
    MaxClears,      \* bound: DELETE requests
    MaxFailures     \* bound: redis commands that fail

ASSUME RequestAssumption == IsFiniteSet(Requests) /\ NoRequest \notin Requests

ASSUME StoreAssumption ==
    /\ Keep \in Nat \ {0}
    /\ Modes \subseteq {"stream", "plain"}
    /\ Prompts \subseteq {"plain", "quoted"}
    /\ MaxClears \in Nat /\ MaxFailures \in Nat

VARIABLES
    list,           \* the redis list
    pc,             \* request -> where it is
    mode, prompt,   \* request -> what the client sent
    history,        \* request -> the messages it loaded
    answered,       \* requests whose response the client has in full
    patient,        \* the client waits for each response
    clears,         \* DELETE requests so far
    failures,       \* redis commands that have failed
    log,            \* history variable: entries pushed since the last DEL
    latest,         \* history variable, of a patient client: the completed
                    \* request answered last, or NoRequest after a DEL
    before          \* history variable: request -> latest when it was sent

client == <<mode, prompt, patient, before>>
vars == <<list, pc, client, history, answered, clears, failures, log, latest>>

Stages == {"new", "load", "agent", "user", "assistant", "trim", "done"}

-----------------------------------------------------------------------------
(* Entries.                                                                 *)

\* The user's message is put between quotes as it is, the answer is dumped:
\* only the first can turn out not to be JSON.
Entry(r, role) ==
    [request |-> r, role |-> role,
     valid |-> role = "assistant" \/ prompt[r] = "plain"]

\* What is not JSON is left out when the list is read.
Decoded(entries) ==
    LET valid == {i \in DOMAIN entries : entries[i].valid}
        place(i) == Cardinality({j \in valid : j <= i})
    IN  [n \in 1 .. Cardinality(valid) |->
            entries[CHOOSE i \in valid : place(i) = n]]

\* Mutant: LTRIM 0 Keep-1.
HeadOf(entries) ==
    IF Len(entries) <= Keep THEN entries ELSE SubSeq(entries, 1, Keep)

\* LTRIM -Keep -1.
TailOf(entries) ==
    IF Len(entries) <= Keep THEN entries
    ELSE SubSeq(entries, Len(entries) - Keep + 1, Len(entries))

-----------------------------------------------------------------------------

Init ==
    /\ list = <<>>
    /\ pc = [r \in Requests |-> "new"]
    /\ mode \in [Requests -> Modes] /\ prompt \in [Requests -> Prompts]
    /\ history = [r \in Requests |-> <<>>]
    /\ answered = {}
    /\ patient \in BOOLEAN
    /\ clears = 0 /\ failures = 0
    /\ log = <<>>
    /\ latest = NoRequest
    /\ before = [r \in Requests |-> NoRequest]

\* The responses the client is waiting for.
Pending == {r \in Requests : pc[r] # "new"} \ answered

\* A command that fails has no effect and is not looked at again.
CommandFails == failures < MaxFailures /\ failures' = failures + 1

Goes(r, from, to) == pc[r] = from /\ pc' = [pc EXCEPT ![r] = to]

\* The response of a request is complete.
Responds(r, completed) ==
    /\ answered' = answered \cup {r}
    /\ latest' = IF completed /\ patient THEN r ELSE latest

Send(r) ==
    /\ patient => Pending = {}
    /\ Goes(r, "new", "load")
    /\ before' = [before EXCEPT ![r] = latest]
    /\ UNCHANGED <<list, mode, prompt, patient, history, answered, clears,
                   failures, log, latest>>

\* LRANGE; if it fails the agent is run without a history.
Load(r) ==
    /\ Goes(r, "load", "agent")
    /\ \/ history' = [history EXCEPT ![r] = Decoded(list)] /\ UNCHANGED failures
       \/ CommandFails /\ UNCHANGED history
    /\ UNCHANGED <<list, client, answered, clears, log, latest>>

\* The agent has an answer: the saving commands are queued, a stream is ended.
Completes(r) ==
    /\ Goes(r, "agent", "user")
    /\ IF mode[r] = "stream" THEN Responds(r, TRUE)
       ELSE UNCHANGED <<answered, latest>>
    /\ UNCHANGED <<list, client, history, clears, failures, log>>

\* The error callback, or RunSync without a result: nothing is saved.
Fails(r) ==
    /\ Goes(r, "agent", "done")
    /\ Responds(r, FALSE)
    /\ UNCHANGED <<list, client, history, clears, failures, log>>

\* Mutant: LPUSH.
PushFront(entry) ==
    \/ /\ list' = <<entry>> \o list
       /\ log' = Append(log, entry)
       /\ UNCHANGED failures
    \/ CommandFails /\ UNCHANGED <<list, log>>

\* RPUSH, which may fail unnoticed.
Push(entry) ==
    \/ /\ list' = Append(list, entry)
       /\ log' = Append(log, entry)
       /\ UNCHANGED failures
    \/ CommandFails /\ UNCHANGED <<list, log>>

\* Mutant: the answer is pushed first.
SaveUserLast(r) ==
    /\ Goes(r, "user", "assistant")
    /\ Push(Entry(r, "assistant"))
    /\ UNCHANGED <<client, history, answered, clears, latest>>

SaveUser(r) ==
    /\ Goes(r, "user", "assistant")
    /\ Push(Entry(r, "user"))
    /\ UNCHANGED <<client, history, answered, clears, latest>>

SaveAssistant(r) ==
    /\ Goes(r, "assistant", "trim")
    /\ Push(Entry(r, "assistant"))
    /\ UNCHANGED <<client, history, answered, clears, latest>>

\* Behind the last command of the series the plain response is sent.
Trim(r) ==
    /\ Goes(r, "trim", "done")
    /\ \/ list' = TailOf(list) /\ UNCHANGED failures
       \/ CommandFails /\ UNCHANGED list
    /\ IF mode[r] = "plain" THEN Responds(r, TRUE)
       ELSE UNCHANGED <<answered, latest>>
    /\ UNCHANGED <<client, history, clears, log>>

\* DELETE /v1/context/<user>.
ClearContext ==
    /\ clears < MaxClears
    /\ patient => Pending = {}
    /\ clears' = clears + 1
    /\ list' = <<>> /\ log' = <<>>
    /\ latest' = NoRequest
    /\ UNCHANGED <<pc, client, history, answered, failures>>

Handle(r) ==
    \/ Send(r) \/ Load(r) \/ Completes(r) \/ Fails(r)
    \/ SaveUser(r) \/ SaveAssistant(r) \/ Trim(r)

\* No client sends anything any more.
AllDone == (\A r \in Requests : pc[r] = "done") /\ UNCHANGED vars

Next == (\E r \in Requests : Handle(r)) \/ ClearContext \/ AllDone

Spec == Init /\ [][Next]_vars

-----------------------------------------------------------------------------
(* Properties.                                                              *)

Entries == [request : Requests, role : {"user", "assistant"}, valid : BOOLEAN]

\* Every variable has its type.
TypeOK ==
    /\ list \in Seq(Entries) /\ log \in Seq(Entries)
    /\ pc \in [Requests -> Stages]
    /\ mode \in [Requests -> Modes] /\ prompt \in [Requests -> Prompts]
    /\ history \in [Requests -> Seq(Entries)]
    /\ answered \subseteq Requests
    /\ patient \in BOOLEAN
    /\ clears \in 0 .. MaxClears /\ failures \in 0 .. MaxFailures
    /\ latest \in Requests \cup {NoRequest}
    /\ before \in [Requests -> Requests \cup {NoRequest}]

\* The list is the end of what was saved since the last DEL, and at least Keep
\* entries of it, however requests interleave and whichever commands fail: a
\* trim never takes an entry that is among the last Keep (Callback.cc:479-487).
ListIsRecent ==
    \E n \in 0 .. Len(log) :
        /\ list = SubSeq(log, n + 1, Len(log))
        /\ n > 0 => Len(list) >= Keep

\* A question is never behind its answer, and no message is in the list twice,
\* however the savings of several requests interleave.
PairsInOrder ==
    \A i, j \in DOMAIN list :
        list[i].request = list[j].request /\ i < j =>
            list[i].role = "user" /\ list[j].role = "assistant"

\* The history of a request ends with the exchange of the other.
EndsWith(r, other) ==
    LET n == Len(history[r])
    IN  /\ n >= 2
        /\ history[r][n-1].request = other
        /\ history[r][n].request = other

Remembers(r) ==
    pc[r] \notin {"new", "load"} /\ before[r] # NoRequest =>
        EndsWith(r, before[r])

\* A request sent after a response was complete has that exchange at the end of
\* its history ("the conversation's context is stored in redis", ReadMe.md:61).
RemembersAnswered == \A r \in Requests : patient /\ failures = 0 => Remembers(r)

\* It has if all responses are plain: behind them the exchange is saved
\* (Callback.cc:549-552).
RemembersPlain ==
    (\A r \in Requests : mode[r] = "plain") => RemembersAnswered
=============================================================================
