------------------------------ MODULE Assistant ------------------------------
(***************************************************************************)
(* One run of the tool-calling agent: Assistant::_Run with the CallLLM and  *)
(* CallTool helpers (source/Agent/Agent.cc) on top of the streamed LLM call *)
(* of LLMBase (source/LLM/LLMBase.cc).                                      *)
(*                                                                          *)
(* The run is a chain of callbacks.  Run makes the first LLM call; every    *)
(* parsed SSE event of the answer is one Delta; the end of the HTTP task is *)
(* StreamComplete or StreamFailed.  StreamComplete runs the tools the LLM   *)
(* asked for, appends their results to the history and calls the LLM again, *)
(* until the LLM answers without tool calls or the limit of calls is hit.   *)
(***************************************************************************)
EXTENDS Integers, Sequences

CONSTANTS
    MaxLLMCalls,    \* max_llm_calls_per_run_
    Token,          \* pieces of message text
    Ids,            \* tool call ids the LLM hands out
    ToolNames,      \* tool names the LLM asks for
    Tools,          \* names in tools_
    PromptText,     \* pieces of text of the user's and the caller's messages
    Prompts,        \* the histories a run may start from
    MaxDeltas,      \* bound: SSE events in one answer
    MaxIndex        \* bound: the largest "index" of a tool call delta

ToolTexts == {<<"result">>, <<"failure">>, <<"not found">>}

\* Content is a sequence of pieces of text.
Contents == Seq(Token \cup PromptText \cup {"result", "failure", "not found"})

EmptyCall == [id |-> "", name |-> ""]

ToolCalls == [id : Ids \cup {""}, name : ToolNames \cup {""}]

Messages == [role : {"system", "user", "assistant", "tool"},
             content : Contents,
             tool_calls : Seq(ToolCalls),
             tool_call_id : Ids \cup {""}]

ASSUME LimitAssumption ==
    /\ MaxLLMCalls \in Nat
    /\ MaxDeltas \in Nat
    /\ MaxIndex \in Nat

ASSUME NameAssumption ==
    /\ Ids \subseteq STRING
    /\ ToolNames \subseteq STRING
    /\ Tools \subseteq ToolNames
    /\ "" \notin Ids \cup ToolNames

\* Messages loaded from the store carry a role and a content, no tool calls.
ASSUME PromptAssumption ==
    \A prompt \in Prompts :
        /\ prompt \in Seq(Messages)
        /\ \A i \in DOMAIN prompt :
              prompt[i].role # "tool" /\ prompt[i].tool_calls = <<>>

VARIABLES
    hasLLM,         \* llm_ != nullptr
    history,        \* RunContext::history
    accumulated,    \* RunContext::accumulated: its content and reasoning
    call_count,     \* RunContext::call_count
    done,           \* RunContext::done
    do_llm_call,    \* RunContext::do_llm_call != nullptr
    stream,         \* LLMStreamContext of the LLM call in flight
    requests,       \* number of HTTP requests sent to the LLM
    outcome,        \* the callbacks as the caller of Run sees them: the state,
    text,           \*   the content of the last message it was given,
    endings         \*   and how many complete and error callbacks it got

runContext == <<history, accumulated, call_count, done, do_llm_call>>
caller == <<outcome, text, endings>>
vars == <<hasLLM, runContext, stream, requests, caller>>

-----------------------------------------------------------------------------
(* The LLM call in flight.                                                  *)

NoStream == [open |-> FALSE, content |-> <<>>, reasoning |-> <<>>,
             tool_calls |-> <<>>, deltas |-> 0]

NewStream == [NoStream EXCEPT !.open = TRUE]

\* vector::resize: missing entries are default-constructed.
Resized(calls, n) ==
    [i \in 1 .. (IF n > Len(calls) THEN n ELSE Len(calls)) |->
        IF i <= Len(calls) THEN calls[i] ELSE EmptyCall]

\* ToolCall::Merge: a delta overwrites what it carries.
Merge(call, d) == [id   |-> IF d.id # "" THEN d.id ELSE call.id,
                   name |-> IF d.name # "" THEN d.name ELSE call.name]

Merged(calls, d) ==
    LET wide == Resized(calls, d.index + 1)
    IN  [wide EXCEPT ![d.index + 1] = Merge(wide[d.index + 1], d)]

ToolDeltas == [index : 0 .. MaxIndex, id : Ids \cup {""},
               name : ToolNames \cup {""}]

-----------------------------------------------------------------------------
(* RunContext::do_llm_call, with the history and the text it starts from.   *)

\* The complete callback with message content, and done, and the reference
\* from the context to itself dropped.
Finish(content) ==
    /\ done' = TRUE
    /\ do_llm_call' = FALSE
    /\ outcome' = "complete"
    /\ text' = content
    /\ endings' = endings + 1

\* Mutant: the error callback forgets to break the cycle (Agent.cc:354).
FinishErrorLeaking ==
    /\ done' = TRUE
    /\ outcome' = "error"
    /\ endings' = endings + 1
    /\ UNCHANGED <<do_llm_call, text>>

FinishError ==
    /\ done' = TRUE
    /\ do_llm_call' = FALSE
    /\ outcome' = "error"
    /\ endings' = endings + 1
    /\ UNCHANGED text

\* ChatStream: a new HTTP request and LLMStreamContext.
SendRequest(content) ==
    /\ stream' = NewStream
    /\ requests' = requests + 1
    /\ do_llm_call' = TRUE
    /\ outcome' = "running"
    /\ text' = content
    /\ UNCHANGED <<done, endings>>

\* Mutant: no return after the limit's complete callback (Agent.cc:294).
DoLLMCallNoReturn(content) ==
    /\ call_count' = call_count + 1
    /\ IF call_count' > MaxLLMCalls
       THEN Finish(content) /\ stream' = NewStream /\ requests' = requests + 1
       ELSE SendRequest(content)

\* Mutant: the limit ends the run without the complete callback (Agent.cc:291).
DoLLMCallSilent(content) ==
    /\ call_count' = call_count + 1
    /\ IF call_count' > MaxLLMCalls
       THEN /\ done' = TRUE /\ do_llm_call' = FALSE /\ stream' = NoStream
            /\ UNCHANGED <<requests, caller>>
       ELSE SendRequest(content)

\* The (max_llm_calls_per_run_ + 1)-th call completes the run instead, with
\* whatever is accumulated; without an LLM CallLLM reports an error at once.
DoLLMCall(content) ==
    /\ call_count' = call_count + 1
    /\ IF call_count' > MaxLLMCalls
       THEN Finish(content) /\ stream' = NoStream /\ UNCHANGED requests
       ELSE IF hasLLM
       THEN SendRequest(content)
       ELSE FinishError /\ stream' = NoStream /\ UNCHANGED requests

-----------------------------------------------------------------------------

Init ==
    /\ hasLLM \in BOOLEAN
    /\ history \in Prompts
    /\ accumulated = [content |-> <<>>, reasoning |-> <<>>]
    /\ call_count = 0
    /\ done = FALSE
    /\ do_llm_call = FALSE
    /\ stream = NoStream
    /\ requests = 0
    /\ outcome = "idle"
    /\ text = <<>>
    /\ endings = 0

\* Agent::Run: the context is created and the first LLM call made.
Run ==
    /\ outcome = "idle"
    /\ DoLLMCall(<<>>)
    /\ UNCHANGED <<hasLLM, history, accumulated>>

\* Mutant: the whole content is appended with every event, like the reasoning.
DeltaWhole(content, reasoning, calls) ==
    /\ stream.open
    /\ stream.deltas < MaxDeltas
    /\ stream' = [stream EXCEPT !.content = @ \o content, !.deltas = @ + 1]
    /\ accumulated' = [content |-> accumulated.content \o stream'.content,
                       reasoning |-> accumulated.reasoning]
    /\ text' = accumulated'.content
    /\ UNCHANGED <<hasLLM, history, call_count, done, do_llm_call, requests,
                   outcome, endings>>

\* One parsed SSE event.  The LLM's stream callback is skipped for an event
\* with neither content nor tool calls; reasoning in it is the reasoning of
\* the whole turn so far.
Delta(content, reasoning, calls) ==
    /\ stream.open
    /\ stream.deltas < MaxDeltas
    /\ stream' = [stream EXCEPT
          !.content = @ \o content,
          !.reasoning = @ \o reasoning,
          !.tool_calls = IF calls = <<>> THEN @ ELSE Merged(@, calls[1]),
          !.deltas = @ + 1]
    /\ IF content # <<>> \/ calls # <<>>
       THEN /\ accumulated' = [content |-> accumulated.content \o content,
                               reasoning |-> accumulated.reasoning
                                                 \o stream'.reasoning]
            /\ text' = accumulated'.content
       ELSE UNCHANGED <<accumulated, text>>
    /\ UNCHANGED <<hasLLM, history, call_count, done, do_llm_call, requests,
                   outcome, endings>>

Texts == {<<>>} \cup {<<t>> : t \in Token}

AnyDelta ==
    \E content \in Texts, reasoning \in Texts,
       calls \in {<<>>} \cup {<<d>> : d \in ToolDeltas} :
        Delta(content, reasoning, calls)

\* Agent::CallTool: an unknown name is answered with an error text.
CallTool(name) ==
    IF name \in Tools THEN {<<"result">>, <<"failure">>} ELSE {<<"not found">>}

\* Mutant: the answer is filed under the tool's name, the way Agent.cc:331
\* does for the older function_call.
AnswerByName(call, result) ==
    [role |-> "tool", content |-> result, tool_calls |-> <<>>,
     tool_call_id |-> call.name]

\* The message that answers one call.
Answer(call, result) ==
    [role |-> "tool", content |-> result, tool_calls |-> <<>>,
     tool_call_id |-> call.id]

\* Mutant: only the first call is run, as in DetectToolCall (Agent.cc:154).
TurnFirstOnly(results) ==
    << [role |-> "assistant", content |-> stream.content,
        tool_calls |-> stream.tool_calls, tool_call_id |-> ""],
       Answer(stream.tool_calls[1], results[1]) >>

\* What the tool loop appends: the LLM's message, then one answer per call.
Turn(results) ==
    [i \in 1 .. Len(stream.tool_calls) + 1 |->
        IF i = 1
        THEN [role |-> "assistant", content |-> stream.content,
              tool_calls |-> stream.tool_calls, tool_call_id |-> ""]
        ELSE Answer(stream.tool_calls[i - 1], results[i - 1])]

Results == {results \in [DOMAIN stream.tool_calls -> ToolTexts] :
               \A i \in DOMAIN results :
                   results[i] \in CallTool(stream.tool_calls[i].name)}

\* Mutant: the accumulated text is not reset for the next turn (Agent.cc:337).
RunToolsKeepingText ==
    /\ stream.open /\ ~done
    /\ stream.tool_calls # <<>>
    /\ \E results \in Results : history' = history \o Turn(results)
    /\ DoLLMCall(<<>>)
    /\ UNCHANGED <<hasLLM, accumulated>>

\* The complete callback of an LLM call that asked for tools.
RunTools ==
    /\ stream.open /\ ~done
    /\ stream.tool_calls # <<>>
    /\ \E results \in Results : history' = history \o Turn(results)
    /\ accumulated' = [content |-> <<>>, reasoning |-> <<>>]
    /\ DoLLMCall(<<>>)
    /\ UNCHANGED hasLLM

\* The complete callback of an LLM call that answered the user.
Reply ==
    /\ stream.open /\ ~done
    /\ stream.tool_calls = <<>>
    /\ Finish(accumulated.content)
    /\ stream' = NoStream
    /\ UNCHANGED <<hasLLM, history, accumulated, call_count, requests>>

\* The HTTP task of the LLM call failed.
StreamFailed ==
    /\ stream.open
    /\ FinishError
    /\ stream' = NoStream
    /\ UNCHANGED <<hasLLM, history, accumulated, call_count, requests>>

Ended == outcome \in {"complete", "error"}

\* The run is over and nothing is left to happen.
Terminated == Ended /\ ~stream.open /\ UNCHANGED vars

Next ==
    \/ Run
    \/ AnyDelta
    \/ RunTools
    \/ Reply
    \/ StreamFailed
    \/ Terminated

\* The HTTP task of an LLM call ends, well or badly, and runs its callback.
StreamEnds == RunTools \/ Reply \/ StreamFailed

Spec == Init /\ [][Next]_vars

FairSpec == Spec /\ WF_vars(Run) /\ WF_vars(StreamEnds)

-----------------------------------------------------------------------------
(* Properties.                                                              *)

\* Every variable has its type.
TypeOK ==
    /\ hasLLM \in BOOLEAN
    /\ history \in Seq(Messages)
    /\ accumulated \in [content : Seq(Token), reasoning : Seq(Token)]
    /\ call_count \in Nat
    /\ done \in BOOLEAN
    /\ do_llm_call \in BOOLEAN
    /\ stream \in [open : BOOLEAN, content : Seq(Token),
                   reasoning : Seq(Token), tool_calls : Seq(ToolCalls),
                   deltas : Nat]
    /\ requests \in Nat
    /\ outcome \in {"idle", "running", "complete", "error"}
    /\ text \in Seq(Token)
    /\ endings \in Nat

\* The caller of Run gets one complete or error callback per run, however
\* many LLM calls and tool rounds the run took, and the flag that silences
\* later callbacks is up exactly from then on (Agent.cc:284, 309, 343, 350).
EndsOnce ==
    /\ endings = IF Ended THEN 1 ELSE 0
    /\ done <=> Ended

\* A run never sends the LLM more requests than "Maximum LLM calls per Run"
\* allows (Agent.h:122), although the limit is tested after counting.
RequestBound == requests <= MaxLLMCalls

\* Every tool call in the history is answered, under its own id and in the
\* order of the calls, directly after the message that made the calls, so
\* that the history is one the LLM accepts whenever it is sent again
\* (Agent.cc:316-338).
Answered ==
    \A i \in DOMAIN history :
        \A j \in DOMAIN history[i].tool_calls :
            /\ i + j <= Len(history)
            /\ history[i + j].role = "tool"
            /\ history[i + j].tool_call_id = history[i].tool_calls[j].id

\* The agent and LLMBase accumulate the text of a turn separately
\* (Agent.cc:301, LLMBase.cc:429): while an answer streams in, both hold the
\* same text and it is the one the caller was last shown, so nothing of an
\* earlier turn is left over and nothing of this one is missing.
TurnAgrees ==
    stream.open => /\ accumulated.content = stream.content
                   /\ text = stream.content

\* The context keeps itself alive through do_llm_call while the run goes on,
\* and the cycle is broken as soon as it has ended, on each of the three
\* ways out (Agent.cc:293, 347, 354): no early release, no leak.
SelfReference == do_llm_call <=> outcome = "running"

\* A run that goes on waits for exactly one LLM answer: no callback can be
\* lost between two LLM calls, and none comes after the end (Agent.cc:338).
OneAnswerPending == stream.open <=> outcome = "running"

\* The caller hears the end of the run (RunSync and the HTTP handler block on
\* it, Agent.cc:78, Callback.cc:509), provided the HTTP task of each LLM call
\* ends.
RunCompletes == <>Ended

\* The loop implements the contract of Agent::Run.  The message its caller was
\* last shown is the accumulated one.
Contract == INSTANCE AgentRun WITH reasoning <- accumulated.reasoning

ContractSpec == Contract!ContractInit
                    /\ [][\/ Contract!Begin
                          \/ \E more \in Texts :
                                Contract!Stream(more, stream'.reasoning)
                          \/ Contract!NewTurn
                          \/ Contract!Complete
                          \/ Contract!Fail]_<<outcome, text, accumulated.reasoning>>
=============================================================================
