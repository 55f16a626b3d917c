-------------------------- MODULE AssistantRequests --------------------------
(***************************************************************************)
(* What the LLM is sent: the steps of Assistant with the body of the last   *)
(* request, made by Agent::PrependSystemMessage from the history            *)
(* (source/Agent/Agent.cc) and by LLMBase::BuildRequestBody                 *)
(* (source/LLM/LLMBase.cc).                                                 *)
(*                                                                          *)
(* The history itself never holds the system message or the date: both are  *)
(* put in again for every LLM call of the run, the date that of the call.   *)
(***************************************************************************)
EXTENDS Assistant

CONSTANTS
    SystemMessage,  \* system_message_, one piece of text, "" for none
    Dates           \* the dates getCurrentDate may give during a run

ASSUME TextAssumption ==
    /\ SystemMessage \in STRING /\ Dates \subseteq STRING
    /\ Dates # {} /\ Dates \cap (Token \cup {SystemMessage}) = {}

VARIABLE request    \* the last body: its "messages" and "tools"

requestVars == <<vars, request>>

-----------------------------------------------------------------------------

Finds(content, piece) == \E i \in DOMAIN content : content[i] = piece

SystemSays(content) ==
    [role |-> "system", content |-> content, tool_calls |-> <<>>,
     tool_call_id |-> ""]

\* Mutant: the instruction is put in without looking for it.
InstructionAgain(messages) ==
    IF messages # <<>> /\ messages[1].role = "system"
    THEN <<SystemSays(<<SystemMessage>> \o messages[1].content)>>
    ELSE IF SystemMessage # "" THEN <<SystemSays(<<SystemMessage>>)>> ELSE <<>>

\* The system message the request begins with, if there is one.
Instruction(messages) ==
    IF messages # <<>> /\ messages[1].role = "system"
    THEN LET given == messages[1].content
         IN  <<SystemSays(IF SystemMessage = "" \/ Finds(given, SystemMessage)
                          THEN given ELSE <<SystemMessage>> \o given)>>
    ELSE IF SystemMessage # "" THEN <<SystemSays(<<SystemMessage>>)>> ELSE <<>>

\* The date goes into the first message of the user that is not there with it.
Dated(messages, date) ==
    LET users == {i \in DOMAIN messages : messages[i].role = "user"}
        first == CHOOSE i \in users : \A j \in users : i <= j
        put(content) == IF Finds(content, date) THEN content
                        ELSE <<date>> \o content
    IN  IF users # {}
        THEN [messages EXCEPT ![first].content = put(@)]
        ELSE IF messages # <<>> /\ messages[1].role = "system"
        THEN [messages EXCEPT ![1].content = <<date>> \o @]
        ELSE messages

PrependSystemMessage(messages, date) ==
    LET given == messages # <<>> /\ messages[1].role = "system"
    IN  Dated(Instruction(messages) \o (IF given THEN Tail(messages) ELSE messages),
              date)

\* A message as JSON: only an assistant's has calls, only a tool's has an id.
Sent(message) ==
    [message EXCEPT
        !.tool_calls = IF message.role = "assistant" THEN @ ELSE <<>>,
        !.tool_call_id = IF message.role = "tool" THEN @ ELSE ""]

\* Mutant: an assistant's message without text is left out.
BuildRequestBodySaid(messages) ==
    [messages |-> SelectSeq([i \in DOMAIN messages |-> Sent(messages[i])],
                            LAMBDA m : m.role # "assistant" \/ m.content # <<>>),
     tools |-> Tools]

\* The tools are offered by the names CallTool finds them under.
BuildRequestBody(messages) ==
    [messages |-> [i \in DOMAIN messages |-> Sent(messages[i])],
     tools |-> Tools]

-----------------------------------------------------------------------------

RequestInit == Init /\ request = [messages |-> <<>>, tools |-> {}]

\* CallLLM, in the step that makes the LLM call.
CallLLM ==
    IF requests' > requests
    THEN \E date \in Dates :
            request' = BuildRequestBody(PrependSystemMessage(history', date))
    ELSE UNCHANGED request

RequestNext == Next /\ CallLLM

RequestSpec == RequestInit /\ [][RequestNext]_requestVars

FairRequestSpec == RequestSpec /\ WF_vars(Run) /\ WF_vars(StreamEnds)

-----------------------------------------------------------------------------
(* Properties.                                                              *)

\* A piece of text is in some of the messages; and it is there at most once.
Mentions(messages, piece) ==
    \E i \in DOMAIN messages : Finds(messages[i].content, piece)

Once(messages, piece) ==
    \A i, k \in DOMAIN messages :
        \A j \in DOMAIN messages[i].content, l \in DOMAIN messages[k].content :
            messages[i].content[j] = piece /\ messages[k].content[l] = piece =>
                i = k /\ j = l

\* The instruction is in the first message, which is the system's, and in no
\* other (Agent.cc:177-190).
InstructedOnce(sent) ==
    SystemMessage # "" => /\ sent # <<>> /\ sent[1].role = "system"
                          /\ Finds(sent[1].content, SystemMessage)
                          /\ Once(sent, SystemMessage)

\* There is a date where there is a message for it, and no date twice
\* (Agent.cc:192-211).
DatedOnce(sent) ==
    /\ \A date \in Dates : Once(sent, date)
    /\ (\E i \in DOMAIN sent : sent[i].role \in {"user", "system"}) =>
          \E date \in Dates : Mentions(sent, date)

\* The calls of a message are answered behind it (LLMBase.cc:207-223).
CallsFollowed(sent) ==
    \A i \in DOMAIN sent : \A j \in DOMAIN sent[i].tool_calls :
        /\ i + j <= Len(sent)
        /\ sent[i + j].role = "tool"
        /\ sent[i + j].tool_call_id = sent[i].tool_calls[j].id

Prefixes == Dates \cup ({SystemMessage} \ {""})

\* What a caller may have written of the prefixes himself: each of them at most
\* once, the instruction in a message of the system, which is the first, and a
\* date in the first message of the user.
OwnPrefixes(messages) ==
    /\ \A piece \in Prefixes : Once(messages, piece)
    /\ \A i \in DOMAIN messages :
          LET says(piece) == Finds(messages[i].content, piece)
          IN  /\ messages[i].role = "system" => i = 1
              /\ SystemMessage \in Prefixes /\ says(SystemMessage) =>
                    messages[i].role = "system"
              /\ (\E date \in Dates : says(date)) =>
                    /\ messages[i].role = "user"
                    /\ \A j \in 1 .. i - 1 : messages[j].role # "user"

\* Callers keep to that, and neither the LLM nor a tool says one of them.
PrefixesApart ==
    /\ Prefixes \cap (Token \cup {"result", "failure", "not found"}) = {}
    /\ \A prompt \in Prompts : OwnPrefixes(prompt)

\* However often the prefixes are put in, and whatever of them the caller has
\* written himself, a request has the instruction once, in its first message,
\* and a date, no date twice (Agent.cc:172-213); and its tool calls are
\* followed by their answers (LLMBase.cc:207-223).
RequestSound ==
    requests > 0 => /\ InstructedOnce(request.messages)
                    /\ DatedOnce(request.messages)
                    /\ CallsFollowed(request.messages)

\* The texts are the same behind the date that may be in front of each.
SameButDate(first, second) ==
    \E m, n \in 0 .. 1 :
        /\ m <= Len(first) /\ \A i \in 1 .. m : first[i] \in Dates
        /\ n <= Len(second) /\ \A i \in 1 .. n : second[i] \in Dates
        /\ Len(first) - m = Len(second) - n
        /\ \A i \in 1 .. Len(first) - m : first[m + i] = second[n + i]

\* One request repeats another from its beginning.
Repeats(after, before) ==
    /\ Len(before) < Len(after)
    /\ \A i \in DOMAIN before :
          /\ SameButDate(before[i].content, after[i].content)
          /\ after[i].role = before[i].role
          /\ after[i].tool_calls = before[i].tool_calls
          /\ after[i].tool_call_id = before[i].tool_call_id

\* The requests of a run tell one story: each repeats the one before, message
\* for message and but for the date, and adds the LLM's answer to it and the
\* results of the tools (Agent.cc:316-338).
RequestsExtend ==
    [][requests' > requests /\ requests > 0 =>
          LET before == request.messages
              after == request'.messages
              said == after[Len(before) + 1]
          IN  /\ Repeats(after, before)
              /\ said.role = "assistant" /\ said.content = stream.content
              /\ said.tool_calls = stream.tool_calls
              /\ \A i \in Len(before) + 2 .. Len(after) : after[i].role = "tool"
      ]_requestVars
=============================================================================
