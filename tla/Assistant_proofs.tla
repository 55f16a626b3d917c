-------------------------- MODULE Assistant_proofs --------------------------
(***************************************************************************)
(* What holds of a run, and of what it sends the LLM, for every limit, tool *)
(* set, prompt, instruction, date and answer.                               *)
(***************************************************************************)
EXTENDS AssistantRequests, SequenceFacts, SequenceTheorems, TLAPS

(***************************************************************************)
(* The inductive invariant: the properties, plus what relates call_count to *)
(* the requests and what an idle run looks like.                            *)
(***************************************************************************)
CountInv ==
    /\ requests <= call_count
    /\ requests <= MaxLLMCalls

IdleInv ==
    outcome = "idle" => /\ text = <<>>
                        /\ accumulated = [content |-> <<>>, reasoning |-> <<>>]

IInv ==
    /\ TypeOK
    /\ EndsOnce
    /\ CountInv
    /\ IdleInv
    /\ SelfReference
    /\ OneAnswerPending
    /\ TurnAgrees

StreamType == [open : BOOLEAN, content : Seq(Token), reasoning : Seq(Token),
               tool_calls : Seq(ToolCalls), deltas : Nat]

-----------------------------------------------------------------------------
(* Lemmas about the operators.                                              *)

\* The two fixed values of stream have its type (LLMBase.cc:327-342).
LEMMA FixedStreams ==
    /\ NoStream \in StreamType /\ ~NoStream.open
    /\ NewStream \in StreamType /\ NewStream.open
    /\ NoStream.content = <<>> /\ NewStream.content = <<>>
<1>1. /\ <<>> \in Seq(Token)
      /\ <<>> \in Seq(ToolCalls)
  BY EmptySeq
<1>2. NoStream \in StreamType
  BY <1>1 DEF NoStream, StreamType
<1>3. NewStream \in StreamType /\ NewStream.open
  BY <1>2 DEF NewStream, StreamType
<1>4. NewStream.content = <<>>
  BY DEF NewStream, NoStream
<1> QED
  BY <1>2, <1>3, <1>4 DEF NoStream

\* The call list widened to n entries is a list of calls (LLMBase.cc:448-450).
LEMMA ResizedType ==
    ASSUME NEW calls \in Seq(ToolCalls), NEW n \in Nat
    PROVE  /\ Resized(calls, n) \in Seq(ToolCalls)
           /\ Len(Resized(calls, n)) >= n
           /\ Len(Resized(calls, n)) >= Len(calls)
<1> DEFINE m == IF n > Len(calls) THEN n ELSE Len(calls)
<1>1. m \in Nat /\ m >= n /\ m >= Len(calls)
  OBVIOUS
<1>2. EmptyCall \in ToolCalls
  BY DEF EmptyCall, ToolCalls
<1>3. \A i \in 1 .. m :
        (IF i <= Len(calls) THEN calls[i] ELSE EmptyCall) \in ToolCalls
  BY <1>1, <1>2
<1>4. Resized(calls, n)
        = [i \in 1 .. m |-> IF i <= Len(calls) THEN calls[i] ELSE EmptyCall]
  BY DEF Resized
<1> HIDE DEF m
<1> QED
  BY <1>1, <1>3, <1>4

\* Merging a delta keeps the call list well typed (LLMBase.cc:445-451).
LEMMA MergedType ==
    ASSUME NEW calls \in Seq(ToolCalls), NEW d \in ToolDeltas
    PROVE  Merged(calls, d) \in Seq(ToolCalls)
<1> DEFINE wide == Resized(calls, d.index + 1)
<1>0. d.index \in 0 .. MaxIndex
  BY DEF ToolDeltas
<1>1. d.index \in Nat /\ d.index + 1 \in Nat /\ d.index + 1 >= 1
  BY <1>0, LimitAssumption DEF LimitAssumption
<1>2. wide \in Seq(ToolCalls) /\ Len(wide) >= d.index + 1
  BY <1>1, ResizedType
<1> HIDE DEF wide
<1>3. d.index + 1 \in DOMAIN wide /\ wide[d.index + 1] \in ToolCalls
  BY <1>1, <1>2
<1>4. Merge(wide[d.index + 1], d) \in ToolCalls
  BY <1>3 DEF Merge, ToolDeltas, ToolCalls
<1>5. [wide EXCEPT ![d.index + 1] = Merge(wide[d.index + 1], d)]
        \in Seq(ToolCalls)
  BY <1>2, <1>3, <1>4
<1> QED
  BY <1>5 DEF Merged, wide

\* The results of a tool round are one known text per call (Agent.cc:137-144).
LEMMA ResultsType ==
    ASSUME NEW results \in Results, NEW i \in DOMAIN stream.tool_calls
    PROVE  results[i] \in Contents
<1>1. results[i] \in ToolTexts
  BY DEF Results
<1> DEFINE S == Token \cup PromptText \cup {"result", "failure", "not found"}
<1>2. "result" \in S /\ "failure" \in S /\ "not found" \in S
  OBVIOUS
<1>3. ToolTexts \subseteq Seq(S)
  <2> HIDE DEF S
  <2>1. \A w \in S : <<w>> \in Seq(S)
    OBVIOUS
  <2> QED
    BY <1>2, <2>1 DEF ToolTexts
<1> QED
  BY <1>1, <1>3 DEF Contents, S

\* The answer to a call is a message (Agent.cc:321-323).
LEMMA AnswerType ==
    ASSUME NEW call \in ToolCalls, NEW result \in Contents
    PROVE  Answer(call, result) \in Messages
<1>1. call.id \in Ids \cup {""}
  BY DEF ToolCalls
<1>2. <<>> \in Seq(ToolCalls)
  BY EmptySeq
<1> QED
  BY <1>1, <1>2 DEF Answer, Messages

\* The messages a tool round appends: the LLM's message and one answer per
\* call, in the order of the calls (Agent.cc:317-325).
LEMMA TurnShape ==
    ASSUME TypeOK, NEW results \in Results
    PROVE  /\ Turn(results) \in Seq(Messages)
           /\ Len(Turn(results)) = Len(stream.tool_calls) + 1
           /\ Turn(results)[1].tool_calls = stream.tool_calls
           /\ \A i \in 2 .. Len(stream.tool_calls) + 1 :
                 /\ Turn(results)[i].role = "tool"
                 /\ Turn(results)[i].tool_calls = <<>>
                 /\ Turn(results)[i].tool_call_id
                       = stream.tool_calls[i - 1].id
<1> DEFINE calls == stream.tool_calls
           n == Len(calls) + 1
           first == [role |-> "assistant", content |-> stream.content,
                     tool_calls |-> calls, tool_call_id |-> ""]
           next(i) == Answer(calls[i - 1], results[i - 1])
<1>1. calls \in Seq(ToolCalls) /\ stream.content \in Seq(Token) /\ n \in Nat
  BY DEF TypeOK
<1>2. stream.content \in Contents
  BY <1>1, SeqMonotonic DEF Contents
<1>3. first \in Messages
  BY <1>1, <1>2 DEF Messages
<1>4. ASSUME NEW i \in 2 .. n
      PROVE  /\ next(i) \in Messages
             /\ next(i).role = "tool"
             /\ next(i).tool_calls = <<>>
             /\ next(i).tool_call_id = calls[i - 1].id
  <2>1. i - 1 \in DOMAIN calls
    BY <1>1
  <2>2. calls[i - 1] \in ToolCalls /\ results[i - 1] \in Contents
    BY <1>1, <2>1, ResultsType
  <2>3. next(i) \in Messages
    BY <2>2, AnswerType
  <2> QED
    BY <2>3 DEF Answer
<1>5. Turn(results) = [i \in 1 .. n |-> IF i = 1 THEN first ELSE next(i)]
  BY DEF Turn
<1> HIDE DEF first, next
<1>6. \A i \in 1 .. n : (IF i = 1 THEN first ELSE next(i)) \in Messages
  BY <1>1, <1>3, <1>4
<1>7. Turn(results) \in Seq(Messages) /\ Len(Turn(results)) = n
  BY <1>1, <1>5, <1>6
<1>8. Turn(results)[1] = first
  BY <1>1, <1>5
<1>9. \A i \in 2 .. n : Turn(results)[i] = next(i)
  BY <1>1, <1>5
<1>10. first.tool_calls = calls
  BY DEF first
<1>11. \A i \in 2 .. n : /\ Turn(results)[i].role = "tool"
                         /\ Turn(results)[i].tool_calls = <<>>
                         /\ Turn(results)[i].tool_call_id = calls[i - 1].id
  BY <1>4, <1>9
<1> QED
  BY <1>7, <1>8, <1>10, <1>11

-----------------------------------------------------------------------------
(* The inductive invariant, action by action.                               *)

\* A run that has not been started satisfies the invariant.
LEMMA InitIInv == Init => IInv
<1> SUFFICES ASSUME Init PROVE IInv
  OBVIOUS
<1>1. history \in Seq(Messages)
  BY PromptAssumption DEF Init, PromptAssumption
<1>2. <<>> \in Seq(Token)
  BY EmptySeq
<1>3. TypeOK
  BY <1>1, <1>2, FixedStreams DEF Init, TypeOK, StreamType
<1>4. EndsOnce /\ IdleInv /\ SelfReference /\ OneAnswerPending /\ TurnAgrees
  BY FixedStreams DEF Init, EndsOnce, IdleInv, SelfReference,
                      OneAnswerPending, TurnAgrees, Ended
<1>5. CountInv
  BY LimitAssumption DEF Init, CountInv, LimitAssumption
<1> QED
  BY <1>3, <1>4, <1>5 DEF IInv

\* do_llm_call keeps the invariant when it starts a turn with an empty text,
\* whichever of its three ways it takes (Agent.cc:283-297).
LEMMA DoLLMCallIInv ==
    ASSUME IInv, ~Ended, DoLLMCall(<<>>),
           hasLLM' = hasLLM,
           history' \in Seq(Messages),
           accumulated' \in [content : Seq(Token), reasoning : Seq(Token)],
           accumulated'.content = <<>>
    PROVE  IInv'
<1> USE DEF IInv
<1>1. <<>> \in Seq(Token)
  BY EmptySeq
<1>2. /\ hasLLM' \in BOOLEAN
      /\ call_count \in Nat /\ requests \in Nat
      /\ endings = 0 /\ done = FALSE
      /\ call_count' = call_count + 1
      /\ text \in Seq(Token)
  BY DEF TypeOK, EndsOnce, DoLLMCall
<1>3. CASE call_count' > MaxLLMCalls
  <2>1. /\ done' = TRUE /\ do_llm_call' = FALSE /\ outcome' = "complete"
        /\ text' = <<>> /\ endings' = endings + 1
        /\ stream' = NoStream /\ requests' = requests
    BY <1>3 DEF DoLLMCall, Finish
  <2>2. TypeOK'
    <3>1. endings' \in Nat /\ requests' \in Nat /\ call_count' \in Nat
      BY <1>2, <2>1
    <3>2. stream' \in StreamType /\ text' \in Seq(Token)
      BY <1>1, <1>2, <2>1, FixedStreams
    <3>3. /\ done' \in BOOLEAN /\ do_llm_call' \in BOOLEAN
          /\ outcome' \in {"idle", "running", "complete", "error"}
      BY <1>2, <2>1
    <3> QED
      BY <1>2, <3>1, <3>2, <3>3 DEF TypeOK, StreamType
  <2>3. (EndsOnce /\ IdleInv /\ SelfReference /\ OneAnswerPending
           /\ TurnAgrees)'
    BY <1>2, <2>1, FixedStreams DEF EndsOnce, IdleInv, SelfReference,
                                    OneAnswerPending, TurnAgrees, Ended
  <2>4. CountInv'
    BY <1>2, <2>1 DEF CountInv
  <2> QED
    BY <2>2, <2>3, <2>4
<1>4. CASE ~(call_count' > MaxLLMCalls) /\ hasLLM
  <2>1. /\ done' = done /\ do_llm_call' = TRUE /\ outcome' = "running"
        /\ text' = <<>> /\ endings' = endings
        /\ stream' = NewStream /\ requests' = requests + 1
    BY <1>4 DEF DoLLMCall, SendRequest
  <2>2. TypeOK'
    <3>1. endings' \in Nat /\ requests' \in Nat /\ call_count' \in Nat
      BY <1>2, <2>1
    <3>2. stream' \in StreamType /\ text' \in Seq(Token)
      BY <1>1, <1>2, <2>1, FixedStreams
    <3>3. /\ done' \in BOOLEAN /\ do_llm_call' \in BOOLEAN
          /\ outcome' \in {"idle", "running", "complete", "error"}
      BY <1>2, <2>1
    <3> QED
      BY <1>2, <3>1, <3>2, <3>3 DEF TypeOK, StreamType
  <2>3. (EndsOnce /\ IdleInv /\ SelfReference /\ OneAnswerPending
           /\ TurnAgrees)'
    BY <1>2, <2>1, FixedStreams DEF EndsOnce, IdleInv, SelfReference,
                                    OneAnswerPending, TurnAgrees, Ended
  <2>4. CountInv'
    BY <1>2, <1>4, <2>1, LimitAssumption DEF CountInv, LimitAssumption
  <2> QED
    BY <2>2, <2>3, <2>4
<1>5. CASE ~(call_count' > MaxLLMCalls) /\ ~hasLLM
  <2>1. /\ done' = TRUE /\ do_llm_call' = FALSE /\ outcome' = "error"
        /\ text' = text /\ endings' = endings + 1
        /\ stream' = NoStream /\ requests' = requests
    BY <1>5 DEF DoLLMCall, FinishError
  <2>2. TypeOK'
    <3>1. endings' \in Nat /\ requests' \in Nat /\ call_count' \in Nat
      BY <1>2, <2>1
    <3>2. stream' \in StreamType /\ text' \in Seq(Token)
      BY <1>2, <2>1, FixedStreams
    <3>3. /\ done' \in BOOLEAN /\ do_llm_call' \in BOOLEAN
          /\ outcome' \in {"idle", "running", "complete", "error"}
      BY <1>2, <2>1
    <3> QED
      BY <1>2, <3>1, <3>2, <3>3 DEF TypeOK, StreamType
  <2>3. (EndsOnce /\ IdleInv /\ SelfReference /\ OneAnswerPending
           /\ TurnAgrees)'
    BY <1>2, <2>1, FixedStreams DEF EndsOnce, IdleInv, SelfReference,
                                    OneAnswerPending, TurnAgrees, Ended
  <2>4. CountInv'
    BY <1>2, <2>1 DEF CountInv
  <2> QED
    BY <2>2, <2>3, <2>4
<1> QED
  BY <1>3, <1>4, <1>5

\* Agent::Run keeps the invariant (Agent.cc:280-285, 358).
LEMMA RunIInv == IInv /\ Run => IInv'
<1> SUFFICES ASSUME IInv, Run PROVE IInv'
  OBVIOUS
<1>1. ~Ended /\ DoLLMCall(<<>>) /\ hasLLM' = hasLLM
  BY DEF Run, Ended
<1>2. history' \in Seq(Messages)
      /\ accumulated' \in [content : Seq(Token), reasoning : Seq(Token)]
      /\ accumulated'.content = <<>>
  BY DEF Run, IInv, TypeOK, IdleInv
<1> QED
  BY <1>1, <1>2, DoLLMCallIInv

\* A streamed event keeps the invariant (Agent.cc:299-307, LLMBase.cc:419-459).
LEMMA DeltaIInv == IInv /\ AnyDelta => IInv'
<1> SUFFICES ASSUME IInv,
                    NEW content \in Texts, NEW reasoning \in Texts,
                    NEW calls \in {<<>>} \cup {<<d>> : d \in ToolDeltas},
                    Delta(content, reasoning, calls)
             PROVE  IInv'
  BY DEF AnyDelta
<1>1. content \in Seq(Token) /\ reasoning \in Seq(Token)
  <2>1. <<>> \in Seq(Token) /\ \A t \in Token : <<t>> \in Seq(Token)
    BY EmptySeq
  <2> QED
    BY <2>1 DEF Texts
<1>2. /\ stream \in StreamType /\ stream.open
      /\ accumulated \in [content : Seq(Token), reasoning : Seq(Token)]
      /\ text \in Seq(Token)
      /\ accumulated.content = stream.content /\ text = stream.content
  BY DEF IInv, TypeOK, StreamType, TurnAgrees, Delta
<1> DEFINE made == IF calls = <<>> THEN stream.tool_calls
                                   ELSE Merged(stream.tool_calls, calls[1])
<1>3. made \in Seq(ToolCalls)
  <2>1. stream.tool_calls \in Seq(ToolCalls)
    BY <1>2 DEF StreamType
  <2>2. calls # <<>> => calls[1] \in ToolDeltas
    OBVIOUS
  <2> QED
    BY <2>1, <2>2, MergedType
<1>4. /\ stream' \in StreamType
      /\ stream'.open
      /\ stream'.content = stream.content \o content
      /\ stream'.reasoning = stream.reasoning \o reasoning
  <2>1. stream' = [stream EXCEPT !.content = stream.content \o content,
                                 !.reasoning = stream.reasoning \o reasoning,
                                 !.tool_calls = made,
                                 !.deltas = stream.deltas + 1]
    BY DEF Delta
  <2>2. stream.content \o content \in Seq(Token)
        /\ stream.reasoning \o reasoning \in Seq(Token)
        /\ stream.deltas + 1 \in Nat
    BY <1>1, <1>2 DEF StreamType
  <2> HIDE DEF made
  <2> QED
    BY <1>2, <1>3, <2>1, <2>2 DEF StreamType
<1>5. /\ accumulated' \in [content : Seq(Token), reasoning : Seq(Token)]
      /\ text' \in Seq(Token)
      /\ accumulated'.content = stream'.content /\ text' = stream'.content
  <2>1. CASE content # <<>> \/ calls # <<>>
    <3>1. accumulated' = [content |-> accumulated.content \o content,
                          reasoning |-> accumulated.reasoning
                                            \o stream'.reasoning]
          /\ text' = accumulated'.content
      BY <2>1 DEF Delta
    <3>2. stream'.reasoning \in Seq(Token) /\ stream'.content \in Seq(Token)
      BY <1>4 DEF StreamType
    <3>3. accumulated.reasoning \o stream'.reasoning \in Seq(Token)
      BY <1>2, <3>2
    <3> QED
      BY <1>2, <1>4, <3>1, <3>2, <3>3
  <2>2. CASE content = <<>> /\ calls = <<>>
    <3>1. accumulated' = accumulated /\ text' = text
      BY <2>2 DEF Delta
    <3>2. stream.content \in Seq(Token)
      BY <1>2 DEF StreamType
    <3>3. stream'.content = stream.content
      BY <1>4, <2>2, <3>2, ConcatEmptySeq
    <3> QED
      BY <1>2, <3>1, <3>3
  <2> QED
    BY <2>1, <2>2
<1>6. UNCHANGED <<hasLLM, history, call_count, done, do_llm_call, requests,
                  outcome, endings>>
  BY DEF Delta
<1>7. TypeOK'
  BY <1>4, <1>5, <1>6 DEF IInv, TypeOK, StreamType
<1>8. outcome = "running"
  BY <1>2 DEF IInv, OneAnswerPending
<1>9. (EndsOnce /\ CountInv /\ IdleInv /\ SelfReference
         /\ OneAnswerPending /\ TurnAgrees)'
  BY <1>4, <1>5, <1>6, <1>8
     DEF IInv, EndsOnce, CountInv, IdleInv, SelfReference, OneAnswerPending,
         TurnAgrees, Ended
<1> QED
  BY <1>7, <1>9 DEF IInv

\* A tool round keeps the invariant (Agent.cc:316-340).
LEMMA RunToolsIInv == IInv /\ RunTools => IInv'
<1> SUFFICES ASSUME IInv, RunTools PROVE IInv'
  OBVIOUS
<1>1. PICK results \in Results : history' = history \o Turn(results)
  BY DEF RunTools
<1>2. history' \in Seq(Messages)
  BY <1>1, TurnShape DEF IInv, TypeOK
<1>3. accumulated' \in [content : Seq(Token), reasoning : Seq(Token)]
      /\ accumulated'.content = <<>>
  BY EmptySeq DEF RunTools
<1>4. ~Ended /\ DoLLMCall(<<>>) /\ hasLLM' = hasLLM
  BY DEF IInv, EndsOnce, RunTools
<1> QED
  BY <1>2, <1>3, <1>4, DoLLMCallIInv

\* The two other ends of an LLM call keep the invariant (Agent.cc:343-355).
LEMMA EndIInv == IInv /\ (Reply \/ StreamFailed) => IInv'
<1> SUFFICES ASSUME IInv, Reply \/ StreamFailed PROVE IInv'
  OBVIOUS
<1>1. outcome = "running" /\ endings = 0
  BY DEF IInv, OneAnswerPending, EndsOnce, Ended, Reply, StreamFailed
<1>2. /\ done' = TRUE /\ do_llm_call' = FALSE
      /\ outcome' \in {"complete", "error"}
      /\ endings' = 1
      /\ text' \in {text, accumulated.content}
      /\ stream' = NoStream
      /\ UNCHANGED <<hasLLM, history, accumulated, call_count, requests>>
  BY <1>1 DEF Reply, StreamFailed, Finish, FinishError
<1>3. TypeOK'
  BY <1>2, FixedStreams DEF IInv, TypeOK, StreamType
<1>4. (EndsOnce /\ CountInv /\ IdleInv /\ SelfReference
         /\ OneAnswerPending /\ TurnAgrees)'
  BY <1>2, FixedStreams
     DEF IInv, EndsOnce, CountInv, IdleInv, SelfReference, OneAnswerPending,
         TurnAgrees, Ended
<1> QED
  BY <1>3, <1>4 DEF IInv

\* Every step keeps the invariant.
LEMMA NextIInv == IInv /\ [Next]_vars => IInv'
<1> SUFFICES ASSUME IInv, [Next]_vars PROVE IInv'
  OBVIOUS
<1>1. CASE Run
  BY <1>1, RunIInv
<1>2. CASE AnyDelta
  BY <1>2, DeltaIInv
<1>3. CASE RunTools
  BY <1>3, RunToolsIInv
<1>4. CASE Reply \/ StreamFailed
  BY <1>4, EndIInv
<1>5. CASE UNCHANGED vars
  BY <1>5 DEF IInv, TypeOK, EndsOnce, CountInv, IdleInv, SelfReference,
              OneAnswerPending, TurnAgrees, Ended, vars, runContext, caller
<1> QED
  BY <1>1, <1>2, <1>3, <1>4, <1>5 DEF Next, Terminated

-----------------------------------------------------------------------------
(* The theorems.                                                            *)

\* The strengthened invariant holds of every run of the agent.
THEOREM Invariance == Spec => []IInv
  BY InitIInv, NextIInv, PTL DEF Spec

\* Every variable of the run always has its type.
THEOREM TypeCorrect == Spec => []TypeOK
<1>1. IInv => TypeOK
  BY DEF IInv
<1> QED
  BY <1>1, Invariance, PTL

\* The caller of Agent::Run gets at most one complete or error callback, and
\* done is up exactly from then on.
THEOREM EndsOnceAlways == Spec => []EndsOnce
<1>1. IInv => EndsOnce
  BY DEF IInv
<1> QED
  BY <1>1, Invariance, PTL

\* A run sends the LLM at most max_llm_calls_per_run requests.
THEOREM RequestsBounded == Spec => []RequestBound
<1>1. IInv => RequestBound
  BY DEF IInv, CountInv, RequestBound
<1> QED
  BY <1>1, Invariance, PTL

\* The agent, LLMBase and the caller agree on the text of the current turn.
THEOREM TurnsAgree == Spec => []TurnAgrees
<1>1. IInv => TurnAgrees
  BY DEF IInv
<1> QED
  BY <1>1, Invariance, PTL

\* A run goes on exactly while one LLM answer is pending, and the context
\* refers to itself exactly as long.
THEOREM RunsStayAlive == Spec => [](OneAnswerPending /\ SelfReference)
<1>1. IInv => OneAnswerPending /\ SelfReference
  BY DEF IInv
<1> QED
  BY <1>1, Invariance, PTL

-----------------------------------------------------------------------------
(* The shape of the history.                                                *)

\* Appending a tool round to a history whose calls are all answered leaves
\* every call answered (Agent.cc:317-325).
LEMMA TurnAnswers ==
    ASSUME TypeOK, Answered, NEW results \in Results,
           history' = history \o Turn(results)
    PROVE  Answered'
<1> DEFINE h == Len(history)
           n == Len(stream.tool_calls)
           turn == Turn(results)
<1>1. /\ history \in Seq(Messages) /\ h \in Nat /\ n \in Nat
      /\ stream.tool_calls \in Seq(ToolCalls)
  BY DEF TypeOK
<1>2. /\ turn \in Seq(Messages) /\ Len(turn) = n + 1
      /\ turn[1].tool_calls = stream.tool_calls
      /\ \A i \in 2 .. n + 1 :
            /\ turn[i].role = "tool"
            /\ turn[i].tool_calls = <<>>
            /\ turn[i].tool_call_id = stream.tool_calls[i - 1].id
  BY TurnShape
<1> HIDE DEF turn
<1>3. /\ Len(history') = h + n + 1
      /\ DOMAIN history' = 1 .. h + n + 1
      /\ \A i \in 1 .. h : history'[i] = history[i]
      /\ \A i \in 1 .. n + 1 : history'[h + i] = turn[i]
  <2>1. history' = history \o turn
    BY DEF turn
  <2>2. /\ Len(history \o turn) = h + Len(turn)
        /\ DOMAIN (history \o turn) = 1 .. h + Len(turn)
        /\ \A i \in 1 .. h : (history \o turn)[i] = history[i]
        /\ \A i \in 1 .. Len(turn) : (history \o turn)[h + i] = turn[i]
    <3>1. history \in Seq(Messages) /\ turn \in Seq(Messages)
      BY <1>1, <1>2
    <3> QED
      BY <3>1
  <2>3. h + Len(turn) = h + n + 1
    BY <1>1, <1>2
  <2> HIDE DEF h, n
  <2> QED
    BY <1>2, <2>1, <2>2, <2>3
<1>4. SUFFICES ASSUME NEW i \in 1 .. h + n + 1,
                      NEW j \in DOMAIN history'[i].tool_calls
               PROVE  /\ i + j <= h + n + 1
                      /\ history'[i + j].role = "tool"
                      /\ history'[i + j].tool_call_id
                            = history'[i].tool_calls[j].id
  BY <1>3, ZenonT(60) DEF Answered
<1>5. CASE i \in 1 .. h
  <2>1. history'[i] = history[i] /\ history[i] \in Messages
    BY <1>1, <1>3, <1>5
  <2>2. history[i].tool_calls \in Seq(ToolCalls)
    BY <2>1 DEF Messages
  <2>3. j \in 1 .. Len(history[i].tool_calls)
    BY <2>1, <2>2
  <2>4. /\ i + j <= h
        /\ history[i + j].role = "tool"
        /\ history[i + j].tool_call_id = history[i].tool_calls[j].id
    BY <1>1, <1>5, <2>1 DEF Answered
  <2>5. i + j \in 1 .. h /\ i + j <= h + n + 1
    BY <1>1, <1>5, <2>2, <2>3, <2>4
  <2>6. history'[i + j] = history[i + j]
    BY <1>3, <2>5
  <2> QED
    BY <2>1, <2>4, <2>5, <2>6
<1>6. CASE i = h + 1
  <2>1. history'[i].tool_calls = stream.tool_calls
    BY <1>1, <1>2, <1>3, <1>6
  <2>2. j \in 1 .. n
    BY <1>1, <2>1
  <2>3. j + 1 \in 2 .. n + 1 /\ j + 1 \in 1 .. n + 1 /\ (j + 1) - 1 = j
        /\ i + j = h + (j + 1) /\ i + j <= h + n + 1
    <3> HIDE DEF h, n
    <3>1. i = h + 1 /\ j \in 1 .. n /\ h \in Nat /\ n \in Nat
      BY <1>1, <1>6, <2>2
    <3> QED
      BY <3>1
  <2>4. history'[i + j] = turn[j + 1]
    BY <1>3, <2>3
  <2>5. turn[j + 1].role = "tool"
        /\ turn[j + 1].tool_call_id = stream.tool_calls[(j + 1) - 1].id
    BY <1>2, <2>3
  <2> QED
    BY <2>1, <2>3, <2>4, <2>5
<1>7. CASE i > h + 1
  <2>1. i - h \in 2 .. n + 1 /\ i - h \in 1 .. n + 1 /\ h + (i - h) = i
    BY <1>1, <1>7
  <2>2. history'[i].tool_calls = <<>>
    BY <1>2, <1>3, <2>1, SMTT(30)
  <2> QED
    BY <2>2
<1>8. i \in 1 .. h \/ i = h + 1 \/ i > h + 1
  <2> HIDE DEF h, n
  <2> QED
    BY <1>1
<1> QED
  BY <1>5, <1>6, <1>7, <1>8

\* Every tool call in the history of a run is answered under its id, in order
\* and directly behind the message that made the calls.
THEOREM CallsAnswered == Spec => []Answered
<1>1. Init => Answered
  <2> SUFFICES ASSUME Init PROVE Answered
    OBVIOUS
  <2>1. \A i \in DOMAIN history : history[i].tool_calls = <<>>
    BY PromptAssumption DEF Init, PromptAssumption
  <2> QED
    BY <2>1 DEF Answered
<1>2. IInv /\ Answered /\ [Next]_vars => Answered'
  <2> SUFFICES ASSUME IInv, Answered, [Next]_vars PROVE Answered'
    OBVIOUS
  <2>1. CASE RunTools
    <3>1. PICK results \in Results : history' = history \o Turn(results)
      BY <2>1 DEF RunTools
    <3> QED
      BY <3>1, TurnAnswers DEF IInv
  <2>2. CASE history' = history
    BY <2>2 DEF Answered
  <2>3. RunTools \/ history' = history
    BY DEF Next, Run, AnyDelta, Delta, Reply, StreamFailed, Terminated, vars,
           runContext
  <2> QED
    BY <2>1, <2>2, <2>3
<1> QED
  BY <1>1, <1>2, Invariance, PTL DEF Spec

-----------------------------------------------------------------------------
(* The contract of Agent::Run.                                              *)

shown == <<outcome, text, accumulated.reasoning>>

ContractStep ==
    \/ Contract!Begin
    \/ \E more \in Texts : Contract!Stream(more, stream'.reasoning)
    \/ Contract!NewTurn
    \/ Contract!Complete
    \/ Contract!Fail

\* An agent without an LLM never has an answer pending.
HasLLM == stream.open => hasLLM

LEMMA LLMThere == Spec => []HasLLM
<1>1. Init => HasLLM
  BY DEF Init, HasLLM, NoStream
<1>2. HasLLM /\ [Next]_vars => HasLLM'
  <2> SUFFICES ASSUME HasLLM, [Next]_vars, stream'.open PROVE hasLLM'
    BY DEF HasLLM
  <2>1. hasLLM' = hasLLM
    BY DEF Next, Run, AnyDelta, Delta, RunTools, Reply, StreamFailed, Terminated, vars
  <2>2. CASE Run \/ RunTools
    <3>1. DoLLMCall(<<>>)
      BY <2>2 DEF Run, RunTools
    <3>2. stream' = NoStream \/ hasLLM
      BY <3>1 DEF DoLLMCall
    <3> QED
      BY <2>1, <3>2 DEF NoStream
  <2>3. CASE AnyDelta
    <3>1. stream.open
      BY <2>3 DEF AnyDelta, Delta
    <3> QED
      BY <2>1, <3>1 DEF HasLLM
  <2>4. CASE Reply \/ StreamFailed
    BY <2>4 DEF Reply, StreamFailed, NoStream
  <2>5. CASE UNCHANGED vars
    BY <2>5 DEF vars, HasLLM
  <2> QED
    BY <2>2, <2>3, <2>4, <2>5 DEF Next, Terminated
<1> QED
  BY <1>1, <1>2, PTL DEF Spec

\* A way out of do_llm_call with the message started over is a callback of the
\* contract (Agent.cc:283-297).
LEMMA DoLLMCallStep ==
    ASSUME outcome \in {"idle", "running"},
           outcome = "idle" => text = <<>> /\ accumulated.reasoning = <<>>,
           outcome = "running" => hasLLM,
           accumulated' = [content |-> <<>>, reasoning |-> <<>>],
           DoLLMCall(<<>>)
    PROVE  ContractStep
<1> USE DEF Contract!Complete, Contract!Begin, Contract!NewTurn, Contract!Fail
<1>1. \/ outcome' = "complete" /\ text' = <<>>
      \/ outcome' = "running" /\ text' = <<>>
      \/ outcome' = "error" /\ text' = text /\ outcome = "idle"
  BY DEF DoLLMCall, SendRequest, Finish, FinishError
<1>2. accumulated'.reasoning = <<>>
  OBVIOUS
<1>3. CASE outcome' = "complete" /\ text' = <<>>
  BY <1>2, <1>3 DEF ContractStep
<1>4. CASE outcome' = "running" /\ text' = <<>>
  BY <1>2, <1>4 DEF ContractStep
<1>5. CASE outcome' = "error" /\ text' = text /\ outcome = "idle"
  BY <1>2, <1>5 DEF ContractStep
<1> QED
  BY <1>1, <1>3, <1>4, <1>5

\* Each step of a run is a callback of the contract or none (Agent.cc:256-359).
LEMMA StepContract ==
    IInv /\ HasLLM /\ [Next]_vars => [ContractStep]_shown
<1> SUFFICES ASSUME IInv, HasLLM, [Next]_vars
             PROVE  ContractStep \/ UNCHANGED shown
  OBVIOUS
<1>1. CASE Run
  <2>1. /\ outcome = "idle" /\ DoLLMCall(<<>>) /\ text = <<>>
        /\ accumulated = [content |-> <<>>, reasoning |-> <<>>]
        /\ accumulated' = accumulated
    BY <1>1 DEF Run, IInv, IdleInv
  <2> QED
    BY <2>1, DoLLMCallStep
<1>2. CASE AnyDelta
  <2>1. PICK content \in Texts, reasoning \in Texts,
             calls \in {<<>>} \cup {<<d>> : d \in ToolDeltas} :
           Delta(content, reasoning, calls)
    BY <1>2 DEF AnyDelta
  <2>2. outcome = "running" /\ outcome' = outcome
        /\ text = accumulated.content
    BY <2>1 DEF Delta, IInv, OneAnswerPending, TurnAgrees
  <2>3. CASE content # <<>> \/ calls # <<>>
    <3>1. /\ text' = accumulated.content \o content
          /\ accumulated'.reasoning = accumulated.reasoning \o stream'.reasoning
      <4>1. accumulated' = [content |-> accumulated.content \o content,
                            reasoning |-> accumulated.reasoning
                                              \o stream'.reasoning]
            /\ text' = accumulated'.content
        BY <2>1, <2>3 DEF Delta
      <4> QED
        BY <4>1
    <3> QED
      BY <2>2, <3>1 DEF ContractStep, Contract!Stream
  <2>4. CASE ~(content # <<>> \/ calls # <<>>)
    BY <2>1, <2>2, <2>4 DEF Delta, shown
  <2> QED
    BY <2>3, <2>4
<1>3. CASE RunTools
  <2>1. /\ outcome = "running" /\ DoLLMCall(<<>>) /\ hasLLM
        /\ accumulated' = [content |-> <<>>, reasoning |-> <<>>]
    BY <1>3 DEF RunTools, IInv, OneAnswerPending, HasLLM
  <2> QED
    BY <2>1, DoLLMCallStep
<1>4. CASE Reply
  <2>1. outcome = "running" /\ text = accumulated.content
    BY <1>4 DEF Reply, IInv, OneAnswerPending, TurnAgrees
  <2>2. /\ outcome' = "complete" /\ text' = accumulated.content
        /\ accumulated' = accumulated
    BY <1>4 DEF Reply, Finish
  <2> QED
    BY <2>1, <2>2 DEF ContractStep, Contract!Complete
<1>5. CASE StreamFailed
  <2>1. outcome = "running"
    BY <1>5 DEF StreamFailed, IInv, OneAnswerPending
  <2> QED
    BY <1>5, <2>1 DEF StreamFailed, FinishError, ContractStep, Contract!Fail
<1>6. CASE UNCHANGED vars
  BY <1>6 DEF vars, caller, runContext, shown
<1> QED
  BY <1>1, <1>2, <1>3, <1>4, <1>5, <1>6 DEF Next, Terminated

\* The tool-calling loop implements the contract of Agent::Run: stream
\* callbacks that only grow the message of a turn, its text by what is new and
\* its reasoning by all that there is, then one complete callback with that
\* message (or an empty one) or one error callback, then nothing.
THEOREM ImplementsContract == Spec => ContractSpec
<1>1. IInv /\ Init => Contract!ContractInit
  BY DEF Init, Contract!ContractInit
<1>2. IInv /\ HasLLM /\ [Next]_vars =>
        [\/ Contract!Begin
         \/ \E more \in Texts : Contract!Stream(more, stream'.reasoning)
         \/ Contract!NewTurn
         \/ Contract!Complete
         \/ Contract!Fail]_<<outcome, text, accumulated.reasoning>>
  BY StepContract DEF ContractStep, shown
<1> QED
  BY <1>1, <1>2, Invariance, LLMThere, PTL DEF Spec, ContractSpec

-----------------------------------------------------------------------------
(* What is sent: PrependSystemMessage and BuildRequestBody as operators.    *)
(*                                                                         *)
(* Messages go three steps to the request: the instruction is put in        *)
(* (Instructed), the date (Dated), and each is written as JSON (Sent).      *)

\* Pieces of text and messages with the prefixes among them.
Pieces == Token \cup PromptText \cup {"result", "failure", "not found"}
            \cup Dates \cup {SystemMessage}

SentMessages == [role : {"system", "user", "assistant", "tool"},
                 content : Seq(Pieces),
                 tool_calls : Seq(ToolCalls),
                 tool_call_id : Ids \cup {""}]

\* The messages of a history are of that kind.
LEMMA MessagesFit ==
    /\ Messages \subseteq SentMessages
    /\ Seq(Messages) \subseteq Seq(SentMessages)
<1>1. Contents \subseteq Seq(Pieces)
  BY SeqMonotonic DEF Contents, Pieces
<1>2. Messages \subseteq SentMessages
  BY <1>1 DEF Messages, SentMessages
<1> QED
  BY <1>2, SeqMonotonic

\* Finding a piece of text, and once, in the words of SequenceFacts.
LEMMA FindsHolds ==
    ASSUME NEW S, NEW content \in Seq(S), NEW piece
    PROVE  Finds(content, piece) <=> Holds(content, piece)
<1>1. DOMAIN content = 1 .. Len(content)
  OBVIOUS
<1> QED
  BY <1>1 DEF Finds, Holds

\* At most once in all of them: at most once in each, and in one of them.
LEMMA OnceSingle ==
    ASSUME NEW messages \in Seq(SentMessages), NEW piece
    PROVE  Once(messages, piece) <=>
              /\ \A i \in 1 .. Len(messages) : Single(messages[i].content, piece)
              /\ \A i, k \in 1 .. Len(messages) :
                    Holds(messages[i].content, piece)
                        /\ Holds(messages[k].content, piece) => i = k
<1>1. DOMAIN messages = 1 .. Len(messages)
  OBVIOUS
<1>2. \A i \in 1 .. Len(messages) :
        DOMAIN messages[i].content = 1 .. Len(messages[i].content)
  <2> SUFFICES ASSUME NEW i \in 1 .. Len(messages)
               PROVE  DOMAIN messages[i].content = 1 .. Len(messages[i].content)
    OBVIOUS
  <2>1. messages[i] \in SentMessages
    OBVIOUS
  <2>2. messages[i].content \in Seq(Pieces)
    BY <2>1 DEF SentMessages
  <2> QED
    BY <2>2
<1>3. ASSUME Once(messages, piece)
      PROVE  /\ \A i \in 1 .. Len(messages) : Single(messages[i].content, piece)
             /\ \A i, k \in 1 .. Len(messages) :
                   Holds(messages[i].content, piece)
                       /\ Holds(messages[k].content, piece) => i = k
  <2>1. ASSUME NEW i \in 1 .. Len(messages), NEW k \in 1 .. Len(messages),
               NEW j \in 1 .. Len(messages[i].content),
               NEW l \in 1 .. Len(messages[k].content),
               messages[i].content[j] = piece, messages[k].content[l] = piece
        PROVE  i = k /\ j = l
    <3>1. i \in DOMAIN messages /\ k \in DOMAIN messages
      BY <1>1
    <3>2. j \in DOMAIN messages[i].content /\ l \in DOMAIN messages[k].content
      BY <1>2
    <3> QED
      BY <1>3, <2>1, <3>1, <3>2 DEF Once
  <2> QED
    BY <2>1 DEF Holds, Single
<1>4. ASSUME \A i \in 1 .. Len(messages) : Single(messages[i].content, piece),
             \A i, k \in 1 .. Len(messages) :
                 Holds(messages[i].content, piece)
                     /\ Holds(messages[k].content, piece) => i = k
      PROVE  Once(messages, piece)
  <2> SUFFICES ASSUME NEW i \in DOMAIN messages, NEW k \in DOMAIN messages,
                      NEW j \in DOMAIN messages[i].content,
                      NEW l \in DOMAIN messages[k].content,
                      messages[i].content[j] = piece, messages[k].content[l] = piece
               PROVE  i = k /\ j = l
    BY DEF Once
  <2>1. i \in 1 .. Len(messages) /\ k \in 1 .. Len(messages)
    BY <1>1
  <2>2. j \in 1 .. Len(messages[i].content) /\ l \in 1 .. Len(messages[k].content)
    BY <1>2, <2>1
  <2>3. i = k
    BY <1>4, <2>1, <2>2 DEF Holds
  <2> QED
    BY <1>4, <2>1, <2>2, <2>3 DEF Single
<1> QED
  BY <1>3, <1>4

\* The caller's own system message is in front.
Given(messages) == messages # <<>> /\ messages[1].role = "system"

\* The messages with the instruction, before the date is put in.
Instructed(messages) ==
    Instruction(messages) \o (IF Given(messages) THEN Tail(messages) ELSE messages)

\* The first two steps (Agent.cc:172-214).
LEMMA Prepended ==
    ASSUME NEW messages, NEW date
    PROVE  PrependSystemMessage(messages, date) = Dated(Instructed(messages), date)
BY DEF PrependSystemMessage, Instructed, Given

\* What a message of the system given in front says then.
WithInstruction(content) ==
    IF SystemMessage = "" \/ Finds(content, SystemMessage)
    THEN content ELSE <<SystemMessage>> \o content

\* How many messages come in front.
Front(messages) == IF ~Given(messages) /\ SystemMessage # "" THEN 1 ELSE 0

\* The system message put in front is a message.
LEMMA SystemSaysType ==
    ASSUME NEW content \in Seq(Pieces)
    PROVE  SystemSays(content) \in SentMessages
<1>1. <<>> \in Seq(ToolCalls)
  BY EmptySeq
<1> QED
  BY <1>1 DEF SystemSays, SentMessages

\* The first step: one message more in front, or the first one with the
\* instruction, and the others as they were (Agent.cc:177-205).
LEMMA InstructedShape ==
    ASSUME NEW messages \in Seq(SentMessages)
    PROVE  /\ Instructed(messages) \in Seq(SentMessages)
           /\ Front(messages) \in 0 .. 1
           /\ Len(Instructed(messages)) = Front(messages) + Len(messages)
           /\ Given(messages) =>
                /\ Len(messages) > 0
                /\ Instructed(messages)[1] =
                     SystemSays(WithInstruction(messages[1].content))
           /\ Front(messages) = 1 =>
                Instructed(messages)[1] = SystemSays(<<SystemMessage>>)
           /\ \A i \in 1 .. Len(messages) : i > 1 \/ ~Given(messages) =>
                Instructed(messages)[Front(messages) + i] = messages[i]
<1> DEFINE first == Instruction(messages)
           rest == IF Given(messages) THEN Tail(messages) ELSE messages
           one == <<SystemMessage>>
<1>1. one \in Seq(Pieces) /\ Len(messages) \in Nat
  BY LenProperties DEF Pieces
<1>2. CASE Given(messages)
  <2> DEFINE given == messages[1].content
             content == IF SystemMessage = "" \/ Finds(given, SystemMessage)
                        THEN given ELSE one \o given
             says == SystemSays(content)
  <2>1. Len(messages) > 0 /\ messages[1] \in SentMessages
    BY <1>2, EmptySeq, LenProperties DEF Given
  <2>2. given \in Seq(Pieces)
    BY <2>1 DEF SentMessages
  <2>3. one \o given \in Seq(Pieces)
    BY <1>1, <2>2, ConcatProperties
  <2>4. says \in SentMessages
    BY <2>2, <2>3, SystemSaysType
  <2>5. first = <<says>>
    BY <1>2 DEF Instruction, Given
  <2> HIDE DEF says
  <2>6. <<says>> \in Seq(SentMessages) /\ Len(<<says>>) = 1 /\ <<says>>[1] = says
    BY <2>4
  <2>7. /\ Tail(messages) \in Seq(SentMessages)
        /\ Len(Tail(messages)) = Len(messages) - 1
        /\ \A i \in 1 .. Len(Tail(messages)) : Tail(messages)[i] = messages[i + 1]
    BY <2>1, HeadTailProperties, EmptySeq
  <2> DEFINE tail == Tail(messages)
  <2>8. Instructed(messages) = <<says>> \o tail
    BY <1>2, <2>5 DEF Instructed
  <2> HIDE DEF tail
  <2>9. /\ <<says>> \o tail \in Seq(SentMessages)
        /\ Len(<<says>> \o tail) = 1 + Len(tail)
        /\ \A i \in 1 .. 1 + Len(tail) :
              (<<says>> \o tail)[i] = IF i <= 1 THEN says ELSE tail[i - 1]
    BY <2>6, <2>7, ConcatProperties DEF tail
  <2>10. Front(messages) = 0
    BY <1>2 DEF Front
  <2>11. \A i \in 1 .. Len(messages) : i > 1 =>
            Instructed(messages)[i] = messages[i]
    <3> SUFFICES ASSUME NEW i \in 1 .. Len(messages), i > 1
                 PROVE  Instructed(messages)[i] = messages[i]
      OBVIOUS
    <3>1. i - 1 \in 1 .. Len(tail) /\ (i - 1) + 1 = i /\ i \in 1 .. 1 + Len(tail)
          /\ ~(i <= 1)
      BY <1>1, <2>7 DEF tail
    <3>2. tail[i - 1] = messages[i]
      BY <2>7, <3>1 DEF tail
    <3> QED
      BY <2>8, <2>9, <3>1, <3>2
  <2>14. \A i \in 1 .. Len(messages) : i > 1 =>
            Instructed(messages)[Front(messages) + i] = messages[i]
    <3> SUFFICES ASSUME NEW i \in 1 .. Len(messages), i > 1
                 PROVE  Instructed(messages)[Front(messages) + i] = messages[i]
      OBVIOUS
    <3>1. Front(messages) + i = i
      BY <2>10
    <3> QED
      BY <2>11, <3>1
  <2>12. Instructed(messages)[1] = says
    BY <1>1, <2>1, <2>7, <2>8, <2>9 DEF tail
  <2>13. Len(Instructed(messages)) = Front(messages) + Len(messages)
    BY <1>1, <2>7, <2>8, <2>9, <2>10 DEF tail
  <2>15. Instructed(messages) \in Seq(SentMessages)
    BY <2>8, <2>9
  <2>16. Front(messages) \in 0 .. 1 /\ Front(messages) # 1
    BY <2>10
  <2>17. says = SystemSays(WithInstruction(given))
    BY DEF says, WithInstruction
  <2> QED
    BY <1>2, <2>1, <2>12, <2>13, <2>14, <2>15, <2>16, <2>17, Zenon
<1>3. CASE ~Given(messages) /\ SystemMessage # ""
  <2> DEFINE says == SystemSays(one)
  <2>1. says \in SentMessages
    BY <1>1, SystemSaysType
  <2>2. Instructed(messages) = <<says>> \o messages
    BY <1>3 DEF Instructed, Instruction, Given
  <2> HIDE DEF says
  <2>3. <<says>> \in Seq(SentMessages) /\ Len(<<says>>) = 1 /\ <<says>>[1] = says
    BY <2>1
  <2>4. /\ <<says>> \o messages \in Seq(SentMessages)
        /\ Len(<<says>> \o messages) = 1 + Len(messages)
        /\ \A i \in 1 .. 1 + Len(messages) :
              (<<says>> \o messages)[i] = IF i <= 1 THEN says ELSE messages[i - 1]
    BY <2>3, ConcatProperties
  <2>5. Front(messages) = 1
    BY <1>3 DEF Front
  <2>6. \A i \in 1 .. Len(messages) : Instructed(messages)[1 + i] = messages[i]
    <3> SUFFICES ASSUME NEW i \in 1 .. Len(messages)
                 PROVE  Instructed(messages)[1 + i] = messages[i]
      OBVIOUS
    <3>1. 1 + i \in 1 .. 1 + Len(messages) /\ ~(1 + i <= 1) /\ (1 + i) - 1 = i
      BY <1>1
    <3> QED
      BY <2>2, <2>4, <3>1
  <2>7. Instructed(messages)[1] = says
    BY <1>1, <2>2, <2>4
  <2>8. Len(Instructed(messages)) = Front(messages) + Len(messages)
    BY <2>2, <2>4, <2>5
  <2>9. Instructed(messages) \in Seq(SentMessages)
    BY <2>2, <2>4
  <2>10. Front(messages) \in 0 .. 1
    BY <2>5
  <2> QED
    BY <1>3, <2>5, <2>6, <2>7, <2>8, <2>9, <2>10, Zenon DEF says
<1>4. CASE ~Given(messages) /\ SystemMessage = ""
  <2>1. Instructed(messages) = <<>> \o messages
    BY <1>4 DEF Instructed, Instruction, Given
  <2>2. <<>> \o messages = messages
    BY ConcatEmptySeq
  <2>3. Front(messages) = 0
    BY <1>4 DEF Front
  <2>4. \A i \in 1 .. Len(messages) :
            Instructed(messages)[Front(messages) + i] = messages[i]
    <3> SUFFICES ASSUME NEW i \in 1 .. Len(messages)
                 PROVE  Instructed(messages)[Front(messages) + i] = messages[i]
      OBVIOUS
    <3>1. Front(messages) + i = i
      BY <2>3
    <3> QED
      BY <2>1, <2>2, <3>1
  <2>5. Front(messages) \in 0 .. 1 /\ Front(messages) # 1
    BY <2>3
  <2>6. Len(Instructed(messages)) = Front(messages) + Len(messages)
    BY <1>1, <2>1, <2>2, <2>3
  <2>7. Instructed(messages) \in Seq(SentMessages)
    BY <2>1, <2>2
  <2> QED
    BY <1>4, <2>4, <2>5, <2>6, <2>7, Zenon
<1> QED
  BY <1>2, <1>3, <1>4

\* The messages of the user.
Users(messages) == {i \in DOMAIN messages : messages[i].role = "user"}

\* The message the date goes into.
TakesDate(messages, i) ==
    /\ i \in 1 .. Len(messages)
    /\ IF Users(messages) # {}
       THEN i \in Users(messages) /\ \A j \in Users(messages) : i <= j
       ELSE i = 1 /\ messages[i].role = "system"

\* Its content then.
WithDate(message, date) ==
    IF message.role = "user" /\ Finds(message.content, date)
    THEN message.content ELSE <<date>> \o message.content

\* One message takes the date, if there is one that can (Agent.cc:192-211).
LEMMA TakesDateOnce ==
    ASSUME NEW messages \in Seq(SentMessages)
    PROVE  /\ \A i, k : TakesDate(messages, i) /\ TakesDate(messages, k) => i = k
           /\ (\E i \in 1 .. Len(messages) :
                  \/ messages[i].role = "user"
                  \/ i = 1 /\ messages[i].role = "system")
                => \E i \in 1 .. Len(messages) : TakesDate(messages, i)
<1>1. DOMAIN messages = 1 .. Len(messages) /\ Len(messages) \in Nat
  BY LenProperties
<1>2. Users(messages) \subseteq 1 .. Len(messages)
  BY <1>1 DEF Users
<1>3. ASSUME NEW i, NEW k, TakesDate(messages, i), TakesDate(messages, k)
      PROVE  i = k
  <2>1. i \in Nat /\ k \in Nat
    BY <1>1, <1>3 DEF TakesDate
  <2>2. i = k \/ (i <= k /\ k <= i)
    BY <1>3 DEF TakesDate
  <2> QED
    BY <2>1, <2>2
<1>4. CASE Users(messages) # {}
  <2>1. Users(messages) \subseteq Nat
    BY <1>2
  <2>2. PICK i \in Users(messages) : \A j \in Users(messages) : i <= j
    BY <1>4, <2>1, Smallest
  <2>3. TakesDate(messages, i)
    BY <1>2, <1>4, <2>2 DEF TakesDate
  <2> QED
    BY <1>2, <1>3, <2>3
<1>5. CASE Users(messages) = {}
  <2>1. \A i \in 1 .. Len(messages) : messages[i].role # "user"
    BY <1>1, <1>5 DEF Users
  <2>2. \A i \in 1 .. Len(messages) :
           i = 1 /\ messages[i].role = "system" => TakesDate(messages, i)
    BY <1>5 DEF TakesDate
  <2> QED
    BY <1>3, <2>1, <2>2
<1> QED
  BY <1>4, <1>5

\* The same message but for its content.
Frames(sent, message) ==
    /\ sent.role = message.role
    /\ sent.tool_calls = message.tool_calls
    /\ sent.tool_call_id = message.tool_call_id

\* Putting text into one message.
WithContent(messages, i, content) ==
    [messages EXCEPT ![i] = [messages[i] EXCEPT !.content = content]]

\* It changes no other message, and of that one nothing else.
LEMMA ContentPut ==
    ASSUME NEW messages \in Seq(SentMessages), NEW i \in 1 .. Len(messages),
           NEW content \in Seq(Pieces)
    PROVE  /\ WithContent(messages, i, content) \in Seq(SentMessages)
           /\ Len(WithContent(messages, i, content)) = Len(messages)
           /\ \A k \in 1 .. Len(messages) :
                 /\ Frames(WithContent(messages, i, content)[k], messages[k])
                 /\ WithContent(messages, i, content)[k].content =
                       IF k = i THEN content ELSE messages[k].content
<1> DEFINE put == [messages[i] EXCEPT !.content = content]
<1>1. messages[i] \in SentMessages
  OBVIOUS
<1>2. /\ put \in SentMessages /\ put.content = content
      /\ put.role = messages[i].role /\ put.tool_calls = messages[i].tool_calls
      /\ put.tool_call_id = messages[i].tool_call_id
  BY <1>1 DEF SentMessages
<1> HIDE DEF put
<1>3. /\ [messages EXCEPT ![i] = put] \in Seq(SentMessages)
      /\ Len([messages EXCEPT ![i] = put]) = Len(messages)
      /\ \A k \in 1 .. Len(messages) :
            [messages EXCEPT ![i] = put][k] = IF k = i THEN put ELSE messages[k]
  BY <1>2, ExceptSeq
<1>4. WithContent(messages, i, content) = [messages EXCEPT ![i] = put]
  BY DEF WithContent, put
<1> QED
  BY <1>2, <1>3, <1>4 DEF Frames

\* The second step changes no more than that message's text.
LEMMA DatedShape ==
    ASSUME NEW messages \in Seq(SentMessages), NEW date \in Dates
    PROVE  /\ Dated(messages, date) \in Seq(SentMessages)
           /\ Len(Dated(messages, date)) = Len(messages)
           /\ \A i \in 1 .. Len(messages) :
                 /\ Frames(Dated(messages, date)[i], messages[i])
                 /\ Dated(messages, date)[i].content =
                       IF TakesDate(messages, i) THEN WithDate(messages[i], date)
                       ELSE messages[i].content
<1>1. DOMAIN messages = 1 .. Len(messages) /\ Len(messages) \in Nat
  BY LenProperties
<1>2. \A i \in 1 .. Len(messages) : WithDate(messages[i], date) \in Seq(Pieces)
  <2> SUFFICES ASSUME NEW i \in 1 .. Len(messages)
               PROVE  WithDate(messages[i], date) \in Seq(Pieces)
    OBVIOUS
  <2> DEFINE one == <<date>>
             content == messages[i].content
  <2>1. messages[i] \in SentMessages
    OBVIOUS
  <2>2. content \in Seq(Pieces)
    BY <2>1 DEF SentMessages
  <2>3. date \in Pieces
    BY DEF Pieces
  <2>5. one \in Seq(Pieces)
    BY <2>3
  <2>4. one \o content \in Seq(Pieces)
    BY <2>2, <2>5, ConcatProperties
  <2> QED
    BY <2>2, <2>4 DEF WithDate
<1>3. ASSUME NEW i, TakesDate(messages, i)
      PROVE  Dated(messages, date) =
               WithContent(messages, i, WithDate(messages[i], date))
  <2>1. i \in 1 .. Len(messages)
    BY <1>3 DEF TakesDate
  <2>2. CASE Users(messages) # {}
    <3> DEFINE users == Users(messages)
               first == CHOOSE k \in users : \A j \in users : k <= j
    <3>1. i \in users /\ \A j \in users : i <= j
      BY <1>3, <2>2 DEF TakesDate
    <3>2. first \in users /\ \A j \in users : first <= j
      BY <3>1
    <3>3. TakesDate(messages, first)
      BY <1>1, <2>2, <3>2 DEF TakesDate, Users
    <3>4. first = i
      BY <1>3, <3>3, TakesDateOnce
    <3>5. messages[i].role = "user"
      BY <3>1 DEF Users
    <3>6. Dated(messages, date) =
            [messages EXCEPT ![first].content =
                IF Finds(@, date) THEN @ ELSE <<date>> \o @]
      BY <2>2 DEF Dated, Users
    <3> HIDE DEF first, users
    <3> QED
      BY <3>4, <3>5, <3>6 DEF WithDate, WithContent
  <2>3. CASE Users(messages) = {}
    <3>1. i = 1 /\ messages[i].role = "system" /\ messages # <<>>
      BY <1>3, <2>3, EmptySeq DEF TakesDate
    <3>2. Dated(messages, date) = [messages EXCEPT ![1].content = <<date>> \o @]
      BY <2>3, <3>1 DEF Dated, Users
    <3>3. messages[i].role # "user"
      BY <3>1
    <3> QED
      BY <3>1, <3>2, <3>3 DEF WithDate, WithContent
  <2> QED
    BY <2>2, <2>3
<1>4. CASE \E i : TakesDate(messages, i)
  <2>1. PICK i : TakesDate(messages, i)
    BY <1>4
  <2>2. i \in 1 .. Len(messages)
    BY <2>1 DEF TakesDate
  <2> DEFINE result == Dated(messages, date)
             content == WithDate(messages[i], date)
  <2>3. content \in Seq(Pieces)
    BY <1>2, <2>2
  <2>4. result = WithContent(messages, i, content)
    BY <1>3, <2>1
  <2> HIDE DEF result, content
  <2>5. /\ result \in Seq(SentMessages) /\ Len(result) = Len(messages)
        /\ \A k \in 1 .. Len(messages) :
              /\ Frames(result[k], messages[k])
              /\ result[k].content = IF k = i THEN content ELSE messages[k].content
    BY <2>2, <2>3, <2>4, ContentPut
  <2>6. \A k \in 1 .. Len(messages) : TakesDate(messages, k) <=> k = i
    BY <2>1, TakesDateOnce
  <2> QED
    BY <2>5, <2>6 DEF result, content
<1>5. CASE ~\E i : TakesDate(messages, i)
  <2>1. \A i \in 1 .. Len(messages) : messages[i].role # "user"
    BY <1>5, TakesDateOnce
  <2>2. Users(messages) = {}
    BY <1>1, <2>1 DEF Users
  <2>3. messages # <<>> => messages[1].role # "system"
    <3>1. messages # <<>> => 1 \in 1 .. Len(messages)
      BY <1>1, EmptySeq
    <3> QED
      BY <1>5, <3>1, TakesDateOnce
  <2>4. Dated(messages, date) = messages
    BY <2>2, <2>3 DEF Dated, Users
  <2> QED
    BY <1>5, <2>4 DEF Frames
<1> QED
  BY <1>4, <1>5

\* OwnPrefixes, message by message.
OwnAt(messages, i) ==
    /\ \A piece \in Prefixes : Single(messages[i].content, piece)
    /\ messages[i].role = "system" => i = 1
    /\ SystemMessage \in Prefixes /\ Holds(messages[i].content, SystemMessage) =>
          messages[i].role = "system"
    /\ \A date \in Dates : Holds(messages[i].content, date) =>
          /\ messages[i].role = "user"
          /\ \A j \in 1 .. i - 1 : messages[j].role # "user"

\* The prefixes are the dates and, if there is one, the instruction.
LEMMA PrefixesDiffer ==
    /\ SystemMessage \in Prefixes <=> SystemMessage # ""
    /\ Dates \subseteq Prefixes
    /\ \A date \in Dates : date # SystemMessage
    /\ \A piece \in Prefixes : piece = SystemMessage \/ piece \in Dates
<1>1. \A date \in Dates : date # SystemMessage
  BY TextAssumption DEF TextAssumption
<1>2. SystemMessage \in Prefixes <=> SystemMessage # ""
  BY <1>1 DEF Prefixes
<1> QED
  BY <1>1, <1>2 DEF Prefixes

\* That prefixes are there once follows from where they are.
LEMMA OwnHolds ==
    ASSUME NEW messages \in Seq(SentMessages)
    PROVE  OwnPrefixes(messages) <=> \A i \in 1 .. Len(messages) : OwnAt(messages, i)
<1>1. DOMAIN messages = 1 .. Len(messages) /\ Len(messages) \in Nat
  BY LenProperties
<1>2. \A i \in 1 .. Len(messages) : \A piece :
         Finds(messages[i].content, piece) <=> Holds(messages[i].content, piece)
  <2> SUFFICES ASSUME NEW i \in 1 .. Len(messages), NEW piece
               PROVE  Finds(messages[i].content, piece)
                         <=> Holds(messages[i].content, piece)
    OBVIOUS
  <2>1. messages[i] \in SentMessages
    OBVIOUS
  <2>2. messages[i].content \in Seq(Pieces)
    BY <2>1 DEF SentMessages
  <2> QED
    BY <2>2, FindsHolds
<1>3. ASSUME OwnPrefixes(messages), NEW i \in 1 .. Len(messages)
      PROVE  OwnAt(messages, i)
  <2>1. \A piece \in Prefixes : Single(messages[i].content, piece)
    BY <1>3, OnceSingle DEF OwnPrefixes
  <2>2. /\ messages[i].role = "system" => i = 1
        /\ SystemMessage \in Prefixes /\ Finds(messages[i].content, SystemMessage) =>
              messages[i].role = "system"
        /\ (\E date \in Dates : Finds(messages[i].content, date)) =>
              /\ messages[i].role = "user"
              /\ \A j \in 1 .. i - 1 : messages[j].role # "user"
    BY <1>1, <1>3 DEF OwnPrefixes
  <2> QED
    BY <1>2, <2>1, <2>2 DEF OwnAt
<1>4. ASSUME \A i \in 1 .. Len(messages) : OwnAt(messages, i)
      PROVE  OwnPrefixes(messages)
  <2>1. ASSUME NEW piece \in Prefixes PROVE Once(messages, piece)
    <3>1. \A i \in 1 .. Len(messages) : Single(messages[i].content, piece)
      BY <1>4 DEF OwnAt
    <3>2. ASSUME NEW i \in 1 .. Len(messages), NEW k \in 1 .. Len(messages),
                 Holds(messages[i].content, piece), Holds(messages[k].content, piece)
          PROVE  i = k
      <4>1. CASE piece = SystemMessage
        BY <1>4, <2>1, <3>2, <4>1 DEF OwnAt
      <4>2. CASE piece \in Dates
        <5>1. /\ messages[i].role = "user" /\ messages[k].role = "user"
              /\ \A j \in 1 .. i - 1 : messages[j].role # "user"
              /\ \A j \in 1 .. k - 1 : messages[j].role # "user"
          BY <1>4, <3>2, <4>2 DEF OwnAt
        <5>2. ~(k \in 1 .. i - 1) /\ ~(i \in 1 .. k - 1)
          BY <5>1
        <5> QED
          BY <1>1, <5>2
      <4> QED
        BY <4>1, <4>2, PrefixesDiffer
    <3> QED
      BY <3>1, <3>2, OnceSingle
  <2>2. ASSUME NEW i \in DOMAIN messages
        PROVE  /\ messages[i].role = "system" => i = 1
               /\ SystemMessage \in Prefixes
                     /\ Finds(messages[i].content, SystemMessage) =>
                        messages[i].role = "system"
               /\ (\E date \in Dates : Finds(messages[i].content, date)) =>
                     /\ messages[i].role = "user"
                     /\ \A j \in 1 .. i - 1 : messages[j].role # "user"
    <3>1. OwnAt(messages, i) /\ i \in 1 .. Len(messages)
      BY <1>1, <1>4
    <3> QED
      BY <1>2, <3>1 DEF OwnAt
  <2> QED
    BY <2>1, <2>2 DEF OwnPrefixes
<1> QED
  BY <1>3, <1>4

\* With the instruction the messages are as the caller might have written them.
LEMMA InstructedSound ==
    ASSUME NEW messages \in Seq(SentMessages), OwnPrefixes(messages)
    PROVE  /\ OwnPrefixes(Instructed(messages))
           /\ SystemMessage # "" =>
                 /\ Len(Instructed(messages)) > 0
                 /\ Instructed(messages)[1].role = "system"
                 /\ Holds(Instructed(messages)[1].content, SystemMessage)
<1> DEFINE sent == Instructed(messages)
           front == Front(messages)
           n == Len(messages)
           one == <<SystemMessage>>
<1>1. /\ sent \in Seq(SentMessages) /\ front \in 0 .. 1 /\ Len(sent) = front + n
      /\ n \in Nat
      /\ Given(messages) =>
           /\ n > 0
           /\ sent[1] = SystemSays(WithInstruction(messages[1].content))
      /\ front = 1 => sent[1] = SystemSays(one)
      /\ \A i \in 1 .. n : i > 1 \/ ~Given(messages) => sent[front + i] = messages[i]
  BY InstructedShape, LenProperties
<1>2. \A i \in 1 .. n : OwnAt(messages, i)
  BY OwnHolds
<1>3. /\ Given(messages) => front = 0
      /\ front = 1 => ~Given(messages) /\ SystemMessage # ""
      /\ ~Given(messages) /\ SystemMessage # "" => front = 1
      /\ ~Given(messages) /\ SystemMessage = "" => front = 0
  <2>1. ASSUME Given(messages) PROVE front = 0 /\ front # 1
    BY <2>1 DEF Front
  <2>2. ASSUME ~Given(messages), SystemMessage # "" PROVE front = 1
    BY <2>2 DEF Front
  <2>3. ASSUME ~Given(messages), SystemMessage = "" PROVE front = 0 /\ front # 1
    <3>1. front = 0
      BY <2>3, Zenon DEF Front
    <3> QED
      BY <3>1
  <2> HIDE DEF front
  <2> QED
    BY <2>1, <2>2, <2>3, Zenon
<1>10. n \in Nat /\ front \in 0 .. 1 /\ Len(sent) = front + n
  BY <1>1
<1>11. \A i \in 1 .. n : i > 1 \/ ~Given(messages) => sent[front + i] = messages[i]
  BY <1>1
<1>4. \A content : /\ SystemSays(content).role = "system"
                   /\ SystemSays(content).content = content
  BY DEF SystemSays
<1>5. n > 0 /\ messages[1].role = "system" => Given(messages)
  BY EmptySeq DEF Given
<1>6. Given(messages) => messages[1].role = "system"
  BY DEF Given
<1> HIDE DEF sent, front, n
<1>7. CASE Given(messages)
  <2> DEFINE given == messages[1].content
  <2>1. front = 0 /\ n > 0 /\ messages[1] \in SentMessages /\ Len(sent) = n
    <3>1. front = 0 /\ n > 0
      BY <1>1, <1>3, <1>7
    <3> QED
      BY <1>10, <3>1 DEF n
  <2>2. given \in Seq(Pieces)
    BY <2>1 DEF SentMessages
  <2>3. SystemMessage \in Pieces
    BY DEF Pieces
  <2>4. OwnAt(messages, 1)
    BY <1>2, <1>10, <2>1
  <2>5. Finds(given, SystemMessage) <=> Holds(given, SystemMessage)
    BY <2>2, FindsHolds
  <2>6. \A piece : /\ Holds(one \o given, piece) <=>
                         piece = SystemMessage \/ Holds(given, piece)
                   /\ Single(one \o given, piece) <=>
                         /\ Single(given, piece)
                         /\ ~(Holds(given, piece) /\ piece = SystemMessage)
    BY <2>2, <2>3, HoldsFront
  <2>7. /\ sent[1].role = "system"
        /\ sent[1].content = IF SystemMessage = "" \/ Holds(given, SystemMessage)
                             THEN given ELSE one \o given
    <3>1. /\ sent[1].role = "system"
          /\ sent[1].content = WithInstruction(given)
      BY <1>1, <1>4, <1>7
    <3>2. WithInstruction(given) = IF SystemMessage = "" \/ Holds(given, SystemMessage)
                                   THEN given ELSE one \o given
      BY <2>5 DEF WithInstruction
    <3> QED
      BY <3>1, <3>2, Zenon
  <2> HIDE DEF one, given
  <2>8. /\ \A piece \in Prefixes : Single(sent[1].content, piece)
        /\ \A date \in Dates : Holds(sent[1].content, date) => Holds(given, date)
        /\ SystemMessage # "" => Holds(sent[1].content, SystemMessage)
    <3>1. \A piece \in Prefixes : Single(given, piece)
      BY <2>4 DEF OwnAt, given
    <3> QED
      BY <2>6, <2>7, <3>1, PrefixesDiffer
  <2>9. \A date \in Dates : ~Holds(given, date)
    BY <1>6, <1>7, <2>4 DEF OwnAt, given
  <2>10. OwnAt(sent, 1)
    BY <2>7, <2>8, <2>9 DEF OwnAt
  <2>11. ASSUME NEW i \in 1 .. Len(sent), i > 1 PROVE OwnAt(sent, i)
    <3>1. i \in 1 .. n /\ front + i = i
      BY <1>10, <2>1, <2>11
    <3>2. sent[i] = messages[i] /\ OwnAt(messages, i)
      BY <1>11, <1>2, <2>11, <3>1
    <3>3. \A j \in 1 .. i - 1 : j > 1 => sent[j] = messages[j]
      <4> SUFFICES ASSUME NEW j \in 1 .. i - 1, j > 1 PROVE sent[j] = messages[j]
        OBVIOUS
      <4>1. j \in 1 .. n /\ front + j = j
        BY <1>10, <2>1, <3>1
      <4> QED
        BY <1>11, <4>1
    <3>4. \A j \in 1 .. i - 1 : messages[j].role # "user" => sent[j].role # "user"
      <4> SUFFICES ASSUME NEW j \in 1 .. i - 1, messages[j].role # "user"
                   PROVE  sent[j].role # "user"
        OBVIOUS
      <4>1. j = 1 \/ j > 1
        BY <1>10
      <4>2. sent[1].role # "user"
        BY <2>7
      <4> QED
        BY <3>3, <4>1, <4>2
    <3> QED
      BY <3>2, <3>4 DEF OwnAt
  <2>12. \A i \in 1 .. Len(sent) : OwnAt(sent, i)
    BY <2>10, <2>11
  <2> QED
    <3>1. OwnPrefixes(sent)
      BY <1>1, <2>12, OwnHolds
    <3> QED
      BY <2>1, <2>7, <2>8, <3>1 DEF sent
<1>8. CASE front = 1
  <2>1. sent[1].role = "system" /\ sent[1].content = one
    BY <1>1, <1>4, <1>8
  <2>2. \A piece : (Holds(one, piece) <=> piece = SystemMessage) /\ Single(one, piece)
    BY HoldsOne
  <2> HIDE DEF one
  <2>3. OwnAt(sent, 1)
    BY <2>1, <2>2, PrefixesDiffer DEF OwnAt
  <2>4. ASSUME NEW k \in 1 .. n PROVE OwnAt(sent, k + 1)
    <3>0. front + k = k + 1
      BY <1>8
    <3>1. sent[k + 1] = messages[k] /\ OwnAt(messages, k)
      BY <1>2, <1>3, <1>8, <1>11, <3>0
    <3>2. sent[k + 1].role # "system"
      <4>1. messages[k].role = "system" => k = 1 /\ n > 0
        <5>1. n > 0
          BY <1>10
        <5> QED
          BY <3>1, <5>1 DEF OwnAt
      <4> QED
        BY <1>3, <1>5, <1>8, <3>1, <4>1
    <3>3. \A j \in 1 .. (k + 1) - 1 : j = 1 \/ sent[j] = messages[j - 1]
      <4> SUFFICES ASSUME NEW j \in 1 .. (k + 1) - 1, j # 1
                   PROVE  sent[j] = messages[j - 1]
        OBVIOUS
      <4>1. j - 1 \in 1 .. n /\ front + (j - 1) = j
        BY <1>8, <1>10
      <4> QED
        BY <1>3, <1>8, <1>11, <4>1
    <3>4. (\A j \in 1 .. k - 1 : messages[j].role # "user") =>
             \A j \in 1 .. (k + 1) - 1 : sent[j].role # "user"
      <4> SUFFICES ASSUME \A j \in 1 .. k - 1 : messages[j].role # "user",
                          NEW j \in 1 .. (k + 1) - 1
                   PROVE  sent[j].role # "user"
        OBVIOUS
      <4>1. CASE j = 1
        BY <2>1, <4>1
      <4>2. CASE j # 1
        <5>1. j - 1 \in 1 .. k - 1
          BY <4>2
        <5> QED
          BY <3>3, <4>2, <5>1
      <4> QED
        BY <4>1, <4>2
    <3> QED
      BY <3>1, <3>2, <3>4 DEF OwnAt
  <2>5. \A i \in 1 .. Len(sent) : OwnAt(sent, i)
    <3> SUFFICES ASSUME NEW i \in 1 .. Len(sent) PROVE OwnAt(sent, i)
      OBVIOUS
    <3>1. i = 1 \/ (i - 1 \in 1 .. n /\ (i - 1) + 1 = i)
      BY <1>8, <1>10
    <3> QED
      BY <2>3, <2>4, <3>1
  <2> QED
    <3>1. Len(sent) > 0
      BY <1>8, <1>10
    <3>2. OwnPrefixes(sent)
      BY <1>1, <2>5, OwnHolds
    <3> QED
      BY <2>1, <2>2, <3>1, <3>2 DEF sent
<1>9. CASE ~Given(messages) /\ SystemMessage = ""
  <2>0. front = 0
    BY <1>3, <1>9, Zenon
  <2>1. front = 0 /\ Len(sent) = n
    BY <2>0, <1>10
  <2>2. \A i \in 1 .. n : sent[i] = messages[i]
    <3> SUFFICES ASSUME NEW i \in 1 .. n PROVE sent[i] = messages[i]
      OBVIOUS
    <3>1. front + i = i
      BY <2>1
    <3> QED
      BY <1>9, <1>11, <3>1
  <2>3. sent = messages
    BY <1>1, <2>1, <2>2, SeqEqual DEF n
  <2> QED
    BY <1>9, <2>3 DEF sent
<1> QED
  BY <1>3, <1>7, <1>8, <1>9

\* The date in front of a message's text changes what it holds by the date.
LEMMA WithDateHolds ==
    ASSUME NEW message \in SentMessages, NEW date \in Dates
    PROVE  /\ WithDate(message, date) \in Seq(Pieces)
           /\ Holds(WithDate(message, date), date)
           /\ \A piece : piece # date =>
                /\ Holds(WithDate(message, date), piece) <=> Holds(message.content, piece)
                /\ Single(message.content, piece) =>
                      Single(WithDate(message, date), piece)
           /\ Single(message.content, date)
                 /\ (Holds(message.content, date) => message.role = "user") =>
                Single(WithDate(message, date), date)
<1> DEFINE content == message.content
           one == <<date>>
<1>1. content \in Seq(Pieces) /\ date \in Pieces
  BY DEF SentMessages, Pieces
<1>2. Finds(content, date) <=> Holds(content, date)
  BY <1>1, FindsHolds
<1>3. \A piece : /\ Holds(one \o content, piece) <=> piece = date \/ Holds(content, piece)
                 /\ Single(one \o content, piece) <=>
                       /\ Single(content, piece)
                       /\ ~(Holds(content, piece) /\ piece = date)
  BY <1>1, HoldsFront
<1>4. one \o content \in Seq(Pieces)
  <2>1. one \in Seq(Pieces)
    BY <1>1
  <2> HIDE DEF one, content
  <2> QED
    BY <1>1, <2>1, ConcatProperties
<1>5. WithDate(message, date) = IF message.role = "user" /\ Holds(content, date)
                                THEN content ELSE one \o content
  BY <1>2 DEF WithDate
<1> HIDE DEF one, content
<1>6. CASE message.role = "user" /\ Holds(content, date)
  BY <1>1, <1>5, <1>6 DEF content
<1>7. CASE ~(message.role = "user" /\ Holds(content, date))
  <2>1. WithDate(message, date) = one \o content
    BY <1>5, <1>7
  <2> QED
    BY <1>3, <1>4, <1>7, <2>1 DEF content
<1> QED
  BY <1>6, <1>7

\* The first message of the user takes the date, and only that one holds it.
LEMMA DateHolder ==
    ASSUME NEW messages \in Seq(SentMessages), OwnPrefixes(messages),
           NEW date \in Dates, NEW i \in 1 .. Len(messages),
           Holds(messages[i].content, date)
    PROVE  TakesDate(messages, i) /\ messages[i].role = "user"
<1>1. DOMAIN messages = 1 .. Len(messages) /\ Len(messages) \in Nat
  BY LenProperties
<1>2. messages[i].role = "user" /\ \A j \in 1 .. i - 1 : messages[j].role # "user"
  BY OwnHolds DEF OwnAt
<1>3. i \in Users(messages)
  BY <1>1, <1>2 DEF Users
<1>4. ASSUME NEW j \in Users(messages) PROVE i <= j
  <2>1. j \in 1 .. Len(messages) /\ messages[j].role = "user"
    BY <1>1, <1>4 DEF Users
  <2>2. ~(j \in 1 .. i - 1)
    BY <1>2, <2>1
  <2> QED
    BY <1>1, <2>1, <2>2
<1> QED
  BY <1>2, <1>3, <1>4 DEF TakesDate

\* With the date in it each of the prefixes is still there once at most.
LEMMA DatedSound ==
    ASSUME NEW messages \in Seq(SentMessages), OwnPrefixes(messages),
           NEW date \in Dates
    PROVE  /\ \A piece \in Prefixes : Once(Dated(messages, date), piece)
           /\ \A i \in 1 .. Len(messages) : \A piece :
                 Holds(messages[i].content, piece) =>
                    Holds(Dated(messages, date)[i].content, piece)
           /\ (\E i \in 1 .. Len(messages) : messages[i].role \in {"user", "system"}) =>
                 \E i \in 1 .. Len(messages) : Holds(Dated(messages, date)[i].content, date)
<1> DEFINE sent == Dated(messages, date)
           n == Len(messages)
<1>1. /\ sent \in Seq(SentMessages) /\ Len(sent) = n
      /\ \A i \in 1 .. n :
            sent[i].content = IF TakesDate(messages, i) THEN WithDate(messages[i], date)
                              ELSE messages[i].content
  BY DatedShape
<1>2. \A i \in 1 .. n : messages[i] \in SentMessages /\ OwnAt(messages, i)
  BY OwnHolds
<1> HIDE DEF sent, n
<1>3. ASSUME NEW i \in 1 .. n, NEW piece \in Prefixes
      PROVE  /\ Single(sent[i].content, piece)
             /\ Holds(sent[i].content, piece) =>
                   Holds(messages[i].content, piece)
                      \/ (piece = date /\ TakesDate(messages, i))
  <2>1. Single(messages[i].content, piece)
    BY <1>2 DEF OwnAt
  <2>2. CASE ~TakesDate(messages, i)
    <3>1. sent[i].content = messages[i].content
      BY <1>1, <2>2
    <3> QED
      BY <2>1, <3>1
  <2>3. CASE TakesDate(messages, i)
    <3>1. sent[i].content = WithDate(messages[i], date)
      BY <1>1, <2>3
    <3>2. CASE piece # date
      <4>1. messages[i] \in SentMessages
        BY <1>2
      <4>2. /\ Holds(WithDate(messages[i], date), piece) <=>
                  Holds(messages[i].content, piece)
            /\ Single(WithDate(messages[i], date), piece)
        BY <2>1, <3>2, <4>1, WithDateHolds
      <4> QED
        BY <3>1, <4>2
    <3>3. CASE piece = date
      <4>1. Holds(messages[i].content, date) => messages[i].role = "user"
        BY DateHolder DEF n
      <4> QED
        BY <1>2, <2>1, <2>3, <3>1, <3>3, <4>1, WithDateHolds
    <3> QED
      BY <3>2, <3>3
  <2> QED
    BY <2>2, <2>3
<1>4. ASSUME NEW piece \in Prefixes PROVE Once(sent, piece)
  <2>1. ASSUME NEW i \in 1 .. n, NEW k \in 1 .. n,
               Holds(sent[i].content, piece), Holds(sent[k].content, piece)
        PROVE  i = k
    <3>1. CASE piece = date
      <4>1. TakesDate(messages, i) /\ TakesDate(messages, k)
        BY <1>3, <2>1, <3>1, DateHolder DEF n
      <4> QED
        BY <4>1, TakesDateOnce
    <3>2. CASE piece # date
      <4>1. Holds(messages[i].content, piece) /\ Holds(messages[k].content, piece)
        BY <1>3, <2>1, <3>2
      <4>2. Once(messages, piece)
        BY DEF OwnPrefixes
      <4> QED
        BY <2>1, <4>1, <4>2, OnceSingle DEF n
    <3> QED
      BY <3>1, <3>2
  <2> QED
    BY <1>1, <1>3, <2>1, OnceSingle
<1>5. ASSUME NEW i \in 1 .. n, NEW piece, Holds(messages[i].content, piece)
      PROVE  Holds(sent[i].content, piece)
  <2>1. CASE ~TakesDate(messages, i)
    BY <1>1, <1>5, <2>1
  <2>2. CASE TakesDate(messages, i)
    <3>1. sent[i].content = WithDate(messages[i], date)
      BY <1>1, <2>2
    <3>2. CASE piece = date
      BY <1>2, <3>1, <3>2, WithDateHolds
    <3>3. CASE piece # date
      BY <1>2, <1>5, <3>1, <3>3, WithDateHolds
    <3> QED
      BY <3>2, <3>3
  <2> QED
    BY <2>1, <2>2
<1>6. ASSUME NEW i \in 1 .. n, messages[i].role \in {"user", "system"}
      PROVE  \E k \in 1 .. n : Holds(sent[k].content, date)
  <2>1. messages[i].role = "system" => i = 1
    BY <1>2 DEF OwnAt
  <2>2. messages[i].role = "user" \/ (i = 1 /\ messages[i].role = "system")
    BY <1>6, <2>1
  <2>3. PICK k \in 1 .. n : TakesDate(messages, k)
    BY <2>2, TakesDateOnce DEF n
  <2>4. sent[k].content = WithDate(messages[k], date)
    BY <1>1, <2>3
  <2> QED
    BY <1>2, <2>4, WithDateHolds
<1> QED
  BY <1>4, <1>5, <1>6 DEF sent, n

-----------------------------------------------------------------------------

\* The third step goes message by message.
LEMMA SentShape ==
    ASSUME NEW messages \in Seq(SentMessages)
    PROVE  /\ BuildRequestBody(messages).messages \in Seq(SentMessages)
           /\ Len(BuildRequestBody(messages).messages) = Len(messages)
           /\ \A i \in 1 .. Len(messages) :
                 BuildRequestBody(messages).messages[i] = Sent(messages[i])
<1> DEFINE sent == BuildRequestBody(messages).messages
           n == Len(messages)
<1>1. DOMAIN messages = 1 .. n /\ n \in Nat
  BY LenProperties
<1>2. sent = [i \in 1 .. n |-> Sent(messages[i])]
  BY <1>1 DEF BuildRequestBody
<1>3. <<>> \in Seq(ToolCalls)
  BY EmptySeq
<1>4. ASSUME NEW i \in 1 .. n PROVE Sent(messages[i]) \in SentMessages
  <2>1. messages[i] \in SentMessages
    OBVIOUS
  <2> QED
    BY <1>3, <2>1 DEF Sent, SentMessages
<1> HIDE DEF sent, n
<1>5. sent \in Seq(SentMessages) /\ Len(sent) = n
  BY <1>1, <1>2, <1>4
<1>6. \A i \in 1 .. n : sent[i] = Sent(messages[i])
  BY <1>2
<1> QED
  BY <1>5, <1>6 DEF sent, n

\* What of a message is left out in the third step (LLMBase.cc:196-233).
LEMMA SentFields ==
    ASSUME NEW message \in SentMessages
    PROVE  /\ Sent(message).role = message.role
           /\ Sent(message).content = message.content
           /\ Sent(message).tool_calls =
                 IF message.role = "assistant" THEN message.tool_calls ELSE <<>>
           /\ Sent(message).tool_call_id =
                 IF message.role = "tool" THEN message.tool_call_id ELSE ""
BY DEF Sent, SentMessages

\* What is sent of messages on a date.
Request(messages, date) ==
    BuildRequestBody(PrependSystemMessage(messages, date)).messages

\* The three steps one behind the other.
LEMMA RequestStages ==
    ASSUME NEW messages \in Seq(SentMessages), NEW date \in Dates
    PROVE  /\ Request(messages, date) \in Seq(SentMessages)
           /\ Len(Request(messages, date)) = Len(Instructed(messages))
           /\ \A i \in 1 .. Len(Instructed(messages)) :
                 /\ Dated(Instructed(messages), date)[i] \in SentMessages
                 /\ Frames(Dated(Instructed(messages), date)[i], Instructed(messages)[i])
                 /\ Request(messages, date)[i] = Sent(Dated(Instructed(messages), date)[i])
<1> DEFINE told == Instructed(messages)
           dated == Dated(told, date)
<1>1. told \in Seq(SentMessages)
  BY InstructedShape
<1> HIDE DEF told
<1>2. /\ dated \in Seq(SentMessages) /\ Len(dated) = Len(told)
      /\ \A i \in 1 .. Len(told) : Frames(dated[i], told[i])
  BY <1>1, DatedShape
<1> HIDE DEF dated
<1>3. \A i \in 1 .. Len(told) : dated[i] \in SentMessages
  BY <1>2
<1>4. Request(messages, date) = BuildRequestBody(dated).messages
  BY Prepended DEF Request, dated, told
<1>5. /\ Request(messages, date) \in Seq(SentMessages)
      /\ Len(Request(messages, date)) = Len(told)
      /\ \A i \in 1 .. Len(told) : Request(messages, date)[i] = Sent(dated[i])
  BY <1>2, <1>4, SentShape
<1> QED
  BY <1>2, <1>3, <1>5 DEF dated, told

\* Whatever the caller wrote of the prefixes himself, they are there once.
LEMMA PrefixesSent ==
    ASSUME NEW messages \in Seq(SentMessages), OwnPrefixes(messages),
           NEW date \in Dates
    PROVE  /\ InstructedOnce(Request(messages, date))
           /\ DatedOnce(Request(messages, date))
<1> DEFINE told == Instructed(messages)
           dated == Dated(told, date)
           sent == Request(messages, date)
           n == Len(told)
<1>1. /\ told \in Seq(SentMessages) /\ OwnPrefixes(told)
      /\ SystemMessage # "" => /\ n > 0 /\ told[1].role = "system"
                               /\ Holds(told[1].content, SystemMessage)
  BY InstructedShape, InstructedSound
<1>2. /\ sent \in Seq(SentMessages) /\ Len(sent) = n
      /\ \A i \in 1 .. n : /\ dated[i] \in SentMessages
                           /\ Frames(dated[i], told[i])
                           /\ sent[i] = Sent(dated[i])
  BY RequestStages
<1> HIDE DEF told
<1>3. /\ dated \in Seq(SentMessages) /\ Len(dated) = n
  BY <1>1, DatedShape
<1>4. /\ \A piece \in Prefixes : Once(dated, piece)
      /\ \A i \in 1 .. n : \A piece :
            Holds(told[i].content, piece) => Holds(dated[i].content, piece)
      /\ (\E i \in 1 .. n : told[i].role \in {"user", "system"}) =>
            \E i \in 1 .. n : Holds(dated[i].content, date)
  BY <1>1, DatedSound
<1> HIDE DEF dated, sent
<1>5. \A i \in 1 .. n : /\ sent[i].role = told[i].role
                        /\ sent[i].content = dated[i].content
                        /\ sent[i].content \in Seq(Pieces)
  <2> SUFFICES ASSUME NEW i \in 1 .. n
               PROVE  /\ sent[i].role = told[i].role
                      /\ sent[i].content = dated[i].content
                      /\ sent[i].content \in Seq(Pieces)
    OBVIOUS
  <2>1. dated[i] \in SentMessages /\ sent[i] = Sent(dated[i])
        /\ dated[i].role = told[i].role
    BY <1>2 DEF Frames
  <2>2. sent[i].role = dated[i].role /\ sent[i].content = dated[i].content
    BY <2>1, SentFields
  <2> QED
    BY <2>1, <2>2 DEF SentMessages
<1>6. n \in Nat /\ DOMAIN sent = 1 .. n
  BY <1>1, <1>2, LenProperties
<1> HIDE DEF n
<1>7. \A piece \in Prefixes : Once(sent, piece)
  <2> SUFFICES ASSUME NEW piece \in Prefixes PROVE Once(sent, piece)
    OBVIOUS
  <2>1. /\ \A i \in 1 .. n : Single(dated[i].content, piece)
        /\ \A i, k \in 1 .. n : Holds(dated[i].content, piece)
                                   /\ Holds(dated[k].content, piece) => i = k
    BY <1>3, <1>4, OnceSingle
  <2>2. /\ \A i \in 1 .. n : Single(sent[i].content, piece)
        /\ \A i, k \in 1 .. n : Holds(sent[i].content, piece)
                                   /\ Holds(sent[k].content, piece) => i = k
    BY <1>5, <2>1
  <2> QED
    BY <1>2, <2>2, OnceSingle
<1>8. \A i \in 1 .. n : \A piece :
         Holds(dated[i].content, piece) => Finds(sent[i].content, piece)
  BY <1>5, FindsHolds
<1>11. (n > 0 => 1 \in 1 .. n) /\ (1 \in 1 .. n => sent # <<>>)
  <2>1. sent = <<>> => Len(sent) = 0
    BY EmptySeq
  <2> QED
    BY <1>2, <1>6, <2>1
<1>9. InstructedOnce(sent)
  <2> SUFFICES ASSUME SystemMessage # ""
               PROVE  /\ sent # <<>> /\ sent[1].role = "system"
                      /\ Finds(sent[1].content, SystemMessage)
                      /\ Once(sent, SystemMessage)
    BY DEF InstructedOnce
  <2>1. 1 \in 1 .. n /\ told[1].role = "system" /\ Holds(told[1].content, SystemMessage)
    <3>1. n > 0 /\ told[1].role = "system" /\ Holds(told[1].content, SystemMessage)
      BY <1>1, Zenon DEF n
    <3> QED
      BY <1>11, <3>1, Zenon
  <2>2. sent # <<>>
    BY <1>11, <2>1, Zenon
  <2>3. Finds(sent[1].content, SystemMessage)
    BY <1>4, <1>8, <2>1
  <2>4. Once(sent, SystemMessage)
    BY <1>7, PrefixesDiffer
  <2> QED
    BY <1>5, <2>1, <2>2, <2>3, <2>4
<1>10. DatedOnce(sent)
  <2>1. \A other \in Dates : Once(sent, other)
    BY <1>7, PrefixesDiffer
  <2>2. ASSUME \E i \in DOMAIN sent : sent[i].role \in {"user", "system"}
        PROVE  \E other \in Dates : Mentions(sent, other)
    <3>1. \E i \in 1 .. n : told[i].role \in {"user", "system"}
      BY <1>5, <1>6, <2>2
    <3>2. PICK i \in 1 .. n : Holds(dated[i].content, date)
      BY <1>4, <3>1
    <3>3. Mentions(sent, date)
      BY <1>6, <1>8, <3>2 DEF Mentions
    <3> QED
      BY <3>3
  <2> QED
    BY <2>1, <2>2 DEF DatedOnce
<1> QED
  BY <1>9, <1>10 DEF sent

\* Where the messages are in the request, and what is kept of them.
LEMMA RequestFrames ==
    ASSUME NEW messages \in Seq(SentMessages), NEW date \in Dates
    PROVE  /\ Request(messages, date) \in Seq(SentMessages)
           /\ Front(messages) \in 0 .. 1
           /\ Len(Request(messages, date)) = Front(messages) + Len(messages)
           /\ \A i \in 1 .. Len(Request(messages, date)) :
                 \/ i \in 1 .. Front(messages)
                 \/ i - Front(messages) \in 1 .. Len(messages)
           /\ \A i \in 1 .. Front(messages) :
                 Request(messages, date)[i].role = "system"
           /\ \A i \in 1 .. Len(Request(messages, date)) :
                 Request(messages, date)[i].role # "assistant" =>
                    Request(messages, date)[i].tool_calls = <<>>
           /\ \A k \in 1 .. Len(messages) :
                 LET sent == Request(messages, date)[Front(messages) + k]
                 IN  /\ sent.role = messages[k].role
                     /\ sent.role = "assistant" =>
                           sent.tool_calls = messages[k].tool_calls
                     /\ sent.role = "tool" =>
                           sent.tool_call_id = messages[k].tool_call_id
                     /\ sent.role \in {"assistant", "tool"} =>
                           sent.content = messages[k].content
<1> DEFINE told == Instructed(messages)
           dated == Dated(told, date)
           sent == Request(messages, date)
           front == Front(messages)
           n == Len(messages)
<1>1. /\ told \in Seq(SentMessages) /\ front \in 0 .. 1
      /\ Len(told) = front + n /\ n \in Nat
  BY InstructedShape, LenProperties
<1>2. /\ front = 1 => told[1] = SystemSays(<<SystemMessage>>)
      /\ \A k \in 1 .. n : k > 1 \/ ~Given(messages) => told[front + k] = messages[k]
  BY InstructedShape
<1>3. Given(messages) => /\ told[1].role = "system" /\ messages[1].role = "system"
                         /\ front = 0
  <2> SUFFICES ASSUME Given(messages)
               PROVE  /\ told[1].role = "system" /\ messages[1].role = "system"
                      /\ front = 0
    OBVIOUS
  <2>1. front = 0
    BY Zenon DEF Front
  <2>2. messages[1].role = "system"
    BY DEF Given
  <2>3. PICK content : told[1] = SystemSays(content)
    <3> HIDE DEF told
    <3> QED
      BY InstructedShape, Zenon DEF told
  <2>4. SystemSays(content).role = "system"
    BY DEF SystemSays
  <2> QED
    BY <2>1, <2>2, <2>3, <2>4
<1>4. /\ sent \in Seq(SentMessages) /\ Len(sent) = front + n
      /\ \A i \in 1 .. front + n : /\ dated[i] \in SentMessages
                                   /\ Frames(dated[i], told[i])
                                   /\ sent[i] = Sent(dated[i])
  BY <1>1, RequestStages
<1> HIDE DEF told
<1>5. \A i \in 1 .. front + n :
         dated[i].content = IF TakesDate(told, i) THEN WithDate(told[i], date)
                            ELSE told[i].content
  BY <1>1, DatedShape
<1> HIDE DEF dated, sent, front, n
<1>6. ASSUME NEW i \in 1 .. front + n
      PROVE  /\ sent[i].role = told[i].role
             /\ sent[i].tool_calls =
                   IF told[i].role = "assistant" THEN told[i].tool_calls ELSE <<>>
             /\ sent[i].tool_call_id =
                   IF told[i].role = "tool" THEN told[i].tool_call_id ELSE ""
             /\ told[i].role \in {"assistant", "tool"} =>
                   sent[i].content = told[i].content
  <2>1. dated[i] \in SentMessages /\ Frames(dated[i], told[i]) /\ sent[i] = Sent(dated[i])
    BY <1>4
  <2>2. told[i].role \in {"assistant", "tool"} => ~TakesDate(told, i)
    BY DEF TakesDate, Users
  <2>3. told[i].role \in {"assistant", "tool"} => dated[i].content = told[i].content
    BY <1>5, <2>2
  <2> QED
    BY <2>1, <2>3, SentFields DEF Frames
<1>7. \A i \in 1 .. front : sent[i].role = "system"
  <2> SUFFICES ASSUME NEW i \in 1 .. front PROVE sent[i].role = "system"
    OBVIOUS
  <2>1. front = 1 /\ i = 1 /\ i \in 1 .. front + n
    BY <1>1
  <2>2. told[i] = SystemSays(<<SystemMessage>>)
    BY <1>2, <2>1
  <2>3. told[i].role = "system"
    <3>1. SystemSays(<<SystemMessage>>).role = "system"
      BY DEF SystemSays
    <3> QED
      BY <2>2, <3>1, Zenon
  <2> QED
    BY <1>6, <2>1, <2>3
<1>8. ASSUME NEW k \in 1 .. n
      PROVE  /\ sent[front + k].role = messages[k].role
             /\ sent[front + k].role = "assistant" =>
                   sent[front + k].tool_calls = messages[k].tool_calls
             /\ sent[front + k].role = "tool" =>
                   sent[front + k].tool_call_id = messages[k].tool_call_id
             /\ sent[front + k].role \in {"assistant", "tool"} =>
                   sent[front + k].content = messages[k].content
  <2>1. front + k \in 1 .. front + n
    BY <1>1
  <2>2. CASE k > 1 \/ ~Given(messages)
    <3>1. told[front + k] = messages[k]
      BY <1>2, <2>2
    <3> QED
      BY <1>6, <2>1, <3>1
  <2>3. CASE ~(k > 1) /\ Given(messages)
    <3>1. k = 1 /\ front + k = 1
      BY <1>3, <2>3
    <3>2. sent[1].role = "system"
      BY <1>3, <1>6, <2>1, <2>3, <3>1
    <3> QED
      BY <1>3, <2>3, <3>1, <3>2
  <2> QED
    BY <2>2, <2>3
<1>9. \A i \in 1 .. front + n : sent[i].role # "assistant" => sent[i].tool_calls = <<>>
  BY <1>6
<1>10. \A i \in 1 .. front + n : i \in 1 .. front \/ i - front \in 1 .. n
  BY <1>1
<1> QED
  BY <1>1, <1>4, <1>7, <1>8, <1>9, <1>10 DEF sent, front, n

\* With the date in front or without it a text is the same behind the date.
Behind(text1, text2) ==
    \E m \in 0 .. 1 :
        /\ m <= Len(text1) /\ \A i \in 1 .. m : text1[i] \in Dates
        /\ Len(text1) - m = Len(text2)
        /\ \A i \in 1 .. Len(text2) : text1[m + i] = text2[i]

\* So it is for the text of the message that takes the date.
LEMMA WithDateBehind ==
    ASSUME NEW message \in SentMessages, NEW date \in Dates
    PROVE  /\ Behind(WithDate(message, date), message.content)
           /\ Behind(message.content, message.content)
<1> DEFINE content == message.content
           one == <<date>>
           dated == one \o content
<1>1. content \in Seq(Pieces) /\ Len(content) \in Nat
  BY LenProperties DEF SentMessages
<1>2. one \in Seq(Pieces) /\ Len(one) = 1 /\ one[1] = date
  <2>1. date \in Pieces
    BY DEF Pieces
  <2> QED
    BY <2>1
<1> HIDE DEF one, content
<1>3. /\ dated \in Seq(Pieces) /\ Len(dated) = 1 + Len(content)
      /\ \A i \in 1 .. 1 + Len(content) :
            dated[i] = IF i <= 1 THEN one[i] ELSE content[i - 1]
  <2>1. /\ dated \in Seq(Pieces) /\ Len(dated) = Len(one) + Len(content)
        /\ \A i \in 1 .. Len(one) + Len(content) :
              dated[i] = IF i <= Len(one) THEN one[i] ELSE content[i - Len(one)]
    BY <1>1, <1>2, ConcatProperties
  <2> HIDE DEF dated
  <2> QED
    BY <1>2, <2>1
<1> HIDE DEF dated
<1>4. Behind(content, content)
  <2>1. /\ 0 <= Len(content) /\ \A i \in 1 .. 0 : content[i] \in Dates
        /\ Len(content) - 0 = Len(content)
        /\ \A i \in 1 .. Len(content) : content[0 + i] = content[i]
    BY <1>1
  <2> SUFFICES \E m \in 0 .. 1 :
                  /\ m <= Len(content) /\ \A i \in 1 .. m : content[i] \in Dates
                  /\ Len(content) - m = Len(content)
                  /\ \A i \in 1 .. Len(content) : content[m + i] = content[i]
    BY DEF Behind
  <2> WITNESS 0 \in 0 .. 1
  <2> QED
    BY <2>1
<1>5. Behind(dated, content)
  <2>1. \A i \in 1 .. 1 : dated[i] \in Dates
    BY <1>1, <1>2, <1>3
  <2>2. \A i \in 1 .. Len(content) : dated[1 + i] = content[i]
    <3> SUFFICES ASSUME NEW i \in 1 .. Len(content) PROVE dated[1 + i] = content[i]
      OBVIOUS
    <3>1. 1 + i \in 1 .. 1 + Len(content) /\ ~(1 + i <= 1) /\ (1 + i) - 1 = i
      BY <1>1
    <3> QED
      BY <1>3, <3>1
  <2>3. 1 <= Len(dated) /\ Len(dated) - 1 = Len(content)
    BY <1>1, <1>3
  <2> QED
    BY <2>1, <2>2, <2>3 DEF Behind
<1>6. WithDate(message, date) = content \/ WithDate(message, date) = dated
  BY Zenon DEF WithDate, content, dated, one
<1> QED
  BY <1>4, <1>5, <1>6 DEF content

\* Two texts that are the same behind the date as a third are so to each other.
LEMMA BehindSame ==
    ASSUME NEW text1, NEW text2, NEW content, Len(content) \in Nat,
           Behind(text1, content), Behind(text2, content)
    PROVE  SameButDate(text1, text2)
<1>1. PICK m \in 0 .. 1 :
        /\ m <= Len(text1) /\ \A i \in 1 .. m : text1[i] \in Dates
        /\ Len(text1) - m = Len(content)
        /\ \A i \in 1 .. Len(content) : text1[m + i] = content[i]
  BY DEF Behind
<1>2. PICK n \in 0 .. 1 :
        /\ n <= Len(text2) /\ \A i \in 1 .. n : text2[i] \in Dates
        /\ Len(text2) - n = Len(content)
        /\ \A i \in 1 .. Len(content) : text2[n + i] = content[i]
  BY DEF Behind
<1>3. /\ Len(text1) - m = Len(text2) - n
      /\ \A i \in 1 .. Len(text1) - m : text1[m + i] = text2[n + i]
  BY <1>1, <1>2
<1> QED
  BY <1>1, <1>2, <1>3 DEF SameButDate

\* A request is a repetition of the one before it.
LEMMA RequestRepeats ==
    ASSUME NEW messages \in Seq(SentMessages), NEW turn \in Seq(SentMessages),
           Len(turn) > 0,
           \A i \in 1 .. Len(turn) : turn[i].role \in {"assistant", "tool"},
           NEW date \in Dates, NEW later \in Dates
    PROVE  /\ Front(messages \o turn) = Front(messages)
           /\ \A i \in 1 .. Len(Request(messages, date)) :
                 /\ SameButDate(Request(messages, date)[i].content,
                                Request(messages \o turn, later)[i].content)
                 /\ Frames(Request(messages \o turn, later)[i],
                           Request(messages, date)[i])
<1> DEFINE more == messages \o turn
           told == Instructed(messages)
           told2 == Instructed(more)
           front == Front(messages)
           n == Len(messages)
           t == Len(turn)
           sent == Request(messages, date)
           sent2 == Request(more, later)
<1>1. n \in Nat /\ t \in Nat /\ t > 0
  BY LenProperties
<1>2. /\ more \in Seq(SentMessages) /\ Len(more) = n + t
      /\ \A i \in 1 .. n + t : more[i] = IF i <= n THEN messages[i] ELSE turn[i - n]
  BY ConcatProperties
<1> HIDE DEF more
<1>3. Given(more) <=> Given(messages)
  <2>1. n > 0 <=> messages # <<>>
    BY EmptySeq, <1>1
  <2>2. more # <<>>
    BY EmptySeq, <1>1, <1>2
  <2>3. CASE n > 0
    <3>1. more[1] = messages[1]
      BY <1>1, <1>2, <2>3
    <3> QED
      BY <2>1, <2>2, <2>3, <3>1 DEF Given
  <2>4. CASE n = 0
    <3>1. more[1] = turn[1] /\ turn[1].role # "system"
      BY <1>1, <1>2, <2>4
    <3> QED
      BY <2>1, <2>4, <3>1 DEF Given
  <2> QED
    BY <1>1, <2>3, <2>4
<1>4. Front(more) = front
  BY <1>3, Zenon DEF Front
<1>5. /\ told \in Seq(SentMessages) /\ front \in 0 .. 1 /\ Len(told) = front + n
      /\ Given(messages) => n > 0
      /\ front = 1 => told[1] = SystemSays(<<SystemMessage>>)
      /\ \A i \in 1 .. n : i > 1 \/ ~Given(messages) => told[front + i] = messages[i]
  BY InstructedShape
<1>6. /\ told2 \in Seq(SentMessages) /\ Len(told2) = front + (n + t)
      /\ front = 1 => told2[1] = SystemSays(<<SystemMessage>>)
      /\ \A i \in 1 .. n + t : i > 1 \/ ~Given(more) => told2[front + i] = more[i]
  <2>1. /\ told2 \in Seq(SentMessages) /\ Len(told2) = Front(more) + Len(more)
        /\ Front(more) = 1 => told2[1] = SystemSays(<<SystemMessage>>)
        /\ \A i \in 1 .. Len(more) : i > 1 \/ ~Given(more) =>
              told2[Front(more) + i] = more[i]
    BY <1>2, InstructedShape
  <2> HIDE DEF told2
  <2> QED
    BY <1>2, <1>4, <2>1
<1>21. Given(messages) =>
         told[1] = SystemSays(WithInstruction(messages[1].content))
  BY InstructedShape
<1>22. Given(more) =>
         told2[1] = SystemSays(WithInstruction(more[1].content))
  BY <1>2, InstructedShape
<1> HIDE DEF told, told2, front, n, t
<1>7. n \in Nat /\ t \in Nat /\ t > 0 /\ front \in 0 .. 1
  BY <1>1, <1>5
<1>8. Given(messages) => front = 0
  BY Zenon DEF Front, front
<1>9. \A i \in 1 .. n : i > 1 \/ ~Given(messages) => told[front + i] = messages[i]
  BY <1>5
<1>10. \A i \in 1 .. n + t : i > 1 \/ ~Given(messages) => told2[front + i] = more[i]
  BY <1>3, <1>6
<1>11. Given(messages) => n > 0 /\ told2[1] = told[1]
  <2> SUFFICES ASSUME Given(messages) PROVE n > 0 /\ told2[1] = told[1]
    OBVIOUS
  <2>1. n > 0
    BY <1>5, Zenon
  <2>2. more[1] = messages[1]
    <3>1. n > 0 => more[1] = messages[1]
      BY <1>2, <1>7
    <3> QED
      BY <2>1, <3>1
  <2> QED
    BY <1>3, <1>21, <1>22, <2>1, <2>2, Zenon
<1>12. ASSUME NEW i \in 1 .. front + n PROVE told2[i] = told[i]
  <2>1. CASE i = 1 /\ Given(messages)
    BY <1>11, <2>1
  <2>2. CASE i = 1 /\ front = 1
    BY <1>5, <1>6, <2>2, Zenon
  <2>3. CASE ~(i = 1 /\ Given(messages)) /\ ~(i = 1 /\ front = 1)
    <3>1. i - front \in 1 .. n /\ i - front \in 1 .. n + t /\ front + (i - front) = i
      BY <1>7, <2>3
    <3>2. i - front > 1 \/ ~Given(messages)
      BY <1>7, <1>8, <2>3
    <3>3. told[i] = messages[i - front] /\ told2[i] = more[i - front]
      BY <1>9, <1>10, <3>1, <3>2
    <3>4. more[i - front] = messages[i - front]
      BY <1>2, <3>1
    <3> QED
      BY <3>3, <3>4
  <2> QED
    BY <2>1, <2>2, <2>3
<1>13. ASSUME NEW i \in 1 .. front + (n + t), i > front + n
       PROVE  told2[i].role \in {"assistant", "tool"}
  <2>1. /\ i - front \in 1 .. n + t /\ front + (i - front) = i /\ ~(i - front <= n)
        /\ (i - front) - n \in 1 .. t
    BY <1>7, <1>13
  <2>2. i - front > 1 \/ ~Given(messages)
    BY <1>7, <1>11, <2>1
  <2>3. told2[i] = more[i - front]
    BY <1>10, <2>1, <2>2
  <2>4. more[i - front] = turn[(i - front) - n]
    BY <1>2, <2>1
  <2> QED
    BY <2>1, <2>3, <2>4 DEF t
<1>14. Users(told2) = Users(told)
  <2>1. DOMAIN told = 1 .. front + n /\ DOMAIN told2 = 1 .. front + (n + t)
    BY <1>5, <1>6
  <2>2. ASSUME NEW i \in Users(told) PROVE i \in Users(told2)
    <3>1. i \in 1 .. front + n /\ told[i].role = "user"
      BY <2>1, <2>2 DEF Users
    <3>2. i \in 1 .. front + (n + t)
      BY <1>7, <3>1
    <3> QED
      BY <1>12, <2>1, <3>1, <3>2 DEF Users
  <2>3. ASSUME NEW i \in Users(told2) PROVE i \in Users(told)
    <3>1. i \in 1 .. front + (n + t) /\ told2[i].role = "user"
      BY <2>1, <2>3 DEF Users
    <3>2. ~(i > front + n)
      BY <1>13, <3>1
    <3>3. i \in 1 .. front + n
      BY <1>7, <3>1, <3>2
    <3> QED
      BY <1>12, <2>1, <3>1, <3>3 DEF Users
  <2> QED
    BY <2>2, <2>3
<1>15. \A i \in 1 .. front + n : TakesDate(told2, i) <=> TakesDate(told, i)
  <2> SUFFICES ASSUME NEW i \in 1 .. front + n
               PROVE  TakesDate(told2, i) <=> TakesDate(told, i)
    OBVIOUS
  <2>1. i \in 1 .. Len(told) /\ i \in 1 .. Len(told2)
    BY <1>5, <1>6, <1>7
  <2> QED
    BY <1>12, <1>14, <2>1 DEF TakesDate
<1>16. /\ Len(sent) = front + n
       /\ \A i \in 1 .. front + n :
             /\ Dated(told, date)[i] \in SentMessages
             /\ Frames(Dated(told, date)[i], told[i])
             /\ sent[i] = Sent(Dated(told, date)[i])
  BY <1>5, RequestStages DEF told
<1>17. \A i \in 1 .. front + (n + t) :
             /\ Dated(told2, later)[i] \in SentMessages
             /\ Frames(Dated(told2, later)[i], told2[i])
             /\ sent2[i] = Sent(Dated(told2, later)[i])
  BY <1>2, <1>6, RequestStages, ZenonT(60) DEF told2
<1>18. \A i \in 1 .. front + n :
          Dated(told, date)[i].content =
             IF TakesDate(told, i) THEN WithDate(told[i], date) ELSE told[i].content
  BY <1>5, DatedShape, SMTT(30)
<1>19. \A i \in 1 .. front + (n + t) :
          Dated(told2, later)[i].content =
             IF TakesDate(told2, i) THEN WithDate(told2[i], later) ELSE told2[i].content
  BY <1>6, DatedShape, SMTT(30)
<1> HIDE DEF sent, sent2
<1>20. ASSUME NEW i \in 1 .. front + n
       PROVE  SameButDate(sent[i].content, sent2[i].content) /\ Frames(sent2[i], sent[i])
  <2> DEFINE before == Dated(told, date)[i]
             after == Dated(told2, later)[i]
  <2>1. i \in 1 .. front + (n + t)
    BY <1>7
  <2>2. /\ before \in SentMessages /\ Frames(before, told[i]) /\ sent[i] = Sent(before)
        /\ after \in SentMessages /\ Frames(after, told[i]) /\ sent2[i] = Sent(after)
    BY <1>12, <1>16, <1>17, <2>1
  <2>3. told[i] \in SentMessages
    BY <1>5
  <2>4. /\ before.content \in {WithDate(told[i], date), told[i].content}
        /\ after.content \in {WithDate(told[i], later), told[i].content}
    BY <1>12, <1>18, <1>19, <2>1
  <2> HIDE DEF before, after
  <2>5. Behind(before.content, told[i].content) /\ Behind(after.content, told[i].content)
    BY <2>3, <2>4, WithDateBehind
  <2>6. Len(told[i].content) \in Nat
    BY <2>3, LenProperties DEF SentMessages
  <2>7. SameButDate(before.content, after.content)
    BY <2>5, <2>6, BehindSame
  <2>8. Frames(after, before)
    BY <2>2 DEF Frames
  <2>9. sent[i].content = before.content /\ sent2[i].content = after.content
    BY <2>2, SentFields
  <2>10. Frames(sent2[i], sent[i])
    BY <2>2, <2>8, SentFields DEF Frames
  <2> QED
    BY <2>7, <2>9, <2>10
<1> QED
  BY <1>4, <1>16, <1>20 DEF sent, sent2, more, front

\* What the messages of a tool round say (Agent.cc:317-325).
LEMMA TurnSays ==
    ASSUME TypeOK, NEW results \in Results
    PROVE  /\ Turn(results)[1].role = "assistant"
           /\ Turn(results)[1].content = stream.content
           /\ stream.content \in Seq(Token)
           /\ \A i \in 2 .. Len(stream.tool_calls) + 1 :
                 /\ Turn(results)[i].role = "tool"
                 /\ Turn(results)[i].content \in ToolTexts
<1> DEFINE calls == stream.tool_calls
           n == Len(calls)
           first == [role |-> "assistant", content |-> stream.content,
                     tool_calls |-> calls, tool_call_id |-> ""]
<1>1. calls \in Seq(ToolCalls) /\ n \in Nat /\ stream.content \in Seq(Token)
  BY LenProperties DEF TypeOK
<1>2. Turn(results) = [i \in 1 .. n + 1 |->
          IF i = 1 THEN first ELSE Answer(calls[i - 1], results[i - 1])]
  BY Zenon DEF Turn
<1>3. \A i \in 1 .. n : results[i] \in ToolTexts
  <2>1. DOMAIN calls = 1 .. n
    BY <1>1
  <2> QED
    BY <2>1 DEF Results
<1>4. first.role = "assistant" /\ first.content = stream.content
  OBVIOUS
<1> HIDE DEF first, calls, n
<1>5. Turn(results)[1] = first
  BY <1>1, <1>2
<1>6. ASSUME NEW i \in 2 .. n + 1
      PROVE  /\ Turn(results)[i].role = "tool"
             /\ Turn(results)[i].content \in ToolTexts
  <2>1. i \in 1 .. n + 1 /\ i # 1 /\ i - 1 \in 1 .. n
    BY <1>1
  <2>2. Turn(results)[i] = Answer(calls[i - 1], results[i - 1])
    BY <1>2, <2>1
  <2>3. /\ Answer(calls[i - 1], results[i - 1]).role = "tool"
        /\ Answer(calls[i - 1], results[i - 1]).content = results[i - 1]
    BY DEF Answer
  <2> QED
    BY <1>3, <2>1, <2>2, <2>3
<1> QED
  BY <1>1, <1>4, <1>5, <1>6 DEF calls, n

\* They are messages of the LLM and of tools, without a prefix.
LEMMA TurnPlain ==
    ASSUME TypeOK, NEW results \in Results
    PROVE  /\ Turn(results) \in Seq(SentMessages) /\ Len(Turn(results)) > 0
           /\ \A i \in 1 .. Len(Turn(results)) :
                 /\ Turn(results)[i].role \in {"assistant", "tool"}
                 /\ PrefixesApart => \A piece \in Prefixes :
                       ~Holds(Turn(results)[i].content, piece)
<1> DEFINE turn == Turn(results)
           n == Len(stream.tool_calls)
<1>1. stream.tool_calls \in Seq(ToolCalls) /\ n \in Nat
  BY LenProperties DEF TypeOK
<1>2. turn \in Seq(SentMessages) /\ Len(turn) = n + 1
  BY TurnShape, MessagesFit
<1>3. /\ turn[1].role = "assistant" /\ turn[1].content \in Seq(Token)
      /\ \A i \in 2 .. n + 1 : turn[i].role = "tool" /\ turn[i].content \in ToolTexts
  BY TurnSays
<1> HIDE DEF turn, n
<1>4. ASSUME NEW i \in 1 .. n + 1
      PROVE  i = 1 \/ i \in 2 .. n + 1
  BY <1>1
<1>5. ASSUME PrefixesApart, NEW i \in 1 .. n + 1, NEW piece \in Prefixes
      PROVE  ~Holds(turn[i].content, piece)
  <2>1. piece \notin Token /\ piece \notin {"result", "failure", "not found"}
    BY <1>5 DEF PrefixesApart
  <2>2. CASE i = 1
    <3>1. turn[i].content \in Seq(Token)
      BY <1>3, <2>2
    <3>2. \A j \in 1 .. Len(turn[i].content) : turn[i].content[j] \in Token
      BY <3>1
    <3> QED
      BY <2>1, <3>2 DEF Holds
  <2>3. CASE i \in 2 .. n + 1
    <3>1. turn[i].content \in ToolTexts
      BY <1>3, <2>3
    <3>2. PICK word \in {"result", "failure", "not found"} : turn[i].content = <<word>>
      BY <3>1 DEF ToolTexts
    <3>3. Holds(<<word>>, piece) => piece = word
      BY HoldsOne
    <3> QED
      BY <2>1, <3>2, <3>3
  <2> QED
    BY <1>4, <2>2, <2>3
<1>6. \A i \in 1 .. n + 1 : turn[i].role \in {"assistant", "tool"}
  BY <1>3, <1>4
<1>7. Len(turn) > 0
  BY <1>1, <1>2
<1> QED
  BY <1>2, <1>5, <1>6, <1>7 DEF turn

\* Such messages behind the others leave the prefixes where they are.
LEMMA OwnExtends ==
    ASSUME NEW messages \in Seq(SentMessages), NEW turn \in Seq(SentMessages),
           OwnPrefixes(messages),
           \A i \in 1 .. Len(turn) :
              /\ turn[i].role \in {"assistant", "tool"}
              /\ \A piece \in Prefixes : ~Holds(turn[i].content, piece)
    PROVE  OwnPrefixes(messages \o turn)
<1> DEFINE more == messages \o turn
           n == Len(messages)
           t == Len(turn)
<1>1. n \in Nat /\ t \in Nat
  BY LenProperties
<1>2. /\ more \in Seq(SentMessages) /\ Len(more) = n + t
      /\ \A i \in 1 .. n + t : more[i] = IF i <= n THEN messages[i] ELSE turn[i - n]
  BY ConcatProperties
<1>3. \A i \in 1 .. n : OwnAt(messages, i)
  BY OwnHolds
<1> HIDE DEF more, n, t
<1>4. \A i \in 1 .. n : i \in 1 .. n + t /\ more[i] = messages[i]
  BY <1>1, <1>2
<1>5. ASSUME NEW i \in 1 .. n PROVE OwnAt(more, i)
  <2>1. \A j \in 1 .. i - 1 : more[j] = messages[j]
    BY <1>1, <1>4
  <2> QED
    BY <1>3, <1>4, <2>1 DEF OwnAt
<1>6. ASSUME NEW i \in 1 .. n + t, i > n PROVE OwnAt(more, i)
  <2>1. i - n \in 1 .. t /\ ~(i <= n)
    BY <1>1, <1>6
  <2>2. more[i] = turn[i - n]
    BY <1>2, <2>1
  <2>3. /\ more[i].role # "system"
        /\ \A piece \in Prefixes : ~Holds(more[i].content, piece)
    BY <2>1, <2>2 DEF t
  <2>4. \A piece \in Prefixes : Single(more[i].content, piece)
    BY <2>3 DEF Single, Holds
  <2> QED
    BY <2>3, <2>4, PrefixesDiffer DEF OwnAt
<1>7. \A i \in 1 .. n + t : OwnAt(more, i)
  <2> SUFFICES ASSUME NEW i \in 1 .. n + t PROVE OwnAt(more, i)
    OBVIOUS
  <2>1. i \in 1 .. n \/ i > n
    BY <1>1
  <2> QED
    BY <1>5, <1>6, <2>1
<1> QED
  BY <1>2, <1>7, OwnHolds DEF more

\* The calls are followed by their answers in the request as in the history.
LEMMA AnswersSent ==
    ASSUME NEW messages \in Seq(SentMessages), CallsFollowed(messages),
           NEW date \in Dates
    PROVE  CallsFollowed(Request(messages, date))
<1> DEFINE sent == Request(messages, date)
           front == Front(messages)
           n == Len(messages)
<1>1. n \in Nat /\ DOMAIN messages = 1 .. n
  BY LenProperties
<1>2. /\ sent \in Seq(SentMessages) /\ front \in 0 .. 1 /\ Len(sent) = front + n
      /\ \A i \in 1 .. Len(sent) : i \in 1 .. front \/ i - front \in 1 .. n
      /\ \A i \in 1 .. front : sent[i].role = "system"
      /\ \A i \in 1 .. Len(sent) : sent[i].role # "assistant" => sent[i].tool_calls = <<>>
      /\ \A k \in 1 .. n :
            /\ sent[front + k].role = messages[k].role
            /\ sent[front + k].role = "assistant" =>
                  sent[front + k].tool_calls = messages[k].tool_calls
            /\ sent[front + k].role = "tool" =>
                  sent[front + k].tool_call_id = messages[k].tool_call_id
  BY RequestFrames
<1>3. DOMAIN sent = 1 .. front + n
  BY <1>2
<1> HIDE DEF sent, front, n
<1>4. SUFFICES ASSUME NEW i \in 1 .. front + n, NEW j \in DOMAIN sent[i].tool_calls
               PROVE  /\ i + j <= front + n
                      /\ sent[i + j].role = "tool"
                      /\ sent[i + j].tool_call_id = sent[i].tool_calls[j].id
  BY <1>2, <1>3 DEF CallsFollowed, sent
<1>5. sent[i].role = "assistant"
  BY <1>2, <1>4
<1>6. i - front \in 1 .. n /\ front + (i - front) = i
  <2>1. i \notin 1 .. front
    BY <1>2, <1>5
  <2> QED
    BY <1>1, <1>2, <2>1
<1> DEFINE k == i - front
<1>7. k \in 1 .. n /\ front + k = i
  BY <1>6
<1> HIDE DEF k
<1>8. sent[i].tool_calls = messages[k].tool_calls
  BY <1>2, <1>5, <1>7
<1>9. /\ k + j <= n /\ messages[k + j].role = "tool"
      /\ messages[k + j].tool_call_id = messages[k].tool_calls[j].id
  BY <1>1, <1>4, <1>7, <1>8 DEF CallsFollowed, n
<1>10. j \in Nat
  <2>1. messages[k] \in SentMessages
    BY <1>7 DEF n
  <2>2. messages[k].tool_calls \in Seq(ToolCalls)
    BY <2>1 DEF SentMessages
  <2> QED
    BY <1>4, <1>8, <2>2
<1>11. k + j \in 1 .. n /\ front + (k + j) = i + j /\ i + j <= front + n
  BY <1>1, <1>2, <1>7, <1>9, <1>10
<1>12. sent[i + j].role = "tool" /\ sent[i + j].tool_call_id = messages[k + j].tool_call_id
  BY <1>2, <1>9, <1>11
<1> QED
  BY <1>8, <1>9, <1>11, <1>12

-----------------------------------------------------------------------------
(* The requests of a run.                                                   *)

\* A run with the requests is a run (the steps are those of Assistant).
LEMMA RequestRun == RequestSpec => Spec
<1>1. RequestInit => Init
  BY DEF RequestInit
<1>2. [RequestNext]_requestVars => [Next]_vars
  BY DEF RequestNext, requestVars
<1> QED
  BY <1>1, <1>2, PTL DEF RequestSpec, Spec

\* A run begins without requests, and while it goes on the last one was made
\* of its history.
LastRequest ==
    /\ outcome = "idle" => requests = 0
    /\ outcome = "running" =>
        \E date \in Dates :
            request = BuildRequestBody(PrependSystemMessage(history, date))

\* A step either sends a request of the history it leaves, or none, and then
\* the request stays the one it was (Agent.cc:283-297).
LEMMA StepRequest ==
    ASSUME IInv, [RequestNext]_requestVars
    PROVE  \/ /\ requests' = requests + 1 /\ outcome' # "idle"
              /\ \E date \in Dates :
                    request' = BuildRequestBody(PrependSystemMessage(history', date))
           \/ /\ requests' = requests /\ request' = request
              /\ outcome' = "running" => outcome = "running" /\ history' = history
              /\ outcome' = "idle" => outcome = "idle"
<1>1. requests \in Nat
  BY DEF IInv, TypeOK
<1>2. CASE UNCHANGED requestVars
  BY <1>2 DEF requestVars, vars, runContext, caller
<1>3. CASE RequestNext
  <2>1. \/ requests' = requests + 1 /\ outcome' # "idle"
        \/ /\ requests' = requests
           /\ outcome' = "running" => outcome = "running" /\ history' = history
           /\ outcome' = "idle" => outcome = "idle"
    <3>1. CASE Run \/ RunTools
      BY <3>1 DEF Run, RunTools, DoLLMCall, SendRequest, Finish, FinishError
    <3>2. CASE AnyDelta \/ Reply \/ StreamFailed \/ Terminated
      BY <3>2 DEF AnyDelta, Delta, Reply, StreamFailed, Terminated, Finish, FinishError,
                  vars, runContext, caller
    <3> QED
      BY <1>3, <3>1, <3>2 DEF RequestNext, Next
  <2>2. CASE requests' = requests + 1 /\ outcome' # "idle"
    <3>1. requests' > requests
      BY <1>1, <2>2
    <3> QED
      BY <1>3, <2>2, <3>1 DEF RequestNext, CallLLM
  <2>3. CASE /\ requests' = requests
             /\ outcome' = "running" => outcome = "running" /\ history' = history
             /\ outcome' = "idle" => outcome = "idle"
    <3>1. ~(requests' > requests)
      BY <1>1, <2>3
    <3> QED
      BY <1>3, <2>3, <3>1 DEF RequestNext, CallLLM
  <2> QED
    BY <2>1, <2>2, <2>3
<1> QED
  BY <1>2, <1>3

\* Every step keeps that so.
LEMMA StepLastRequest ==
    IInv /\ LastRequest /\ [RequestNext]_requestVars => LastRequest'
<1> SUFFICES ASSUME IInv, LastRequest, [RequestNext]_requestVars PROVE LastRequest'
  OBVIOUS
<1>1. CASE /\ outcome' # "idle"
           /\ \E date \in Dates :
                 request' = BuildRequestBody(PrependSystemMessage(history', date))
  BY <1>1 DEF LastRequest
<1>2. CASE /\ requests' = requests /\ request' = request
           /\ outcome' = "running" => outcome = "running" /\ history' = history
           /\ outcome' = "idle" => outcome = "idle"
  BY <1>2 DEF LastRequest
<1> QED
  BY <1>1, <1>2, StepRequest

\* The history holds of the prefixes what the caller wrote (PrefixesApart).
LEMMA StepOwnHistory ==
    ASSUME PrefixesApart, IInv, OwnPrefixes(history), [Next]_vars
    PROVE  OwnPrefixes(history')
<1>1. CASE RunTools
  <2>1. PICK results \in Results : history' = history \o Turn(results)
    BY <1>1 DEF RunTools
  <2>2. TypeOK /\ history \in Seq(SentMessages)
    BY MessagesFit DEF IInv, TypeOK
  <2> DEFINE turn == Turn(results)
  <2>3. /\ turn \in Seq(SentMessages)
        /\ \A i \in 1 .. Len(turn) :
              /\ turn[i].role \in {"assistant", "tool"}
              /\ \A piece \in Prefixes : ~Holds(turn[i].content, piece)
    BY <2>2, TurnPlain
  <2> HIDE DEF turn
  <2>4. OwnPrefixes(history \o turn)
    BY <2>2, <2>3, OwnExtends
  <2> QED
    BY <2>1, <2>4 DEF turn
<1>2. CASE history' = history
  BY <1>2
<1>3. RunTools \/ history' = history
  BY DEF Next, Run, AnyDelta, Delta, Reply, StreamFailed, Terminated, vars, runContext
<1> QED
  BY <1>1, <1>2, <1>3

\* Every request of a run, whatever the LLM answers, has the instruction and a
\* date once, and its calls are answered, if the caller writes no more of the
\* prefixes than PrefixesApart says and neither the LLM nor a tool repeats them.
THEOREM RequestsSound == ASSUME PrefixesApart PROVE RequestSpec => []RequestSound
<1> DEFINE Inv == OwnPrefixes(history) /\ Answered /\ RequestSound
<1>1. RequestInit => Inv
  <2> SUFFICES ASSUME RequestInit PROVE Inv
    OBVIOUS
  <2>1. OwnPrefixes(history)
    BY DEF RequestInit, Init, PrefixesApart
  <2>2. Answered
    <3>1. \A i \in DOMAIN history : history[i].tool_calls = <<>>
      BY PromptAssumption DEF RequestInit, Init, PromptAssumption
    <3> QED
      BY <3>1 DEF Answered
  <2>3. ~(requests > 0)
    BY DEF RequestInit, Init
  <2> QED
    BY <2>1, <2>2, <2>3 DEF RequestSound
<1>2. IInv /\ IInv' /\ Answered' /\ Inv /\ [RequestNext]_requestVars => Inv'
  <2> SUFFICES ASSUME IInv, IInv', Answered', Inv, [RequestNext]_requestVars
               PROVE  Inv'
    OBVIOUS
  <2>1. [Next]_vars
    BY DEF RequestNext, requestVars
  <2>2. OwnPrefixes(history')
    BY <2>1, StepOwnHistory
  <2>3. history' \in Seq(SentMessages)
    BY MessagesFit DEF IInv, TypeOK
  <2>4. CallsFollowed(history')
    BY DEF Answered, CallsFollowed
  <2>5. CASE \E date \in Dates :
                request' = BuildRequestBody(PrependSystemMessage(history', date))
    <3>1. PICK date \in Dates :
             request' = BuildRequestBody(PrependSystemMessage(history', date))
      BY <2>5
    <3>2. request'.messages = Request(history', date)
      BY <3>1 DEF Request
    <3>3. InstructedOnce(Request(history', date)) /\ DatedOnce(Request(history', date))
      BY <2>2, <2>3, PrefixesSent
    <3>4. CallsFollowed(Request(history', date))
      BY <2>3, <2>4, AnswersSent
    <3>5. RequestSound'
      BY <3>2, <3>3, <3>4 DEF RequestSound
    <3> QED
      BY <2>2, <3>5
  <2>6. CASE requests' = requests /\ request' = request
    <3>1. RequestSound'
      BY <2>6 DEF RequestSound
    <3> QED
      BY <2>2, <3>1
  <2> QED
    BY <2>5, <2>6, StepRequest
<1>3. RequestSpec => []IInv /\ []Answered
  BY RequestRun, Invariance, CallsAnswered, PTL
<1>4. Inv => RequestSound
  OBVIOUS
<1> HIDE DEF Inv
<1> QED
  BY <1>1, <1>2, <1>3, <1>4, PTL DEF RequestSpec

\* What a further request adds to the one before (Agent.cc:316-338).
LEMMA StepExtends ==
    ASSUME IInv, LastRequest, [RequestNext]_requestVars, requests' > requests,
           requests > 0
    PROVE  LET before == request.messages
               after == request'.messages
               said == after[Len(before) + 1]
           IN  /\ Repeats(after, before)
               /\ said.role = "assistant" /\ said.content = stream.content
               /\ said.tool_calls = stream.tool_calls
               /\ \A i \in Len(before) + 2 .. Len(after) : after[i].role = "tool"
<1> DEFINE before == request.messages
           after == request'.messages
<1>1. /\ TypeOK /\ history \in Seq(SentMessages) /\ requests \in Nat
  BY MessagesFit DEF IInv, TypeOK
<1>2. RunTools
  <2>1. Next
    BY <1>1 DEF RequestNext, requestVars, vars
  <2>2. outcome # "idle"
    BY <1>1 DEF LastRequest
  <2>3. ~Run
    BY <2>2 DEF Run
  <2>4. AnyDelta \/ Reply \/ StreamFailed \/ Terminated => requests' = requests
    BY DEF AnyDelta, Delta, Reply, StreamFailed, Terminated, vars
  <2>5. requests' # requests
    BY <1>1
  <2> QED
    BY <2>1, <2>3, <2>4, <2>5 DEF Next
<1>3. PICK results \in Results : history' = history \o Turn(results)
  BY <1>2 DEF RunTools
<1>4. outcome = "running"
  BY <1>2 DEF RunTools, IInv, OneAnswerPending
<1>5. PICK date \in Dates :
         request = BuildRequestBody(PrependSystemMessage(history, date))
  BY <1>4 DEF LastRequest
<1>6. PICK later \in Dates :
         request' = BuildRequestBody(PrependSystemMessage(history', later))
  BY <1>1, StepRequest
<1> DEFINE turn == Turn(results)
           n == Len(history)
           t == Len(stream.tool_calls)
           front == Front(history)
<1>7. /\ turn \in Seq(SentMessages) /\ Len(turn) = t + 1
      /\ turn[1].tool_calls = stream.tool_calls
      /\ turn[1].role = "assistant" /\ turn[1].content = stream.content
      /\ \A i \in 2 .. t + 1 : turn[i].role = "tool"
      /\ \A i \in 1 .. Len(turn) : turn[i].role \in {"assistant", "tool"}
  BY <1>1, MessagesFit, TurnShape, TurnSays, TurnPlain
<1>8. n \in Nat /\ t \in Nat
  BY <1>1, LenProperties DEF TypeOK
<1> HIDE DEF turn
<1> DEFINE more == history \o turn
<1>9. /\ more \in Seq(SentMessages) /\ Len(more) = n + (t + 1)
      /\ \A i \in 1 .. n + (t + 1) :
            more[i] = IF i <= n THEN history[i] ELSE turn[i - n]
  <2>1. /\ more \in Seq(SentMessages) /\ Len(more) = n + Len(turn)
        /\ \A i \in 1 .. n + Len(turn) :
              more[i] = IF i <= n THEN history[i] ELSE turn[i - n]
    BY <1>1, <1>7, ConcatProperties
  <2> HIDE DEF more, n, t
  <2> QED
    BY <1>7, <2>1
<1> HIDE DEF n, t
<1>10. before = Request(history, date) /\ after = Request(more, later)
  BY <1>3, <1>5, <1>6 DEF Request, more, turn
<1>11. /\ Front(more) = front
       /\ \A i \in 1 .. Len(Request(history, date)) :
             /\ SameButDate(Request(history, date)[i].content,
                            Request(more, later)[i].content)
             /\ Frames(Request(more, later)[i], Request(history, date)[i])
  <2>1. Len(turn) > 0
    BY <1>7, <1>8
  <2> QED
    BY <1>1, <1>7, <2>1, RequestRepeats
<1> HIDE DEF more
<1>12. /\ before \in Seq(SentMessages) /\ front \in 0 .. 1 /\ Len(before) = front + n
  BY <1>1, <1>10, RequestFrames DEF n
<1>13. /\ after \in Seq(SentMessages) /\ Len(after) = front + (n + (t + 1))
       /\ \A k \in 1 .. n + (t + 1) :
            /\ after[front + k].role = more[k].role
            /\ after[front + k].role = "assistant" =>
                  after[front + k].tool_calls = more[k].tool_calls
            /\ after[front + k].role \in {"assistant", "tool"} =>
                  after[front + k].content = more[k].content
  <2> DEFINE sent == Request(more, later)
  <2>1. /\ sent \in Seq(SentMessages) /\ Len(sent) = Front(more) + Len(more)
        /\ \A k \in 1 .. Len(more) :
              /\ sent[Front(more) + k].role = more[k].role
              /\ sent[Front(more) + k].role = "assistant" =>
                    sent[Front(more) + k].tool_calls = more[k].tool_calls
              /\ sent[Front(more) + k].role \in {"assistant", "tool"} =>
                    sent[Front(more) + k].content = more[k].content
    BY <1>9, RequestFrames
  <2> HIDE DEF sent, front
  <2>2. after = sent /\ Front(more) = front /\ Len(more) = n + (t + 1)
    BY <1>9, <1>10, <1>11 DEF sent
  <2> HIDE DEF after
  <2> QED
    BY <2>1, <2>2
<1> HIDE DEF front
<1>14. Repeats(after, before)
  <2>1. DOMAIN before = 1 .. Len(before)
    BY <1>12
  <2>2. Len(before) < Len(after)
    BY <1>8, <1>12, <1>13
  <2> HIDE DEF before, after
  <2>3. \A i \in DOMAIN before : /\ SameButDate(before[i].content, after[i].content)
                                 /\ Frames(after[i], before[i])
    BY <1>10, <1>11, <2>1
  <2> QED
    BY <2>2, <2>3 DEF Repeats, Frames
<1> HIDE DEF before, after
<1>15. /\ n + 1 \in 1 .. n + (t + 1) /\ ~(n + 1 <= n) /\ (n + 1) - n = 1
       /\ front + (n + 1) = Len(before) + 1
  BY <1>8, <1>12
<1>16. more[n + 1] = turn[1]
  BY <1>9, <1>15
<1>17. /\ after[Len(before) + 1].role = "assistant"
       /\ after[Len(before) + 1].content = stream.content
       /\ after[Len(before) + 1].tool_calls = stream.tool_calls
  BY <1>7, <1>13, <1>15, <1>16
<1>18. ASSUME NEW i \in Len(before) + 2 .. Len(after) PROVE after[i].role = "tool"
  <2>1. /\ i - front \in 1 .. n + (t + 1) /\ front + (i - front) = i
        /\ ~(i - front <= n) /\ (i - front) - n \in 2 .. t + 1
    BY <1>8, <1>12, <1>13
  <2>2. more[i - front] = turn[(i - front) - n]
    BY <1>9, <2>1
  <2>3. after[front + (i - front)].role = more[i - front].role
    BY <1>13, <2>1
  <2> QED
    BY <1>7, <2>1, <2>2, <2>3
<1> QED
  BY <1>14, <1>17, <1>18 DEF before, after

\* The requests of a run tell one story, whatever the LLM answers.
THEOREM RequestsGoOn == RequestSpec => RequestsExtend
<1>1. RequestInit => LastRequest
  BY DEF RequestInit, Init, LastRequest
<1>2. IInv /\ LastRequest /\ [RequestNext]_requestVars =>
        [requests' > requests /\ requests > 0 =>
          LET before == request.messages
              after == request'.messages
              said == after[Len(before) + 1]
          IN  /\ Repeats(after, before)
              /\ said.role = "assistant" /\ said.content = stream.content
              /\ said.tool_calls = stream.tool_calls
              /\ \A i \in Len(before) + 2 .. Len(after) : after[i].role = "tool"
        ]_requestVars
  BY StepExtends
<1>3. RequestSpec => []IInv
  BY RequestRun, Invariance, PTL
<1> QED
  BY <1>1, <1>2, <1>3, StepLastRequest, PTL DEF RequestSpec, RequestsExtend
=============================================================================
