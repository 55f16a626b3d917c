------------------------------ MODULE AgentRun ------------------------------
(***************************************************************************)
(* What Agent::Run promises to its caller (source/Agent/Agent.h, Agent.cc): *)
(* any number of stream callbacks, each with the content and the reasoning  *)
(* accumulated so far in the current turn, then exactly one complete or     *)
(* error callback, and after that nothing.  The HTTP handler relies on it:  *)
(* ChatCompletions frees its ChatContext inside the complete and the error  *)
(* callback.                                                                *)
(*                                                                          *)
(* The module is the contract only.  Assistant shows that the tool-calling  *)
(* loop implements it, ChatStream uses it in place of the agent.            *)
(***************************************************************************)
EXTENDS Sequences

CONSTANT
    Token           \* the pieces of text a message is made of

VARIABLES
    outcome,        \* "idle" before Run, "running", then how the run ended
    text,           \* content of the message given to the last callback
    reasoning       \* its reasoning_content

contractVars == <<outcome, text, reasoning>>

Outcomes == {"idle", "running", "complete", "error"}

ContractTypeOK ==
    /\ outcome \in Outcomes
    /\ text \in Seq(Token)
    /\ reasoning \in Seq(Token)

-----------------------------------------------------------------------------

ContractInit ==
    /\ outcome = "idle"
    /\ text = <<>>
    /\ reasoning = <<>>

\* Agent::Run returns; the run goes on in callbacks.
Begin ==
    /\ outcome = "idle"
    /\ outcome' = "running"
    /\ UNCHANGED <<text, reasoning>>

\* The stream callback, with the turn's text grown by more (by nothing, if the
\* LLM sends part of a tool call) and its reasoning by what came with it, which
\* is the whole reasoning of the LLM's turn and not what is new of it.
Stream(more, whole) ==
    /\ outcome = "running"
    /\ text' = text \o more
    /\ reasoning' = reasoning \o whole
    /\ UNCHANGED outcome

\* The agent calls the LLM again after tool calls: the message starts over.
NewTurn ==
    /\ outcome = "running"
    /\ text' = <<>> /\ reasoning' = <<>>
    /\ UNCHANGED outcome

\* The complete callback: the message as streamed, or an empty message when the
\* run was cut off at the limit of LLM calls.
Complete ==
    /\ outcome \in {"idle", "running"}
    /\ outcome' = "complete"
    /\ \/ UNCHANGED <<text, reasoning>>
       \/ text' = <<>> /\ reasoning' = <<>>

\* The error callback.
Fail ==
    /\ outcome \in {"idle", "running"}
    /\ outcome' = "error"
    /\ UNCHANGED <<text, reasoning>>

ContractNext ==
    \/ Begin
    \/ \E more, whole \in Seq(Token) : Stream(more, whole)
    \/ NewTurn
    \/ Complete
    \/ Fail

ContractSpec == ContractInit /\ [][ContractNext]_contractVars
=============================================================================
