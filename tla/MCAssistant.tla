---------------------------- MODULE MCAssistant ----------------------------
(***************************************************************************)
(* Assistant on a small instance: two LLM calls, a known tool and calls      *)
(* that name none, answers of up to two events that may leave a gap in the  *)
(* tool call indices, a midnight, and prompts with an earlier exchange,     *)
(* with a system message of their own, with the instruction or the date in  *)
(* them already, and without a user.                                        *)
(***************************************************************************)
EXTENDS AssistantRequests

Says(role, content) == [role |-> role, content |-> content, tool_calls |-> <<>>,
                        tool_call_id |-> ""]

MCPrompts == {<<Says("user", <<>>), Says("assistant", <<>>), Says("user", <<>>)>>,
              <<Says("system", <<"x">>), Says("user", <<"today">>)>>,
              <<Says("system", <<"instruction">>)>>}

\* The prompts are of the kind the theorem on requests is about.
ASSUME PromptsFit == PrefixesApart
=============================================================================
