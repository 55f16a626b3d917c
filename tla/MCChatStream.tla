---------------------------- MODULE MCChatStream ----------------------------
(***************************************************************************)
(* ChatStream on a small instance: blocks of two bytes, up to two chunks.   *)
(***************************************************************************)
EXTENDS ChatStream
=============================================================================
