---------------------------- MODULE MCMcpProcess ----------------------------
(***************************************************************************)
(* McpProcess with two threads; a line is three bytes long, the buffer four. *)
(***************************************************************************)
EXTENDS McpProcess
=============================================================================
