--------------------------- MODULE MCContextStore ---------------------------
(***************************************************************************)
(* ContextStore with up to four requests and a list of two to four entries. *)
(***************************************************************************)
EXTENDS ContextStore, TLC

\* The requests are alike until the client has chosen them.
Symmetry == Permutations(Requests)
=============================================================================
