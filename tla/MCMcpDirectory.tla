--------------------------- MODULE MCMcpDirectory ---------------------------
(* Symmetry for checking McpDirectory with TLC: servers, users, texts and  *)
(* PUTs are names.                                                         *)
EXTENDS McpDirectory, TLC

Interchangeable ==
  Permutations(Servers) \union Permutations(Requests) \union Permutations(Texts)
=============================================================================
