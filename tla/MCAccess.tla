------------------------------ MODULE MCAccess ------------------------------
(* Model values and symmetry for checking Access with TLC.                 *)
EXTENDS Access, TLC

\* Requests are anonymous slots; tokens are told apart by their rows only.
Interchangeable ==
  Permutations(Requests) \union Permutations(Tokens \ {Boot})
=============================================================================
