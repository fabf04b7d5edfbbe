------------------------------ MODULE MCConnect ------------------------------
(* Symmetry for checking Connect with TLC: sessions and requests are names. *)
EXTENDS Connect, TLC

Interchangeable == Permutations(Sessions) \union Permutations(Requests)
=============================================================================
