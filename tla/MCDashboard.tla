---------------------------- MODULE MCDashboard ----------------------------
(* Scopes and symmetry for checking Dashboard with TLC.                    *)
EXTENDS Dashboard, TLC

CONSTANTS t1

OneAdmin == [t \in Tokens |-> IF t = t1 THEN "admin" ELSE "write"]
Interchangeable == Permutations(Slots)
=============================================================================
