---------------------------- MODULE MCReporter ----------------------------
(* Calls, their SDKs and agents for checking Reporter with TLC.            *)
EXTENDS Reporter

CONSTANTS c1, c2, c3, a1, a2

InvokesAndReport ==
  [c \in {c1, c2, c3} |-> CASE c = c1 -> "js" [] c = c2 -> "urllib" [] c = c3 -> "manual"]
Agents == [c \in Calls |-> IF c = c1 THEN a1 ELSE a2]
=============================================================================
