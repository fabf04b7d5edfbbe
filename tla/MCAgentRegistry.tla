--------------------------- MODULE MCAgentRegistry ---------------------------
(* Model values and symmetry for checking AgentRegistry with TLC.          *)
EXTENDS AgentRegistry, TLC

\* Requests and sweeps are anonymous slots, endpoints and texts mere names.
Interchangeable ==
  Permutations(Requests) \union Permutations(Sweeps)
    \union Permutations(Endpoints) \union Permutations(Texts)
=============================================================================
