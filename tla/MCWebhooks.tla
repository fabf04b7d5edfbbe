----------------------------- MODULE MCWebhooks -----------------------------
(* Symmetry for checking Webhooks with TLC: webhooks and PUTs are names.   *)
EXTENDS Webhooks, TLC

Interchangeable == Permutations(Hooks) \union Permutations(Requests)
=============================================================================
