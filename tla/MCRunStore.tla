----------------------------- MODULE MCRunStore -----------------------------
(* RunStore with a few callers that may call any operation at any time. *)
EXTENDS RunStore, TLC

Symmetric == Permutations(Runs) \union Permutations(Callers)
=============================================================================
