--------------------------- MODULE MCJobDelivery ---------------------------
(* JobDelivery on small sets; the cfgs choose how many of each. *)
EXTENDS JobDelivery

Symmetric == Permutations(Runs) \union Permutations(Workers) \union Permutations(Slots)
=============================================================================
