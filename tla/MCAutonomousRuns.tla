-------------------------- MODULE MCAutonomousRuns --------------------------
(* AutonomousRuns on small sets of model values; the cfgs choose the bounds. *)
EXTENDS AutonomousRuns

Symmetric ==
  Permutations(Runs) \union Permutations(Workers)
    \union Permutations(Slots) \union Permutations(Clients)
=============================================================================
