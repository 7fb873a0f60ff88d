--------------------------- MODULE MCWorkflowRuns ---------------------------
(***************************************************************************)
(* WorkflowRuns with the shape of the access_request demo, plus a branch   *)
(* that goes back: assess (tried twice) may repeat or go on to the gate    *)
(* grant, which ends the run.                                              *)
(***************************************************************************)
EXTENDS WorkflowRuns

MCSteps    == {"assess", "grant"}
MCGates    == {"grant"}
MCSucc     == [s \in MCSteps |-> IF s = "assess" THEN {"assess", "grant"} ELSE {"end"}]
MCAttempts == [s \in MCSteps |-> IF s = "assess" THEN 2 ELSE 1]

Symmetric == Permutations(Replicas) \union Permutations(Requests) \union Permutations(Runs)
=============================================================================
