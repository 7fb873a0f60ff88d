---------------------------- MODULE RunLifecycle ----------------------------
(***************************************************************************)
(* What the run subsystem promises its clients, without queues, leases or  *)
(* clocks: a run is accepted, executed by at most one executor at a time,  *)
(* and settled exactly once, by the executor that owns it, or, once nobody *)
(* owns it, by being given up as failed.  An executor can die and leave    *)
(* its run unowned; then another may take it over from the start.          *)
(***************************************************************************)
CONSTANTS
  Runs,         \* run ids
  Executors,    \* where a run can be executed
  Outcomes      \* how a run can end

VARIABLES
  status,       \* the status a client reads
  owner         \* the executors at work on each run

vars == <<status, owner>>

Init ==
  /\ status = [r \in Runs |-> "absent"]
  /\ owner = [r \in Runs |-> {}]

Accept(r) ==
  /\ status[r] = "absent"
  /\ status' = [status EXCEPT ![r] = "pending"]
  /\ UNCHANGED owner

\* A run is begun, or begun again after its executor died.
Begin(r, e) ==
  /\ status[r] \in {"pending", "running"}
  /\ owner[r] = {}
  /\ status' = [status EXCEPT ![r] = "running"]
  /\ owner' = [owner EXCEPT ![r] = {e}]

\* Some executors die: they own nothing any more.
Abandon(E) ==
  /\ owner' = [r \in Runs |-> owner[r] \ E]
  /\ UNCHANGED status

\* The owner records the outcome of its run.
Settle(r, e, outcome) ==
  /\ status[r] = "running"
  /\ owner[r] = {e}
  /\ status' = [status EXCEPT ![r] = outcome]
  /\ owner' = [owner EXCEPT ![r] = {}]

\* Runs that nobody executes any more are recorded as failed.
GiveUp(S) ==
  /\ \A r \in S : status[r] = "running" /\ owner[r] = {}
  /\ status' = [r \in Runs |-> IF r \in S THEN "failed" ELSE status[r]]
  /\ UNCHANGED owner

Next ==
  \/ \E r \in Runs : Accept(r)
  \/ \E r \in Runs, e \in Executors : Begin(r, e)
  \/ \E E \in SUBSET Executors : Abandon(E)
  \/ \E r \in Runs, e \in Executors, outcome \in Outcomes : Settle(r, e, outcome)
  \/ \E S \in SUBSET Runs : GiveUp(S)

Spec == Init /\ [][Next]_vars
=============================================================================
