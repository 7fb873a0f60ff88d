------------------------------ MODULE RunStore ------------------------------
(***************************************************************************)
(* The durable run store: the agent_runs table and the operations of       *)
(* workbench_observability/runs.py on it.                                  *)
(*                                                                         *)
(* A row keeps what the other components branch on: its status, its        *)
(* idempotency key, its error column, and the age of updated_at.  The code *)
(* compares updated_at with "now minus the lease"; only the difference     *)
(* matters, so a row carries its age, in ticks of a clock that Tick        *)
(* advances, saturating one past the lease.                                *)
(*                                                                         *)
(* Every operation of the store is one SQL statement and hence one step,   *)
(* except upsert_run: it loads the row (session.get), and commits later.   *)
(* The ORM writes only the columns whose value differs from the loaded     *)
(* one, so the commit depends on what was loaded.  An upsert in flight is  *)
(* the caller's session.                                                   *)
(***************************************************************************)
EXTENDS Naturals

CONSTANTS
  Runs,         \* run ids (the uuid4 prefixes submit draws)
  Keys,         \* idempotency keys clients send
  NoKey,        \* no Idempotency-Key header: a NULL column
  Callers,      \* the executors that may have an upsert in flight
  NoSession,    \* a caller with no upsert in flight
  Lease         \* run_stuck_ttl_s, in ticks: the claim's lease and the sweeper's TTL

ASSUME StoreAssumption ==
  /\ Lease \in Nat
  /\ NoKey \notin Keys

VARIABLES
  row,          \* the table, as a function of the run id
  session       \* the upsert each caller has in flight

vars == <<row, session>>

-----------------------------------------------------------------------------
Outcomes == {"completed", "max_steps_reached", "failed"}  \* what an executor may record
Live     == {"pending", "running"}                        \* NON_TERMINAL_RUN_STATUSES
Statuses == {"absent"} \union Live \union Outcomes        \* "absent": there is no such row
Errors   == {"none", "agent", "swept"}                    \* NULL, str(exc), "no heartbeat for ..."

Row     == [status: Statuses, key: Keys \union {NoKey}, error: Errors, age: 0..(Lease + 1)]
Loaded  == [status: Statuses, error: Errors]         \* the loaded columns a commit compares with
Session == [run: Runs, seen: Loaded, status: Outcomes]

\* Mutant: two arguments swapped.
NewRowSwapped(status, key, error) == [status |-> status, key |-> error, error |-> key, age |-> 0]

NewRow(status, key, error) == [status |-> status, key |-> key, error |-> error, age |-> 0]
NoRow      == NewRow("absent", NoKey, "none")

\* An existing row as any of the store's writes leaves it: every write stamps updated_at.
Stamped(r, status, error) == NewRow(status, row[r].key, error)

Stale(r)   == row[r].age > Lease                     \* updated_at < now - lease
Settled(r) == row[r].status \in Outcomes

\* The error column an executor writes along with an outcome.
ErrorOf(status) == IF status = "failed" THEN "agent" ELSE "none"

\* The run that holds an idempotency key, as a set: UNIQUE(kind, idempotency_key).
Holders(k) == {r \in Runs : k # NoKey /\ row[r].status # "absent" /\ row[r].key = k}

TypeOK ==
  /\ row \in [Runs -> Row]
  /\ session \in [Callers -> Session \union {NoSession}]

-----------------------------------------------------------------------------
Init ==
  /\ row = [r \in Runs |-> NoRow]
  /\ session = [c \in Callers |-> NoSession]

\* Mutant: no UNIQUE(kind, idempotency_key).
CreateRunNotUnique(r, k) ==
  /\ row[r].status = "absent"
  /\ row' = [row EXCEPT ![r] = NewRow("pending", k, "none")]
  /\ UNCHANGED session

\* create_run, when the INSERT is accepted.
CreateRun(r, k) ==
  /\ row[r].status = "absent"
  /\ Holders(k) = {}
  /\ row' = [row EXCEPT ![r] = NewRow("pending", k, "none")]
  /\ UNCHANGED session

\* Mutants: a WHERE clause without its statuses, without its lease.
ClaimableAlways(r)    == row[r].status # "absent"
ClaimableWhileHeld(r) == row[r].status \in Live

\* claim_run's WHERE clause: never started, or running with an expired lease.
Claimable(r) ==
  \/ row[r].status = "pending"
  \/ row[r].status = "running" /\ Stale(r)

\* claim_run that wins: one compare-and-set UPDATE.
ClaimRun(r) ==
  /\ Claimable(r)
  /\ row' = [row EXCEPT ![r] = Stamped(r, "running", row[r].error)]
  /\ UNCHANGED session

\* Mutant: the heartbeat writes the status too.
TouchRunRunning(r) ==
  /\ row[r].status # "absent"
  /\ row' = [row EXCEPT ![r] = Stamped(r, "running", row[r].error)]
  /\ UNCHANGED session

\* touch_run: bumps updated_at of any row there is, whatever its status.
TouchRun(r) ==
  /\ row[r].status # "absent"
  /\ row' = [row EXCEPT ![r] = Stamped(r, row[r].status, row[r].error)]
  /\ UNCHANGED session

\* upsert_run up to its session.get: the row as this caller has loaded it.
UpsertLoad(c, r, status) ==
  /\ session[c] = NoSession
  /\ session' = [session EXCEPT
                   ![c] = [run    |-> r,
                           seen   |-> [status |-> row[r].status, error |-> row[r].error],
                           status |-> status]]
  /\ UNCHANGED row

\* The row after the flush: a column is written only if it differs from the loaded one.
Written(new, loaded, current) == IF new # loaded THEN new ELSE current

\* Mutant: the loaded status is written back.
FlushedStale(s) ==
  Stamped(s.run, s.seen.status, Written(ErrorOf(s.status), s.seen.error, row[s.run].error))

Flushed(s) ==
  Stamped(s.run,
          Written(s.status, s.seen.status, row[s.run].status),
          Written(ErrorOf(s.status), s.seen.error, row[s.run].error))

\* The row an upsert that had found none inserts.
Inserted(s) == NewRow(s.status, NoKey, ErrorOf(s.status))

\* upsert_run's commit: an UPDATE; or an INSERT, whose primary-key conflict is swallowed.
UpsertCommit(c) ==
  /\ session[c] # NoSession
  /\ LET s == session[c]
     IN  row' = CASE s.seen.status # "absent" -> [row EXCEPT ![s.run] = Flushed(s)]
                  [] s.seen.status = "absent" /\ row[s.run].status = "absent"
                       -> [row EXCEPT ![s.run] = Inserted(s)]
                  [] OTHER -> row
  /\ session' = [session EXCEPT ![c] = NoSession]

\* Upserts that end with nothing written: a store error, logged and swallowed, or
\* the death of the process that had them in flight.
UpsertsLost(C) ==
  /\ session' = [c \in Callers |-> IF c \in C THEN NoSession ELSE session[c]]
  /\ UNCHANGED row

\* Mutants: the sweep's WHERE clause without its TTL, and with the wrong status.
ExpiredAtOnce(r)  == row[r].status = "running"
ExpiredPending(r) == row[r].status = "pending" /\ Stale(r)

\* sweep_stuck_runs: one UPDATE over every running row with an expired stamp.
Expired(r) == row[r].status = "running" /\ Stale(r)

SweepStuckRuns ==
  /\ \E r \in Runs : Expired(r)
  /\ row' = [r \in Runs |->
               IF Expired(r)
               THEN Stamped(r, "failed", "swept")
               ELSE row[r]]
  /\ UNCHANGED session

\* A unit of time passes.  Only the stamp of a running row is ever compared.
Older(n) == IF n > Lease THEN n ELSE n + 1

Tick ==
  /\ row' = [r \in Runs |->
               IF row[r].status = "running"
               THEN [row[r] EXCEPT !.age = Older(@)]
               ELSE row[r]]
  /\ UNCHANGED session

Next ==
  \/ \E r \in Runs, k \in Keys \union {NoKey} : CreateRun(r, k)
  \/ \E r \in Runs : ClaimRun(r)
  \/ \E r \in Runs : TouchRun(r)
  \/ \E c \in Callers, r \in Runs, status \in Outcomes : UpsertLoad(c, r, status)
  \/ \E c \in Callers : UpsertCommit(c)
  \/ \E C \in SUBSET Callers : UpsertsLost(C)
  \/ SweepStuckRuns
  \/ Tick

Spec == Init /\ [][Next]_vars

-----------------------------------------------------------------------------
(***************************************************************************)
(* Properties                                                              *)
(***************************************************************************)

\* Whoever calls the store, in whatever order: a settled run is never pending or
\* running again, and a started one never pending or absent.  Claim and sweep check
\* the status in their WHERE clauses, but upsert_run writes what its caller decided
\* before it loaded the row, and leaves out the columns that looked unchanged.
NeverReopened ==
  [][\A r \in Runs :
       /\ Settled(r) => Settled(r)'
       /\ row[r].status = "running" => row'[r].status \notin {"absent", "pending"}]_vars
=============================================================================
