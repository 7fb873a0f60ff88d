---------------------------- MODULE WorkflowRuns ----------------------------
(***************************************************************************)
(* The workflow orchestrator: the engine that drives a run through its     *)
(* steps and suspends it at approval gates, and the registry that keeps    *)
(* runs in a cache per gateway replica and, best-effort, in the run store. *)
(*                                                                         *)
(* A cached run is a mutable object that the requests of its replica       *)
(* share: resume changes it in place.  Every read of the store, and every  *)
(* retry of a POST with a known key, makes another object of the same run. *)
(* So objects are named by the request that made them, and a cache holds   *)
(* names of objects.  Code between two awaits is one step: a request waits *)
(* for the store (to read, to write) or for a workflow step.               *)
(***************************************************************************)
EXTENDS Naturals, FiniteSets, SequencesExt

CONSTANTS
  Replicas,       \* gateway processes
  Requests,       \* requests to the workflow routes; also the names of objects
  Runs,           \* run ids
  Keys, NoKey,    \* idempotency keys, and none
  Steps,          \* step names of the workflow
  Gates,          \* the steps with requires_approval
  Entry,          \* its first step
  Succ,           \* the steps (or End) a step's `next` may name
  Branches,       \* the steps whose `next` is a function, which may raise
  End,            \* no next step
  MaxAttempts,    \* max_attempts of each step
  MaxSteps,       \* MAX_STEPS_PER_RUN
  CacheSize,      \* _MAX_STORED_RUNS
  Nothing,        \* no object, no row, no pending step
  MaxRestarts,    \* bound on replica restarts
  MaxFaults       \* bound on store writes that fail and are swallowed

ASSUME WorkflowAssumption ==
  /\ Gates \subseteq Steps /\ Branches \subseteq Steps
  /\ Entry \in Steps
  /\ Succ \in [Steps -> SUBSET (Steps \union {End})]
  /\ MaxAttempts \in [Steps -> Nat \ {0}]
  /\ MaxSteps \in Nat /\ CacheSize \in Nat \ {0}
  /\ MaxRestarts \in Nat /\ MaxFaults \in Nat
  /\ NoKey \notin Keys /\ End \notin Steps
  /\ Nothing \notin Steps \union Requests \union Runs

VARIABLES
  heap,           \* the objects
  cache,          \* _RUNS of each replica: names of objects, oldest run first
  row,            \* the agent_runs rows: a stored object and its key
  req,            \* the request handlers
  granted,        \* history: approvals accepted, per run and gate
  refused,        \* history: rejections accepted
  started,        \* history: executions of a gated step begun, per run and gate
  restarts, faults

vars == <<heap, cache, row, req, granted, refused, started, restarts, faults>>

Terminal == {"completed", "failed", "rejected"}
Object   == [run: Runs, status: Terminal \union {"running", "awaiting_approval"},
             pending: Gates \union {Nothing}, approved: SUBSET Gates, rejected: SUBSET Gates,
             attempted: SUBSET Steps, executed: 0..MaxSteps]
ASSUME NothingAssumption ==
  /\ Nothing \notin Object
  /\ Nothing \notin [object: Object, key: Keys \union {NoKey}]

Handler  == [at: {"idle", "loading", "loaded", "stepping", "storing", "answered", "dead"},
             replica: Replicas \union {Nothing}, object: Requests \union {Nothing},
             run: Runs \union {Nothing}, key: Keys \union {NoKey},
             decision: {"approved", "rejected", Nothing},
             step: Steps \union {Nothing}, attempt: Nat,
             stored: Object \union {Nothing},
             \* how far upsert_run is: what it has loaded, or what it returned
             upsert: {"none", "insert", "update", "done", "failed"}]
Idle     == [at |-> "idle", replica |-> Nothing, object |-> Nothing, run |-> Nothing,
             key |-> NoKey, decision |-> Nothing, step |-> Nothing, attempt |-> 0,
             stored |-> Nothing, upsert |-> "none"]

WorkflowTypeOK ==
  /\ heap \in [Requests -> Object \union {Nothing}]
  /\ cache \in [Replicas -> Seq(Requests)]
  /\ row \in [Runs -> [object: Object, key: Keys \union {NoKey}] \union {Nothing}]
  /\ req \in [Requests -> Handler]
  /\ granted \in [Runs \X Gates -> Nat]
  /\ started \in [Runs \X Gates -> Nat]
  /\ refused \subseteq Runs \X Gates
  /\ restarts \in 0..MaxRestarts
  /\ faults \in 0..MaxFaults

NewRun(r) == [run |-> r, status |-> "running", pending |-> Nothing, approved |-> {},
              rejected |-> {}, attempted |-> {}, executed |-> 0]

Copies(r)    == {o \in Requests : heap[o] # Nothing /\ heap[o].run = r}
Cached(p, r) == ToSet(cache[p]) \intersect Copies(r)
Holders(k)   == {r \in Runs : k # NoKey /\ row[r] # Nothing /\ row[r].key = k}

-----------------------------------------------------------------------------
WorkflowInit ==
  /\ heap = [o \in Requests |-> Nothing]
  /\ cache = [p \in Replicas |-> <<>>]
  /\ row = [r \in Runs |-> Nothing]
  /\ req = [c \in Requests |-> Idle]
  /\ granted = [rg \in Runs \X Gates |-> 0]
  /\ started = [rg \in Runs \X Gates |-> 0]
  /\ refused = {}
  /\ restarts = 0
  /\ faults = 0

\* _RUNS[run.id] = run: the run keeps its place in the order if it has one.
Put(q, o, r) ==
  IF \E i \in DOMAIN q : heap[q[i]].run = r
  THEN [i \in DOMAIN q |-> IF heap[q[i]].run = r THEN o ELSE q[i]]
  ELSE Append(q, o)

\* The oldest runs are dropped.
Evicted(q) == IF Len(q) > CacheSize THEN SubSeq(q, Len(q) - CacheSize + 1, Len(q)) ELSE q

\* Mutants: the gate is not looked at; the budget is one step larger.
AtStepUngated(x, s) ==
  CASE s = End -> [x EXCEPT !.status = "completed"]
    [] s # End /\ x.executed >= MaxSteps -> [x EXCEPT !.status = "failed"]
    [] OTHER -> [x EXCEPT !.executed = @ + 1]

AtStepLate(x, s) ==
  CASE s = End -> [x EXCEPT !.status = "completed"]
    [] s # End /\ x.executed > MaxSteps -> [x EXCEPT !.status = "failed"]
    [] s \in Gates \ x.approved /\ x.executed <= MaxSteps ->
         [x EXCEPT !.status = "awaiting_approval", !.pending = s]
    [] OTHER -> [x EXCEPT !.executed = @ + 1]

\* The head of _drive's loop, with a run about to enter step s.
AtStep(x, s) ==
  CASE s = End -> [x EXCEPT !.status = "completed"]
    [] s # End /\ x.executed >= MaxSteps -> [x EXCEPT !.status = "failed"]
    [] s \in Gates \ x.approved /\ x.executed < MaxSteps ->
         [x EXCEPT !.status = "awaiting_approval", !.pending = s]
    [] OTHER -> [x EXCEPT !.executed = @ + 1]

\* _store up to its await: the object is cached, and a dump of it is on its way.
PutAway(c, h, x, q) ==
  /\ heap' = [heap EXCEPT ![h.object] = x]
  /\ cache' = [cache EXCEPT ![h.replica] = Evicted(Put(q, h.object, x.run))]
  /\ req' = [req EXCEPT ![c] = [h EXCEPT !.at = "storing", !.stored = x,
                                         !.step = Nothing, !.attempt = 0]]

Counted(f, r, s) == IF s \in Gates THEN [f EXCEPT ![<<r, s>>] = @ + 1] ELSE f

\* _drive up to its next await: the step is begun, or the run is suspended or ended.
Drive(c, h, x, s, q) ==
  LET y == AtStep(x, s) IN
    IF y.status = "running"
    THEN /\ heap' = [heap EXCEPT ![h.object] = y]
         /\ cache' = [cache EXCEPT ![h.replica] = q]
         /\ req' = [req EXCEPT ![c] = [h EXCEPT !.at = "stepping", !.step = s, !.attempt = 1]]
         /\ started' = Counted(started, y.run, s)
    ELSE PutAway(c, h, y, q) /\ UNCHANGED started

Answer(c, h) == req' = [req EXCEPT ![c] = [h EXCEPT !.at = "answered"]]

Restarting == restarts < MaxRestarts /\ restarts' = restarts + 1
Fault      == faults < MaxFaults /\ faults' = faults + 1

-----------------------------------------------------------------------------
(* POST /{name}/run                                                         *)

\* run_workflow without a key, or with one that no row holds, or whose lookup failed.
Run(c, p, r, k) ==
  /\ req[c].at = "idle"
  /\ Copies(r) = {} /\ row[r] = Nothing
  /\ IF Holders(k) = {} THEN UNCHANGED faults ELSE Fault
  /\ Drive(c, [Idle EXCEPT !.replica = p, !.object = c, !.run = r, !.key = k],
           NewRun(r), Entry, cache[p])
  /\ UNCHANGED <<row, granted, refused, restarts>>

\* The key is known: the stored run is made into an object.
FindRun(c, p, k) ==
  /\ req[c].at = "idle"
  /\ \E r \in Holders(k) :
       /\ heap' = [heap EXCEPT ![c] = row[r].object]
       /\ req' = [req EXCEPT ![c] = [Idle EXCEPT !.at = "loaded", !.replica = p, !.object = c,
                                                 !.run = r, !.key = k]]
  /\ UNCHANGED <<cache, row, granted, refused, started, restarts, faults>>

-----------------------------------------------------------------------------
(* GET /runs/{id}, approve, reject                                          *)

\* Mutants of an approval: the run is driven on without a record of it; or it still
\* awaits approval while it is driven.
DriveGate(c, h, x, y, q) ==
  /\ x.status = "awaiting_approval" /\ h.decision = "approved"
  /\ heap' = [heap EXCEPT ![h.object] = y]
  /\ cache' = [cache EXCEPT ![h.replica] = q]
  /\ req' = [req EXCEPT ![c] = [h EXCEPT !.at = "stepping", !.step = x.pending, !.attempt = 1]]
  /\ granted' = Counted(granted, x.run, x.pending)
  /\ started' = Counted(started, x.run, x.pending)
  /\ UNCHANGED refused

ResumeUnrecorded(c, h, x, q) ==
  DriveGate(c, h, x, [x EXCEPT !.status = "running", !.pending = Nothing], q)

ResumeStillAwaiting(c, h, x, q) ==
  DriveGate(c, h, x, [x EXCEPT !.approved = @ \union {x.pending}], q)

\* Mutant: a rejection does not look at the run's status.
ResumeUnchecked(c, h, x, q) ==
  /\ h.decision = "rejected"
  /\ PutAway(c, h, [x EXCEPT !.status = "rejected", !.pending = Nothing], q)
  /\ UNCHANGED <<granted, refused, started>>

\* resume: a 409 unless the run awaits approval; a rejection ends it; an approval drives
\* it on from the gate.  The approvals of a run are its audit trail.
Resume(c, h, x, q) ==
  \/ /\ x.status # "awaiting_approval"
     /\ Answer(c, h)
     /\ cache' = [cache EXCEPT ![h.replica] = q]
     /\ UNCHANGED <<heap, granted, refused, started>>
  \/ /\ x.status = "awaiting_approval" /\ h.decision = "rejected"
     /\ PutAway(c, h, [x EXCEPT !.status = "rejected", !.pending = Nothing,
                                !.rejected = @ \union {x.pending}], q)
     /\ refused' = refused \union {<<x.run, x.pending>>}
     /\ UNCHANGED <<granted, started>>
  \/ /\ x.status = "awaiting_approval" /\ h.decision = "approved"
     /\ Drive(c, h, [x EXCEPT !.status = "running", !.pending = Nothing,
                              !.approved = @ \union {x.pending}], x.pending, q)
     /\ granted' = Counted(granted, x.run, x.pending)
     /\ UNCHANGED refused

\* _load finds the run in the replica's cache; reading it changes nothing.
Decide(c, p, r, d) ==
  /\ req[c].at = "idle"
  /\ \E o \in Cached(p, r) :
       Resume(c, [Idle EXCEPT !.replica = p, !.object = o, !.run = r, !.decision = d],
              heap[o], cache[p])
  /\ UNCHANGED <<row, restarts, faults>>

\* _load misses the cache (d = Nothing: the request only reads the run).
Miss(c, p, r, d) ==
  /\ req[c].at = "idle"
  /\ Cached(p, r) = {}
  /\ Copies(r) # {} \/ row[r] # Nothing
  /\ req' = [req EXCEPT ![c] = [Idle EXCEPT !.at = "loading", !.replica = p, !.run = r,
                                            !.decision = d]]
  /\ UNCHANGED <<heap, cache, row, granted, refused, started, restarts, faults>>

\* The row has been read, and made into an object.
ReadRow(c) ==
  /\ req[c].at = "loading"
  /\ row[req[c].run] # Nothing
  /\ heap' = [heap EXCEPT ![c] = row[req[c].run].object]
  /\ req' = [req EXCEPT ![c].at = "loaded", ![c].object = c]
  /\ UNCHANGED <<cache, row, granted, refused, started, restarts, faults>>

\* There is no row, or the store failed and get_run has swallowed it: a 404.
ReadNothing(c) ==
  /\ req[c].at = "loading"
  /\ IF row[req[c].run] = Nothing THEN UNCHANGED faults ELSE Fault
  /\ Answer(c, req[c])
  /\ UNCHANGED <<heap, cache, row, granted, refused, started, restarts>>

\* The object replaces whatever the cache holds of its run by now, and is resumed.
Warm(c) ==
  LET h == req[c]
      q == Put(cache[h.replica], c, h.run)
  IN  /\ h.at = "loaded"
      /\ IF h.decision = Nothing
         THEN /\ Answer(c, h)
              /\ cache' = [cache EXCEPT ![h.replica] = q]
              /\ UNCHANGED <<heap, granted, refused, started>>
         ELSE Resume(c, h, heap[c], q)
      /\ UNCHANGED <<row, restarts, faults>>

-----------------------------------------------------------------------------
(* The drive and its store                                                  *)

Attempted(c) == [heap[req[c].object] EXCEPT !.attempted = @ \union {req[c].step}]

\* The step succeeds and names the next one.
StepSucceeds(c) ==
  /\ req[c].at = "stepping"
  /\ \E s \in Succ[req[c].step] : Drive(c, req[c], Attempted(c), s, cache[req[c].replica])
  /\ UNCHANGED <<row, granted, refused, restarts, faults>>

\* It raises, and is tried again ...
StepRetries(c) ==
  /\ req[c].at = "stepping"
  /\ req[c].attempt < MaxAttempts[req[c].step]
  /\ heap' = [heap EXCEPT ![req[c].object] = Attempted(c)]
  /\ req' = [req EXCEPT ![c].attempt = @ + 1]
  /\ UNCHANGED <<cache, row, granted, refused, started, restarts, faults>>

\* ... or was tried often enough: the run has failed.
StepFails(c) ==
  /\ req[c].at = "stepping"
  /\ req[c].attempt = MaxAttempts[req[c].step]
  /\ PutAway(c, req[c], [Attempted(c) EXCEPT !.status = "failed"], cache[req[c].replica])
  /\ UNCHANGED <<row, granted, refused, started, restarts, faults>>

\* `next` raises, outside the retry loop: an error is answered and nothing is stored.
BranchRaises(c) ==
  /\ req[c].at = "stepping"
  /\ req[c].step \in Branches
  /\ heap' = [heap EXCEPT ![req[c].object] = Attempted(c)]
  /\ Answer(c, req[c])
  /\ UNCHANGED <<cache, row, granted, refused, started, restarts, faults>>

\* upsert_run: session.get tells an insert from an update.
UpsertLoad(c) ==
  /\ req[c].at = "storing" /\ req[c].upsert = "none"
  /\ req' = [req EXCEPT ![c].upsert = IF row[req[c].run] = Nothing THEN "insert" ELSE "update"]
  /\ UNCHANGED <<heap, cache, row, granted, refused, started, restarts, faults>>

\* The request is answered, whatever upsert_run returned.
Upserted(c, outcome) ==
  req' = [req EXCEPT ![c] = [@ EXCEPT !.at = "answered", !.upsert = outcome]]

\* The commit breaks a constraint: another upsert has inserted the run meanwhile, or another
\* run holds the key.
Conflicts(c) ==
  \/ req[c].upsert = "insert" /\ row[req[c].run] # Nothing
  \/ ~(Holders(req[c].key) \subseteq {req[c].run})

\* Mutant: a commit without a key clears the row's.
UpsertClearsKey(c) ==
  /\ req[c].at = "storing" /\ req[c].upsert \in {"insert", "update"} /\ ~Conflicts(c)
  /\ row' = [row EXCEPT ![req[c].run] = [object |-> req[c].stored, key |-> req[c].key]]
  /\ Upserted(c, "done")
  /\ UNCHANGED <<heap, cache, granted, refused, started, restarts, faults>>

\* The payload always differs from what was loaded; the key is written only if there is one.
UpsertCommit(c) ==
  LET h   == req[c]
      old == row[h.run]
      key == IF h.key = NoKey /\ old # Nothing THEN old.key ELSE h.key
  IN  /\ h.at = "storing" /\ h.upsert \in {"insert", "update"} /\ ~Conflicts(c)
      /\ row' = [row EXCEPT ![h.run] = [object |-> h.stored, key |-> key]]
      /\ Upserted(c, "done")
      /\ UNCHANGED <<heap, cache, granted, refused, started, restarts, faults>>

\* An IntegrityError, or a store that fails: all of the write is lost, and that is swallowed.
UpsertFails(c) ==
  /\ req[c].at = "storing"
  /\ \/ req[c].upsert \in {"insert", "update"} /\ Conflicts(c) /\ UNCHANGED faults
     \/ Fault
  /\ Upserted(c, "failed")
  /\ UNCHANGED <<heap, cache, row, granted, refused, started, restarts>>

\* A replica is restarted: its cache is empty, its requests are gone.
Restart(p) ==
  /\ Restarting
  /\ cache' = [cache EXCEPT ![p] = <<>>]
  /\ req' = [c \in Requests |->
               IF req[c].replica = p /\ req[c].at # "answered"
               THEN [req[c] EXCEPT !.at = "dead"] ELSE req[c]]
  /\ UNCHANGED <<heap, row, granted, refused, started, faults>>

-----------------------------------------------------------------------------
Arrives(c) ==
  \E p \in Replicas :
    \/ \E r \in Runs, k \in Keys \union {NoKey} : Run(c, p, r, k)
    \/ \E k \in Keys : FindRun(c, p, k)
    \/ \E r \in Runs, d \in {"approved", "rejected"} : Decide(c, p, r, d)
    \/ \E r \in Runs, d \in {"approved", "rejected", Nothing} : Miss(c, p, r, d)

Proceeds(c) ==
  \/ ReadRow(c)
  \/ ReadNothing(c)
  \/ Warm(c)
  \/ StepSucceeds(c)
  \/ StepRetries(c)
  \/ StepFails(c)
  \/ BranchRaises(c)
  \/ UpsertLoad(c)
  \/ UpsertCommit(c)
  \/ UpsertFails(c)

WorkflowNext ==
  \/ \E c \in Requests : Arrives(c) \/ Proceeds(c)
  \/ \E p \in Replicas : Restart(p)

WorkflowSpec == WorkflowInit /\ [][WorkflowNext]_vars

-----------------------------------------------------------------------------
(***************************************************************************)
(* Properties                                                              *)
(***************************************************************************)

\* "Any way a requires_approval step executes without a recorded human decision" is a
\* bug (SECURITY.md): a gate is begun at most as often as it was approved, with any
\* number of replicas, copies, evictions and restarts (_drive, resume).
ApprovedOnly == \A rg \in Runs \X Gates : started[rg] <= granted[rg]

\* "Reject (run ends rejected, the gate never runs)" (engine.py:13).
RejectedNeverRuns == \A rg \in refused : started[rg] = 0

\* As long as a run has one object - no other replica, eviction, restart or retried POST
\* has made another - that holds, and a gate is executed once (resume, _load).
SoleCopyIsGated ==
  \A r \in Runs, g \in Gates :
    Cardinality(Copies(r)) = 1 =>
      /\ started[<<r, g>>] <= 1
      /\ <<r, g>> \in refused => started[<<r, g>>] = 0

\* What is stored of a run is audited: each gate it has attempted is among its recorded
\* approvals and none among its rejections, and it waits only at an undecided gate.
RecordIsAudited ==
  \A r \in Runs : row[r] # Nothing =>
    LET x == row[r].object IN
      /\ x.attempted \intersect Gates \subseteq x.approved \ x.rejected
      /\ x.status = "awaiting_approval" <=> x.pending # Nothing
      /\ x.pending \notin x.approved \union x.rejected

\* A run that has ended stays as it ended, in every object of it (resume).
EndedStands ==
  [][\A o \in Requests :
       heap[o] # Nothing /\ heap[o].status \in Terminal => heap'[o] = heap[o]]_vars

\* "A repeated key returns the original run, never a second one" (registry.py:66), which asks
\* that an answered key be held.  What holds of that (_store, upsert_run): a key once stored
\* stays stored, whatever is written to its row later; and without a failing store call a key
\* is lost only if another request's decision on the very object of the POST has inserted the
\* run before it.
KeyHeldUnlessOvertaken ==
  \A c \in Requests :
    req[c].at = "answered" /\ req[c].key # NoKey /\ Holders(req[c].key) = {} =>
      /\ req[c].upsert # "done"
      /\ req[c].upsert = "failed" /\ faults = 0 =>
           /\ row[req[c].run] # Nothing
           /\ \E d \in Requests \ {c} : req[d].object = c /\ req[d].upsert = "done"
=============================================================================
