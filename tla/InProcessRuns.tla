--------------------------- MODULE InProcessRuns ---------------------------
(***************************************************************************)
(* The default deployment: one gateway process that executes the runs of   *)
(* the autonomous agent itself, as tasks behind a semaphore.  When it      *)
(* starts it re-enqueues the runs its predecessor left unfinished, then    *)
(* serves and sweeps; when it is shut down it stops the sweeper and gives  *)
(* the tasks a grace period; whatever is left dies with the event loop.    *)
(* The run store (RunStore) is all that outlives the process.              *)
(***************************************************************************)
EXTENDS Naturals, FiniteSets

CONSTANTS
  Runs, Keys, NoKey, NoSession, Lease,      \* as in RunStore
  HeartbeatEvery, \* run_heartbeat_interval_s, in ticks
  MaxInflight,    \* WB_MAX_INFLIGHT_JOBS
  MaxDowns        \* bound on the times the process ends

ASSUME InProcessAssumption ==
  /\ Lease \in Nat /\ HeartbeatEvery \in Nat /\ HeartbeatEvery <= Lease
  /\ MaxInflight \in Nat \ {0} /\ MaxDowns \in Nat
  /\ NoKey \notin Keys

VARIABLES
  row, session,   \* the run store
  server,         \* the life of the gateway process
  task,           \* the task of each run in this process: InProcessQueue._tasks
  creating,       \* runs whose submit is between create_run and enqueue
  refused,        \* history: runs whose claim was refused in this process
  downs           \* how often the process has ended

inprocVars == <<row, session, server, task, creating, refused, downs>>

Store == INSTANCE RunStore WITH Callers <- Runs
ASSUME InProcessSessions == NoSession \notin Store!Session

\* A task waits for a slot, claims its run, works, saves, and is discarded.
Working == {"claiming", "running", "saving"}
InProcessTypeOK ==
  /\ Store!TypeOK
  /\ server \in {"new", "starting", "serving", "draining", "stopped"}
  /\ task \in [Runs -> {"none", "waiting"} \union Working]
  /\ creating \subseteq Runs /\ refused \subseteq Runs /\ downs \in 0..MaxDowns

InProcessInit ==
  /\ Store!Init
  /\ server = "new"
  /\ task = [r \in Runs |-> "none"]
  /\ creating = {} /\ refused = {} /\ downs = 0

-----------------------------------------------------------------------------
Holding  == {r \in Runs : task[r] \in Working}            \* the semaphore's slots
Move(r, from, to) == task[r] = from /\ task' = [task EXCEPT ![r] = to]

\* The lifespan's start: list what is not finished, enqueue it, start the sweeper, serve.
Reconcile ==
  /\ server = "starting"
  /\ server' = "serving"
  /\ task' = [r \in Runs |-> IF row[r].status \in Store!Live THEN "waiting" ELSE "none"]
  /\ UNCHANGED <<row, session, creating, refused, downs>>

\* submit: the row, then the task.  (AutonomousRuns has submit in full.)
Accept(r, key) ==
  /\ server = "serving"
  /\ Store!CreateRun(r, key)
  /\ creating' = creating \union {r}
  /\ UNCHANGED <<server, task, refused, downs>>
EnqueueTask(r) ==
  /\ r \in creating
  /\ creating' = creating \ {r}
  /\ Move(r, "none", "waiting")
  /\ UNCHANGED <<row, session, server, refused, downs>>

\* Mutant: a task runs as soon as it is created.
DispatchUnbounded(r) ==
  /\ Move(r, "waiting", "claiming")
  /\ UNCHANGED <<row, session, server, creating, refused, downs>>

\* A waiting task gets a slot, in a process that serves or drains.
Dispatch(r) ==
  /\ Cardinality(Holding) < MaxInflight
  /\ Move(r, "waiting", "claiming")
  /\ UNCHANGED <<row, session, server, creating, refused, downs>>
Claim(r) ==
  /\ Move(r, "claiming", "running")
  /\ Store!ClaimRun(r)
  /\ UNCHANGED <<server, creating, refused, downs>>
ClaimRefused(r) ==
  /\ ~Store!Claimable(r)
  /\ Move(r, "claiming", "none")
  /\ refused' = refused \union {r}
  /\ UNCHANGED <<row, session, server, creating, downs>>
AgentEnds(r, outcome) ==
  /\ Move(r, "running", "saving")
  /\ Store!UpsertLoad(r, r, outcome)
  /\ UNCHANGED <<server, creating, refused, downs>>
SaveOutcome(r) ==
  /\ Move(r, "saving", "none")
  /\ Store!UpsertCommit(r)
  /\ UNCHANGED <<server, creating, refused, downs>>
TaskStep(r) == \/ Dispatch(r) \/ Claim(r) \/ ClaimRefused(r) \/ SaveOutcome(r)
               \/ \E outcome \in Store!Outcomes : AgentEnds(r, outcome)

HeartbeatOf(r) ==
  /\ task[r] \in {"running", "saving"}
  /\ Store!TouchRun(r)
  /\ UNCHANGED <<server, task, creating, refused, downs>>
SweepRuns ==
  /\ server = "serving"
  /\ Store!SweepStuckRuns
  /\ UNCHANGED <<server, task, creating, refused, downs>>

\* A shutdown: requests have been finished; the sweeper stops and the drain begins.
Shutdown ==
  /\ server = "serving" /\ creating = {} /\ downs < MaxDowns
  /\ server' = "draining"
  /\ UNCHANGED <<row, session, task, creating, refused, downs>>
\* No task is left: the process ends with nothing in hand.
Drained ==
  /\ server = "draining" /\ \A r \in Runs : task[r] = "none"
  /\ server' = "stopped"
  /\ downs' = downs + 1
  /\ UNCHANGED <<row, session, task, creating, refused>>
\* The grace period is over, or the process dies at any point: its tasks are gone.
CutShort ==
  /\ server \in {"new", "starting", "serving", "draining"} /\ downs < MaxDowns
  /\ server' = "stopped"
  /\ downs' = downs + 1
  /\ Store!UpsertsLost(Runs)
  /\ task' = [r \in Runs |-> "none"]
  /\ creating' = {} /\ refused' = {}
\* The first process, or the next.
Restart ==
  /\ server \in {"new", "stopped"}
  /\ server' = "starting"
  /\ refused' = {}
  /\ UNCHANGED <<row, session, task, creating, downs>>

\* Time passes; heartbeats come in time while the process lives.
Passes ==
  /\ \A r \in Runs : task[r] \in {"running", "saving"} => row[r].age < HeartbeatEvery
  /\ Store!Tick
  /\ UNCHANGED <<server, task, creating, refused, downs>>

InProcessNext ==
  \/ \E r \in Runs : \/ \E key \in Keys \union {NoKey} : Accept(r, key)
                     \/ EnqueueTask(r) \/ TaskStep(r) \/ HeartbeatOf(r)
  \/ Reconcile \/ SweepRuns \/ Shutdown \/ Drained \/ CutShort \/ Restart \/ Passes

\* A stopped gateway is started again; the event loop runs its tasks and timers; an agent
\* run ends (AutonomousAgent.AutoEnds); time goes on.
InProcessFairness ==
  /\ \A r \in Runs : /\ WF_inprocVars(EnqueueTask(r)) /\ WF_inprocVars(TaskStep(r))
                     /\ WF_inprocVars(HeartbeatOf(r))
  /\ WF_inprocVars(Reconcile \/ Drained \/ (server # "new" /\ Restart))
  /\ WF_inprocVars(SweepRuns) /\ WF_inprocVars(Passes)
InProcessSpec == InProcessInit /\ [][InProcessNext]_inprocVars /\ InProcessFairness

-----------------------------------------------------------------------------
(* queue.py:82-91: at most MaxInflight jobs are dispatched at a time; a    *)
(* drain that was not cut short leaves no run unfinished that it had not   *)
(* turned away for the lease of an earlier process; and a run in execution *)
(* keeps its lease although nothing else stops a sweep or a second claim.  *)
DrainSettles ==
  /\ Cardinality(Holding) <= MaxInflight
  /\ server = "draining" /\ (\A r \in Runs : task[r] = "none") =>
       \A r \in Runs : row[r].status \in Store!Live => r \in refused
  /\ \A r \in Runs : task[r] \in {"running", "saving"} =>
       row[r].status = "running" /\ ~Store!Stale(r)

(* app.py:74-76: whatever shutdown, drain or crash a run meets, the        *)
(* restarts' reconciliation and the sweeper bring it to an end.            *)
InProcessSettles == \A r \in Runs : []<>(row[r].status \notin Store!Live)

\* The one process, like the deployment with workers, implements the lifecycle a client may
\* rely on; a run's task is its executor.
Lifecycle == INSTANCE RunLifecycle
               WITH Executors <- Runs,
                    Outcomes  <- Store!Outcomes,
                    status    <- [r \in Runs |-> row[r].status],
                    owner     <- [r \in Runs |-> IF task[r] \in {"running", "saving"}
                                               THEN {r} ELSE {}]
ProcessImplementsLifecycle == Lifecycle!Spec
=============================================================================
