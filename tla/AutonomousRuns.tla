--------------------------- MODULE AutonomousRuns ---------------------------
(***************************************************************************)
(* The asynchronous run of the autonomous agent with the Redis backend:    *)
(* the submit handler of any gateway replica, the job queue, the worker    *)
(* processes with their startup recovery and their sweeper, the executor   *)
(* of each dispatched job with its heartbeat, and the run store they share.*)
(*                                                                         *)
(* A client's request walks through submit's awaits, each a step of its    *)
(* own; so does a worker's recovery, and the executor of a job: it claims  *)
(* the run, lets the agent work, loads the row and commits the outcome,    *)
(* and is acked.  Anything may happen between two awaits: a crash, another *)
(* worker's recovery, the sweeper, time.                                   *)
(***************************************************************************)
EXTENDS JobQueue

CONSTANTS
  Clients,        \* requests to POST /runs
  Keys,           \* idempotency keys they send
  NoKey,          \* the header is absent
  NoRun,          \* a request that has no run yet
  NoSession,      \* an executor with no upsert in flight
  Lease,          \* run_stuck_ttl_s, in ticks
  HeartbeatEvery, \* run_heartbeat_interval_s, in ticks
  Punctual,       \* do heartbeats reach the store on time?
  MaxDrops,       \* bound on requests that die halfway through submit
  MaxFaults       \* bound on store errors that the code swallows

ASSUME RunsAssumption ==
  /\ Lease \in Nat
  /\ HeartbeatEvery \in Nat
  /\ HeartbeatEvery <= Lease
  /\ Punctual \in BOOLEAN
  /\ MaxDrops \in Nat
  /\ MaxFaults \in Nat
  /\ NoKey \notin Keys
  /\ NoRun \notin Runs
  /\ Junk = {}      \* entries that do not parse are JobDelivery's subject

VARIABLES
  row, session,   \* the run store; a caller's session is its upsert in flight
  req,            \* the request of each client
  minted,         \* the run ids drawn so far
  listed, todo,   \* reconcile_runs of each worker: has it listed, what is left to enqueue
  stage,          \* where the executor in each slot is
  drops, faults   \* how many of the bounded failures have happened

Store == INSTANCE RunStore WITH Callers <- Flights
ASSUME NoSessionAssumption == NoSession \notin Store!Session

queueVars   == <<main, processing, dead, phase, hold, cargo, crashes>>
storeVars   == <<row, session>>
gatewayVars == <<req, minted, drops>>
recoverVars == <<listed, todo>>
runVars     == <<queueVars, storeVars, gatewayVars, recoverVars, stage, faults>>

Request == [at: {"idle", "creating", "enqueueing", "replied"},
            run: Runs \union {NoRun}, key: Keys \union {NoKey}]
Idle    == [at |-> "idle", run |-> NoRun, key |-> NoKey]

\* "done": the outcome was handed to the store; "refused": the claim was lost.
\* Both only wait for the LREM.
Stages == {"free", "claiming", "running", "saving", "done", "refused"}

RunsTypeOK ==
  /\ TypeOK
  /\ Store!TypeOK
  /\ req \in [Clients -> Request]
  /\ minted \in SUBSET Runs
  /\ listed \in [Workers -> BOOLEAN]
  /\ todo \in [Workers -> SUBSET Runs]
  /\ stage \in [Flights -> Stages]
  /\ drops \in 0..MaxDrops
  /\ faults \in 0..MaxFaults

Active(f)    == stage[f] \in {"running", "saving"}     \* between the claim and the commit
RunOf(f)     == cargo[f].run
Executing(r) == {f \in Flights : Active(f) /\ RunOf(f) = r}

-----------------------------------------------------------------------------
RunsInit ==
  /\ Init
  /\ Store!Init
  /\ req = [c \in Clients |-> Idle]
  /\ minted = {}
  /\ listed = [w \in Workers |-> FALSE]
  /\ todo = [w \in Workers |-> {}]
  /\ stage = [f \in Flights |-> "free"]
  /\ drops = 0
  /\ faults = 0

\* A store call raises, and the code logs the error and goes on.
Fault == faults < MaxFaults /\ faults' = faults + 1

-----------------------------------------------------------------------------
(* submit                                                                   *)

Reply(c, r, k) == req' = [req EXCEPT ![c] = [at |-> "replied", run |-> r, key |-> k]]

\* The idempotency key is known: the original run is the answer.
LookupHit(c, k) ==
  /\ req[c].at = "idle"
  /\ \E r \in Store!Holders(k) : Reply(c, r, k)
  /\ UNCHANGED <<queueVars, storeVars, minted, drops, recoverVars, stage, faults>>

\* Mutant: create_run is left out.
LookupMissUncreated(c, k, r) ==
  /\ req[c].at = "idle"
  /\ r \notin minted
  /\ Store!Holders(k) = {}
  /\ req' = [req EXCEPT ![c] = [at |-> "enqueueing", run |-> r, key |-> k]]
  /\ minted' = minted \union {r}
  /\ UNCHANGED <<queueVars, storeVars, drops, recoverVars, stage, faults>>

\* No key, an unknown key, or a lookup that failed (it returns None): a run id is drawn.
LookupMiss(c, k, r) ==
  /\ req[c].at = "idle"
  /\ r \notin minted
  /\ IF Store!Holders(k) = {} THEN UNCHANGED faults ELSE Fault
  /\ req' = [req EXCEPT ![c] = [at |-> "creating", run |-> r, key |-> k]]
  /\ minted' = minted \union {r}
  /\ UNCHANGED <<queueVars, storeVars, drops, recoverVars, stage>>

\* create_run inserts the row.
Create(c) ==
  /\ req[c].at = "creating"
  /\ Store!CreateRun(req[c].run, req[c].key)
  /\ req' = [req EXCEPT ![c].at = "enqueueing"]
  /\ UNCHANGED <<queueVars, minted, drops, recoverVars, stage, faults>>

\* create_run hits the UNIQUE: the winner's run is the answer and nothing is enqueued.
CreateLosesRace(c) ==
  /\ req[c].at = "creating"
  /\ \E r \in Store!Holders(req[c].key) : Reply(c, r, req[c].key)
  /\ UNCHANGED <<queueVars, storeVars, minted, drops, recoverVars, stage, faults>>

\* create_run fails otherwise: it returns a record of a row that was never written.
CreateUnstored(c) ==
  /\ req[c].at = "creating"
  /\ Fault
  /\ req' = [req EXCEPT ![c].at = "enqueueing"]
  /\ UNCHANGED <<queueVars, storeVars, minted, drops, recoverVars, stage>>

\* Mutant: the handle is returned without a push.
SubmitUnpushed(c) ==
  /\ req[c].at = "enqueueing"
  /\ Reply(c, req[c].run, req[c].key)
  /\ UNCHANGED <<queueVars, storeVars, minted, drops, recoverVars, stage, faults>>

\* The job is pushed and the handle returned.
Submit(c) ==
  /\ req[c].at = "enqueueing"
  /\ Enqueue(Fresh(req[c].run))
  /\ Reply(c, req[c].run, req[c].key)
  /\ UNCHANGED <<storeVars, minted, drops, recoverVars, stage, faults>>

\* The replica dies, or the push raises: the client sees an error and may try again.
Drop(c) ==
  /\ req[c].at \in {"creating", "enqueueing"}
  /\ drops < MaxDrops
  /\ drops' = drops + 1
  /\ req' = [req EXCEPT ![c] = Idle]
  /\ UNCHANGED <<queueVars, storeVars, minted, recoverVars, stage, faults>>

-----------------------------------------------------------------------------
(* The worker process: recovery, then the pop loop and the sweeper           *)

Reclaim(w) ==
  /\ Start(w) \/ ReclaimPop(w) \/ ReclaimPush(w) \/ ReclaimDone(w)
  /\ UNCHANGED <<storeVars, gatewayVars, recoverVars, stage, faults>>

\* reconcile_runs lists what the store says is not finished; on a store error, nothing.
ListRuns(w) ==
  /\ phase[w] = "recovered"
  /\ ~listed[w]
  /\ listed' = [listed EXCEPT ![w] = TRUE]
  /\ \/ /\ todo' = [todo EXCEPT ![w] = {r \in Runs : row[r].status \in Store!Live}]
        /\ UNCHANGED faults
     \/ Fault /\ UNCHANGED todo
  /\ UNCHANGED <<queueVars, storeVars, gatewayVars, stage>>

\* ... and enqueues a fresh job for each, one at a time (their order is left open).
Requeue(w, r) ==
  /\ r \in todo[w]
  /\ Enqueue(Fresh(r))
  /\ todo' = [todo EXCEPT ![w] = @ \ {r}]
  /\ UNCHANGED <<storeVars, gatewayVars, listed, stage, faults>>

\* Recovery is complete: sweeper and pop loop start.
BeginServing(w) ==
  /\ listed[w]
  /\ todo[w] = {}
  /\ Serve(w)
  /\ UNCHANGED <<storeVars, gatewayVars, recoverVars, stage, faults>>

\* run_sweeper of a serving worker.
Sweep(w) ==
  /\ phase[w] = "serving"
  /\ Store!SweepStuckRuns
  /\ UNCHANGED <<queueVars, gatewayVars, recoverVars, stage, faults>>

\* A job is popped and its task starts; dispatch finds the handler of its kind.
Take(w, s) ==
  /\ Fetch(w, s)
  /\ stage' = [stage EXCEPT ![<<w, s>>] = "claiming"]
  /\ UNCHANGED <<storeVars, gatewayVars, recoverVars, faults>>

\* The process dies: its tasks, its recovery and its open sessions die with it.
Die(w) ==
  /\ Crash(w)
  /\ Store!UpsertsLost({w} \X Slots)
  /\ stage' = [f \in Flights |-> IF f[1] = w THEN "free" ELSE stage[f]]
  /\ listed' = [listed EXCEPT ![w] = FALSE]
  /\ todo' = [todo EXCEPT ![w] = {}]
  /\ UNCHANGED <<gatewayVars, faults>>

-----------------------------------------------------------------------------
(* _execute_run and its heartbeat                                            *)

Move(f, to) == stage' = [stage EXCEPT ![f] = to]

ClaimWon(f) ==
  /\ stage[f] = "claiming"
  /\ Store!ClaimRun(RunOf(f))
  /\ Move(f, "running")
  /\ UNCHANGED <<queueVars, gatewayVars, recoverVars, faults>>

ClaimLost(f) ==
  /\ stage[f] = "claiming"
  /\ ~Store!Claimable(RunOf(f))
  /\ Move(f, "refused")
  /\ UNCHANGED <<queueVars, storeVars, gatewayVars, recoverVars, faults>>

\* claim_run fails open.
ClaimUnchecked(f) ==
  /\ stage[f] = "claiming"
  /\ Fault
  /\ Move(f, "running")
  /\ UNCHANGED <<queueVars, storeVars, gatewayVars, recoverVars>>

\* The heartbeat task touches the row until the executor has saved the outcome.  (It
\* is cancelled a little later; a touch of a settled row changes nothing that is read.)
Beat(f) ==
  /\ Active(f)
  /\ Store!TouchRun(RunOf(f))
  /\ UNCHANGED <<queueVars, gatewayVars, recoverVars, stage, faults>>

\* The agent returns or raises, and upsert_run loads the row.
Conclude(f, outcome) ==
  /\ stage[f] = "running"
  /\ Store!UpsertLoad(f, RunOf(f), outcome)
  /\ Move(f, "saving")
  /\ UNCHANGED <<queueVars, gatewayVars, recoverVars, faults>>

Save(f) ==
  /\ stage[f] = "saving"
  /\ Store!UpsertCommit(f)
  /\ Move(f, "done")
  /\ UNCHANGED <<queueVars, gatewayVars, recoverVars, faults>>

\* upsert_run swallows its error; the executor goes on as if it had saved.
SaveUnstored(f) ==
  /\ stage[f] = "saving"
  /\ Fault
  /\ Store!UpsertsLost({f})
  /\ Move(f, "done")
  /\ UNCHANGED <<queueVars, gatewayVars, recoverVars>>

\* dispatch has returned.
Finish(w, s) ==
  /\ stage[<<w, s>>] \in {"done", "refused"}
  /\ Ack(w, s)
  /\ Move(<<w, s>>, "free")
  /\ UNCHANGED <<storeVars, gatewayVars, recoverVars, faults>>

\* Time passes.  With punctual heartbeats no live executor's stamp gets older than
\* the heartbeat interval; without, its event loop or the store may stall at will.
TimePasses ==
  /\ Punctual => \A f \in Flights : Active(f) => row[RunOf(f)].age < HeartbeatEvery
  /\ Store!Tick
  /\ UNCHANGED <<queueVars, gatewayVars, recoverVars, stage, faults>>

-----------------------------------------------------------------------------
GatewayStep(c) ==
  \/ \E k \in Keys \union {NoKey} : LookupHit(c, k)
  \/ \E k \in Keys \union {NoKey}, r \in Runs : LookupMiss(c, k, r)
  \/ Create(c)
  \/ CreateLosesRace(c)
  \/ CreateUnstored(c)
  \/ Submit(c)

WorkerStep(w) ==
  \/ Reclaim(w)
  \/ ListRuns(w)
  \/ \E r \in Runs : Requeue(w, r)
  \/ BeginServing(w)
  \/ \E s \in Slots : Take(w, s)

ExecutorStep(w, s) ==
  \/ ClaimWon(<<w, s>>)
  \/ ClaimLost(<<w, s>>)
  \/ ClaimUnchecked(<<w, s>>)
  \/ \E outcome \in Store!Outcomes : Conclude(<<w, s>>, outcome)
  \/ Save(<<w, s>>)
  \/ SaveUnstored(<<w, s>>)
  \/ Finish(w, s)

RunsNext ==
  \/ \E c \in Clients : GatewayStep(c) \/ Drop(c)
  \/ \E w \in Workers : WorkerStep(w) \/ Sweep(w) \/ Die(w)
  \/ \E w \in Workers, s \in Slots : ExecutorStep(w, s) \/ Beat(<<w, s>>)
  \/ TimePasses

RunsSpec == RunsInit /\ [][RunsNext]_runVars

\* What the deployment and the code's scheduling justify: a dead worker is started
\* again and its event loop runs; an agent run ends (it has a step bound, and every
\* provider call a timeout); heartbeat and sweeper are timers; time does not stop.
\* Nothing makes a client send a request, but a replica that lives finishes one.
RunsFairness ==
  /\ \A c \in Clients : WF_runVars(req[c].at # "idle" /\ GatewayStep(c))
  /\ \A w \in Workers : WF_runVars(WorkerStep(w)) /\ WF_runVars(Sweep(w))
  /\ \A w \in Workers, s \in Slots :
       WF_runVars(ExecutorStep(w, s)) /\ WF_runVars(Beat(<<w, s>>))
  /\ WF_runVars(TimePasses)

RunsFairSpec == RunsSpec /\ RunsFairness

-----------------------------------------------------------------------------
(***************************************************************************)
(* Properties                                                              *)
(***************************************************************************)

\* "A run is only ever actively executed by one worker" (claim_run): under punctual
\* heartbeats no two executors are between claim and commit of the same run,
\* however often its job was duplicated by reclaim and reconcile.
SingleActive ==
  \A f, g \in Flights : Active(f) /\ Active(g) /\ RunOf(f) = RunOf(g) => f = g

\* A live executor holds its lease: its run is marked running and neither another
\* claim nor the sweeper may take it (claim_run, touch_run, sweep_stuck_runs).
LeaseHeld ==
  \A f \in Flights : Active(f) => row[RunOf(f)].status = "running" /\ ~Store!Stale(RunOf(f))

\* A settled run is never pending or running again, and a started one never pending:
\* not by a late claim, upsert, touch or sweep, not even with stalled heartbeats,
\* crashes, duplicate deliveries and swallowed store errors (_execute_run, runs.py).
NeverReopened ==
  [][\A r \in Runs :
       /\ Store!Settled(r) => Store!Settled(r)'
       /\ row[r].status = "running" => row'[r].status \notin {"absent", "pending"}]_runVars

\* "dispatch ... persists terminal state itself, so once it returns the job is
\* genuinely done and safe to ack" (_process), for the executor that ran the agent:
\* when it is about to be acked, the run is settled, whoever else wrote the row.
DoneIsSettled ==
  \A f \in Flights : stage[f] = "done" => Store!Settled(RunOf(f))

\* The same, for any dispatch that returned: the run is settled, or an executor is
\* at it, or another copy of its job remains to be delivered.
CopiesLeft(r) ==
  \/ \E i \in DOMAIN main : main[i].run = r
  \/ \E w \in Workers : r \in todo[w] \/ (hold[w] # NoJob /\ hold[w].run = r)
  \/ \E f \in Flights : RunOf(f) = r /\ stage[f] \in {"claiming", "running", "saving"}

SafeToAck ==
  \A f \in Flights :
    stage[f] \in {"done", "refused"} => Store!Settled(RunOf(f)) \/ CopiesLeft(RunOf(f))

\* "A retry with the same key returns the original run, never a second" (submit).
OneRunPerKey ==
  \A c, d \in Clients :
    /\ req[c].at = "replied" /\ req[d].at = "replied"
    /\ req[c].key = req[d].key /\ req[c].key # NoKey
    => req[c].run = req[d].run

\* A durability outage "degrades to the old in-memory behavior rather than dropping
\* the run" (claim_run): a run that was accepted is not turned away by its executor
\* for want of a row.
NotDropped ==
  \A f \in Flights : stage[f] = "refused" => row[RunOf(f)].status # "absent"

\* "No lost update" (sweep_stuck_runs): the write of a run's outcome also clears the
\* error that the sweeper left.
CompletedHasNoError ==
  \A r \in Runs : row[r].status \in {"completed", "max_steps_reached"} => row[r].error = "none"

\* Every started run is settled, if only by the sweeper: "the stuck-run sweeper is
\* the terminal backstop".
StartedRunSettles == \A r \in Runs : row[r].status = "running" ~> Store!Settled(r)

\* Every accepted run is settled, as long as no request died between create_run and
\* enqueue and no store call failed: list, queue or reclaimer always leads to it.
AcceptedRunSettles == \A r \in Runs : row[r].status = "pending" ~> Store!Settled(r)

\* Both: once a run has a row, it is brought to an end, by its executor or for it.
EveryRunSettles == StartedRunSettles /\ AcceptedRunSettles

\* With punctual heartbeats and a store that answers, all of this implements the
\* lifecycle a client may rely on: executed by one executor at a time, settled once.
Lifecycle == INSTANCE RunLifecycle
               WITH Executors <- Flights,
                    Outcomes  <- Store!Outcomes,
                    status    <- [r \in Runs |-> row[r].status],
                    owner     <- [r \in Runs |-> Executing(r)]

ImplementsLifecycle == Lifecycle!Spec
=============================================================================
