------------------------ MODULE AutonomousRunsProofs ------------------------
(***************************************************************************)
(* Theorems about the asynchronous run, for any number of runs, workers,   *)
(* slots, clients and keys, and any lease, heartbeat interval and bounds   *)
(* on the failures.                                                        *)
(*                                                                         *)
(* Every step of the system is a step of the run store, so that what       *)
(* RunStoreProofs proves of the store holds of the system.  That one       *)
(* executor at a time is at work on a run needs LeaseInv, which ties       *)
(* executors, open upserts and rows together; with it the system           *)
(* implements RunLifecycle.  DoneInv says why a finished executor leaves a *)
(* settled run, KeyInv why an idempotency key names one.                   *)
(***************************************************************************)
EXTENDS AutonomousRuns, JobQueueProofs

\* The store's theorems, about this system's table and executors.
StoreThm == INSTANCE RunStoreProofs WITH Callers <- Flights

\* The assumption on the store's constants follows from the one made here.
LEMMA StoreConstants == StoreThm!StoreAssumption
  BY RunsAssumption DEF StoreThm!StoreAssumption

\* The two instances of the store, this system's and its theorems', say the same.
LEMMA SameStore ==
  /\ Store!Spec <=> StoreThm!Spec
  /\ Store!NeverReopened <=> StoreThm!NeverReopened
  /\ Store!TypeOK <=> StoreThm!TypeOK
  BY DEF Store!Spec, StoreThm!Spec, Store!NeverReopened, StoreThm!NeverReopened,
         Store!Outcomes, StoreThm!Outcomes, Store!Live, StoreThm!Live, Store!Statuses,
         StoreThm!Statuses, Store!Errors, StoreThm!Errors, Store!Row, StoreThm!Row,
         Store!Loaded, StoreThm!Loaded, Store!Session, StoreThm!Session, Store!NewRow,
         StoreThm!NewRow, Store!NoRow, StoreThm!NoRow, Store!Stamped, StoreThm!Stamped,
         Store!Stale, StoreThm!Stale, Store!Settled, StoreThm!Settled, Store!ErrorOf,
         StoreThm!ErrorOf, Store!Holders, StoreThm!Holders, Store!TypeOK, StoreThm!TypeOK,
         Store!Init, StoreThm!Init, Store!CreateRun, StoreThm!CreateRun, Store!Claimable,
         StoreThm!Claimable, Store!ClaimRun, StoreThm!ClaimRun, Store!TouchRun,
         StoreThm!TouchRun, Store!UpsertLoad, StoreThm!UpsertLoad, Store!Written,
         StoreThm!Written, Store!Flushed, StoreThm!Flushed, Store!Inserted,
         StoreThm!Inserted, Store!UpsertCommit, StoreThm!UpsertCommit, Store!UpsertsLost,
         StoreThm!UpsertsLost, Store!Expired, StoreThm!Expired, Store!SweepStuckRuns,
         StoreThm!SweepStuckRuns, Store!Older, StoreThm!Older, Store!Tick, StoreThm!Tick,
         Store!Next, StoreThm!Next, Store!vars, StoreThm!vars

-----------------------------------------------------------------------------
(* Control: what the requests, the workers and the executors are doing       *)

\* Types of everything but the table, and the two facts that tie the control states
\* to the data beside them: a request under way has drawn a run, and an executor is
\* at work exactly in the slots that carry a job.
ControlOK ==
  /\ TypeOK
  /\ req \in [Clients -> Request]
  /\ minted \in SUBSET Runs
  /\ listed \in [Workers -> BOOLEAN]
  /\ todo \in [Workers -> SUBSET Runs]
  /\ stage \in [Flights -> Stages]
  /\ drops \in 0..MaxDrops
  /\ faults \in 0..MaxFaults
  /\ \A c \in Clients : req[c].at # "idle" => req[c].run \in Runs
  /\ \A f \in Flights : stage[f] # "free" <=> cargo[f] # NoJob

\* A slot that carries a job names a run (entries all parse here).
LEMMA CargoNamesRun ==
  ASSUME ControlOK, NEW f \in Flights, stage[f] # "free"
  PROVE  RunOf(f) \in Runs
<1> cargo[f] \in Retriable
  BY DEF ControlOK, TypeOK
<1> QED
  BY RunsAssumption DEF Retriable, RunOf

\* A fresh job may be enqueued, and a swallowed error keeps its count in bounds.
LEMMA FreshTyped == \A r \in Runs : Fresh(r) \in Retriable
  BY QueueAssumption DEF Fresh, Retriable

\* Counting a swallowed store error stays within its bound.
LEMMA FaultTyped ==
  ASSUME faults \in 0..MaxFaults, Fault \/ UNCHANGED faults
  PROVE  faults' \in 0..MaxFaults
  BY RunsAssumption DEF Fault

\* The requests' steps keep the control state (submit).
LEMMA GatewayControl ==
  ASSUME ControlOK, NEW c \in Clients, GatewayStep(c) \/ Drop(c)
  PROVE  ControlOK'
<1> USE DEF ControlOK
<1> DEFINE Quiet == /\ UNCHANGED <<queueVars, listed, todo, stage>>
                    /\ minted' \in SUBSET Runs /\ drops' \in 0..MaxDrops
                    /\ faults' \in 0..MaxFaults
           Answered == /\ req' \in [Clients -> Request]
                       /\ \A d \in Clients : req'[d].at # "idle" => req'[d].run \in Runs
<1>1. ASSUME Quiet, Answered PROVE ControlOK'
  <2>1. TypeOK'
    BY <1>1, QueueTyped DEF QueueStep, queueVars, vars
  <2> QED
    BY <1>1, <2>1 DEF queueVars
<1>2. ASSUME NEW k \in Keys \union {NoKey}, LookupHit(c, k) PROVE ControlOK'
  <2>1. PICK r \in Store!Holders(k) : Reply(c, r, k)
    BY <1>2 DEF LookupHit
  <2>2. Answered
    BY <2>1 DEF Store!Holders, Reply, Request
  <2> QED
    BY <1>1, <1>2, <2>2 DEF LookupHit, recoverVars
<1>3. ASSUME NEW k \in Keys \union {NoKey}, NEW r \in Runs, LookupMiss(c, k, r) PROVE ControlOK'
  <2>1. Answered
    BY <1>3 DEF LookupMiss, Request
  <2>2. faults' \in 0..MaxFaults
    BY <1>3, FaultTyped DEF LookupMiss
  <2> QED
    BY <1>1, <1>3, <2>1, <2>2 DEF LookupMiss, recoverVars
<1>4. ASSUME Create(c) PROVE ControlOK'
  <2>1. Answered
    <3> [req[c] EXCEPT !.at = "enqueueing"] \in Request
      BY DEF Request
    <3> QED
      BY <1>4 DEF Create, Request
  <2> QED
    BY <1>1, <1>4, <2>1 DEF Create, recoverVars
<1>5. ASSUME CreateLosesRace(c) PROVE ControlOK'
  <2>1. PICK r \in Store!Holders(req[c].key) : Reply(c, r, req[c].key)
    BY <1>5 DEF CreateLosesRace
  <2>2. Answered
    BY <2>1 DEF Store!Holders, Reply, Request
  <2> QED
    BY <1>1, <1>5, <2>2 DEF CreateLosesRace, recoverVars
<1>6. ASSUME CreateUnstored(c) PROVE ControlOK'
  <2>1. Answered
    <3> [req[c] EXCEPT !.at = "enqueueing"] \in Request
      BY DEF Request
    <3> QED
      BY <1>6 DEF CreateUnstored, Request
  <2>2. faults' \in 0..MaxFaults
    BY <1>6, FaultTyped DEF CreateUnstored
  <2> QED
    BY <1>1, <1>6, <2>1, <2>2 DEF CreateUnstored, recoverVars
<1>7. ASSUME Submit(c) PROVE ControlOK'
  <2>1. req[c].run \in Runs /\ Fresh(req[c].run) \in Retriable
    BY <1>7, FreshTyped DEF Submit
  <2>2. TypeOK'
    BY <1>7, <2>1, QueueTyped DEF Submit, QueueStep
  <2>3. Answered
    BY <1>7, <2>1 DEF Submit, Reply, Request
  <2> QED
    BY <1>7, <2>2, <2>3 DEF Submit, recoverVars, Enqueue, workers
<1>8. ASSUME Drop(c) PROVE ControlOK'
  <2>1. Answered
    BY <1>8 DEF Drop, Idle, Request
  <2>2. drops' \in 0..MaxDrops
    BY <1>8, RunsAssumption DEF Drop
  <2> QED
    BY <1>1, <1>8, <2>1, <2>2 DEF Drop, recoverVars
<1> QED
  BY <1>2, <1>3, <1>4, <1>5, <1>6, <1>7, <1>8 DEF GatewayStep

\* So do a worker's own steps, its sweeper and its death (worker.py, reconcile.py).
LEMMA WorkerControl ==
  ASSUME ControlOK, NEW w \in Workers, WorkerStep(w) \/ Sweep(w) \/ Die(w)
  PROVE  ControlOK'
<1> USE DEF ControlOK
<1>1. ASSUME Reclaim(w) PROVE ControlOK'
  <2>1. TypeOK'
    BY <1>1, QueueTyped DEF Reclaim, QueueStep
  <2>2. UNCHANGED cargo
    BY <1>1 DEF Reclaim, Start, ReclaimPop, ReclaimPush, ReclaimDone
  <2> QED
    BY <1>1, <2>1, <2>2 DEF Reclaim, gatewayVars, recoverVars
<1>2. ASSUME ListRuns(w) PROVE ControlOK'
  <2>1. TypeOK'
    BY <1>2, QueueTyped DEF ListRuns, QueueStep, queueVars, vars
  <2>2. faults' \in 0..MaxFaults /\ todo' \in [Workers -> SUBSET Runs]
    BY <1>2, FaultTyped DEF ListRuns
  <2> QED
    BY <1>2, <2>1, <2>2 DEF ListRuns, gatewayVars, queueVars
<1>3. ASSUME NEW r \in Runs, Requeue(w, r) PROVE ControlOK'
  <2>1. TypeOK'
    BY <1>3, FreshTyped, QueueTyped DEF Requeue, QueueStep
  <2>2. UNCHANGED cargo
    BY <1>3 DEF Requeue, Enqueue, workers
  <2> QED
    BY <1>3, <2>1, <2>2 DEF Requeue, gatewayVars
<1>4. ASSUME BeginServing(w) PROVE ControlOK'
  <2>1. TypeOK'
    BY <1>4, QueueTyped DEF BeginServing, QueueStep
  <2>2. UNCHANGED cargo
    BY <1>4 DEF BeginServing, Serve
  <2> QED
    BY <1>4, <2>1, <2>2 DEF BeginServing, gatewayVars, recoverVars
<1>5. ASSUME NEW s \in Slots, Take(w, s) PROVE ControlOK'
  <2>1. TypeOK'
    BY <1>5, QueueTyped DEF Take, QueueStep
  <2>2. Last(main) # NoJob
    BY <1>5, PopTail, NoJobIsNone DEF Take, Fetch, TypeOK
  <2>3. <<w, s>> \in Flights
    BY DEF Flights
  <2>4. \A f \in Flights : stage'[f] # "free" <=> cargo'[f] # NoJob
    BY <1>5, <2>2, <2>3 DEF Take, Fetch, TypeOK
  <2>5. stage' \in [Flights -> Stages]
    BY <1>5 DEF Take, Stages
  <2> QED
    BY <1>5, <2>1, <2>4, <2>5 DEF Take, gatewayVars, recoverVars
<1>6. ASSUME Sweep(w) PROVE ControlOK'
  <2>1. TypeOK'
    BY <1>6, QueueTyped DEF Sweep, QueueStep, queueVars, vars
  <2> QED
    BY <1>6, <2>1 DEF Sweep, gatewayVars, recoverVars, queueVars
<1>7. ASSUME Die(w) PROVE ControlOK'
  <2>1. TypeOK'
    BY <1>7, QueueTyped DEF Die, QueueStep
  <2>2. \A f \in Flights : stage'[f] # "free" <=> cargo'[f] # NoJob
    BY <1>7 DEF Die, Crash
  <2>3. stage' \in [Flights -> Stages]
    BY <1>7 DEF Die, Stages
  <2> QED
    BY <1>7, <2>1, <2>2, <2>3 DEF Die, gatewayVars
<1> QED
  BY <1>1, <1>2, <1>3, <1>4, <1>5, <1>6, <1>7 DEF WorkerStep

\* So do the executors, their heartbeats and time (_execute_run).
LEMMA ExecutorControl ==
  ASSUME ControlOK,
         \/ \E w \in Workers, s \in Slots : ExecutorStep(w, s) \/ Beat(<<w, s>>)
         \/ TimePasses
  PROVE  ControlOK'
<1> USE DEF ControlOK
<1> DEFINE Quiet == /\ UNCHANGED <<queueVars, gatewayVars, recoverVars>>
                    /\ faults' \in 0..MaxFaults
           Moved == \E f \in Flights, to \in Stages \ {"free"} : stage[f] # "free" /\ Move(f, to)
<1>1. ASSUME Quiet, Moved \/ UNCHANGED stage PROVE ControlOK'
  <2>1. TypeOK'
    BY <1>1, QueueTyped DEF QueueStep, queueVars, vars
  <2> QED
    BY <1>1, <2>1 DEF queueVars, gatewayVars, recoverVars, Move
<1>2. ASSUME NEW w \in Workers, NEW s \in Slots, Finish(w, s) PROVE ControlOK'
  <2>1. TypeOK'
    BY <1>2, QueueTyped DEF Finish, QueueStep
  <2>2. \A f \in Flights : stage'[f] # "free" <=> cargo'[f] # NoJob
    BY <1>2 DEF Finish, Ack, Move, TypeOK
  <2>3. stage' \in [Flights -> Stages]
    BY <1>2 DEF Finish, Move, Stages
  <2> QED
    BY <1>2, <2>1, <2>2, <2>3 DEF Finish, gatewayVars, recoverVars
<1>3. ASSUME NEW f \in Flights,
             \/ ClaimWon(f) \/ ClaimLost(f) \/ ClaimUnchecked(f)
             \/ \E outcome \in Store!Outcomes : Conclude(f, outcome)
             \/ Save(f) \/ SaveUnstored(f)
      PROVE  ControlOK'
  <2>1. faults' \in 0..MaxFaults
    BY <1>3, FaultTyped DEF ClaimWon, ClaimLost, ClaimUnchecked, Conclude, Save, SaveUnstored
  <2>2. Moved
    BY <1>3 DEF ClaimWon, ClaimLost, ClaimUnchecked, Conclude, Save, SaveUnstored, Stages
  <2> QED
    BY <1>1, <1>3, <2>1, <2>2
    DEF ClaimWon, ClaimLost, ClaimUnchecked, Conclude, Save, SaveUnstored
<1>4. ASSUME NEW f \in Flights, Beat(f) PROVE ControlOK'
  BY <1>1, <1>4 DEF Beat
<1>5. ASSUME TimePasses PROVE ControlOK'
  BY <1>1, <1>5 DEF TimePasses
<1> QED
  BY <1>2, <1>3, <1>4, <1>5 DEF ExecutorStep, Flights

\* The control state is always as ControlOK says (all of submit, worker, executor).
THEOREM ControlCorrect == RunsSpec => []ControlOK
<1>1. RunsInit => ControlOK
  BY QueueInitTyped, RunsAssumption DEF RunsInit, Init, ControlOK, Idle, Request, Stages
<1>2. ControlOK /\ [RunsNext]_runVars => ControlOK'
  <2> SUFFICES ASSUME ControlOK, [RunsNext]_runVars PROVE ControlOK'
    OBVIOUS
  <2>1. CASE UNCHANGED runVars
    <3> TypeOK'
      BY <2>1, QueueTyped DEF ControlOK, QueueStep, runVars, queueVars, vars
    <3> QED
      BY <2>1 DEF ControlOK, runVars, queueVars, gatewayVars, recoverVars
  <2> QED
    BY <2>1, GatewayControl, WorkerControl, ExecutorControl DEF RunsNext
<1> QED
  BY <1>1, <1>2, PTL DEF RunsSpec

-----------------------------------------------------------------------------
(* The system uses the store as the store is meant to be used                *)

\* Whatever a request, a worker, an executor or the clock does is an operation of
\* the store on a run that exists, or leaves the store alone (the callers of runs.py).
LEMMA StoreStep ==
  ASSUME ControlOK, [RunsNext]_runVars
  PROVE  [Store!Next]_(Store!vars)
<1> DEFINE Idles == UNCHANGED storeVars
<1>0. ASSUME Idles PROVE UNCHANGED Store!vars
  BY <1>0 DEF storeVars, Store!vars
<1>1. ASSUME NEW c \in Clients, GatewayStep(c) \/ Drop(c) PROVE Store!Next \/ Idles
  <2>1. CASE Create(c)
    <3>1. req[c].run \in Runs /\ req[c].key \in Keys \union {NoKey}
      BY <2>1 DEF Create, ControlOK, Request
    <3> QED
      BY <2>1, <3>1 DEF Create, Store!Next
  <2> QED
    BY <1>1, <2>1 DEF GatewayStep, LookupHit, LookupMiss, CreateLosesRace, CreateUnstored,
                      Submit, Drop
<1>2. ASSUME NEW w \in Workers, WorkerStep(w) \/ Sweep(w) \/ Die(w) PROVE Store!Next \/ Idles
  <2>1. CASE Sweep(w)
    BY <2>1 DEF Sweep, Store!Next
  <2>2. CASE Die(w)
    <3>1. {w} \X Slots \in SUBSET Flights
      BY DEF Flights
    <3> QED
      BY <2>2, <3>1 DEF Die, Store!Next
  <2> QED
    BY <1>2, <2>1, <2>2 DEF WorkerStep, Reclaim, ListRuns, Requeue, BeginServing, Take
<1>3. ASSUME NEW w \in Workers, NEW s \in Slots, ExecutorStep(w, s) \/ Beat(<<w, s>>)
      PROVE  Store!Next \/ Idles
  <2> DEFINE f == <<w, s>>
  <2>1. f \in Flights /\ {f} \in SUBSET Flights
    BY DEF Flights
  <2>2. stage[f] # "free" => RunOf(f) \in Runs
    BY <2>1, CargoNamesRun
  <2> HIDE DEF f
  <2>3. CASE ClaimWon(f)
    BY <2>2, <2>3 DEF ClaimWon, Store!Next
  <2>4. CASE ClaimLost(f) \/ ClaimUnchecked(f) \/ Finish(w, s)
    BY <2>4 DEF ClaimLost, ClaimUnchecked, Finish
  <2>5. CASE \E outcome \in Store!Outcomes : Conclude(f, outcome)
    BY <2>1, <2>2, <2>5 DEF Conclude, Store!Next
  <2>6. CASE Save(f)
    BY <2>1, <2>6 DEF Save, Store!Next
  <2>7. CASE SaveUnstored(f)
    BY <2>1, <2>7 DEF SaveUnstored, Store!Next
  <2>8. CASE Beat(f)
    BY <2>2, <2>8 DEF Beat, Active, Store!Next
  <2> QED
    BY <1>3, <2>3, <2>4, <2>5, <2>6, <2>7, <2>8 DEF ExecutorStep, f
<1>4. ASSUME TimePasses PROVE Store!Next
  BY <1>4 DEF TimePasses, Store!Next
<1>5. UNCHANGED runVars => Idles
  BY DEF runVars
<1> QED
  BY <1>0, <1>1, <1>2, <1>3, <1>4, <1>5 DEF RunsNext

\* The run subsystem implements the run store: with the other variables hidden, its
\* behaviours are behaviours of RunStore (runs.py is only used through its functions).
THEOREM ImplementsStore == RunsSpec => Store!Spec
<1>1. RunsInit => Store!Init
  BY DEF RunsInit
<1>2. ControlOK /\ [RunsNext]_runVars => [Store!Next]_(Store!vars)
  BY StoreStep
<1> QED
  BY <1>1, <1>2, ControlCorrect, PTL DEF RunsSpec, Store!Spec

\* The type invariant of the whole subsystem.
THEOREM RunsTypeCorrect == RunsSpec => []RunsTypeOK
<1>1. RunsSpec => []Store!TypeOK
  BY ImplementsStore, SameStore, StoreConstants, StoreThm!TypeCorrect, PTL
<1>2. ControlOK /\ Store!TypeOK => RunsTypeOK
  BY DEF ControlOK, RunsTypeOK
<1> QED
  BY <1>1, <1>2, ControlCorrect, PTL

\* No interleaving of requests, recoveries, executors, heartbeats, sweepers, crashes,
\* duplicate deliveries and swallowed store errors reopens a settled run.
THEOREM RunsNeverReopen == RunsSpec => NeverReopened
<1>1. RunsSpec => Store!NeverReopened
  BY ImplementsStore, SameStore, StoreConstants, StoreThm!StoreNeverReopens, PTL
<1> DEFINE Keeps == \A r \in Runs :
       /\ Store!Settled(r) => Store!Settled(r)'
       /\ row[r].status = "running" => row'[r].status \notin {"absent", "pending"}
<1>2. [Keeps]_(Store!vars) => [Keeps]_runVars
  BY DEF Store!vars, runVars, storeVars, Store!Settled
<1> QED
  BY <1>1, <1>2, PTL DEF Store!NeverReopened, NeverReopened

-----------------------------------------------------------------------------
(* One executor at a time                                                    *)

\* An upsert is in flight exactly where an executor is saving, and it is of its run.
SavesOwnRun ==
  \A f \in Flights :
    /\ stage[f] = "saving" <=> session[f] # NoSession
    /\ stage[f] = "saving" => session[f].run = RunOf(f)

\* SingleActive and LeaseHeld are not inductive: a second executor gets in once the
\* first one's stamp is older than the lease, so the stamp has to be bounded by the
\* heartbeat interval; and a commit touches the row its session names.
LeaseInv ==
  /\ SingleActive
  /\ \A f \in Flights : Active(f) => /\ row[RunOf(f)].status = "running"
                                     /\ row[RunOf(f)].age <= HeartbeatEvery
  /\ SavesOwnRun

\* What a step leaves alone: the executors' stages, jobs and sessions.
Still == UNCHANGED <<stage, cargo, session>>

\* A step that leaves the executors alone leaves their upserts where they were.
LEMMA StillSaves ==
  ASSUME SavesOwnRun, Still
  PROVE  SavesOwnRun'
  BY DEF SavesOwnRun, Still, RunOf

\* A step that leaves the executors alone, and keeps the rows of the active ones
\* running and young, keeps the invariant.
LEMMA StillLeased ==
  ASSUME LeaseInv, Still,
         \A f \in Flights : Active(f) => /\ row'[RunOf(f)].status = "running"
                                         /\ row'[RunOf(f)].age <= HeartbeatEvery
  PROVE  LeaseInv'
  BY StillSaves DEF LeaseInv, Still, SingleActive, Active, RunOf

\* Upserts in flight follow their executors through every step.
LEMMA SavesOwnRunStep ==
  ASSUME RunsTypeOK, ControlOK, SavesOwnRun, [RunsNext]_runVars
  PROVE  SavesOwnRun'
<1> USE DEF SavesOwnRun, RunOf
<1>0. RunsTypeOK /\ stage \in [Flights -> Stages] /\ cargo \in [Flights -> Retriable \union {NoJob}]
      /\ session \in [Flights -> Store!Session \union {NoSession}] /\ row \in [Runs -> Store!Row]
  BY DEF RunsTypeOK, TypeOK, Store!TypeOK
<1>1. ASSUME NEW c \in Clients, GatewayStep(c) \/ Drop(c) PROVE Still
  BY <1>1 DEF Still, GatewayStep, LookupHit, LookupMiss, Create, CreateLosesRace, CreateUnstored,
              Submit, Drop, storeVars, queueVars, Enqueue, workers, Store!CreateRun
<1>2. ASSUME NEW w \in Workers, Reclaim(w) \/ ListRuns(w) \/ BeginServing(w) \/ Sweep(w)
                                 \/ \E r \in Runs : Requeue(w, r)
      PROVE  Still
  BY <1>2 DEF Still, Reclaim, ListRuns, BeginServing, Sweep, Requeue, storeVars, queueVars,
              Start, ReclaimPop, ReclaimPush, ReclaimDone, Serve, Enqueue, workers,
              Store!SweepStuckRuns
<1>3. ASSUME NEW w \in Workers, NEW s \in Slots, Take(w, s) PROVE SavesOwnRun'
  <2>1. stage[<<w, s>>] = "free"
    BY <1>3 DEF Take, Fetch, ControlOK, Flights
  <2> QED
    BY <1>0, <1>3, <2>1 DEF Take, Fetch, storeVars
<1>4. ASSUME NEW w \in Workers, Die(w) PROVE SavesOwnRun'
  <2>1. session' = [f \in Flights |-> IF f[1] = w THEN NoSession ELSE session[f]]
    BY <1>4 DEF Die, Store!UpsertsLost, Flights
  <2>2. /\ stage' = [f \in Flights |-> IF f[1] = w THEN "free" ELSE stage[f]]
        /\ cargo' = [f \in Flights |-> IF f[1] = w THEN NoJob ELSE cargo[f]]
    BY <1>4 DEF Die, Crash
  <2> QED
    BY <1>0, <2>1, <2>2
<1>5. ASSUME NEW f \in Flights,
             ClaimWon(f) \/ ClaimLost(f) \/ ClaimUnchecked(f)
      PROVE  SavesOwnRun'
  <2>1. session' = session /\ cargo' = cargo
    BY <1>5 DEF ClaimWon, ClaimLost, ClaimUnchecked, Store!ClaimRun, storeVars, queueVars
  <2>2. stage[f] = "claiming" /\ \E to \in {"running", "refused"} : stage' = [stage EXCEPT ![f] = to]
    BY <1>5 DEF ClaimWon, ClaimLost, ClaimUnchecked, Move
  <2> QED
    BY <1>0, <2>1, <2>2
<1>6. ASSUME NEW f \in Flights, NEW outcome \in Store!Outcomes, Conclude(f, outcome)
      PROVE  SavesOwnRun'
  <2> DEFINE new == [run    |-> RunOf(f),
                     seen   |-> [status |-> row[RunOf(f)].status, error |-> row[RunOf(f)].error],
                     status |-> outcome]
  <2>1. stage[f] = "running" /\ stage' = [stage EXCEPT ![f] = "saving"] /\ cargo' = cargo
    BY <1>6 DEF Conclude, Move, queueVars
  <2>2. session' = [session EXCEPT ![f] = new]
    BY <1>6 DEF Conclude, Store!UpsertLoad
  <2>3. RunOf(f) \in Runs
    BY <2>1, CargoNamesRun
  <2>4. new \in Store!Session
    BY <1>0, <2>3 DEF Store!Session, Store!Loaded, Store!Row
  <2>5. new # NoSession /\ new.run = RunOf(f)
    BY <2>4, NoSessionAssumption
  <2> HIDE DEF new
  <2> QED
    BY <1>0, <2>1, <2>2, <2>5
<1>7. ASSUME NEW f \in Flights, Save(f) \/ SaveUnstored(f) PROVE SavesOwnRun'
  <2>1. stage[f] = "saving" /\ stage' = [stage EXCEPT ![f] = "done"] /\ cargo' = cargo
    BY <1>7 DEF Save, SaveUnstored, Move, queueVars
  <2>2. session' = [session EXCEPT ![f] = NoSession]
    BY <1>0, <1>7 DEF Save, SaveUnstored, Store!UpsertCommit, Store!UpsertsLost
  <2> QED
    BY <1>0, <2>1, <2>2
<1>8. ASSUME NEW w \in Workers, NEW s \in Slots, Finish(w, s) PROVE SavesOwnRun'
  <2>1. /\ stage[<<w, s>>] \in {"done", "refused"} /\ session' = session
        /\ stage' = [stage EXCEPT ![<<w, s>>] = "free"]
        /\ cargo' = [cargo EXCEPT ![<<w, s>>] = NoJob]
    BY <1>8 DEF Finish, Move, Ack, storeVars
  <2> QED
    BY <1>0, <2>1
<1>9. ASSUME (\E f \in Flights : Beat(f)) \/ TimePasses \/ UNCHANGED runVars PROVE Still
  BY <1>9 DEF Still, Beat, TimePasses, Store!TouchRun, Store!Tick, runVars, queueVars, storeVars
<1> HIDE DEF SavesOwnRun, RunOf
<1>10. ASSUME NEW w \in Workers, NEW s \in Slots, ExecutorStep(w, s) \/ Beat(<<w, s>>)
       PROVE  SavesOwnRun'
  <2>1. <<w, s>> \in Flights
    BY DEF Flights
  <2> QED
    BY <1>5, <1>6, <1>7, <1>8, <1>9, <1>10, <2>1, StillSaves DEF ExecutorStep
<1>11. ASSUME NEW w \in Workers, WorkerStep(w) \/ Sweep(w) \/ Die(w) PROVE SavesOwnRun'
  BY <1>2, <1>3, <1>4, <1>11, StillSaves DEF WorkerStep
<1> QED
  BY <1>1, <1>9, <1>10, <1>11, StillSaves DEF RunsNext

\* With heartbeats on time and a store that answers, every step keeps the lease of
\* every executor (claim_run, touch_run, sweep_stuck_runs against one another).
LEMMA LeaseStep ==
  ASSUME Punctual, MaxFaults = 0,
         RunsTypeOK, ControlOK, LeaseInv, [RunsNext]_runVars
  PROVE  LeaseInv'
<1>0. /\ stage \in [Flights -> Stages] /\ row \in [Runs -> Store!Row] /\ Lease \in Nat
      /\ HeartbeatEvery \in Nat /\ HeartbeatEvery <= Lease
      /\ \A r \in Runs : row[r].age \in 0..(Lease + 1)
  BY RunsAssumption DEF RunsTypeOK, Store!TypeOK, Store!Row
<1>s. SavesOwnRun'
  BY SavesOwnRunStep DEF LeaseInv
<1>a. \A f \in Flights : Active(f) => /\ RunOf(f) \in Runs
                                      /\ row[RunOf(f)].status = "running"
                                      /\ row[RunOf(f)].age <= HeartbeatEvery
                                      /\ ~Store!Stale(RunOf(f))
  BY <1>0, CargoNamesRun DEF LeaseInv, Active, Store!Stale
<1>f. ~Fault
  BY DEF Fault, ControlOK
<1>1. ASSUME Still, UNCHANGED row PROVE LeaseInv'
  BY <1>1, <1>a, StillLeased
<1>2. ASSUME NEW c \in Clients, GatewayStep(c) \/ Drop(c) PROVE LeaseInv'
  <2>1. CASE Create(c)
    <3>1. Still /\ row[req[c].run].status = "absent"
          /\ \E new : row' = [row EXCEPT ![req[c].run] = new]
      BY <2>1 DEF Create, Still, Store!CreateRun, queueVars
    <3>2. \A f \in Flights : Active(f) => row'[RunOf(f)] = row[RunOf(f)]
      BY <1>0, <1>a, <3>1
    <3> QED
      BY <3>1, <3>2, <1>a, StillLeased
  <2>2. CASE ~Create(c)
    BY <1>1, <1>2, <2>2 DEF Still, GatewayStep, LookupHit, LookupMiss, CreateLosesRace, CreateUnstored,
              Submit, Drop, storeVars, queueVars, Enqueue, workers
  <2> QED
    BY <2>1, <2>2
<1>3. ASSUME NEW w \in Workers, WorkerStep(w) \/ Sweep(w) \/ Die(w) PROVE LeaseInv'
  <2>1. CASE Reclaim(w) \/ ListRuns(w) \/ BeginServing(w) \/ \E r \in Runs : Requeue(w, r)
    BY <1>1, <2>1 DEF Still, Reclaim, ListRuns, BeginServing, Requeue, storeVars, queueVars,
              Start, ReclaimPop, ReclaimPush, ReclaimDone, Serve, Enqueue, workers
  <2>2. ASSUME NEW s \in Slots, Take(w, s) PROVE LeaseInv'
    <3>1. /\ row' = row /\ stage' = [stage EXCEPT ![<<w, s>>] = "claiming"]
          /\ \A f \in Flights : f # <<w, s>> => cargo'[f] = cargo[f]
      BY <2>2 DEF Take, Fetch, storeVars, RunsTypeOK, TypeOK
    <3>2. \A f \in Flights : Active(f)' => Active(f) /\ RunOf(f)' = RunOf(f)
      BY <1>0, <3>1 DEF Active, RunOf
    <3> QED
      BY <1>s, <3>1, <3>2 DEF LeaseInv, SingleActive
  <2>3. CASE Sweep(w)
    <3>1. Still /\ \A r \in Runs : ~Store!Stale(r) => row'[r] = row[r]
      BY <1>0, <2>3 DEF Sweep, Still, queueVars, Store!SweepStuckRuns, Store!Expired
    <3>2. \A f \in Flights : Active(f) => row'[RunOf(f)] = row[RunOf(f)]
      BY <1>a, <3>1
    <3> QED
      BY <3>1, <3>2, <1>a, StillLeased
  <2>4. CASE Die(w)
    <3>1. /\ row' = row
          /\ stage' = [f \in Flights |-> IF f[1] = w THEN "free" ELSE stage[f]]
          /\ cargo' = [f \in Flights |-> IF f[1] = w THEN NoJob ELSE cargo[f]]
      BY <2>4 DEF Die, Crash, Store!UpsertsLost
    <3>2. \A f \in Flights : Active(f)' => Active(f) /\ RunOf(f)' = RunOf(f)
      BY <1>0, <3>1 DEF Active, RunOf
    <3> QED
      BY <1>s, <3>1, <3>2 DEF LeaseInv, SingleActive
  <2> QED
    BY <1>3, <2>1, <2>2, <2>3, <2>4 DEF WorkerStep
<1>4. ASSUME NEW w \in Workers, NEW s \in Slots, NEW f \in Flights, f = <<w, s>>,
             ExecutorStep(w, s) \/ Beat(f)
      PROVE  LeaseInv'
  <2>1. stage[f] # "free" => RunOf(f) \in Runs
    BY CargoNamesRun
  <2>2. CASE ClaimWon(f)
    <3> DEFINE r == RunOf(f)
    <3>r. r = RunOf(f)
      OBVIOUS
    <3>1. /\ r \in Runs /\ cargo' = cargo /\ stage' = [stage EXCEPT ![f] = "running"]
          /\ row' = [row EXCEPT ![r] = Store!Stamped(r, "running", row[r].error)]
          /\ Store!Claimable(r)
      BY <2>1, <2>2 DEF ClaimWon, Move, Store!ClaimRun, queueVars
    <3>2. \A g \in Flights : Active(g) => RunOf(g) # r
      BY <1>a, <3>1 DEF Store!Claimable
    <3>3. row'[r].status = "running" /\ row'[r].age = 0
      BY <1>0, <3>1 DEF Store!Stamped, Store!NewRow
    <3>4. \A g \in Flights : /\ RunOf(g)' = RunOf(g)
                             /\ Active(g)' <=> Active(g) \/ g = f
      BY <1>0, <3>1 DEF Active, RunOf
    <3>5. \A g \in Flights : Active(g) => row'[RunOf(g)] = row[RunOf(g)]
      BY <1>0, <1>a, <3>1, <3>2
    <3> HIDE DEF r
    <3>6. SingleActive'
      BY <3>2, <3>4, <3>r DEF LeaseInv, SingleActive
    <3>7. ASSUME NEW g \in Flights, Active(g)'
          PROVE  row'[RunOf(g)'].status = "running" /\ row'[RunOf(g)'].age <= HeartbeatEvery
      BY <1>0, <1>a, <3>3, <3>4, <3>5, <3>7, <3>r
    <3> QED
      BY <1>s, <3>6, <3>7 DEF LeaseInv
  <2>3. CASE ClaimLost(f)
    <3>1. row' = row /\ cargo' = cargo /\ stage' = [stage EXCEPT ![f] = "refused"]
      BY <2>3 DEF ClaimLost, Move, storeVars, queueVars
    <3>2. \A g \in Flights : Active(g)' => Active(g) /\ RunOf(g)' = RunOf(g)
      BY <1>0, <3>1 DEF Active, RunOf
    <3> QED
      BY <1>s, <3>1, <3>2 DEF LeaseInv, SingleActive
  <2>4. CASE ClaimUnchecked(f) \/ SaveUnstored(f)
    BY <1>f, <2>4 DEF ClaimUnchecked, SaveUnstored
  <2>5. ASSUME NEW outcome \in Store!Outcomes, Conclude(f, outcome) PROVE LeaseInv'
    <3>1. /\ row' = row /\ cargo' = cargo /\ stage[f] = "running"
          /\ stage' = [stage EXCEPT ![f] = "saving"]
      BY <2>5 DEF Conclude, Move, Store!UpsertLoad, queueVars
    <3>2. \A g \in Flights : Active(g)' => Active(g) /\ RunOf(g)' = RunOf(g)
      BY <1>0, <3>1 DEF Active, RunOf
    <3> QED
      BY <1>s, <3>1, <3>2 DEF LeaseInv, SingleActive
  <2>6. CASE Save(f)
    <3> DEFINE r == session[f].run
    <3>1. /\ cargo' = cargo /\ stage[f] = "saving" /\ stage' = [stage EXCEPT ![f] = "done"]
          /\ row' = row \/ \E new : row' = [row EXCEPT ![r] = new]
      BY <2>6 DEF Save, Move, Store!UpsertCommit, queueVars
    <3>2. r = RunOf(f)
      BY <3>1 DEF LeaseInv, SavesOwnRun
    <3>3. \A g \in Flights : Active(g)' => g # f /\ Active(g) /\ RunOf(g)' = RunOf(g)
      BY <1>0, <3>1 DEF Active, RunOf
    <3>4. \A g \in Flights : Active(g)' => RunOf(g) # r
      BY <3>1, <3>2, <3>3 DEF LeaseInv, SingleActive, Active
    <3>5. \A g \in Flights : Active(g)' => row'[RunOf(g)] = row[RunOf(g)]
      BY <1>0, <1>a, <3>1, <3>3, <3>4
    <3> QED
      BY <1>s, <3>3, <3>5 DEF LeaseInv, SingleActive
  <2>7. CASE Finish(w, s)
    <3>1. /\ row' = row /\ stage' = [stage EXCEPT ![f] = "free"]
          /\ cargo' = [cargo EXCEPT ![f] = NoJob]
      BY <1>4, <2>7 DEF Finish, Move, Ack, storeVars
    <3>2. \A g \in Flights : Active(g)' => Active(g) /\ RunOf(g)' = RunOf(g)
      BY <1>0, <3>1 DEF Active, RunOf, RunsTypeOK, TypeOK
    <3> QED
      BY <1>s, <3>1, <3>2 DEF LeaseInv, SingleActive
  <2>8. CASE Beat(f)
    <3> DEFINE r == RunOf(f)
    <3>1. /\ Still /\ r \in Runs
          /\ row' = [row EXCEPT ![r] = Store!Stamped(r, row[r].status, row[r].error)]
      BY <2>1, <2>8 DEF Beat, Active, Still, Store!TouchRun, queueVars
    <3>2. \A q \in Runs : row'[q].status = row[q].status /\ (row'[q].age = row[q].age \/ row'[q].age = 0)
      BY <1>0, <3>1 DEF Store!Stamped, Store!NewRow
    <3> QED
      BY <1>0, <1>a, <3>1, <3>2, StillLeased
  <2> QED
    BY <1>4, <2>2, <2>3, <2>4, <2>5, <2>6, <2>7, <2>8 DEF ExecutorStep
<1>5. ASSUME TimePasses PROVE LeaseInv'
  <2>1. /\ Still /\ \A f \in Flights : Active(f) => row[RunOf(f)].age < HeartbeatEvery
        /\ row' = [r \in Runs |-> IF row[r].status = "running"
                                  THEN [row[r] EXCEPT !.age = Store!Older(@)]
                                  ELSE row[r]]
    BY <1>5 DEF TimePasses, Still, Store!Tick, queueVars
  <2>2. ASSUME NEW f \in Flights, Active(f)
        PROVE  row'[RunOf(f)].status = "running" /\ row'[RunOf(f)].age <= HeartbeatEvery
    BY <1>0, <1>a, <2>1, <2>2 DEF Store!Older, Store!Row
  <2> QED
    BY <2>1, <2>2, StillLeased
<1>6. ASSUME UNCHANGED runVars PROVE LeaseInv'
  BY <1>1, <1>6 DEF runVars, Still, storeVars, queueVars
<1> QED
  BY <1>2, <1>3, <1>4, <1>5, <1>6 DEF RunsNext, Flights

\* The invariant holds: for any number of workers, slots, runs and duplicates of jobs.
LEMMA LeaseKept ==
  ASSUME Punctual, MaxFaults = 0
  PROVE  RunsSpec => []LeaseInv
<1>1. RunsInit => LeaseInv
  BY DEF RunsInit, LeaseInv, SingleActive, Active, SavesOwnRun, Store!Init
<1>2. RunsTypeOK /\ ControlOK /\ LeaseInv /\ [RunsNext]_runVars => LeaseInv'
  BY LeaseStep
<1> QED
  BY <1>1, <1>2, RunsTypeCorrect, ControlCorrect, PTL DEF RunsSpec

\* "A run is only ever actively executed by one worker" (claim_run).
THEOREM OneExecutor ==
  ASSUME Punctual, MaxFaults = 0
  PROVE  RunsSpec => []SingleActive
<1>1. LeaseInv => SingleActive
  BY DEF LeaseInv
<1> QED
  BY <1>1, LeaseKept, PTL

\* No executor at work can be overtaken by a claim or swept (touch_run against
\* claim_run and sweep_stuck_runs).
THEOREM LeaseIsHeld ==
  ASSUME Punctual, MaxFaults = 0
  PROVE  RunsSpec => []LeaseHeld
<1>1. RunsTypeOK /\ ControlOK /\ LeaseInv => LeaseHeld
  <2> SUFFICES ASSUME RunsTypeOK, ControlOK, LeaseInv, NEW f \in Flights, Active(f)
               PROVE  row[RunOf(f)].status = "running" /\ ~Store!Stale(RunOf(f))
    BY DEF LeaseHeld
  <2>1. RunOf(f) \in Runs
    BY CargoNamesRun DEF Active
  <2> QED
    BY <2>1, RunsAssumption DEF LeaseInv, Store!Stale, RunsTypeOK, Store!TypeOK, Store!Row
<1> QED
  BY <1>1, LeaseKept, RunsTypeCorrect, ControlCorrect, PTL

-----------------------------------------------------------------------------
(* What an ack and a reply mean                                              *)

\* An executor's slot changes in one of these ways (when no store call fails).
LEMMA SlotStep ==
  ASSUME MaxFaults = 0, RunsTypeOK, ControlOK, SavesOwnRun, [RunsNext]_runVars,
         NEW f \in Flights
  PROVE  \/ stage'[f] \in {"free", "claiming", "refused"}
         \/ stage'[f] = stage[f] /\ cargo'[f] = cargo[f] /\ session'[f] = session[f]
         \/ ClaimWon(f)
         \/ \E outcome \in Store!Outcomes : Conclude(f, outcome)
         \/ Save(f)
<1> DEFINE Goal == \/ stage'[f] \in {"free", "claiming", "refused"}
                   \/ stage'[f] = stage[f] /\ cargo'[f] = cargo[f] /\ session'[f] = session[f]
                   \/ ClaimWon(f)
                   \/ \E outcome \in Store!Outcomes : Conclude(f, outcome)
                   \/ Save(f)
<1>0. /\ stage \in [Flights -> Stages] /\ cargo \in [Flights -> Retriable \union {NoJob}]
      /\ session \in [Flights -> Store!Session \union {NoSession}]
  BY DEF RunsTypeOK, TypeOK, Store!TypeOK
<1>f. ~Fault
  BY DEF Fault, ControlOK
<1>1. ASSUME Still PROVE Goal
  BY <1>1 DEF Still
<1>2. ASSUME NEW c \in Clients, GatewayStep(c) \/ Drop(c) PROVE Still
  BY <1>2 DEF Still, GatewayStep, LookupHit, LookupMiss, Create, CreateLosesRace, CreateUnstored,
              Submit, Drop, storeVars, queueVars, Enqueue, workers, Store!CreateRun
<1>3. ASSUME NEW w \in Workers, WorkerStep(w) \/ Sweep(w) \/ Die(w) PROVE Goal
  <2>1. CASE Reclaim(w) \/ ListRuns(w) \/ BeginServing(w) \/ Sweep(w) \/ \E r \in Runs : Requeue(w, r)
    BY <1>1, <2>1 DEF Still, Reclaim, ListRuns, BeginServing, Sweep, Requeue, storeVars,
              queueVars, Start, ReclaimPop, ReclaimPush, ReclaimDone, Serve, Enqueue, workers,
              Store!SweepStuckRuns
  <2>2. ASSUME NEW s \in Slots, Take(w, s) PROVE Goal
    BY <1>0, <2>2 DEF Take, Fetch, storeVars
  <2>3. CASE Die(w)
    <3>1. /\ stage' = [g \in Flights |-> IF g[1] = w THEN "free" ELSE stage[g]]
          /\ cargo' = [g \in Flights |-> IF g[1] = w THEN NoJob ELSE cargo[g]]
          /\ session' = [g \in Flights |-> IF g \in {w} \X Slots THEN NoSession ELSE session[g]]
      BY <2>3 DEF Die, Crash, Store!UpsertsLost
    <3>2. f \in {w} \X Slots => f[1] = w
      BY DEF Flights
    <3> QED
      BY <1>0, <3>1, <3>2
  <2> QED
    BY <1>3, <2>1, <2>2, <2>3 DEF WorkerStep
<1>4. ASSUME NEW w \in Workers, NEW s \in Slots, NEW g \in Flights, g = <<w, s>>,
             ExecutorStep(w, s) \/ Beat(g)
      PROVE  Goal
  <2>1. CASE ClaimLost(g)
    BY <1>0, <2>1 DEF ClaimLost, Move, storeVars, queueVars
  <2>2. CASE ClaimUnchecked(g) \/ SaveUnstored(g)
    BY <1>f, <2>2 DEF ClaimUnchecked, SaveUnstored
  <2>3. CASE Beat(g)
    BY <1>1, <2>3 DEF Beat, Still, Store!TouchRun, queueVars
  <2>4. CASE Finish(w, s)
    BY <1>0, <1>4, <2>4 DEF Finish, Move, Ack, storeVars
  <2>5. CASE ClaimWon(g)
    BY <1>0, <2>5 DEF ClaimWon, Move, Store!ClaimRun, queueVars
  <2>6. ASSUME NEW outcome \in Store!Outcomes, Conclude(g, outcome) PROVE Goal
    BY <1>0, <2>6 DEF Conclude, Move, Store!UpsertLoad, queueVars
  <2>7. CASE Save(g)
    BY <1>0, <2>7 DEF Save, Move, Store!UpsertCommit, queueVars
  <2> HIDE DEF Goal
  <2> QED
    BY <1>4, <2>1, <2>2, <2>3, <2>4, <2>5, <2>6, <2>7 DEF ExecutorStep
<1>5. ASSUME TimePasses \/ UNCHANGED runVars PROVE Still
  BY <1>5 DEF Still, TimePasses, Store!Tick, runVars, queueVars, storeVars
<1> HIDE DEF Goal
<1>6. Goal
  BY <1>1, <1>2, <1>3, <1>4, <1>5 DEF RunsNext, Flights
<1> QED
  BY <1>6 DEF Goal

Started(r) == row[r].status \notin {"absent", "pending"}

\* Why an executor that is done leaves a settled run: what it writes is an outcome, and
\* if its commit leaves the status column out, the loaded row was settled already.
DoneInv ==
  /\ SavesOwnRun
  /\ DoneIsSettled
  /\ \A f \in Flights : Active(f) => Started(RunOf(f))
  /\ \A f \in Flights : stage[f] = "saving" =>
       /\ session[f].seen.status \notin {"absent", "pending"}
       /\ session[f].seen.status \in Store!Outcomes => Store!Settled(RunOf(f))

\* The step of NeverReopened.
Keeps == \A r \in Runs :
           /\ Store!Settled(r) => Store!Settled(r)'
           /\ row[r].status = "running" => row'[r].status \notin {"absent", "pending"}

\* DoneInv is kept: the store never undoes what an upsert loaded or wrote (_execute_run).
LEMMA DoneStep ==
  ASSUME MaxFaults = 0,
         RunsTypeOK, ControlOK, DoneInv, [RunsNext]_runVars, [Keeps]_runVars
  PROVE  DoneInv'
<1>0. /\ row \in [Runs -> Store!Row] /\ session \in [Flights -> Store!Session \union {NoSession}]
      /\ stage \in [Flights -> Stages]
      /\ \A r \in Runs : row[r].status \in Store!Statuses
  BY DEF RunsTypeOK, Store!TypeOK, Store!Row
<1>s. SavesOwnRun'
  BY SavesOwnRunStep DEF DoneInv
<1>k. \A r \in Runs : /\ Store!Settled(r) => Store!Settled(r)'
                      /\ Started(r) => Started(r)'
  BY <1>0 DEF Keeps, Started, Store!Settled, Store!Statuses, Store!Live, Store!Outcomes,
              runVars, storeVars
<1>1. ASSUME NEW f \in Flights
      PROVE  /\ stage'[f] = "done" => Store!Settled(RunOf(f))'
             /\ Active(f)' => Started(RunOf(f))'
             /\ stage'[f] = "saving" =>
                  /\ session'[f].seen.status \notin {"absent", "pending"}
                  /\ session'[f].seen.status \in Store!Outcomes => Store!Settled(RunOf(f))'
  <2>0. stage[f] # "free" => RunOf(f) \in Runs
    BY CargoNamesRun
  <2>1. CASE stage'[f] \in {"free", "claiming", "refused"}
    BY <2>1 DEF Active
  <2>2. CASE stage'[f] = stage[f] /\ cargo'[f] = cargo[f] /\ session'[f] = session[f]
    <3>1. RunOf(f)' = RunOf(f)
      BY <2>2 DEF RunOf
    <3>2. /\ Store!Settled(RunOf(f))' <=> row'[RunOf(f)].status \in Store!Outcomes
          /\ Started(RunOf(f))' <=> row'[RunOf(f)].status \notin {"absent", "pending"}
      BY <3>1 DEF Store!Settled, Started, Store!Outcomes
    <3>3. stage[f] # "free" => /\ Store!Settled(RunOf(f)) => row'[RunOf(f)].status \in Store!Outcomes
                               /\ Started(RunOf(f)) => row'[RunOf(f)].status \notin {"absent", "pending"}
      BY <1>k, <2>0 DEF Store!Settled, Started, Store!Outcomes
    <3> QED
      BY <2>2, <3>2, <3>3 DEF DoneInv, DoneIsSettled, Active
  <2>3. CASE ClaimWon(f)
    <3>1. /\ cargo' = cargo /\ stage[f] = "claiming" /\ stage' = [stage EXCEPT ![f] = "running"]
          /\ row' = [row EXCEPT ![RunOf(f)] = Store!Stamped(RunOf(f), "running", row[RunOf(f)].error)]
      BY <2>3 DEF ClaimWon, Move, Store!ClaimRun, queueVars
    <3>2. row'[RunOf(f)].status = "running" /\ RunOf(f)' = RunOf(f)
      BY <1>0, <2>0, <3>1 DEF Store!Stamped, Store!NewRow, RunOf
    <3> QED
      BY <1>0, <3>1, <3>2 DEF Started
  <2>4. ASSUME NEW outcome \in Store!Outcomes, Conclude(f, outcome)
        PROVE  /\ stage'[f] = "saving" /\ Started(RunOf(f))'
               /\ session'[f].seen.status \notin {"absent", "pending"}
               /\ session'[f].seen.status \in Store!Outcomes => Store!Settled(RunOf(f))'
    <3>1. /\ cargo' = cargo /\ row' = row /\ stage[f] = "running"
          /\ stage' = [stage EXCEPT ![f] = "saving"]
          /\ session' = [session EXCEPT ![f] =
               [run    |-> RunOf(f),
                seen   |-> [status |-> row[RunOf(f)].status, error |-> row[RunOf(f)].error],
                status |-> outcome]]
      BY <2>4 DEF Conclude, Move, Store!UpsertLoad, queueVars
    <3>2. RunOf(f)' = RunOf(f) /\ Started(RunOf(f))
      BY <3>1 DEF RunOf, DoneInv, Active
    <3>3. session'[f].seen.status = row[RunOf(f)].status
      BY <1>0, <3>1
    <3> QED
      BY <1>0, <3>1, <3>2, <3>3 DEF Started, Store!Settled, Store!Outcomes
  <2>5. CASE Save(f)
    <3> DEFINE s == session[f]
    <3>1. /\ cargo' = cargo /\ stage[f] = "saving" /\ stage' = [stage EXCEPT ![f] = "done"]
          /\ s # NoSession
          /\ row' = CASE s.seen.status # "absent" -> [row EXCEPT ![s.run] = Store!Flushed(s)]
                      [] s.seen.status = "absent" /\ row[s.run].status = "absent"
                           -> [row EXCEPT ![s.run] = Store!Inserted(s)]
                      [] OTHER -> row
      BY <2>5 DEF Save, Move, Store!UpsertCommit, queueVars
    <3>2. /\ s.run = RunOf(f) /\ RunOf(f)' = RunOf(f) /\ RunOf(f) \in Runs
          /\ s.seen.status # "absent" /\ s.status \in Store!Outcomes
          /\ s.seen.status \in Store!Outcomes => row[RunOf(f)].status \in Store!Outcomes
      BY <1>0, <2>0, <3>1 DEF DoneInv, SavesOwnRun, RunOf, Store!Session, Store!Settled,
                              Store!Outcomes
    <3>3. row' = [row EXCEPT ![RunOf(f)] = Store!Flushed(s)]
      BY <3>1, <3>2
    <3>4. Store!Flushed(s).status \in Store!Outcomes
      BY <3>2 DEF Store!Flushed, Store!Stamped, Store!NewRow, Store!Written
    <3>5. row'[RunOf(f)].status \in Store!Outcomes
      BY <1>0, <3>2, <3>3, <3>4
    <3> QED
      BY <1>0, <3>1, <3>2, <3>5 DEF Store!Settled, Store!Outcomes, Active
  <2>6. Active(f)' <=> stage'[f] \in {"running", "saving"}
    BY DEF Active
  <2> QED
    BY <2>1, <2>2, <2>3, <2>4, <2>5, <2>6, SlotStep DEF DoneInv
<1> QED
  BY <1>s, <1>1 DEF DoneInv, DoneIsSettled

\* "Once it returns the job is genuinely done and safe to ack" (_process), for the
\* executors that ran the agent: also with stalled heartbeats, duplicate jobs and crashes.
THEOREM DoneMeansSettled ==
  ASSUME MaxFaults = 0
  PROVE  RunsSpec => []DoneIsSettled
<1>1. RunsInit => DoneInv
  BY DEF RunsInit, DoneInv, DoneIsSettled, Active, SavesOwnRun, Store!Init
<1>2. RunsTypeOK /\ ControlOK /\ DoneInv /\ [RunsNext]_runVars /\ [Keeps]_runVars => DoneInv'
  BY DoneStep
<1>3. NeverReopened => [][Keeps]_runVars
  BY PTL DEF NeverReopened, Keeps
<1>4. DoneInv => DoneIsSettled
  BY DEF DoneInv
<1> QED
  BY <1>1, <1>2, <1>3, <1>4, RunsTypeCorrect, ControlCorrect, RunsNeverReopen, PTL DEF RunsSpec

-----------------------------------------------------------------------------
(* The run subsystem implements RunLifecycle                                 *)

Status   == [r \in Runs |-> row[r].status]
Owner    == [r \in Runs |-> Executing(r)]
LifeVars == <<Status, Owner>>

\* With LeaseInv, an upsert in flight has loaded a running row, so that its commit
\* writes the outcome whatever it is.
SeesRunning ==
  \A f \in Flights : stage[f] = "saving" => session[f].seen.status = "running"

\* Upserts keep seeing running rows: only a live executor loads one (upsert_run).
LEMMA SeesRunningStep ==
  ASSUME Punctual, MaxFaults = 0,
         RunsTypeOK, ControlOK, LeaseInv, SeesRunning, [RunsNext]_runVars
  PROVE  SeesRunning'
<1>0. /\ stage \in [Flights -> Stages] /\ session \in [Flights -> Store!Session \union {NoSession}]
  BY DEF RunsTypeOK, Store!TypeOK
<1> SUFFICES ASSUME NEW f \in Flights, stage'[f] = "saving"
             PROVE  session'[f].seen.status = "running"
  BY DEF SeesRunning
<1>1. CASE stage'[f] = stage[f] /\ session'[f] = session[f]
  BY <1>1 DEF SeesRunning
<1>2. CASE ClaimWon(f) \/ Save(f)
  BY <1>0, <1>2 DEF ClaimWon, Save, Move
<1>3. ASSUME NEW outcome \in Store!Outcomes, Conclude(f, outcome)
      PROVE  session'[f].seen.status = "running"
  <2>1. row[RunOf(f)].status = "running"
    BY <1>3 DEF Conclude, LeaseInv, Active
  <2> QED
    BY <1>0, <1>3, <2>1 DEF Conclude, Store!UpsertLoad
<1> QED
  BY <1>1, <1>2, <1>3, SlotStep DEF LeaseInv

\* A run's executors are the same after a step that moves no executor in or out.
LEMMA SameOwner ==
  ASSUME \A f \in Flights : /\ Active(f)' <=> Active(f)
                            /\ Active(f) => RunOf(f)' = RunOf(f)
  PROVE  UNCHANGED Owner
<1>1. \A r \in Runs : Executing(r)' = Executing(r)
  BY DEF Executing
<1> QED
  BY <1>1 DEF Owner

\* A step that keeps every row's status does not move the abstract status.
LEMMA SameStatus ==
  ASSUME \A r \in Runs : row'[r].status = row[r].status
  PROVE  UNCHANGED Status
  BY DEF Status

\* Each step of the system is a step of the abstract lifecycle, or none.
LEMMA LifecycleStep ==
  ASSUME Punctual, MaxFaults = 0,
         RunsTypeOK, ControlOK, LeaseInv, SeesRunning, [RunsNext]_runVars
  PROVE  [Lifecycle!Next]_(Lifecycle!vars)
<1> DEFINE Goal == Lifecycle!Next \/ UNCHANGED Lifecycle!vars
<1> SUFFICES Goal
  OBVIOUS
<1>v. UNCHANGED Status /\ UNCHANGED Owner => Goal
  BY DEF Lifecycle!vars, Status, Owner
<1> HIDE DEF Goal
<1>0. /\ stage \in [Flights -> Stages] /\ row \in [Runs -> Store!Row]
      /\ session \in [Flights -> Store!Session \union {NoSession}]
      /\ cargo \in [Flights -> Retriable \union {NoJob}]
  BY DEF RunsTypeOK, TypeOK, Store!TypeOK
<1>a. \A f \in Flights : Active(f) => /\ RunOf(f) \in Runs
                                      /\ row[RunOf(f)].status = "running"
                                      /\ ~Store!Stale(RunOf(f))
  BY <1>0, CargoNamesRun, RunsAssumption DEF LeaseInv, Active, Store!Stale, Store!Row
<1>f. ~Fault
  BY DEF Fault, ControlOK
<1>o. Still => UNCHANGED Owner
  BY SameOwner DEF Still, Active, RunOf
<1>s. UNCHANGED row => UNCHANGED Status
  BY SameStatus
<1>1. ASSUME NEW c \in Clients, GatewayStep(c) \/ Drop(c) PROVE Goal
  <2>1. CASE Create(c)
    <3>r. PICK r \in Runs : r = req[c].run
      BY <2>1 DEF Create, ControlOK
    <3>1. /\ row[r].status = "absent" /\ Still
          /\ row' = [row EXCEPT ![r] = Store!NewRow("pending", req[c].key, "none")]
      BY <2>1, <3>r DEF Create, Store!CreateRun, Still, queueVars
    <3>2. Status' = [Status EXCEPT ![r] = "pending"]
      BY <1>0, <3>1 DEF Status, Store!NewRow
    <3>3. Status[r] = "absent"
      BY <3>1 DEF Status
    <3>4. Lifecycle!Accept(r)
      BY <1>o, <3>1, <3>2, <3>3 DEF Lifecycle!Accept, Status, Owner
    <3> QED
      BY <3>4 DEF Lifecycle!Next, Goal
  <2>2. CASE ~Create(c)
    <3>1. Still /\ UNCHANGED row
      BY <1>1, <2>2 DEF Still, GatewayStep, LookupHit, LookupMiss, CreateLosesRace,
                CreateUnstored, Submit, Drop, storeVars, queueVars, Enqueue, workers
    <3> QED
      BY <1>v, <1>o, <1>s, <3>1
  <2> QED
    BY <2>1, <2>2
<1>2. ASSUME NEW w \in Workers, WorkerStep(w) \/ Sweep(w) \/ Die(w) PROVE Goal
  <2>1. CASE Reclaim(w) \/ ListRuns(w) \/ BeginServing(w) \/ \E r \in Runs : Requeue(w, r)
    <3>1. Still /\ UNCHANGED row
      BY <2>1 DEF Still, Reclaim, ListRuns, BeginServing, Requeue, storeVars, queueVars,
              Start, ReclaimPop, ReclaimPush, ReclaimDone, Serve, Enqueue, workers
    <3> QED
      BY <1>v, <1>o, <1>s, <3>1
  <2>2. ASSUME NEW s \in Slots, Take(w, s) PROVE Goal
    <3>1. /\ UNCHANGED row /\ stage[<<w, s>>] = "free"
          /\ stage' = [stage EXCEPT ![<<w, s>>] = "claiming"]
          /\ \A f \in Flights : f # <<w, s>> => cargo'[f] = cargo[f]
      BY <1>0, <2>2 DEF Take, Fetch, storeVars, ControlOK, Flights
    <3>2. \A f \in Flights : /\ Active(f)' <=> Active(f)
                             /\ Active(f) => RunOf(f)' = RunOf(f)
      BY <1>0, <3>1 DEF Active, RunOf
    <3> QED
      BY <1>v, <1>s, <3>1, <3>2, SameOwner
  <2>3. CASE Sweep(w)
    <3>s. PICK S \in SUBSET Runs : S = {r \in Runs : Store!Expired(r)}
      OBVIOUS
    <3>1. Still /\ row' = [r \in Runs |-> IF Store!Expired(r)
                                          THEN Store!Stamped(r, "failed", "swept")
                                          ELSE row[r]]
      BY <2>3 DEF Sweep, Still, Store!SweepStuckRuns, queueVars
    <3>2. Status' = [r \in Runs |-> IF r \in S THEN "failed" ELSE Status[r]]
      BY <3>1, <3>s DEF Status, Store!Stamped, Store!NewRow
    <3>3. \A r \in S : r \in Runs /\ Status[r] = "running" /\ Owner[r] = {}
      BY <1>a, <3>s DEF Status, Owner, Executing, Store!Expired
    <3>4. Lifecycle!GiveUp(S)
      BY <1>o, <3>1, <3>2, <3>3 DEF Lifecycle!GiveUp, Status, Owner
    <3> QED
      BY <3>4 DEF Lifecycle!Next, Goal
  <2>4. CASE Die(w)
    <3> DEFINE E == {w} \X Slots
    <3>1. /\ UNCHANGED row
          /\ stage' = [f \in Flights |-> IF f[1] = w THEN "free" ELSE stage[f]]
          /\ cargo' = [f \in Flights |-> IF f[1] = w THEN NoJob ELSE cargo[f]]
      BY <2>4 DEF Die, Crash, Store!UpsertsLost
    <3>2. \A f \in Flights : /\ Active(f)' <=> Active(f) /\ f \notin E
                             /\ Active(f)' => RunOf(f)' = RunOf(f)
      <4>1. \A f \in Flights : f[1] = w <=> f \in E
        BY DEF Flights
      <4> QED
        BY <1>0, <3>1, <4>1 DEF Active, RunOf
    <3>3. Owner' = [r \in Runs |-> Owner[r] \ E]
      <4>1. \A r \in Runs : Executing(r)' = Executing(r) \ E
        BY <3>2 DEF Executing
      <4> QED
        BY <4>1 DEF Owner
    <3>4. Lifecycle!Abandon(E)
      BY <1>s, <3>1, <3>3 DEF Lifecycle!Abandon, Status, Owner
    <3>5. E \in SUBSET Flights
      BY DEF Flights
    <3> QED
      BY <3>4, <3>5 DEF Lifecycle!Next, Goal
  <2> QED
    BY <1>2, <2>1, <2>2, <2>3, <2>4 DEF WorkerStep
<1>3. ASSUME NEW w \in Workers, NEW s \in Slots, NEW f \in Flights, f = <<w, s>>,
             ExecutorStep(w, s) \/ Beat(f)
      PROVE  Goal
  <2>0. stage[f] # "free" => RunOf(f) \in Runs
    BY CargoNamesRun
  <2>1. CASE ClaimWon(f)
    <3> DEFINE r == RunOf(f)
    <3>1. /\ r \in Runs /\ cargo' = cargo /\ stage[f] = "claiming"
          /\ stage' = [stage EXCEPT ![f] = "running"]
          /\ row' = [row EXCEPT ![r] = Store!Stamped(r, "running", row[r].error)]
          /\ Store!Claimable(r)
      BY <2>0, <2>1 DEF ClaimWon, Move, Store!ClaimRun, queueVars
    <3>2. Owner[r] = {}
      BY <1>a, <3>1 DEF Owner, Executing, Store!Claimable
    <3>3. Status' = [Status EXCEPT ![r] = "running"]
      BY <1>0, <3>1 DEF Status, Store!Stamped, Store!NewRow
    <3>4. \A g \in Flights : /\ RunOf(g)' = RunOf(g)
                             /\ Active(g)' <=> Active(g) \/ g = f
      BY <1>0, <3>1 DEF Active, RunOf
    <3>5. Owner' = [Owner EXCEPT ![r] = {f}]
      <4>1. Executing(r)' = {f}
        <5>1. \A g \in Flights : Active(g) => RunOf(g) # r
          BY <1>a, <3>1 DEF Store!Claimable
        <5> HIDE DEF r
        <5>2. r' = r
          BY <3>4 DEF r
        <5>3. r = RunOf(f)
          BY DEF r
        <5> QED
          BY <3>4, <5>1, <5>2, <5>3 DEF Executing
      <4>2. \A q \in Runs : q # r => Executing(q)' = Executing(q)
        BY <3>4 DEF Executing
      <4>3. r' = r
        BY <3>4
      <4> HIDE DEF r
      <4> QED
        BY <3>1, <4>1, <4>2, <4>3 DEF Owner
    <3>6. Status[r] \in {"pending", "running"}
      BY <3>1 DEF Status, Store!Claimable
    <3>7. Lifecycle!Begin(r, f)
      BY <3>2, <3>3, <3>5, <3>6 DEF Lifecycle!Begin, Status, Owner
    <3> QED
      BY <3>1, <3>7 DEF Lifecycle!Next, Goal
  <2>2. CASE ClaimLost(f) \/ Finish(w, s) \/ (\E outcome \in Store!Outcomes : Conclude(f, outcome))
    <3>1. UNCHANGED row /\ \A g \in Flights : /\ Active(g)' <=> Active(g)
                                              /\ Active(g) => RunOf(g)' = RunOf(g)
      BY <1>0, <1>3, <2>2 DEF ClaimLost, Finish, Conclude, Move, Ack, Store!UpsertLoad, storeVars,
                        queueVars, Active, RunOf
    <3> QED
      BY <1>v, <1>s, <3>1, SameOwner
  <2>3. CASE ClaimUnchecked(f) \/ SaveUnstored(f)
    BY <1>f, <2>3 DEF ClaimUnchecked, SaveUnstored
  <2>4. CASE Beat(f)
    <3>1. /\ Still /\ RunOf(f) \in Runs
          /\ row' = [row EXCEPT ![RunOf(f)] = Store!Stamped(RunOf(f), row[RunOf(f)].status,
                                                                     row[RunOf(f)].error)]
      BY <2>0, <2>4 DEF Beat, Active, Still, Store!TouchRun, queueVars
    <3>2. \A r \in Runs : row'[r].status = row[r].status
      BY <1>0, <3>1 DEF Store!Stamped, Store!NewRow
    <3> QED
      BY <1>v, <1>o, <3>1, <3>2, SameStatus
  <2>5. CASE Save(f)
    <3> DEFINE u == session[f]
    <3>1. /\ cargo' = cargo /\ stage[f] = "saving" /\ stage' = [stage EXCEPT ![f] = "done"]
          /\ u # NoSession
          /\ row' = CASE u.seen.status # "absent" -> [row EXCEPT ![u.run] = Store!Flushed(u)]
                      [] u.seen.status = "absent" /\ row[u.run].status = "absent"
                           -> [row EXCEPT ![u.run] = Store!Inserted(u)]
                      [] OTHER -> row
      BY <2>5 DEF Save, Move, Store!UpsertCommit, queueVars
    <3>2. /\ u.run = RunOf(f) /\ RunOf(f) \in Runs /\ u.seen.status = "running"
          /\ u.status \in Store!Outcomes
      BY <1>0, <2>0, <3>1 DEF LeaseInv, SavesOwnRun, SeesRunning, Store!Session
    <3>r. PICK r \in Runs, outcome \in Store!Outcomes : r = RunOf(f) /\ outcome = u.status
      BY <3>2
    <3>3. row' = [row EXCEPT ![r] = Store!Flushed(u)]
      BY <3>1, <3>2, <3>r
    <3>4. Store!Flushed(u).status = outcome
      BY <3>2, <3>r DEF Store!Flushed, Store!Stamped, Store!NewRow, Store!Written, Store!Outcomes
    <3>5. Status' = [Status EXCEPT ![r] = outcome] /\ Status[r] = "running"
      BY <1>0, <1>a, <3>1, <3>r, <3>3, <3>4 DEF Status, Active
    <3>6. \A g \in Flights : /\ RunOf(g)' = RunOf(g)
                             /\ Active(g)' <=> Active(g) /\ g # f
                             /\ Active(g) /\ RunOf(g) = r => g = f
      BY <1>0, <3>1, <3>r DEF Active, RunOf, LeaseInv, SingleActive
    <3>7. Owner[r] = {f} /\ Owner' = [Owner EXCEPT ![r] = {}]
      <4>1. Executing(r) = {f}
        BY <3>1, <3>6, <3>r DEF Executing, Active
      <4>2. \A q \in Runs : Executing(q)' = Executing(q) \ {f}
        BY <3>6 DEF Executing
      <4>3. \A q \in Runs : q # r => f \notin Executing(q)
        BY <3>r DEF Executing
      <4>4. \A q \in Runs : Executing(q)' = IF q = r THEN {} ELSE Executing(q)
        BY <4>1, <4>2, <4>3
      <4> QED
        BY <4>1, <4>4 DEF Owner
    <3>8. Lifecycle!Settle(r, f, outcome)
      BY <3>5, <3>7 DEF Lifecycle!Settle, Status, Owner
    <3> QED
      BY <3>8 DEF Lifecycle!Next, Goal
  <2> QED
    BY <1>3, <2>1, <2>2, <2>3, <2>4, <2>5 DEF ExecutorStep
<1>4. ASSUME TimePasses PROVE Goal
  <2>1. Still /\ \A r \in Runs : row'[r].status = row[r].status
    BY <1>0, <1>4 DEF TimePasses, Still, Store!Tick, queueVars, Store!Row
  <2> QED
    BY <1>v, <1>o, <2>1, SameStatus
<1>5. ASSUME UNCHANGED runVars PROVE Goal
  BY <1>v, <1>o, <1>s, <1>5 DEF runVars, Still, queueVars, storeVars
<1> QED
  BY <1>1, <1>2, <1>3, <1>4, <1>5 DEF RunsNext, Flights

\* Queues, leases, sweeper and recovery together implement the lifecycle a client may
\* rely on: one executor at a time, and settled once (RunLifecycle).
THEOREM RefinesLifecycle ==
  ASSUME Punctual, MaxFaults = 0
  PROVE  RunsSpec => ImplementsLifecycle
<1>1. RunsInit => Lifecycle!Init /\ SeesRunning
  BY DEF RunsInit, Lifecycle!Init, SeesRunning, Store!Init, Store!NoRow, Store!NewRow,
         Executing, Active
<1>2. RunsTypeOK /\ ControlOK /\ LeaseInv /\ SeesRunning /\ [RunsNext]_runVars => SeesRunning'
  BY SeesRunningStep
<1>3. RunsTypeOK /\ ControlOK /\ LeaseInv /\ SeesRunning /\ [RunsNext]_runVars
        => [Lifecycle!Next]_(Lifecycle!vars)
  BY LifecycleStep
<1> QED
  BY <1>1, <1>2, <1>3, RunsTypeCorrect, ControlCorrect, LeaseKept, PTL
  DEF RunsSpec, ImplementsLifecycle, Lifecycle!Spec

-----------------------------------------------------------------------------
(* Idempotency                                                               *)

\* No two rows share a key, and a request past create_run has the run of its key.
\* (A row that does not exist has none.)
AbsentHasNoKey == \A r \in Runs : row[r].status = "absent" => row[r].key = NoKey

KeyInv ==
  /\ AbsentHasNoKey
  /\ \A r, q \in Runs :
       row[r].status # "absent" /\ row[q].status # "absent" /\ row[r].key = row[q].key
         => row[r].key = NoKey \/ r = q
  /\ \A c \in Clients : req[c].at \in {"enqueueing", "replied"} =>
       row[req[c].run].status # "absent" /\ row[req[c].run].key = req[c].key

\* Present rows stay and keep their keys, and a row that an upsert inserts has none.
KeysKept ==
  \A r \in Runs :
    /\ row[r].status # "absent" => row'[r].status # "absent" /\ row'[r].key = row[r].key
    /\ row[r].status = "absent" => row'[r].key = NoKey

\* So it is with every operation of the store but create_run.
LEMMA StoreKeepsKeys ==
  ASSUME Store!TypeOK, AbsentHasNoKey,
         \/ \E r \in Runs : Store!ClaimRun(r) \/ Store!TouchRun(r)
         \/ \E f \in Flights, r \in Runs, status \in Store!Outcomes :
              Store!UpsertLoad(f, r, status)
         \/ \E f \in Flights : Store!UpsertCommit(f)
         \/ Store!SweepStuckRuns \/ Store!Tick \/ UNCHANGED row
  PROVE  KeysKept
<1> USE DEF KeysKept, AbsentHasNoKey, Store!Stamped, Store!NewRow
<1>0. row \in [Runs -> Store!Row] /\ session \in [Flights -> Store!Session \union {NoSession}]
  BY DEF Store!TypeOK
<1>1. ASSUME NEW r \in Runs, Store!ClaimRun(r) \/ Store!TouchRun(r) PROVE KeysKept
  BY <1>0, <1>1 DEF Store!ClaimRun, Store!TouchRun, Store!Claimable
<1>2. ASSUME NEW f \in Flights, Store!UpsertCommit(f) PROVE KeysKept
  <2>1. session[f] \in Store!Session
    BY <1>0, <1>2 DEF Store!UpsertCommit
  <2>2. PICK r \in Runs, status \in Store!Outcomes, loaded \in Store!Loaded :
          r = session[f].run /\ status = session[f].status /\ loaded = session[f].seen
    BY <2>1 DEF Store!Session
  <2>3. \/ row' = [row EXCEPT ![r] = Store!Flushed(session[f])] /\ loaded.status # "absent"
        \/ row' = [row EXCEPT ![r] = Store!Inserted(session[f])] /\ row[r].status = "absent"
        \/ row' = row
    BY <1>2, <2>2 DEF Store!UpsertCommit
  <2>4. Store!Inserted(session[f]).key = NoKey
    BY DEF Store!Inserted
  <2>5. Store!Flushed(session[f]).key = row[r].key
    BY <2>2 DEF Store!Flushed
  <2>6. Store!Flushed(session[f]).status \in {status, row[r].status} /\ status # "absent"
    BY <2>2 DEF Store!Flushed, Store!Written, Store!Outcomes
  <2> QED
    BY <1>0, <2>3, <2>4, <2>5, <2>6
<1>3. ASSUME Store!SweepStuckRuns \/ Store!Tick PROVE KeysKept
  BY <1>0, <1>3 DEF Store!SweepStuckRuns, Store!Tick, Store!Expired, Store!Row
<1> QED
  BY <1>1, <1>2, <1>3 DEF Store!UpsertLoad

\* KeyInv is kept: create_run alone writes a key, and only one that nobody holds.
LEMMA KeyStep ==
  ASSUME MaxFaults = 0, RunsTypeOK, ControlOK, KeyInv, [RunsNext]_runVars
  PROVE  KeyInv'
<1>0. /\ row \in [Runs -> Store!Row] /\ req \in [Clients -> Request]
      /\ \A c \in Clients : req[c].at # "idle" => req[c].run \in Runs
  BY DEF RunsTypeOK, Store!TypeOK, ControlOK
<1>f. ~Fault
  BY DEF Fault, ControlOK
<1>1. ASSUME KeysKept, UNCHANGED req PROVE KeyInv'
  BY <1>0, <1>1 DEF KeyInv, AbsentHasNoKey, KeysKept
\* The requests' steps.
<1>2. ASSUME NEW c \in Clients, UNCHANGED row, NEW q, req' = [req EXCEPT ![c] = q],
             q.at \in {"enqueueing", "replied"}
               => row[q.run].status # "absent" /\ row[q.run].key = q.key
      PROVE  KeyInv'
  BY <1>0, <1>2 DEF KeyInv, AbsentHasNoKey
<1>3. ASSUME NEW c \in Clients, GatewayStep(c) \/ Drop(c) PROVE KeyInv'
  <2>1. ASSUME NEW k, NEW r \in Store!Holders(k), Reply(c, r, k), UNCHANGED row PROVE KeyInv'
    BY <1>2, <2>1 DEF Reply, Store!Holders
  <2>2. ASSUME NEW k, NEW r \in Runs, LookupMiss(c, k, r) PROVE KeyInv'
    <3> DEFINE q == [at |-> "creating", run |-> r, key |-> k]
    <3>1. q.at \notin {"enqueueing", "replied"} /\ row' = row /\ req' = [req EXCEPT ![c] = q]
      BY <2>2 DEF LookupMiss, storeVars
    <3> HIDE DEF q
    <3> QED
      BY <1>2, <3>1
  <2>3. CASE Create(c)
    <3>r. PICK r \in Runs, k \in Keys \union {NoKey} : r = req[c].run /\ k = req[c].key
      BY <1>0, <2>3 DEF Create, Request
    <3>1. /\ row[r].status = "absent"
          /\ \A q \in Runs : row[q].status # "absent" /\ row[q].key = k => k = NoKey
          /\ row' = [row EXCEPT ![r] = Store!NewRow("pending", k, "none")]
          /\ req' = [req EXCEPT ![c].at = "enqueueing"]
      BY <2>3, <3>r DEF Create, Store!CreateRun, Store!Holders
    <3>2. /\ \A q \in Runs : q # r => row'[q] = row[q]
          /\ row'[r].status = "pending" /\ row'[r].key = k
      BY <1>0, <3>1 DEF Store!NewRow
    <3>3. /\ \A d \in Clients : d # c => req'[d] = req[d]
          /\ req'[c].run = r /\ req'[c].key = k
      BY <1>0, <3>r, <3>1 DEF Request
    <3>4. \A d \in Clients : d # c /\ req[d].at \in {"enqueueing", "replied"} => req[d].run # r
      BY <3>1 DEF KeyInv
    <3>5. \A d \in Clients : req[d].at \in {"enqueueing", "replied"} => req[d].run \in Runs
      BY <1>0
    <3> QED
      BY <3>1, <3>2, <3>3, <3>4, <3>5 DEF KeyInv, AbsentHasNoKey
  <2>4. CASE Submit(c)
    <3>1. row[req[c].run].status # "absent" /\ row[req[c].run].key = req[c].key
      BY <2>4 DEF Submit, KeyInv
    <3> DEFINE q == [at |-> "replied", run |-> req[c].run, key |-> req[c].key]
    <3>2. row' = row /\ req' = [req EXCEPT ![c] = q]
      BY <2>4 DEF Submit, Reply, storeVars
    <3>3. q.run = req[c].run /\ q.key = req[c].key
      OBVIOUS
    <3> HIDE DEF q
    <3> QED
      BY <1>0, <3>1, <3>2, <3>3 DEF KeyInv, AbsentHasNoKey
  <2>5. CASE Drop(c)
    BY <1>2, <2>5 DEF Drop, Idle, storeVars
  <2>6. CASE CreateUnstored(c)
    BY <1>f, <2>6 DEF CreateUnstored
  <2>7. ASSUME NEW k, LookupHit(c, k) PROVE KeyInv'
    BY <2>1, <2>7 DEF LookupHit, storeVars
  <2>8. CASE CreateLosesRace(c)
    <3>k. PICK k \in Keys \union {NoKey} : k = req[c].key
      BY <1>0 DEF Request
    <3> QED
      BY <2>1, <2>8, <3>k DEF CreateLosesRace, storeVars
  <2> QED
    BY <1>3, <2>2, <2>3, <2>4, <2>5, <2>6, <2>7, <2>8 DEF GatewayStep
\* The workers' and executors'.
<1>4. ASSUME NEW w \in Workers, WorkerStep(w) \/ Sweep(w) \/ Die(w) PROVE KeyInv'
  <2>1. UNCHANGED req
    BY <1>4 DEF WorkerStep, Reclaim, ListRuns, Requeue, BeginServing, Take, Sweep, Die, gatewayVars
  <2>2. UNCHANGED row \/ Store!SweepStuckRuns
    BY <1>4 DEF WorkerStep, Reclaim, ListRuns, Requeue, BeginServing, Take, Sweep, Die,
                storeVars, Store!UpsertsLost
  <2> QED
    BY <1>1, <2>1, <2>2, StoreKeepsKeys DEF RunsTypeOK, KeyInv
<1>5. ASSUME NEW w \in Workers, NEW s \in Slots, NEW f \in Flights, f = <<w, s>>,
             ExecutorStep(w, s) \/ Beat(f)
      PROVE  KeyInv'
  <2>1. UNCHANGED req
    BY <1>5 DEF ExecutorStep, Beat, ClaimWon, ClaimLost, ClaimUnchecked, Conclude, Save,
                SaveUnstored, Finish, gatewayVars
  <2>2. \A r \in Runs : r = RunOf(f) => /\ ClaimWon(f) => Store!ClaimRun(r)
                                        /\ Beat(f) => Store!TouchRun(r)
    BY DEF ClaimWon, Beat
  <2>3. ClaimWon(f) \/ Beat(f) => RunOf(f) \in Runs
    BY CargoNamesRun DEF ClaimWon, Beat, Active
  <2>4. Save(f) => Store!UpsertCommit(f)
    BY DEF Save
  <2>5. \/ UNCHANGED row
        \/ ClaimWon(f) \/ Beat(f) \/ Save(f)
    BY <1>5 DEF ExecutorStep, ClaimLost, ClaimUnchecked, Conclude, SaveUnstored, Finish,
                storeVars, Store!UpsertLoad, Store!UpsertsLost
  <2> QED
    BY <1>1, <2>1, <2>2, <2>3, <2>4, <2>5, StoreKeepsKeys DEF RunsTypeOK, KeyInv
<1>6. ASSUME TimePasses PROVE KeyInv'
  BY <1>1, <1>6, StoreKeepsKeys DEF TimePasses, gatewayVars, RunsTypeOK, KeyInv
<1>7. ASSUME UNCHANGED runVars PROVE KeyInv'
  BY <1>1, <1>7, StoreKeepsKeys DEF runVars, storeVars, gatewayVars, RunsTypeOK, KeyInv
<1> QED
  BY <1>3, <1>4, <1>5, <1>6, <1>7 DEF RunsNext, Flights

\* "A retry with the same key returns the original run, never a second" (submit),
\* whichever of lookup and insert the replicas interleave.
THEOREM KeyNamesOneRun ==
  ASSUME MaxFaults = 0
  PROVE  RunsSpec => []OneRunPerKey
<1>1. RunsInit => KeyInv
  BY DEF RunsInit, KeyInv, AbsentHasNoKey, Idle, Store!Init, Store!NoRow, Store!NewRow
<1>2. RunsTypeOK /\ ControlOK /\ KeyInv /\ [RunsNext]_runVars => KeyInv'
  BY KeyStep
<1>3. ControlOK /\ KeyInv => OneRunPerKey
  <2> SUFFICES ASSUME ControlOK, KeyInv, NEW c \in Clients, NEW d \in Clients,
                      req[c].at = "replied", req[d].at = "replied",
                      req[c].key = req[d].key, req[c].key # NoKey
               PROVE  req[c].run = req[d].run
    BY DEF OneRunPerKey
  <2>1. req[c].run \in Runs /\ req[d].run \in Runs
    BY DEF ControlOK
  <2> QED
    BY <2>1 DEF KeyInv
<1> QED
  BY <1>1, <1>2, <1>3, RunsTypeCorrect, ControlCorrect, PTL DEF RunsSpec

-----------------------------------------------------------------------------
(* No dispatch is turned away for want of a row                              *)

\* The runs a job of which waits, is held, or is dispatched, and those that recovery
\* is about to enqueue.
JobsOf(raws) == {raw.run : raw \in raws}
Awaited ==
  JobsOf(ToSet(main) \union ToSet(processing) \union Held \union InFlight)
    \union UNION {todo[w] : w \in Workers}

Present == {r \in Runs : row[r].status # "absent"}

JobsHaveRows == Awaited \subseteq Present

\* A row that was written stays: the store has no DELETE.
LEMMA RowsStay ==
  ASSUME RunsTypeOK, ControlOK, [RunsNext]_runVars
  PROVE  Present \subseteq Present'
<1>0. row \in [Runs -> Store!Row] /\ session \in [Flights -> Store!Session \union {NoSession}]
  BY DEF RunsTypeOK, Store!TypeOK
<1>1. [Store!Next]_(Store!vars)
  BY StoreStep
<1>2. SUFFICES ASSUME NEW r \in Runs, row[r].status # "absent" PROVE row'[r].status # "absent"
  BY DEF Present
<1>3. ASSUME NEW q \in Runs, NEW k, Store!CreateRun(q, k) PROVE row'[r].status # "absent"
  BY <1>0, <1>2, <1>3 DEF Store!CreateRun, Store!NewRow
<1>4. ASSUME NEW q \in Runs, Store!ClaimRun(q) \/ Store!TouchRun(q)
      PROVE  row'[r].status # "absent"
  BY <1>0, <1>2, <1>4 DEF Store!ClaimRun, Store!TouchRun, Store!Stamped, Store!NewRow
<1>5. ASSUME NEW f \in Flights, Store!UpsertCommit(f) PROVE row'[r].status # "absent"
  <2>1. session[f] \in Store!Session
    BY <1>0, <1>5 DEF Store!UpsertCommit
  <2>2. PICK q \in Runs, status \in Store!Outcomes, loaded \in Store!Loaded :
          q = session[f].run /\ status = session[f].status /\ loaded = session[f].seen
    BY <2>1 DEF Store!Session
  <2>3. \/ row' = [row EXCEPT ![q] = Store!Flushed(session[f])] /\ loaded.status # "absent"
        \/ row' = [row EXCEPT ![q] = Store!Inserted(session[f])] /\ row[q].status = "absent"
        \/ row' = row
    BY <1>5, <2>2 DEF Store!UpsertCommit
  <2>4. Store!Flushed(session[f]).status \in {status, row[q].status} /\ status # "absent"
    BY <2>2 DEF Store!Flushed, Store!Written, Store!Outcomes, Store!Stamped, Store!NewRow
  <2> QED
    BY <1>0, <1>2, <2>3, <2>4
<1>6. ASSUME Store!SweepStuckRuns \/ Store!Tick PROVE row'[r].status # "absent"
  BY <1>0, <1>2, <1>6 DEF Store!SweepStuckRuns, Store!Tick, Store!Expired, Store!Row,
                          Store!Stamped, Store!NewRow
<1>7. CASE UNCHANGED row
  BY <1>2, <1>7
<1> QED
  BY <1>1, <1>3, <1>4, <1>5, <1>6, <1>7
  DEF Store!Next, Store!UpsertLoad, Store!UpsertsLost, Store!vars

\* An entry pushed to main adds its run and no other.
LEMMA EnqueueAwaits ==
  ASSUME ControlOK, NEW raw \in Retriable, Enqueue(raw)
  PROVE  JobsOf(ToSet(main) \union ToSet(processing) \union Held \union InFlight)'
           \subseteq JobsOf(ToSet(main) \union ToSet(processing) \union Held \union InFlight)
                       \union {raw.run}
<1>1. ToSet(main') = {raw} \union ToSet(main)
  BY PushHead DEF Enqueue, ControlOK, TypeOK
<1> QED
  BY <1>1 DEF Enqueue, workers, Held, InFlight, JobsOf

\* The queue's other operations move jobs, or drop them; a bumped job names its run.
LEMMA QueueAwaits ==
  ASSUME ControlOK,
         \/ \E w \in Workers : \/ Start(w) \/ ReclaimPop(w) \/ ReclaimPush(w)
                               \/ ReclaimDone(w) \/ Serve(w) \/ Crash(w)
         \/ \E w \in Workers, s \in Slots : Fetch(w, s) \/ Ack(w, s)
         \/ UNCHANGED queueVars
  PROVE  JobsOf(ToSet(main) \union ToSet(processing) \union Held \union InFlight)'
           \subseteq JobsOf(ToSet(main) \union ToSet(processing) \union Held \union InFlight)
<1> DEFINE All == ToSet(main) \union ToSet(processing) \union Held \union InFlight
<1>0. TypeOK
  BY DEF ControlOK
<1>1. ASSUME All' \subseteq All PROVE JobsOf(All)' \subseteq JobsOf(All)
  BY <1>1 DEF JobsOf
<1>2. ASSUME NEW w \in Workers, Start(w) \/ ReclaimDone(w) \/ Serve(w) PROVE All' \subseteq All
  BY <1>2 DEF Start, ReclaimDone, Serve, lists, Held, InFlight
<1>3. ASSUME NEW w \in Workers, ReclaimPop(w) PROVE All' \subseteq All
  <2>1. ToSet(processing) = {Head(processing)} \union ToSet(Tail(processing))
    BY <1>0, <1>3, PopHead DEF ReclaimPop, TypeOK
  <2>2. Held' \subseteq Held \union {Head(processing)}
    BY <1>0, <1>3 DEF ReclaimPop, Held, TypeOK
  <2> QED
    BY <1>3, <2>1, <2>2 DEF ReclaimPop, InFlight
<1>4. ASSUME NEW w \in Workers, ReclaimPush(w) PROVE JobsOf(All)' \subseteq JobsOf(All)
  <2>1. hold[w] \in Retriable /\ hold[w] # NoJob /\ hold[w] \in Held /\ hold[w] \notin Junk
    BY <1>0, <1>4, RunsAssumption DEF ReclaimPush, Held, TypeOK
  <2>2. Bumped(hold[w]).run = hold[w].run
    BY <2>1, BumpedTyped
  <2>3. ToSet(main') \subseteq ToSet(main) \union {Bumped(hold[w])}
    <3>1. CASE IsPoison(hold[w])
      BY <1>4, <3>1 DEF ReclaimPush
    <3>2. CASE ~IsPoison(hold[w])
      <4> Bumped(hold[w]) \in Retriable /\ main' = Append(main, Bumped(hold[w]))
        BY <1>4, <2>1, <3>2, BumpedTyped DEF ReclaimPush
      <4> QED
        BY <1>0, PushTail DEF TypeOK
    <3> QED
      BY <3>1, <3>2
  <2>4. Held' \subseteq Held
    BY <1>0, <1>4 DEF ReclaimPush, Held, TypeOK
  <2>5. All' \subseteq All \union {Bumped(hold[w])}
    BY <1>4, <2>3, <2>4 DEF ReclaimPush, InFlight
  <2> QED
    BY <2>1, <2>2, <2>5 DEF JobsOf
<1>5. ASSUME NEW w \in Workers, Crash(w) PROVE All' \subseteq All
  <2> Held' \subseteq Held /\ InFlight' \subseteq InFlight
    BY <1>0, <1>5 DEF Crash, Held, InFlight, TypeOK
  <2> QED
    BY <1>5 DEF Crash, lists
<1>6. ASSUME NEW w \in Workers, NEW s \in Slots, Fetch(w, s) PROVE All' \subseteq All
  <2>1. ToSet(main) = ToSet(Front(main)) \union {Last(main)} /\ Last(main) \in Retriable
    BY <1>0, <1>6, PopTail DEF Fetch, TypeOK
  <2>2. ToSet(<<Last(main)>> \o processing) = {Last(main)} \union ToSet(processing)
    BY <1>0, <2>1, PushHead DEF TypeOK
  <2>3. InFlight' \subseteq InFlight \union {Last(main)}
    BY <1>0, <1>6 DEF Fetch, InFlight, TypeOK
  <2> QED
    BY <1>6, <2>1, <2>2, <2>3 DEF Fetch, Held
<1>7. ASSUME NEW w \in Workers, NEW s \in Slots, Ack(w, s) PROVE All' \subseteq All
  <2>1. ToSet(processing') \subseteq ToSet(processing)
    BY <1>0, <1>7, LremLeaves DEF Ack, TypeOK
  <2>2. InFlight' \subseteq InFlight
    BY <1>0, <1>7 DEF Ack, InFlight, TypeOK
  <2> QED
    BY <1>7, <2>1, <2>2 DEF Ack, Held
<1>8. CASE UNCHANGED queueVars
  BY <1>8 DEF queueVars, Held, InFlight, JobsOf
<1> QED
  BY <1>1, <1>2, <1>3, <1>4, <1>5, <1>6, <1>7, <1>8

\* A job is pushed only for a run with a row, by submit and by recovery.
LEMMA JobsHaveRowsStep ==
  ASSUME MaxFaults = 0, RunsTypeOK, ControlOK, KeyInv, JobsHaveRows, [RunsNext]_runVars
  PROVE  JobsHaveRows'
<1> DEFINE Queued == JobsOf(ToSet(main) \union ToSet(processing) \union Held \union InFlight)
           Listed == UNION {todo[w] : w \in Workers}
<1>0. Present \subseteq Present'
  BY RowsStay
<1>f. ~Fault
  BY DEF Fault, ControlOK
<1>1. ASSUME Queued' \subseteq Queued \union Listed \union Present,
             Listed' \subseteq Listed \union Present
      PROVE  JobsHaveRows'
  <2>1. Awaited = Queued \union Listed /\ Awaited' = Queued' \union Listed'
    BY DEF Awaited
  <2> HIDE DEF Queued, Listed
  <2> QED
    BY <1>0, <1>1, <2>1 DEF JobsHaveRows
<1>2. ASSUME \/ \E w \in Workers : \/ Start(w) \/ ReclaimPop(w) \/ ReclaimPush(w)
                                   \/ ReclaimDone(w) \/ Serve(w) \/ Crash(w)
             \/ \E w \in Workers, s \in Slots : Fetch(w, s) \/ Ack(w, s)
             \/ UNCHANGED queueVars
      PROVE  Queued' \subseteq Queued
  BY <1>2, QueueAwaits
<1>3. ASSUME NEW c \in Clients, GatewayStep(c) \/ Drop(c) PROVE JobsHaveRows'
  <2>1. CASE Submit(c)
    <3>1. req[c].run \in Present /\ Fresh(req[c].run).run = req[c].run
          /\ Fresh(req[c].run) \in Retriable
      BY <2>1, FreshTyped DEF Submit, KeyInv, ControlOK, Present, Fresh
    <3>2. Queued' \subseteq Queued \union {req[c].run}
      BY <2>1, <3>1, EnqueueAwaits DEF Submit
    <3> QED
      BY <1>1, <2>1, <3>1, <3>2 DEF Submit, recoverVars
  <2>2. CASE ~Submit(c)
    <3> UNCHANGED <<queueVars, todo>>
      BY <1>3, <2>2 DEF GatewayStep, LookupHit, LookupMiss, Create, CreateLosesRace,
                        CreateUnstored, Drop, recoverVars
    <3> QED
      BY <1>1, <1>2
  <2> QED
    BY <2>1, <2>2
<1>4. ASSUME NEW w \in Workers, WorkerStep(w) \/ Sweep(w) \/ Die(w) PROVE JobsHaveRows'
  <2>1. CASE ListRuns(w)
    <3>1. todo' = [todo EXCEPT ![w] = {r \in Runs : row[r].status \in Store!Live}]
      BY <1>f, <2>1 DEF ListRuns
    <3>2. {r \in Runs : row[r].status \in Store!Live} \subseteq Present
      BY DEF Present, Store!Live
    <3>3. Listed' \subseteq Listed \union Present
      BY <3>1, <3>2 DEF ControlOK
    <3> QED
      BY <1>1, <1>2, <2>1, <3>3 DEF ListRuns
  <2>2. ASSUME NEW r \in Runs, Requeue(w, r) PROVE JobsHaveRows'
    <3>1. Fresh(r) \in Retriable /\ Fresh(r).run = r /\ r \in Listed
      BY <2>2, FreshTyped DEF Requeue, Fresh
    <3>2. Queued' \subseteq Queued \union {r}
      BY <2>2, <3>1, EnqueueAwaits DEF Requeue
    <3>3. Listed' \subseteq Listed
      BY <2>2 DEF Requeue, ControlOK
    <3> QED
      BY <1>1, <3>1, <3>2, <3>3
  <2>3. CASE Reclaim(w) \/ BeginServing(w) \/ Sweep(w) \/ \E s \in Slots : Take(w, s)
    <3>1. Queued' \subseteq Queued
      BY <1>2, <2>3 DEF Reclaim, BeginServing, Sweep, Take
    <3>2. UNCHANGED todo
      BY <2>3 DEF Reclaim, BeginServing, Sweep, Take, recoverVars
    <3> QED
      BY <1>1, <3>1, <3>2
  <2>4. CASE Die(w)
    <3>1. Queued' \subseteq Queued
      BY <1>2, <2>4 DEF Die
    <3>2. Listed' \subseteq Listed
      BY <2>4 DEF Die, ControlOK
    <3> QED
      BY <1>1, <3>1, <3>2
  <2> QED
    BY <1>4, <2>1, <2>2, <2>3, <2>4 DEF WorkerStep
<1>5. ASSUME NEW w \in Workers, NEW s \in Slots, ExecutorStep(w, s) \/ Beat(<<w, s>>)
      PROVE  JobsHaveRows'
  <2>1. UNCHANGED todo /\ (UNCHANGED queueVars \/ Ack(w, s))
    BY <1>5 DEF ExecutorStep, Beat, ClaimWon, ClaimLost, ClaimUnchecked, Conclude, Save,
                SaveUnstored, Finish, recoverVars
  <2> QED
    BY <1>1, <1>2, <2>1
<1>6. CASE TimePasses \/ UNCHANGED runVars
  <2> UNCHANGED <<queueVars, todo>>
    BY <1>6 DEF TimePasses, runVars, recoverVars
  <2> QED
    BY <1>1, <1>2
<1> QED
  BY <1>3, <1>4, <1>5, <1>6 DEF RunsNext

\* While the store answers, a claim is refused because the run is held or settled,
\* never for want of a row (submit, reconcile_runs, claim_run): whatever was lost,
\* duplicated or left by a death.
THEOREM NoRunIsDropped ==
  ASSUME MaxFaults = 0
  PROVE  RunsSpec => []NotDropped
<1>1. RunsInit => KeyInv /\ JobsHaveRows
  <2> SUFFICES ASSUME RunsInit PROVE KeyInv /\ JobsHaveRows
    OBVIOUS
  <2>1. KeyInv
    BY DEF RunsInit, KeyInv, AbsentHasNoKey, Idle, Store!Init, Store!NoRow, Store!NewRow
  <2>2. main = <<>> /\ processing = <<>> /\ Held = {} /\ InFlight = {}
    BY DEF RunsInit, Init, Held, InFlight
  <2>3. ToSet(main) = {} /\ ToSet(processing) = {}
    BY <2>2 DEF ToSet
  <2>4. \A w \in Workers : todo[w] = {}
    BY DEF RunsInit
  <2> QED
    BY <2>1, <2>2, <2>3, <2>4 DEF JobsHaveRows, Awaited, JobsOf
<1>2. RunsTypeOK /\ ControlOK /\ KeyInv /\ JobsHaveRows /\ [RunsNext]_runVars
        => KeyInv' /\ JobsHaveRows'
  BY KeyStep, JobsHaveRowsStep
<1>3. ControlOK /\ JobsHaveRows => NotDropped
  <2> SUFFICES ASSUME ControlOK, JobsHaveRows, NEW f \in Flights, stage[f] = "refused"
               PROVE  row[RunOf(f)].status # "absent"
    BY DEF NotDropped
  <2>1. cargo[f] \in InFlight
    BY DEF ControlOK, InFlight
  <2>2. RunOf(f) \in Awaited
    BY <2>1 DEF RunOf, Awaited, JobsOf
  <2> QED
    BY <2>2 DEF JobsHaveRows, Present
<1> QED
  BY <1>1, <1>2, <1>3, RunsTypeCorrect, ControlCorrect, PTL DEF RunsSpec
=============================================================================
