# Verification of the agents workbench

TLA+ specifications of the workbench's long-lived runs, its approval workflows and the components
that the agents are made of, their TLC configurations, and theorems checked by TLAPS. Paths below are relative to the repository.

    tlc -config RunStore.cfg MCRunStore          # one run; PROJECT.json lists them all
    tlapm AutonomousRunsProofs.tla               # the proofs of one module

## 1. The system

The repository is a workbench of AI agents: a FastAPI gateway, a model router, agent loops,
a workflow engine with human approval, a handful of applications, and the durable state
behind them. What is hard in it is the asynchronous run: a client submits a goal, gets a
handle, and some worker executes the goal while gateways, workers and stores come and go.

| component | state | operations | interacts with |
|---|---|---|---|
| run store (`observability/runs.py`, table `agent_runs`) | a row per run: status, idempotency key, error, `updated_at` | `create_run`, `claim_run` (compare-and-set with a lease), `touch_run`, `upsert_run` (load, then commit), `sweep_stuck_runs`, `list_nonterminal_runs`, lookups | called by everything that runs |
| job queue (`jobs/queue.py`) | Redis lists main, processing, dead; per worker a semaphore and tasks | `enqueue`, `reclaim`, `consume_forever`, `_process`, `dispatch` | submit and reconcile push, workers pop and ack |
| autonomous agent API (`autonomous_agent/api.py`) | a request or an executor between two awaits | `submit`, `_execute_run`, `_heartbeat` | store, queue, agent loop |
| worker process (`gateway/worker.py`, `gateway/reconcile.py`) | where it is in its startup, its sweeper | `_main`: reclaim, reconcile, sweeper, pop loop | queue, store |
| in-process queue, gateway lifespan (`jobs/queue.py`, `gateway/app.py`) | asyncio tasks, semaphore | enqueue, drain, reconcile at start | store |
| workflow engine and registry (`orchestrator/engine.py`, `registry.py`) | runs in a cache per replica and in the store; approvals | run, resume, drive, load, store | store, humans |
| model router and clients (`runtime/router.py`, `clients.py`) | cooldown deadline per provider | `chain`, `step`; retries | providers |
| agent loop, context engine (`runtime/agent.py`, `context.py`) | transcript, cost | `run_agent`, `maybe_compact` | router, tools |
| autonomous rounds (`autonomous_agent/agent.py`) | memory, result | `run_autonomous` | agent loop |
| gateway front (`gateway/security.py`, `app.py`) | requests per client in the last minute | production check, `dispatch`, `_reap_idle` | clients |
| tool gateway (`toolgateway/gateway.py`), deep research (`research.py`, `audit.py`) | audit list, sources | `call`, `run_research` | router, web, trace store |
| computer use (`browse.py`; `runner.py` with two sessions) | transcript, what was typed; screen | `run_browse`; scenarios | router, browser |
| trace store (`observability/store.py`) | a row per run or tool call | record, aggregates | everything that runs |
| web fetch (`netguard.py`, `capabilities/web.py`) | a body cache per process | `safe_get`, `fetch` | research, agents |
| BI database and SQL guard (`bi_database.py`, `sql_guard.py`) | a file; an engine and an allowlist per process | make, open, validate, run | text-to-SQL, coworker |
| retrieval (`rag/`) | a collection of points | ingest, search | embedder, vector store |
| evals, demo applications, routes | none | pure functions and adapters | - |

What makes each correct, and what is hard about it:

* **run store**: a settled run stays settled. Five writers race on a row; `upsert_run` is a
  read-modify-write whose write set depends on what it read.
* **job queue**: at-least-once delivery, FIFO, poison entries parked, no permit leaked;
  with crashes between any two Redis commands.
* **autonomous runs**: one executor per run, an idempotency key names one run, every accepted
  run settles; with duplicate jobs from reclaim and reconcile, leases, heartbeats, a sweeper,
  requests that die halfway, and store errors that the code swallows.
* **workflows**: a gated step runs only under an approval that no rejection contradicts, and
  once per approval; with several replicas and their caches.
* **router and agent loop**: no caller is refused with a usable provider untried, though others
  change the cooldowns meanwhile; a compaction never separates a tool call from its results; runs
  end, and report what happened and what it cost.
* **gateway front**: never more than the limit in a window, and no memory of silent clients.
* **tool gateway, deep research**: every call is in the audit exactly once, and the sources are
  numbered as they were fetched.
* **computer use**: nothing sensitive is followed by a click; the page and the state machine show
  the same.
* **fetches, in-process queue, BI database, retrieval**: threads over one cache, tasks over one
  event loop that goes down, processes over one file, requests over one index.

`PROJECT.json` lists every component, modelled or not, and the hazards at their lines.

## 2. Modules

| module | models | remarks |
|---|---|---|
| `RunStore` | `runs.py`, `models.py` | callable by anyone, any time |
| `JobQueue` | `queue.py` (Redis), worker life | actions only; the handler is left open |
| `JobDelivery` | the queue as a closed system | composes `JobQueue` with senders and opaque handlers |
| `AutonomousRuns` | `api.py`, `worker.py`, `reconcile.py` | EXTENDS `JobQueue`, INSTANCE of `RunStore` |
| `RunLifecycle` | what a client may rely on | abstract; `AutonomousRuns` implements it |
| `WorkflowRuns` | `engine.py`, `registry.py`, `types.py`, the orchestrator's `api.py` | stands alone; the store is the one row it reads |
| `ModelRouter` | `router.py`, `providers.py`, the clients' control | turns that share cooldowns |
| `AgentLoop`, `AutonomousAgent` | `runtime/agent.py`, `context.py`, `tools.py`, the clients' rendering; `autonomous_agent/agent.py` | the second EXTENDS the first: its rounds act through it |
| `TraceStore`, `ToolGateway`, `DeepResearch` | `store.py`; `gateway.py`, `audit.py`; `research.py` | each EXTENDS the one before: research calls the gateway, whose audit goes to the store |
| `Browse`, `LegacyCrm` | `browse.py`; `runner.py`, `sandbox.py`, `legacy_ui.html` and its session | |
| `WebFetch` | `netguard.py`, `web.py` | threads over one cache |
| `GatewayFront` | `security.py`, `create_app` | |
| `InProcessRuns` | the in-process queue, the gateway's lifespan | INSTANCE of `RunStore` |
| `BiDatabase`, `RagIndex` | `bi_database.py`, `sql_guard.py`; `rag/`, its routes | |
| `RunStoreProofs`, `JobQueueProofs`, `JobDeliveryProofs`, `AutonomousRunsProofs`, `WorkflowRunsProofs`, `AgentProofs`, `GatewayProofs`, `ApplicationsProofs` | theorems | |
| `MCRunStore`, `MCJobDelivery`, `MCAutonomousRuns`, `MCWorkflowRuns` | instances for TLC | symmetry sets |
| `MCApplications` | the components that share no state, one at a time | see section 3 |

**RunStore.** `row` is the table, `session` the upserts in flight. Each SQL statement is one
step. `upsert_run` is two: `UpsertLoad` is `session.get`, `UpsertCommit` the flush, which
writes `status` and `error` only if they differ from the loaded values (SQLAlchemy's unit of
work) and inserts when nothing had been loaded. A row's `age` is `now - updated_at` in ticks,
saturating at `Lease + 1`, as the code only compares the difference with the lease. `Tick`
ages running rows; no other row's stamp is ever compared. `touch_run` also loads first, but
assigns `updated_at` alone, so it is one step.

**JobQueue.** Head of list = index 1. `phase` follows `_main`; `hold` is the entry between
reclaim's `LPOP` and `RPUSH`; `cargo[w, s]` is the raw entry that permit `s` of worker `w` is
dispatching. `BLMOVE`'s idle timeout returns the permit it took: a stutter. `Crash` stands for
a kill and for SIGTERM alike, since a cancelled task does not reach its `LREM`.

**AutonomousRuns.** A request is at `creating` between the lookup and `create_run`, at
`enqueueing` between `create_run` and the push. An executor is `claiming`, `running`, `saving`
(upsert loaded, not committed), `done` or `refused` (both wait for the `LREM`). `Fault` is a
store error that the code swallows; each place that swallows one has an action for it:
`LookupMiss`, `CreateUnstored`, `ClaimUnchecked`, `SaveUnstored`, `ListRuns`. A replica that
dies in `submit` is `Drop`. Left out: `POST /run`, trace recording, the limit of 1000 and the
order of the reconciled rows, the touch that a heartbeat may still send between the commit and
its cancellation (it changes no column that anything reads).

**RunLifecycle.** A status and a set of executors per run: accepted, begun by one executor,
settled by its owner or, ownerless, given up as failed. The refinement maps `status` to the
row's and `owner` to the executors between claim and commit.

**WorkflowRuns.** A cached run is a Python object that the requests of a replica share, so `heap`
holds objects, named by the request that made them, and a replica's `cache` is the `OrderedDict`
as a list of such names. A step of the model is the code between two awaits: of the store
(`loading`, `loaded`, `storing`) or of a workflow step (`stepping`). `AtStep` is the head of
`_drive`'s loop: budget, gate, or the step begun; `Resume` is `resume` up to its next await;
`PutAway` is `_store` up to its await, which caches the object, evicts, and sends a dump of it.
The approvals are two sets of gates; `granted`, `refused` and `started` are history variables.
`upsert_run` is two steps: `UpsertLoad` is `session.get`, which decides between INSERT and UPDATE,
`UpsertCommit` the commit. The row is its payload, which always differs from what was loaded, and
its key, which is written only if there is one. Where another upsert has inserted the run since, or
another run holds the key, the commit breaks the primary key or the UNIQUE (`Conflicts`): all of the
write is lost and the error swallowed (`UpsertFails`), as it is when the store fails. Left out: the approval token, `record_workflow_run`, `list_runs`, unknown
workflow names; what a step does to `run.state`.

**ModelRouter.** A turn is a `step`: `todo` are its candidates, a set fixed when it begins with `Rank`
for the order of the chain; the one of the least rank is being asked. `RetryPost` and `AskPlainly` are the loops inside `step_openai_compatible`; the SDK of one
provider retries by itself. `CallFails` puts the provider into cooldown and goes on, `CallBreaks` is
any exception the router lets through. `fit` remembers what was healthy when the turn began.

**AgentLoop, AutonomousAgent.** An item of the transcript is its role, its size and how many tool
calls are open after it, which stands for the call ids. `Goto` is the head of the loop with the test
for a compaction; `Cut` is `choose_cut`; `Rendered` is what the Anthropic client makes of a
transcript, `RenderedOpenAi` the others. A run never resumes; several runs share nothing. Texts of
rounds are named by the round. `cost` is `run_agent`'s `cost_usd`, `spent` is `run_autonomous`'s,
both added up by `AddCost`; a turn of known price costs one. What `router.step` reported for all
the turns together is in the history variable `billed`, which no sum is taken from. A denied approval is one more verdict on an action, as a text.

**TraceStore, ToolGateway, DeepResearch.** Rows are counted per kind and status. A handler starts
(`Invoke`) and returns (`Return`); an entry's trace is written by a task later, or never: at most
`MaxWrites` such tasks are under way and end in any order (`unsaved`, `saved`). The tools
of an MCP server may be any and return anything, which a request may trip over (`odd`).

**Browse, LegacyCrm.** A browser action is its kind and the answers to the three questions the code
asks about it. A line of the transcript says whether the page was asked (`tried`): a type that fails
may have typed. LegacyCrm gives each action to the state machine and to the page at once.

**WebFetch.** The steps between which the interpreter may switch threads: the look for the key,
`move_to_end`, the set, the length, `popitem`.

**GatewayFront.** A deque is kept as the suffix, from `first` on, of the log of all admitted
requests, so that a property can speak of any window. A dispatch has no await before the handler.

**InProcessRuns.** A task waits for a slot, claims, runs, saves. `aclose` waits for the tasks, and
whatever is left dies with the loop. Submit's idempotency is in AutonomousRuns. It implements
RunLifecycle too: the executor of a run is its task.

**BiDatabase.** `Connect` creates the file, empty: from then on `get_engine` opens it as it is. DDL
statements are durable one by one, all the rows are one transaction (Python's sqlite3). A query is
what the guard's parser tells of it: the tables it reads, which may be the engine's own catalog or
one that is not there, and those of them that have the name of a CTE (`alike`), which the guard
excuses in any scope. A literal that is no integer is neither let through nor rejected (`Raises`).

**RagIndex.** A text is sections of paragraph sizes; all documents are versions of one source, whose
points are numbered. Embedding and search are awaits, and their rankings any. The fused ranking
is in order of its scores, equal ones in any order. That a hit of both rankings comes first is a
matter of arithmetic: 2 / (60 + rank) is above 1 / 61 while the rankings are no longer than 61, that
is for a `top_k` up to 15 (`BothFirst` says so); the route allows 50 (`rag.py:73`) and asks for 5 by default.

## 3. Runs

| run | asks | bounds |
|---|---|---|
| `store` | can any sequence of store calls reopen a run? | 2 runs, 2 callers with an upsert each, 1 key, lease 1 |
| `delivery` | loss, order, attempts and termination of jobs | 1 worker, 2 slots, 3 jobs, 1 malformed entry, 2 deaths, dead letter after 1 retry |
| `recovery` | one executor, leases, settlement, refinement | 1 run, 2 workers, 2 deaths (inside reclaim too), lease 2, heartbeat 1 |
| `requests` | idempotency and two slots | 2 runs, 2 requests, 1 key, 2 slots, 1 death, 1 lost request |
| `faults` | swallowed errors and stalled heartbeats | 1 run, 2 workers, 1 death, 2 store errors |
| `workflows` | gates, audit, idempotency of workflows | 2 replicas, 3 requests, 2 runs, 1 key, cache of 1, budget 2, 1 restart, 1 store error |
| `applications` | router, agents, research, dashboard, browse, QA, fetches, front, in-process runs, BI, retrieval | below |
| `refused_claim`, `sweep_then_upsert`, `unstored_run` | violations, section 6 | 1 run, 1 worker |
| `stale_approval` | violation, section 6 | 2 replicas, 3 requests, 1 run |
| `evicted_body` | violation, section 6 | 2 fetches, 2 urls, cache of 1 |

`applications` is eleven small state spaces in one run. The components share no state, so a behaviour
picks one workload at the start and the variables of the others keep their initial values; a product
of them would only multiply. Each workload is one component's own `Next` and `Init`; the initial
states that a workload ignores are pinned. Its properties are about one component each, but for
`AppTypeOK` and `AllEnd`, the conjunctions of all types and of all termination properties.

| workload | bounds of `Applications.cfg`, and the code's | properties |
|---|---|---|
| turns | 2 turns, 1 keyed provider beside the local one, cooldown 1 tick, 1 retry | `RouterSound` |
| agent | 2 rounds of 3 steps, up to 2 calls each; compaction at size 6, keeping 2 items | `CallsAnswered`, `MessagesAlternate`, `ResultFollowsRounds`, `CostIsHonest` |
| research | 2 sub-questions of 2 hits over 2 urls, 2 tools, any allowlist, 2 audit writes at once | `EveryCallAudited`, `SourcesCited` |
| dashboard | 1 row per kind and status | `SummaryGrows` |
| browse | 3 actions (the code's default is more; the theorem is for all) | `BrowseGuarded` |
| qa | the 5 scenarios, and any actions up to one that is off the screen | `SessionsAgree`, `BugsReproduced` |
| fetches | 2 threads, 2 urls, 1 redirect, a cache of 1 | `FetchesBounded` |
| front | limits 0 to 2, window 1 tick, cleanup every 2, 4 ticks, 2 addresses with and without a proxy | `LimiterSound` |
| inprocess | 2 runs in 1 slot, 2 ends of the process, lease 2, heartbeat 1 | `DrainSettles` |
| bi | 2 processes, 2 tables, 1 death, 1 query (it changes nothing) that may name a table of the schema, the catalog and one that is not there | `BiSound` |
| rag | 2 ingests of three texts (no paragraph; one; two sections), target 10, overlap 3 | `HitsSound` |

What each needs to be interesting: two turns, so that one changes the cooldowns that the other has
read; three steps of up to two calls, so that a transcript is compacted twice and the cut falls into
a row of results; three browser actions, so that something lies between the typing and the click; two
fetches over one place in the cache; a window shorter than the cleanup interval; one slot for two
runs, so that a drain finds a task that waits for it; two processes that both find no file.

Why the bounds are enough: a race on a row needs two writers beside the sweeper and the clock,
which two callers or two executors give; a duplicate delivery needs one death or a second
worker; a dead letter needs `MaxAttempts + 1` deaths, so `MaxAttempts = 1` (5 in the code) with
two deaths reaches it; idempotency needs two requests and two run ids. A lease of 2 with a
heartbeat of 1 has the three ages that matter: within the heartbeat, within the lease, past it.
In `workflows` the three requests are a POST and two decisions, or two POSTs and a decision,
the least that makes two objects of a run and decides on both; a cache of one run (200 in the
code) is overfull with two; the workflow is the demo's access request with a step that may repeat,
so a budget of 2 (25 in the code) runs out before or behind the gate. The workflow never returns
to its gate: a gate on a cycle is executed again under its old approval, and `ApprovedOnly`
would not hold. The safety theorems of section 5 hold for all values. `faults` counts lookup errors among the
two store errors, but a failed lookup of a key that is known needs two runs and two requests,
which with stalls is too large to finish; `CreateLosesRace` covers what follows it.

Every property of a passing run has a mutant in `PROJECT.json`: a plausible bug, next to the definition it
replaces, that violates it under the same bounds.

## 4. Fairness and assumptions

* Every worker process is weakly fair: it is started again after it died, recovers and pops.
  The compose file names no restart policy; that the supervisor restarts workers is an
  assumption on the deployment, which the code's recovery takes for granted.
* Executors are weakly fair: an agent run is bounded in rounds and steps and every provider
  call has a timeout (`clients.py`), so `run_autonomous` returns or raises.
* Heartbeat and sweeper are timers and weakly fair; time does not stop.
* Clients are not fair: nothing makes a client send or repeat a request. A replica that lives
  finishes a request it has begun.
* In `applications` every component's steps are weakly fair while they can be taken: calls into
  models, tools and pages have timeouts (`clients.py`, `browse.py`, `netguard.py`), threads and tasks
  are scheduled, a stopped gateway is started again. Requests are not: nobody has to send one. A
  fetch may stay in its trim loop while others keep filling the cache, so `FetchEnds` says only that
  it gets there.
* `Punctual` is an assumption where it is TRUE: a live executor's stamp never gets older than
  the heartbeat interval. The code warns when the TTL is below three intervals but enforces
  nothing; an event loop blocked for the length of a lease breaks it. `faults` drops it.
* `EveryRunSettles` is checked with `MaxDrops = 0`, for its second half, the runs accepted and pending: a request that dies between `create_run`
  and `enqueue` leaves a pending row that only the next start of a worker picks up.

`WorkflowSpec` has no fairness and no liveness property: that every request ends follows from the
step budget, and its check is too large without the symmetry that it would make unsound.

Deadlock is checked except in `delivery`, where everything sent may be finished, in `workflows`,
where every request may have been answered, and in `applications`, where a workload comes to its end. In
`AutonomousRuns` time always passes, so deadlock freedom says nothing there and the liveness
properties take its place.

## 5. Proofs

All for any sets of runs, keys, workers, slots and clients and any bounds.

* `RunStoreProofs`: `TypeCorrect`; `StoreNeverReopens`. The second needs that what an upsert
  loaded is never ahead of the row: a commit that leaves the status column out has loaded an
  outcome, and then the row still has one.
* `JobQueueProofs`: what each Redis command does to the set of entries of a list, and that each
  queue action keeps the types. `JobDeliveryProofs`: `DeliveryTypeCorrect`;
  `DeliversAtLeastOnce`, from `~ReclaimCrashes`: the invariant adds that whatever a slot
  carries, its run is not lost when the entry moves; `DeathsAreAccounted` and
  `JobsKeepTheirOrder`, for one worker process. Two can reclaim and fetch at once, and then neither
  holds. `LineInv` has four parts. `LineSorted`: main, the entry in hand and processing are in the
  order of sending and follow on one another, so that no entry is there twice. `SentOnce`: what is
  in them was sent, once. `HandsTell`: a worker holds and dispatches only in the phase for it, and
  no two slots the same entry. `OrphansOwed`: until reclaim has bumped an entry that a death left
  behind, it counts fewer attempts than there were deaths. `OrphansAccounted` itself says that what
  a slot dispatches is in processing.
* `AutonomousRunsProofs`:
  * `ControlCorrect`: which parts of queue, requests and executors go together;
  * `ImplementsStore`: the system drives the store only through its operations. Hence
    `RunsTypeCorrect`, and `RunsNeverReopen` from the store's theorem, with no assumption on
    heartbeats, crashes or store errors;
  * `OneExecutor`, `LeaseIsHeld`, from `Punctual` and `MaxFaults = 0`. `SingleActive` is not
    inductive: a second claim wins once the first stamp is older than the lease. `LeaseInv`
    bounds the stamp of an active run by the heartbeat interval (at most the lease) and says
    that an upsert in flight is its executor's and of its run (`SavesOwnRun`);
  * `DoneMeansSettled`, from `MaxFaults = 0` alone: `DoneInv` adds that an upsert whose load saw
    an outcome is of a run that has one;
  * `RefinesLifecycle`, from `LeaseInv` and `SeesRunning` (a commit has loaded a running row, so
    it writes its outcome);
  * `KeyNamesOneRun`, from `MaxFaults = 0`: `KeyInv` says that no two rows share a key and that a
    request past `create_run` has the run that holds its key;
  * `NoRunIsDropped`, from `MaxFaults = 0`: `JobsHaveRows` says that wherever a job is, in a list, in
    a reclaimer's hand or in a slot, its run has a row. The run `unstored_run` shows that the
    assumption is needed.
* `WorkflowRunsProofs`, for any workflow and any number of replicas, requests and restarts:
  `WorkflowTypeCorrect`, `RecordAudited`, `EndedRunsStand`. What is stored is a dump of an object,
  so `DriveInv` says of every object what `RecordIsAudited` says of a row, and, because objects are
  shared, that an object at a step is running, is driven by one request and was approved at the
  gate it is in. That a second `resume` cannot disturb it is the status check of `resume`. The
  lemmas `Moves` and `Waits` show once what a step that writes an object, or none, keeps; each
  action is then shown to be such a step.
  * `KeysAreHeldUnlessOvertaken`: an answered key is held, unless the store failed or a decision on
    the same object was stored while the POST's upsert was under way. `HandlerInv` says what a
    request holds at each stage. `RunKeyInv`: until a run has a row, its only object is that of the
    request that owes the row its key, and a row without its key was inserted by a decision on that
    object (`Overtaken`). That the exception is needed is told in section 6;
  * `GatesAreApproved`, `SoleCopiesAreGated`, from `NoGateOnCycle`: no gate of the workflow can be
    reached from itself, by any path. `GateInv` and `PastInv` order the gates by that relation:
    whatever a run has approved or begun lies before where it is, so an old approval never opens a
    gate again, and the sole object of a run agrees with what was granted, refused and begun. With
    a gate on a cycle the theorem is false (`engine.py:139`).
* `AgentProofs`:
  * `CallsAreAnswered`, `LoopTyped`. The invariant says by what is open at the end of the transcript
    where the loop is. `PairedMore` appends an item, `CompactedPaired` is a compaction: the cut is
    behind everything or before something that is not a result (`CutSeparates`), so no call is
    parted from its results. `RoundsAnswerCalls`, `RoundsTyped` are the same for the loop inside
    plan, act and reflect;
  * `MessagesTakeTurns`, `RoundsTakeTurns`. `TurnsInv`: after the prompt nothing in a transcript is the
    user's, and only an answer with calls has something behind it (`Speaks`). `RenderedTakesTurns` goes
    from there to the messages, item by item: `TakesTurns` says of the messages so far what the last
    item leaves open;
  * `ResultsFollowRounds`, `CostsAreHonest`. `AutoInv` relates the stage to the rounds: which of
    them are judged (`InRounds`), which text was told last (`LastTold`), and that the memory holds
    the texts of the rounds, in order and once, between its notes (`Remembered`). `CostInv`: the sum
    of the acting agent and that of the rounds hold together what all turns came to, and outside of
    a round's acting the second does alone;
  * `RouterIsSound`, `RouterTyped`, for any number of turns at once. `TurnInv`: what a turn has tried
    and what it has left are together what it chose when it began. It speaks of no cooldown as it
    is now, so another turn's step leaves it as it is.
* `GatewayProofs`:
  * `LimiterIsSound`, `FrontTyped`, for any limit, negative ones included. The invariant: logs are
    in the order of time, what is left of a deque is older than the window, only known clients have
    one. `PoppedOld` and `SweptInOrder` show what a look at a deque and the cleanup leave of that;
  * `DrainsSettle`, `InProcessTyped`. `DrainInv`: the tasks at work fit the slots (`Slots`), only a living
    process has tasks (`Alive`), the stamp of a run in execution is within the heartbeat interval
    and a save has seen it running (`Leases`), and an unfinished run has a task, is about to get
    one, or was turned away (`Owned`);
  * `ProcessNeverReopens`, by way of the store's theorem, and `ProcessRefinesLifecycle`, from `DrainInv`:
    the queue in the process and the workers behind Redis give clients the same promise;
  * `SummaryIsMonotone`: rows only come, so each figure, once read, is at most what it would be now;
  * `CallsAreAudited`, `SourcesAreCited`, `ResearchTyped`. `AuditInv` is the property with finiteness;
    `ResearchInv` adds that the urls seen are the ones cited and that what is being fetched is not
    among them.
* `ApplicationsProofs`:
  * `BrowseIsGuarded`, `BrowseTyped`. `Policy` says that what is being tried has passed the
    policy, and that what was typed is remembered unless the request is at its end. `LineAdded` is
    the one place where the transcript grows;
  * `DatabaseIsFilledOnce`, `BiTyped`. `Making`: a process that creates tables is never behind the
    file by more than the table it comes to, so `OneFills`: whoever made the last table is alone
    with it, as `CREATE TABLE` fails for everybody else, also over a file that was left empty. The
    claim on queries is about the age of a list: one whose tables are all in it finds them;
  * `FetchesAreBounded`, `FetchTyped`. The cache is too long by at most the threads between their
    set and their trim (`Late`), and each of those still has its own excess to pop;
  * `PageMirrorsMachine`. `InStep`: the page and the state machine have the same state, fields and
    greeting, until the first action that is off the screen. `Screens` is what the layout says,
    screen by screen. `CrmTyped` holds past that action as well: what a stray click may do is typed;
  * `HitsAreSound`, `RagTyped`. `DocumentChunked`: the pieces of a document are its paragraphs in order
    and none is too large (`Chunked`), from `SectionPacked`, paragraph by paragraph (`Packed`), and from
    what flattening does to a concatenation. `RagInv`: the first points are the chunks of the newest
    text, points only come, and hits are a fusion of the two rankings that are kept. `SumOfTwo` is the
    arithmetic of ranks up to 61.

`Cut`, `Popped` and `Asked` choose the least number with a property. That there is one is `LeastNat`,
proved from the well-foundedness of inclusion on the subsets of a finite set, since the induction
theorems of the library take a predicate that the provers cannot be given. `UpTo` (`AllTheWay`) puts it as
an induction: a set with 0, and with n + 1 whenever with n, has every number up to a bound. A predicate
is then the set of the numbers it holds of, which is how the lemmas on recursive functions
(`Rendered`, `PiecesOf`) and on the flattening of sequences are proved.

Model-checked only:

* the liveness properties (`EveryJobEnds`, `EveryRunSettles`, `AllEnd`): fairness is out of the
  prover's reach;
* `BugsReproduced`: five fixed scripts without a parameter, of which TLC explores every step. There is
  no larger instance for a theorem to speak of;
* `AppTypeOK` as a whole, which is about the union of the workloads. Each of its conjuncts is a theorem
  of its component (`RouterTyped`, `RoundsTyped`, `ResearchTyped`, `BrowseTyped`, `CrmTyped`,
  `FetchTyped`, `FrontTyped`, `InProcessTyped`, `BiTyped`, `RagTyped`).

## 6. Where the code does not do what it says

* `refused_claim`: `queue.py:178` says that a dispatch that returned is "genuinely done and safe
  to ack". A worker dies with a run in hand; restarted within the lease, it gets the job twice
  (reclaim, reconcile), both claims are refused and both jobs acked. The run is `running`, nobody
  executes it, and no job is left: it is not retried but, after the lease, failed by the sweeper.
* `sweep_then_upsert`: `runs.py:271` says "No lost update". A sweep between an upsert's load and
  its commit leaves a completed run with the error "no heartbeat for ...".
* `unstored_run`: `runs.py:174` says that an outage does not drop a run. If `create_run` fails and
  the claim does not, the claim matches no row and the run is dropped after its 202.
* `stale_approval`: `engine.py:13` says of a rejected run that "the gate never runs", and
  `engine.py:16` that a paused run "can be resumed from any replica". `_load` (`registry.py:53`)
  answers from the replica's cache: a run that was rejected on one replica, and stored as rejected,
  can be approved on another that read it before, and its gate is executed. `SoleCopyIsGated`
  says when the docstring is right: as long as there is one object of the run.
* `evicted_body`: `web.py:131` says that a fetch returns an empty text "rather than raising". The
  body of a fetch that went well is put into `BODY_CACHE` outside the `try`, by a worker thread; if
  another thread evicts the same url between `key in self` and `move_to_end` (`web.py:37-38`), the
  `KeyError` goes to the caller.

Two more contradict a comment; they are stated in the models but have no run of their own:

* `registry.py:66` says that "a repeated key returns the original run, never a second one". `_store`
  caches a run before it awaits `upsert_run`, so a decision on it can be stored while the POST's
  upsert is under way. Both have found no row and both insert; if the decision commits first, the
  POST's insert, the one with the key, fails on the primary key and is swallowed
  (`runs.py:99-101`). No row holds the key, though no store call has failed otherwise, and its
  repetition starts a second run. `KeyHeldUnlessOvertaken` has this as its one exception.
* `sql_guard.py:7` says that "every referenced table must be in the allowlist". The names of the CTEs
  are collected over the whole statement (line 86) and excuse a table of that name wherever it stands
  (line 90), though a CTE's name holds only in its own scope; such a table is read, or found
  missing, unlisted. Hence `BiSound` speaks of queries whose tables are all in the list (`listed`).

Some more were met and are hazards in `PROJECT.json`: a worker that starts beside a live one
reclaims the jobs it has in flight and counts attempts against them (`queue.py:147`); a worker
that dies between `LPOP` and `RPUSH` takes the job along (`queue.py:138`), so that
`DeliversAtLeastOnce` assumes `~ReclaimCrashes` (with it, reconcile still saves the run: `recovery`
allows such deaths); `reconcile_runs` retries a dead-lettered run (`reconcile.py:35`). An exception without a text
(`gateway.py:92`) is audited, and traced, like a success; an ingest of a shorter version of a document
leaves the points of the longer one searchable (`store.py:33`); a process that dies while it makes the
sample database, or right after it connected, leaves one that is never filled (`bi_database.py:119`); a
LIMIT or OFFSET of 1.5 is a ValueError (`sql_guard.py:98`), and the table list of the
coworker's tool is read once for good; an exception of a client that is not a `ProviderCallError` ends
a turn with providers untried (`router.py:143`). No document promises otherwise, so they are not
findings.

## 7. Not modelled

* Evaluation harness, demo applications (beside text-to-SQL's query), routes, settings: arithmetic,
  sequential chains of model calls, adapters, constants. No state and no order to get wrong.
* UI, scripts, deployment: no protocol of their own.
* Parts of modelled components: the comparison of API keys and the security headers; the empty
  `Idempotency-Key` (`api.py:158`); the file workspace of an agent; address classification, SQL
  parsing, embedding and ranking, which are libraries'; the MCP session; percentiles and listings of
  the trace store; the paging of the full scan; vectors of another dimension.
* Workflows whose gate lies on a cycle: the gate executes again under its old approval
  (`engine.py:139`), so `ApprovedOnly` would not hold, and no document says whether it should.
