------------------------------ MODULE JobQueue ------------------------------
(***************************************************************************)
(* The Redis job queue of workbench_jobs/queue.py and the part of a worker *)
(* process that drives it.  Three Redis lists hold the raw jobs: the main  *)
(* list, the processing list (between pop and ack) and the dead-letter     *)
(* list.  The head of a list is index 1: LPUSH and LPOP work there, RPUSH  *)
(* and BLMOVE's RIGHT at the other end.                                    *)
(*                                                                         *)
(* A worker starts by reclaiming what it finds in the processing list, one *)
(* LPOP and one push at a time, and then serves: a slot (a permit of the   *)
(* semaphore) is taken, a job is moved from main to processing, its        *)
(* handler runs, and the job is removed from processing.  Here the handler *)
(* is opaque: it may take any time.  AutonomousRuns puts the real handler  *)
(* between Fetch and Ack.                                                  *)
(***************************************************************************)
EXTENDS Naturals, SequencesExt

CONSTANTS
  Runs,           \* run ids the jobs name
  Workers,        \* worker processes
  Slots,          \* permits of a worker's semaphore: max_inflight_jobs of them
  Junk,           \* raw list entries that do not parse as a Job
  NoJob,          \* no raw job in hand
  MaxAttempts,    \* _MAX_ATTEMPTS
  MaxCrashes,     \* bound on worker deaths in a behaviour
  ReclaimCrashes  \* may a worker die between reclaim's LPOP and its push?

Job       == [run: Runs, attempts: 0..(MaxAttempts + 1)]
Raw       == Job \union Junk
Retriable == [run: Runs, attempts: 0..MaxAttempts] \union Junk  \* not yet dead-lettered

ASSUME QueueAssumption ==
  /\ MaxAttempts \in Nat
  /\ MaxCrashes \in Nat
  /\ ReclaimCrashes \in BOOLEAN
  /\ NoJob \notin Raw
  /\ Junk \intersect Job = {}

VARIABLES
  main,         \* workbench:jobs
  processing,   \* workbench:jobs:processing
  dead,         \* workbench:jobs:dead
  phase,        \* where each worker process is
  hold,         \* what a reclaiming worker has popped and not yet pushed
  cargo,        \* the raw job each slot of each worker is dispatching
  crashes       \* worker deaths so far

lists   == <<main, processing, dead>>
workers == <<phase, hold, cargo>>
vars    == <<main, processing, dead, phase, hold, cargo, crashes>>

Phases == {"down", "reclaiming", "recovered", "serving"}
Flights == Workers \X Slots

TypeOK ==
  /\ main \in Seq(Retriable)
  /\ processing \in Seq(Retriable)
  /\ dead \in Seq(Raw)
  /\ phase \in [Workers -> Phases]
  /\ hold \in [Workers -> Retriable \union {NoJob}]
  /\ cargo \in [Flights -> Retriable \union {NoJob}]
  /\ crashes \in 0..MaxCrashes

Fresh(r) == [run |-> r, attempts |-> 0]

\* Where the copies of a job can be: in a list, or in a reclaimer's hand.
Held      == {hold[w] : w \in Workers} \ {NoJob}
Stored    == ToSet(main) \union ToSet(processing) \union ToSet(dead) \union Held
InFlight  == {cargo[f] : f \in Flights} \ {NoJob}

-----------------------------------------------------------------------------
Init ==
  /\ main = <<>>
  /\ processing = <<>>
  /\ dead = <<>>
  /\ phase = [w \in Workers |-> "down"]
  /\ hold = [w \in Workers |-> NoJob]
  /\ cargo = [f \in Flights |-> NoJob]
  /\ crashes = 0

\* enqueue: LPUSH.  Anything else that can reach Redis may push an entry too.
Enqueue(raw) ==
  /\ main' = <<raw>> \o main
  /\ UNCHANGED <<processing, dead, workers, crashes>>

\* A worker process starts (_main), and reclaims before it does anything else.
Start(w) ==
  /\ phase[w] = "down"
  /\ phase' = [phase EXCEPT ![w] = "reclaiming"]
  /\ UNCHANGED <<lists, hold, cargo, crashes>>

\* reclaim: LPOP the processing list.
ReclaimPop(w) ==
  /\ phase[w] = "reclaiming"
  /\ hold[w] = NoJob
  /\ processing # <<>>
  /\ hold' = [hold EXCEPT ![w] = Head(processing)]
  /\ processing' = Tail(processing)
  /\ UNCHANGED <<main, dead, phase, cargo, crashes>>

\* The entry reclaim pushes: a parsed job counts one more attempt.
Bumped(raw) == IF raw \in Junk THEN raw ELSE [raw EXCEPT !.attempts = raw.attempts + 1]

\* Mutant: one reclaim too many.
IsPoisonLate(raw) == raw \in Junk \/ Bumped(raw).attempts > MaxAttempts + 1

\* A job that does not parse, or was reclaimed too often, is dead-lettered.
IsPoison(raw) == raw \in Junk \/ Bumped(raw).attempts > MaxAttempts

\* Mutants: LPUSH instead of RPUSH; poison dropped instead of dead-lettered.
ReclaimPushLeft(w) ==
  /\ phase[w] = "reclaiming"
  /\ hold[w] # NoJob
  /\ IF IsPoison(hold[w])
     THEN dead' = Append(dead, Bumped(hold[w])) /\ UNCHANGED main
     ELSE main' = <<Bumped(hold[w])>> \o main /\ UNCHANGED dead
  /\ hold' = [hold EXCEPT ![w] = NoJob]
  /\ UNCHANGED <<processing, phase, cargo, crashes>>

ReclaimPushDropsPoison(w) ==
  /\ phase[w] = "reclaiming"
  /\ hold[w] # NoJob
  /\ main' = IF IsPoison(hold[w]) THEN main ELSE Append(main, Bumped(hold[w]))
  /\ hold' = [hold EXCEPT ![w] = NoJob]
  /\ UNCHANGED <<processing, dead, phase, cargo, crashes>>

\* reclaim: RPUSH what was popped to the main list or to the dead-letter list.
ReclaimPush(w) ==
  /\ phase[w] = "reclaiming"
  /\ hold[w] # NoJob
  /\ IF IsPoison(hold[w])
     THEN dead' = Append(dead, Bumped(hold[w])) /\ UNCHANGED main
     ELSE main' = Append(main, Bumped(hold[w])) /\ UNCHANGED dead
  /\ hold' = [hold EXCEPT ![w] = NoJob]
  /\ UNCHANGED <<processing, phase, cargo, crashes>>

\* reclaim returns: the processing list was found empty.
ReclaimDone(w) ==
  /\ phase[w] = "reclaiming"
  /\ hold[w] = NoJob
  /\ processing = <<>>
  /\ phase' = [phase EXCEPT ![w] = "recovered"]
  /\ UNCHANGED <<lists, hold, cargo, crashes>>

\* consume_forever is entered.
Serve(w) ==
  /\ phase[w] = "recovered"
  /\ phase' = [phase EXCEPT ![w] = "serving"]
  /\ UNCHANGED <<lists, hold, cargo, crashes>>

\* Mutant: a plain pop, with no processing list.
FetchPlainPop(w, s) ==
  /\ phase[w] = "serving"
  /\ cargo[<<w, s>>] = NoJob
  /\ main # <<>>
  /\ cargo' = [cargo EXCEPT ![<<w, s>>] = Last(main)]
  /\ main' = Front(main)
  /\ UNCHANGED <<processing, dead, phase, hold, crashes>>

\* consume_forever: a permit is free, BLMOVE takes the oldest job, its task starts.
Fetch(w, s) ==
  /\ phase[w] = "serving"
  /\ cargo[<<w, s>>] = NoJob
  /\ main # <<>>
  /\ cargo' = [cargo EXCEPT ![<<w, s>>] = Last(main)]
  /\ processing' = <<Last(main)>> \o processing
  /\ main' = Front(main)
  /\ UNCHANGED <<dead, phase, hold, crashes>>

\* Mutant: the newest entry is removed, whichever it is.
LremHead(raw) == processing # <<>> /\ processing' = Tail(processing)

\* LREM with count 1: the first equal entry, if there is one, goes.
Lrem(raw) ==
  \/ raw \notin ToSet(processing) /\ UNCHANGED processing
  \/ \E i \in 1..Len(processing) :
       /\ processing[i] = raw
       /\ \A j \in 1..(i - 1) : processing[j] # raw
       /\ processing' = RemoveAt(processing, i)

\* Mutant: the permit is not released.
AckKeepsPermit(w, s) ==
  /\ cargo[<<w, s>>] # NoJob
  /\ Lrem(cargo[<<w, s>>])
  /\ UNCHANGED <<main, dead, phase, hold, cargo, crashes>>

\* _process: dispatch has returned, or the entry did not parse; LREM, release.
Ack(w, s) ==
  /\ cargo[<<w, s>>] # NoJob
  /\ Lrem(cargo[<<w, s>>])
  /\ cargo' = [cargo EXCEPT ![<<w, s>>] = NoJob]
  /\ UNCHANGED <<main, dead, phase, hold, crashes>>

\* A worker process dies; its tasks die with it, the lists stay.  A SIGTERM is
\* the same: cancelled tasks do not reach their LREM.
Crash(w) ==
  /\ crashes < MaxCrashes
  /\ phase[w] # "down"
  /\ hold[w] = NoJob \/ ReclaimCrashes
  /\ crashes' = crashes + 1
  /\ phase' = [phase EXCEPT ![w] = "down"]
  /\ hold' = [hold EXCEPT ![w] = NoJob]
  /\ cargo' = [f \in Flights |-> IF f[1] = w THEN NoJob ELSE cargo[f]]
  /\ UNCHANGED lists
=============================================================================
