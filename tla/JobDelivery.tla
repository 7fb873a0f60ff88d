---------------------------- MODULE JobDelivery ----------------------------
(***************************************************************************)
(* The job queue as a closed system: every run's job is enqueued once, an  *)
(* unparseable entry may be pushed beside them, worker processes start,    *)
(* reclaim, serve, die and start again.  The handler is opaque: it returns *)
(* some time after Fetch.  What the queue promises by itself, whatever the *)
(* handlers do, is stated here.                                            *)
(***************************************************************************)
EXTENDS JobQueue

VARIABLES
  sent,         \* history: the runs enqueued, in order
  acked         \* history: the runs a dispatch of which has been acked

deliveryVars == <<main, processing, dead, phase, hold, cargo, crashes, sent, acked>>

DeliveryTypeOK ==
  /\ TypeOK
  /\ sent \in Seq(Runs)
  /\ acked \in SUBSET Runs

-----------------------------------------------------------------------------
DeliveryInit == Init /\ sent = <<>> /\ acked = {}

Send(r) ==
  /\ r \notin ToSet(sent)
  /\ Enqueue(Fresh(r))
  /\ sent' = Append(sent, r)
  /\ UNCHANGED acked

\* Something else that can reach Redis pushes an entry that is not a Job.
SendJunk(j) ==
  /\ j \notin Stored
  /\ Enqueue(j)
  /\ UNCHANGED <<sent, acked>>

\* The handler returns, or the entry is dropped as malformed; either way it is acked.
Finish(w, s) ==
  /\ Ack(w, s)
  /\ acked' = IF cargo[<<w, s>>] \in Junk THEN acked ELSE acked \union {cargo[<<w, s>>].run}
  /\ UNCHANGED sent

\* The steps of a worker process other than its tasks'.
Recover(w) == ReclaimPop(w) \/ ReclaimPush(w) \/ ReclaimDone(w) \/ Serve(w)

WorkerStep(w) ==
  /\ \/ Start(w)
     \/ Recover(w)
     \/ \E s \in Slots : Fetch(w, s)
  /\ UNCHANGED <<sent, acked>>

Die(w) == Crash(w) /\ UNCHANGED <<sent, acked>>

DeliveryNext ==
  \/ \E r \in Runs : Send(r)
  \/ \E j \in Junk : SendJunk(j)
  \/ \E w \in Workers : WorkerStep(w)
  \/ \E w \in Workers, s \in Slots : Finish(w, s)
  \/ \E w \in Workers : Die(w)

\* A worker process is restarted by its supervisor and its event loop runs; a
\* dispatch returns in the end (the providers' calls time out).
DeliveryFairness ==
  /\ \A w \in Workers : WF_deliveryVars(WorkerStep(w))
  /\ \A w \in Workers, s \in Slots : WF_deliveryVars(Finish(w, s))

DeliverySpec == DeliveryInit /\ [][DeliveryNext]_deliveryVars /\ DeliveryFairness

-----------------------------------------------------------------------------
(***************************************************************************)
(* Properties                                                              *)
(***************************************************************************)
RunsIn(raws) == {raw.run : raw \in raws \ Junk}

\* At-least-once: an enqueued job that no dispatch has finished is in one of the
\* lists or in the hand of a reclaiming worker, whatever workers died and however
\* many of them drain the same processing list (reclaim and consume_forever).
AtLeastOnce == ToSet(sent) \ acked \subseteq RunsIn(Stored)

\* "src=RIGHT keeps FIFO": jobs wait in the order in which they were sent, oldest
\* last, also when a crash has sent some of them through reclaim.  Holds for one
\* worker: two of them can reclaim and fetch at once.
Position(r) == CHOOSE i \in 1..Len(sent) : sent[i] = r
Fifo ==
  \A i, j \in 1..Len(main) :
    i < j /\ main[i] \notin Junk /\ main[j] \notin Junk
      => Position(main[i].run) > Position(main[j].run)

\* "A crash before the ack leaves the job in processing for the next worker's
\* reclaim()" (queue.py:187): what a slot dispatches is in the processing list.
UnackedInProcessing == InFlight \subseteq ToSet(processing)

\* "bumped each time a worker crash leaves this job orphaned" (queue.py:52): no
\* job has been orphaned more often than workers have died.
AttemptsCountCrashes ==
  \A raw \in (Stored \union InFlight) \ Junk : raw.attempts <= crashes

\* What a worker's death leaves to the next reclaim: all that was in its slots, with
\* as many attempts as deaths at most.  Holds for one worker.
OrphansAccounted == UnackedInProcessing /\ AttemptsCountCrashes

\* Every job sent is finished or dead-lettered in the end: no crash, no duplicate
\* and no unparseable entry wedges the workers.
EveryJobEnds ==
  \A r \in Runs :
    (r \in ToSet(sent)) ~> (r \in acked \/ r \in RunsIn(ToSet(dead)))
=============================================================================
