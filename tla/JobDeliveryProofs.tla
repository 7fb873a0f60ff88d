------------------------- MODULE JobDeliveryProofs -------------------------
(***************************************************************************)
(* The job queue delivers at least once, for any number of jobs, workers   *)
(* and slots, as long as no worker dies between reclaim's LPOP and its     *)
(* push.  With one worker, wherever it dies, jobs also keep the order they *)
(* were sent in and what a death orphans is accounted for.                 *)
(***************************************************************************)
EXTENDS JobDelivery, JobQueueProofs

\* Type correctness of the closed system.
THEOREM DeliveryTypeCorrect == DeliverySpec => []DeliveryTypeOK
<1>1. DeliveryInit => DeliveryTypeOK
  BY QueueInitTyped DEF DeliveryInit, DeliveryTypeOK
<1>2. DeliveryTypeOK /\ [DeliveryNext]_deliveryVars => DeliveryTypeOK'
  <2> SUFFICES ASSUME DeliveryTypeOK, [DeliveryNext]_deliveryVars PROVE DeliveryTypeOK'
    OBVIOUS
  <2>1. ASSUME NEW r \in Runs, Send(r) PROVE DeliveryTypeOK'
    <3>1. Fresh(r) \in Retriable
      BY QueueAssumption DEF Fresh, Retriable
    <3>2. TypeOK'
      BY <2>1, <3>1, QueueTyped DEF Send, QueueStep, DeliveryTypeOK
    <3>3. Append(sent, r) \in Seq(Runs)
      BY PushTail DEF DeliveryTypeOK
    <3> QED
      BY <2>1, <3>2, <3>3 DEF Send, DeliveryTypeOK
  <2>2. ASSUME NEW j \in Junk, SendJunk(j) PROVE DeliveryTypeOK'
    <3> j \in Retriable
      BY DEF Retriable
    <3> QED
      BY <2>2, QueueTyped DEF SendJunk, QueueStep, DeliveryTypeOK
  <2>3. ASSUME NEW w \in Workers, WorkerStep(w) PROVE DeliveryTypeOK'
    BY <2>3, QueueTyped DEF WorkerStep, Recover, QueueStep, DeliveryTypeOK
  <2>4. ASSUME NEW w \in Workers, NEW s \in Slots, Finish(w, s) PROVE DeliveryTypeOK'
    <3>1. cargo[<<w, s>>] \in Retriable
      BY <2>4 DEF Finish, Ack, DeliveryTypeOK, TypeOK, Flights
    <3>2. acked' \in SUBSET Runs
      BY <2>4, <3>1 DEF Finish, DeliveryTypeOK, Retriable
    <3> QED
      BY <2>4, <3>2, QueueTyped DEF Finish, QueueStep, DeliveryTypeOK
  <2>5. ASSUME NEW w \in Workers, Die(w) PROVE DeliveryTypeOK'
    BY <2>5, QueueTyped DEF Die, QueueStep, DeliveryTypeOK
  <2>6. CASE UNCHANGED deliveryVars
    BY <2>6, QueueTyped DEF deliveryVars, vars, QueueStep, DeliveryTypeOK
  <2> QED
    BY <2>1, <2>2, <2>3, <2>4, <2>5, <2>6 DEF DeliveryNext
<1> QED
  BY <1>1, <1>2, PTL DEF DeliverySpec

-----------------------------------------------------------------------------
\* No worker's own step loses a run: what was stored is stored, bumped or not.
LEMMA WorkerStepKeeps ==
  ASSUME TypeOK, NEW w \in Workers, WorkerStep(w)
  PROVE  RunsIn(Stored) \subseteq RunsIn(Stored)'
<1> SUFFICES ASSUME NEW raw \in Stored, raw \notin Junk
             PROVE  \E new \in Stored' : new \notin Junk /\ new.run = raw.run
  BY DEF RunsIn
<1>1. CASE Start(w) \/ ReclaimDone(w) \/ Serve(w)
  <2> Stored' = Stored
    BY <1>1 DEF Start, ReclaimDone, Serve, Stored, Held, lists
  <2> QED
    OBVIOUS
<1>2. CASE ReclaimPop(w)
  <2>1. ToSet(processing) = {Head(processing)} \union ToSet(Tail(processing))
    BY <1>2, PopHead DEF ReclaimPop, TypeOK
  <2>2. Head(processing) # NoJob
    BY <1>2, PopHead, NoJobIsNone DEF ReclaimPop, TypeOK
  <2>3. hold'[w] = Head(processing) /\ \A v \in Workers \ {w} : hold'[v] = hold[v]
    BY <1>2 DEF ReclaimPop, TypeOK
  <2>4. raw \in Stored'
    BY <1>2, <2>1, <2>2, <2>3 DEF ReclaimPop, Stored, Held
  <2> QED
    BY <2>4
<1>3. CASE ReclaimPush(w)
  <2>1. hold[w] \in Retriable /\ hold[w] # NoJob
    BY <1>3 DEF ReclaimPush, TypeOK
  <2>2. /\ Bumped(hold[w]) \in Raw
        /\ ~IsPoison(hold[w]) => Bumped(hold[w]) \in Retriable
    BY <2>1, BumpedTyped
  <2>3. /\ ToSet(main) \subseteq ToSet(main')
        /\ ToSet(dead) \subseteq ToSet(dead')
        /\ Bumped(hold[w]) \in ToSet(main') \union ToSet(dead')
    <3>1. CASE IsPoison(hold[w])
      <4> /\ dead' = Append(dead, Bumped(hold[w])) /\ main' = main
          /\ ToSet(Append(dead, Bumped(hold[w]))) = ToSet(dead) \union {Bumped(hold[w])}
        BY <1>3, <2>2, <3>1, PushTail DEF ReclaimPush, TypeOK
      <4> QED
        OBVIOUS
    <3>2. CASE ~IsPoison(hold[w])
      <4> /\ main' = Append(main, Bumped(hold[w])) /\ dead' = dead
          /\ ToSet(Append(main, Bumped(hold[w]))) = ToSet(main) \union {Bumped(hold[w])}
        BY <1>3, <2>2, <3>2, PushTail DEF ReclaimPush, TypeOK
      <4> QED
        OBVIOUS
    <3> QED
      BY <3>1, <3>2
  <2>4. \A v \in Workers \ {w} : hold'[v] = hold[v]
    BY <1>3 DEF ReclaimPush, TypeOK
  <2>5. CASE raw = hold[w]
    <3> Bumped(raw).run = raw.run /\ Bumped(raw) \notin Junk
      BY <2>1, <2>5, BumpedTyped
    <3> QED
      BY <2>3, <2>5 DEF Stored
  <2>6. CASE raw # hold[w]
    <3> raw \in Stored'
      BY <1>3, <2>3, <2>4, <2>6 DEF ReclaimPush, Stored, Held
    <3> QED
      OBVIOUS
  <2> QED
    BY <2>5, <2>6
<1>4. ASSUME NEW s \in Slots, Fetch(w, s) PROVE raw \in Stored'
  <2>1. /\ Last(main) \in Retriable
        /\ ToSet(main) = ToSet(Front(main)) \union {Last(main)}
    BY <1>4, PopTail DEF Fetch, TypeOK
  <2>2. ToSet(<<Last(main)>> \o processing) = {Last(main)} \union ToSet(processing)
    BY <2>1, PushHead DEF TypeOK
  <2> QED
    BY <1>4, <2>1, <2>2 DEF Fetch, Stored, Held
<1> QED
  BY <1>1, <1>2, <1>3, <1>4 DEF WorkerStep, Recover

\* An acknowledgement removes at most one entry, and that one names the run it acks.
LEMMA FinishKeeps ==
  ASSUME TypeOK, NEW w \in Workers, NEW s \in Slots, Finish(w, s)
  PROVE  RunsIn(Stored) \subseteq RunsIn(Stored)' \union acked'
<1> DEFINE raw == cargo[<<w, s>>]
<1>1. ToSet(processing) \subseteq ToSet(processing') \union {raw}
  BY LremEffect DEF Finish, Ack, TypeOK
<1>2. Stored \subseteq Stored' \union {raw}
  BY <1>1 DEF Finish, Ack, Stored, Held
<1>3. raw \notin Junk => raw.run \in acked'
  BY DEF Finish
<1> QED
  BY <1>2, <1>3 DEF RunsIn

\* A crash loses nothing, unless the dead worker was holding what it had popped.
LEMMA DieKeeps ==
  ASSUME TypeOK, NEW w \in Workers, Die(w), ~ReclaimCrashes
  PROVE  Stored \subseteq Stored'
<1>1. hold[w] = NoJob /\ \A v \in Workers \ {w} : hold'[v] = hold[v]
  BY DEF Die, Crash, TypeOK
<1> QED
  BY <1>1 DEF Die, Crash, Stored, Held, lists

\* At-least-once: an enqueued job that no dispatch finished is in a list or in a
\* reclaimer's hand (enqueue, reclaim, consume_forever, _process).
THEOREM DeliversAtLeastOnce ==
  ASSUME ~ReclaimCrashes
  PROVE  DeliverySpec => []AtLeastOnce
<1>1. DeliveryInit => AtLeastOnce
  BY DEF DeliveryInit, AtLeastOnce, ToSet
<1>2. DeliveryTypeOK /\ AtLeastOnce /\ [DeliveryNext]_deliveryVars => AtLeastOnce'
  <2> SUFFICES ASSUME DeliveryTypeOK, AtLeastOnce, [DeliveryNext]_deliveryVars
               PROVE  AtLeastOnce'
    OBVIOUS
  <2> USE DEF DeliveryTypeOK
  <2>1. ASSUME NEW r \in Runs, Send(r) PROVE AtLeastOnce'
    <3>1. Fresh(r) \in Retriable /\ Fresh(r).run = r /\ Fresh(r) \in Job
      BY QueueAssumption DEF Fresh, Retriable, Job
    <3>2. ToSet(<<Fresh(r)>> \o main) = {Fresh(r)} \union ToSet(main)
      BY <3>1, PushHead DEF TypeOK
    <3>3. Stored' = Stored \union {Fresh(r)}
      BY <2>1, <3>2 DEF Send, Enqueue, Stored, Held, workers
    <3>4. ToSet(sent') = ToSet(sent) \union {r}
      BY <2>1, PushTail DEF Send
    <3>5. Fresh(r) \notin Junk
      BY <3>1, QueueAssumption
    <3>6. RunsIn(Stored)' = RunsIn(Stored) \union {r}
      BY <3>1, <3>3, <3>5 DEF RunsIn
    <3> QED
      BY <2>1, <3>4, <3>6 DEF Send, AtLeastOnce
  <2>2. ASSUME NEW j \in Junk, SendJunk(j) PROVE AtLeastOnce'
    <3>1. ToSet(<<j>> \o main) = {j} \union ToSet(main)
      <4> j \in Retriable
        BY DEF Retriable
      <4> QED
        BY PushHead DEF TypeOK
    <3>2. Stored \subseteq Stored'
      BY <2>2, <3>1 DEF SendJunk, Enqueue, Stored, Held, workers
    <3> QED
      BY <2>2, <3>2 DEF SendJunk, AtLeastOnce, RunsIn
  <2>3. ASSUME NEW w \in Workers, WorkerStep(w) PROVE AtLeastOnce'
    <3> RunsIn(Stored) \subseteq RunsIn(Stored)'
      BY <2>3, WorkerStepKeeps
    <3> QED
      BY <2>3 DEF WorkerStep, AtLeastOnce
  <2>4. ASSUME NEW w \in Workers, NEW s \in Slots, Finish(w, s) PROVE AtLeastOnce'
    <3>1. RunsIn(Stored) \subseteq RunsIn(Stored)' \union acked'
      BY <2>4, FinishKeeps
    <3>2. sent' = sent /\ acked \subseteq acked'
      BY <2>4 DEF Finish
    <3> QED
      BY <3>1, <3>2 DEF AtLeastOnce
  <2>5. ASSUME NEW w \in Workers, Die(w) PROVE AtLeastOnce'
    <3> Stored \subseteq Stored'
      BY <2>5, DieKeeps
    <3> QED
      BY <2>5 DEF Die, AtLeastOnce, RunsIn
  <2>6. CASE UNCHANGED deliveryVars
    BY <2>6 DEF deliveryVars, AtLeastOnce, RunsIn, Stored, Held
  <2> QED
    BY <2>1, <2>2, <2>3, <2>4, <2>5, <2>6 DEF DeliveryNext
<1> QED
  BY <1>1, <1>2, DeliveryTypeCorrect, PTL DEF DeliverySpec

-----------------------------------------------------------------------------
(***************************************************************************)
(* One worker: main, what it holds, and processing are one line, newest    *)
(* first.  Fetch and reclaim move the border between the lists along the   *)
(* line and nothing overtakes: that is why jobs keep their order, why no   *)
(* two entries are equal, and why an LREM takes the entry it means.        *)
(***************************************************************************)
Newer(a, b) ==
  /\ a # b
  /\ a \notin Junk /\ b \notin Junk => Position(a.run) > Position(b.run)

Ahead == {p \in Raw \X Raw : Newer(p[1], p[2])}

Line == ToSet(main) \union Held \union ToSet(processing)

LineSorted ==
  /\ Sorted(main, Ahead)
  /\ Sorted(processing, Ahead)
  /\ Before(ToSet(main), Held \union ToSet(processing), Ahead)
  /\ Before(Held, ToSet(processing), Ahead)

SentOnce ==
  /\ \A i, j \in 1..Len(sent) : sent[i] = sent[j] => i = j
  /\ RunsIn(Line) \subseteq ToSet(sent)

\* What a worker holds and dispatches, and when.
HandsTell ==
  /\ \A w \in Workers : hold[w] # NoJob => phase[w] = "reclaiming"
  /\ \A f \in Flights : cargo[f] # NoJob => phase[f[1]] = "serving"
  /\ \A f, g \in Flights : cargo[f] # NoJob /\ cargo[f] = cargo[g] => f = g

\* Until reclaim has bumped an orphan, one death more has happened than it counts.
OrphansOwed ==
  \A w \in Workers : phase[w] \in {"down", "reclaiming"} =>
    \A raw \in (Held \union ToSet(processing)) \ Junk : raw.attempts < crashes

LineInv ==
  LineSorted /\ SentOnce /\ HandsTell /\ OrphansOwed /\ OrphansAccounted

\* A run sent once is at one place of the history.
LEMMA PlaceOf ==
  ASSUME NEW S, NEW s \in Seq(S), NEW i \in 1..Len(s),
         \A j, k \in 1..Len(s) : s[j] = s[k] => j = k
  PROVE  (CHOOSE k \in 1..Len(s) : s[k] = s[i]) = i
  OBVIOUS

\* As long as nothing is sent, the order is the same.
LEMMA OrderKept ==
  ASSUME UNCHANGED sent
  PROVE  Ahead' = Ahead
  BY DEF Ahead, Newer, Position

\* What is in the line is a raw job; a run in it was sent.
LEMMA LineTyped ==
  ASSUME TypeOK
  PROVE  Line \subseteq Retriable
<1>1. \A s \in Seq(Retriable) : ToSet(s) \subseteq Retriable
  BY InList
<1>2. Held \subseteq Retriable
  BY DEF Held, TypeOK
<1> QED
  BY <1>1, <1>2 DEF Line, TypeOK

\* A run that was not sent before is newer than all in the line, which keeps its order.
LEMMA SentIsNewest ==
  ASSUME DeliveryTypeOK, SentOnce, NEW r \in Runs, Send(r)
  PROVE  /\ \A i, j \in 1..Len(sent') : sent'[i] = sent'[j] => i = j
         /\ ToSet(sent') = ToSet(sent) \union {r}
         /\ Before({Fresh(r)}, Line, Ahead')
         /\ Ahead \intersect (Line \X Line) \subseteq Ahead'
<1> DEFINE n == Len(sent) + 1
<1>1. sent \in Seq(Runs) /\ sent' = Append(sent, r) /\ r \notin ToSet(sent)
  BY DEF Send, DeliveryTypeOK
<1>2. /\ sent' \in Seq(Runs) /\ Len(sent') = n /\ n \in 1..n /\ n \in Nat
      /\ sent'[n] = r
      /\ \A i \in 1..Len(sent) : sent'[i] = sent[i] /\ sent[i] # r /\ i \in 1..n /\ i < n
      /\ \A i \in 1..n : i = n \/ i \in 1..Len(sent)
  <2>1. \A i \in 1..Len(sent) : sent[i] # r
    BY <1>1, InList
  <2>2. Len(sent) \in Nat /\ Len(sent') = Len(sent) + 1 /\ sent'[Len(sent) + 1] = r
    BY <1>1
  <2>3. \A i \in 1..Len(sent) : sent'[i] = sent[i]
    BY <1>1
  <2>4. sent' \in Seq(Runs)
    BY <1>1
  <2> QED
    BY <2>1, <2>2, <2>3, <2>4
<1> HIDE DEF n
<1>3. \A i, j \in 1..Len(sent') : sent'[i] = sent'[j] => i = j
  BY <1>2 DEF SentOnce
<1>4. ToSet(sent') = ToSet(sent) \union {r}
  BY <1>1, PushTail
<1>5. Position(r)' = n
  <2> (CHOOSE k \in 1..Len(sent') : sent'[k] = sent'[n]) = n
    BY <1>2, <1>3, PlaceOf
  <2> QED
    BY <1>2 DEF Position
<1>6. ASSUME NEW q \in ToSet(sent)
      PROVE  Position(q) \in 1..Len(sent) /\ Position(q)' = Position(q)
  <2>1. PICK i \in 1..Len(sent) : sent[i] = q
    BY <1>1, <1>6, InList
  <2>2. (CHOOSE k \in 1..Len(sent) : sent[k] = sent[i]) = i
    BY <1>1, PlaceOf DEF SentOnce
  <2>3. (CHOOSE k \in 1..Len(sent') : sent'[k] = sent'[i]) = i
    BY <1>2, <1>3, PlaceOf
  <2> QED
    BY <1>2, <2>1, <2>2, <2>3 DEF Position
<1>7. \A raw \in Line : raw \notin Junk => raw.run \in ToSet(sent) /\ raw.run # r
  BY <1>1 DEF SentOnce, RunsIn
<1>8. Line \subseteq Raw /\ Fresh(r) \in Raw /\ Fresh(r).run = r
  BY LineTyped, NoJobIsNone, QueueAssumption DEF DeliveryTypeOK, Fresh, Raw, Job
<1>9. ASSUME NEW raw \in Line PROVE <<Fresh(r), raw>> \in Ahead'
  <2>1. Fresh(r) # raw
    <3> Fresh(r) \notin Junk
      BY QueueAssumption DEF Fresh, Job
    <3> QED
      BY <1>7, <1>8
  <2>2. raw \notin Junk => Position(r)' > Position(raw.run)'
    BY <1>2, <1>5, <1>6, <1>7
  <2> QED
    BY <1>8, <2>1, <2>2 DEF Ahead, Newer
<1>10. ASSUME NEW a \in Line, NEW b \in Line, <<a, b>> \in Ahead PROVE <<a, b>> \in Ahead'
  <2>1. a # b /\ (a \notin Junk /\ b \notin Junk => Position(a.run) > Position(b.run))
    BY <1>10 DEF Ahead, Newer
  <2>2. a \notin Junk /\ b \notin Junk => Position(a.run)' > Position(b.run)'
    BY <1>6, <1>7, <2>1
  <2> QED
    BY <1>8, <2>1, <2>2 DEF Ahead, Newer
<1> QED
  BY <1>3, <1>4, <1>9, <1>10 DEF Before

\* The lists in their types, and what one worker holds.
LEMMA OneWorker ==
  ASSUME TypeOK, NEW w, Workers = {w}
  PROVE  /\ main \in Seq(Retriable) /\ processing \in Seq(Retriable)
         /\ w \in Workers
         /\ Held = {hold[w]} \ {NoJob}
         /\ \A f \in Flights : f[1] = w
  BY DEF TypeOK, Held, Flights

\* enqueue of a job.
LEMMA SendInLine ==
  ASSUME DeliveryTypeOK, LineInv, NEW r \in Runs, Send(r)
  PROVE  LineInv'
<1> DEFINE new == Fresh(r)
<1> USE DEF DeliveryTypeOK
<1>1. new \in Retriable /\ new \notin Junk /\ new.run = r /\ new.attempts = 0
  BY QueueAssumption DEF Fresh, Retriable, Job
<1>2. /\ main' = <<new>> \o main
      /\ processing' = processing /\ dead' = dead /\ phase' = phase
      /\ hold' = hold /\ cargo' = cargo /\ crashes' = crashes
      /\ main \in Seq(Retriable) /\ processing \in Seq(Retriable)
  BY DEF Send, Enqueue, workers, TypeOK
<1>3. ToSet(main') = {new} \union ToSet(main)
  BY <1>1, <1>2, PushHead
<1>4. Line' = {new} \union Line /\ Stored' = {new} \union Stored /\ InFlight' = InFlight
  BY <1>2, <1>3 DEF Line, Stored, Held, InFlight
<1>5. /\ \A i, j \in 1..Len(sent') : sent'[i] = sent'[j] => i = j
      /\ ToSet(sent') = ToSet(sent) \union {r}
      /\ Before({new}, Line, Ahead')
      /\ Ahead \intersect (Line \X Line) \subseteq Ahead'
  BY SentIsNewest DEF LineInv
<1>6. SentOnce'
  BY <1>1, <1>4, <1>5 DEF LineInv, SentOnce, RunsIn
<1>7. LineSorted'
  <2>1. Sorted(main, Ahead') /\ Sorted(processing, Ahead')
    <3> /\ Ahead \intersect (ToSet(main) \X ToSet(main)) \subseteq Ahead'
        /\ Ahead \intersect (ToSet(processing) \X ToSet(processing)) \subseteq Ahead'
      BY <1>5 DEF Line
    <3> QED
      BY <1>2, SortedFor DEF LineInv, LineSorted
  <2>2. Sorted(main', Ahead')
    <3> Before({new}, ToSet(main), Ahead')
      BY <1>5 DEF Before, Line
    <3> QED
      BY <1>1, <1>2, <2>1, SortedPushHead
  <2>3. /\ Before(ToSet(main), Held \union ToSet(processing), Ahead')
        /\ Before(Held, ToSet(processing), Ahead')
    BY <1>5 DEF LineInv, LineSorted, Before, Line
  <2>4. Before({new}, Held \union ToSet(processing), Ahead')
    BY <1>5 DEF Before, Line
  <2>5. Before(ToSet(main'), Held \union ToSet(processing), Ahead')
    BY <1>3, <2>3, <2>4 DEF Before
  <2> QED
    BY <1>2, <2>1, <2>2, <2>3, <2>5 DEF LineSorted, Held
<1>8. HandsTell' /\ OrphansOwed'
  BY <1>2 DEF LineInv, HandsTell, OrphansOwed, Held
<1>9. OrphansAccounted'
  <2> crashes \in Nat
    BY DEF TypeOK
  <2> QED
    BY <1>1, <1>2, <1>4 DEF LineInv, OrphansAccounted, UnackedInProcessing,
                            AttemptsCountCrashes
<1> QED
  BY <1>6, <1>7, <1>8, <1>9 DEF LineInv

\* An entry that is no job is pushed: no other in the line is equal to it.
LEMMA JunkInLine ==
  ASSUME DeliveryTypeOK, LineInv, NEW j \in Junk, SendJunk(j)
  PROVE  LineInv'
<1> USE DEF DeliveryTypeOK
<1>1. j \in Retriable /\ j \notin Line
  BY DEF SendJunk, Retriable, Stored, Line
<1>2. /\ main' = <<j>> \o main
      /\ processing' = processing /\ dead' = dead /\ phase' = phase
      /\ hold' = hold /\ cargo' = cargo /\ crashes' = crashes /\ sent' = sent
      /\ main \in Seq(Retriable) /\ processing \in Seq(Retriable)
  BY DEF SendJunk, Enqueue, workers, TypeOK
<1>3. ToSet(main') = {j} \union ToSet(main) /\ Ahead' = Ahead
  BY <1>1, <1>2, PushHead, OrderKept
<1>4. Line' = {j} \union Line /\ Stored' = {j} \union Stored /\ InFlight' = InFlight
  BY <1>2, <1>3 DEF Line, Stored, Held, InFlight
<1>5. Before({j}, Line, Ahead)
  BY <1>1, LineTyped, NoJobIsNone DEF Before, Ahead, Newer
<1>6. SentOnce'
  BY <1>2, <1>4 DEF LineInv, SentOnce, RunsIn
<1>7. LineSorted'
  <2>1. Sorted(main', Ahead)
    <3> Before({j}, ToSet(main), Ahead)
      BY <1>5 DEF Before, Line
    <3> QED
      BY <1>1, <1>2, SortedPushHead DEF LineInv, LineSorted
  <2>2. Before({j}, Held \union ToSet(processing), Ahead)
    BY <1>5 DEF Before, Line
  <2>3. Before(ToSet(main'), Held \union ToSet(processing), Ahead)
    BY <1>3, <2>2 DEF Before, LineInv, LineSorted
  <2> QED
    BY <1>2, <1>3, <2>1, <2>3 DEF LineInv, LineSorted, Held
<1>8. HandsTell' /\ OrphansOwed'
  BY <1>2 DEF LineInv, HandsTell, OrphansOwed, Held
<1>9. OrphansAccounted'
  BY <1>2, <1>4 DEF LineInv, OrphansAccounted, UnackedInProcessing, AttemptsCountCrashes
<1> QED
  BY <1>6, <1>7, <1>8, <1>9 DEF LineInv

\* A phase that changes without a list, a hand or a slot.
LEMMA PhaseInLine ==
  ASSUME DeliveryTypeOK, LineInv, NEW w, Workers = {w}, UNCHANGED <<sent, acked>>,
         Start(w) \/ ReclaimDone(w) \/ Serve(w)
  PROVE  LineInv'
<1> USE DEF DeliveryTypeOK
<1>1. /\ main' = main /\ processing' = processing /\ dead' = dead
      /\ hold' = hold /\ cargo' = cargo /\ crashes' = crashes
      /\ Held' = Held /\ Line' = Line /\ Stored' = Stored /\ InFlight' = InFlight
  BY DEF Start, ReclaimDone, Serve, lists, Held, Line, Stored, InFlight
<1>2. Ahead' = Ahead
  BY OrderKept
<1>3. LineSorted' /\ SentOnce' /\ OrphansAccounted'
  BY <1>1, <1>2 DEF LineInv, LineSorted, SentOnce, OrphansAccounted,
                    UnackedInProcessing, AttemptsCountCrashes
<1>4. phase[w] # "serving" /\ (phase[w] = "reclaiming" => phase'[w] = "reclaiming" \/ hold[w] = NoJob)
  BY DEF Start, ReclaimDone, Serve
<1>5. HandsTell'
  <2>1. \A f \in Flights : cargo[f] = NoJob
    BY <1>4, OneWorker DEF LineInv, HandsTell
  <2> QED
    BY <1>1, <1>4, <2>1 DEF LineInv, HandsTell
<1>6. OrphansOwed'
  <2>1. CASE Start(w)
    BY <1>1, <2>1 DEF Start, LineInv, OrphansOwed, TypeOK
  <2>2. CASE ~Start(w)
    <3> phase'[w] \notin {"down", "reclaiming"}
      BY <2>2 DEF ReclaimDone, Serve, TypeOK
    <3> QED
      BY DEF OrphansOwed
  <2> QED
    BY <2>1, <2>2
<1> QED
  BY <1>3, <1>5, <1>6 DEF LineInv

\* reclaim's LPOP: the head of processing is the next in line.
LEMMA PopInLine ==
  ASSUME DeliveryTypeOK, LineInv, NEW w, Workers = {w}, UNCHANGED <<sent, acked>>,
         ReclaimPop(w)
  PROVE  LineInv'
<1> DEFINE raw == Head(processing)
<1> USE DEF DeliveryTypeOK
<1>1. /\ main' = main /\ processing' = Tail(processing) /\ dead' = dead
      /\ phase' = phase /\ cargo' = cargo /\ crashes' = crashes /\ sent' = sent
      /\ hold' = [hold EXCEPT ![w] = raw]
      /\ phase[w] = "reclaiming" /\ hold[w] = NoJob
      /\ processing \in Seq(Retriable) /\ processing # <<>> /\ w \in Workers
  BY DEF ReclaimPop, TypeOK
<1>2. /\ raw \in Retriable /\ raw # NoJob
      /\ Tail(processing) \in Seq(Retriable)
      /\ ToSet(processing) = {raw} \union ToSet(Tail(processing))
  BY <1>1, PopHead, NoJobIsNone
<1>3. Held = {} /\ Held' = {raw}
  BY <1>1, <1>2 DEF Held, TypeOK
<1>4. Line' = Line /\ Stored' = Stored /\ InFlight' = InFlight /\ Ahead' = Ahead
  BY <1>1, <1>2, <1>3, OrderKept DEF Line, Stored, InFlight
<1>5. SentOnce'
  BY <1>1, <1>4 DEF LineInv, SentOnce, RunsIn
<1>6. LineSorted'
  <2>1. Sorted(Tail(processing), Ahead) /\ Before({raw}, ToSet(Tail(processing)), Ahead)
    BY <1>1, SortedPopHead DEF LineInv, LineSorted
  <2>2. Before(ToSet(main), {raw} \union ToSet(Tail(processing)), Ahead)
    BY <1>2, <1>3 DEF LineInv, LineSorted
  <2> QED
    BY <1>1, <1>3, <1>4, <2>1, <2>2 DEF LineInv, LineSorted
<1>7. \A f \in Flights : cargo[f] = NoJob
  BY <1>1, OneWorker DEF LineInv, HandsTell
<1>8. HandsTell'
  BY <1>1, <1>7 DEF LineInv, HandsTell
<1>9. OrphansOwed'
  BY <1>1, <1>2, <1>3 DEF LineInv, OrphansOwed
<1>10. OrphansAccounted'
  <2> InFlight = {}
    BY <1>7 DEF InFlight
  <2> QED
    BY <1>1, <1>4 DEF LineInv, OrphansAccounted, UnackedInProcessing, AttemptsCountCrashes
<1> QED
  BY <1>5, <1>6, <1>8, <1>9, <1>10 DEF LineInv

\* A run in the line has a place in the history.
LEMMA PlaceIsNumber ==
  ASSUME DeliveryTypeOK, SentOnce, NEW raw \in Line \ Junk
  PROVE  Position(raw.run) \in Nat
<1>1. raw.run \in ToSet(sent) /\ sent \in Seq(Runs)
  BY DEF SentOnce, RunsIn, DeliveryTypeOK
<1>2. PICK i \in 1..Len(sent) : sent[i] = raw.run
  BY <1>1, InList
<1>3. Position(raw.run) = i
  BY <1>1, <1>2, PlaceOf DEF SentOnce, Position
<1> QED
  BY <1>1, <1>3

\* A job that counts one attempt more is before and behind what it was.
LEMMA BumpedInPlace ==
  ASSUME DeliveryTypeOK, SentOnce, NEW raw \in Line \ Junk, NEW b \in Line
  PROVE  /\ <<raw, b>> \in Ahead => <<Bumped(raw), b>> \in Ahead
         /\ <<b, raw>> \in Ahead => <<b, Bumped(raw)>> \in Ahead
<1>1. raw \in Retriable /\ b \in Raw
  BY LineTyped, NoJobIsNone DEF DeliveryTypeOK
<1>2. Bumped(raw) \in Raw /\ Bumped(raw) \notin Junk /\ Bumped(raw).run = raw.run
  BY <1>1, BumpedTyped
<1>3. Position(raw.run) \in Nat
  BY PlaceIsNumber
<1>4. b \notin Junk => Position(b.run) \in Nat
  BY PlaceIsNumber
<1>5. CASE b \in Junk
  BY <1>1, <1>2, <1>5 DEF Ahead, Newer
<1>6. CASE b \notin Junk
  <2>1. Newer(raw, b) => Position(raw.run) > Position(b.run) /\ Position(raw.run) # Position(b.run)
    BY <1>3, <1>4, <1>6 DEF Newer
  <2>2. Newer(b, raw) => Position(b.run) > Position(raw.run) /\ Position(raw.run) # Position(b.run)
    BY <1>3, <1>4, <1>6 DEF Newer
  <2>3. Position(raw.run) # Position(b.run) => Bumped(raw) # b
    BY <1>2
  <2>4. /\ Newer(raw, b) => Newer(Bumped(raw), b)
        /\ Newer(b, raw) => Newer(b, Bumped(raw))
    BY <1>2, <2>1, <2>2, <2>3 DEF Newer
  <2> QED
    BY <1>1, <1>2, <2>4 DEF Ahead
<1> QED
  BY <1>5, <1>6

\* reclaim's push: the bumped job keeps its place, behind all in main, or leaves the line.
LEMMA PushInLine ==
  ASSUME DeliveryTypeOK, LineInv, NEW w, Workers = {w}, UNCHANGED <<sent, acked>>,
         ReclaimPush(w)
  PROVE  LineInv'
<1> DEFINE raw == hold[w]
           new == Bumped(raw)
<1> USE DEF DeliveryTypeOK
<1>1. /\ processing' = processing
      /\ phase' = phase /\ cargo' = cargo /\ crashes' = crashes /\ sent' = sent
      /\ hold' = [hold EXCEPT ![w] = NoJob]
      /\ phase[w] = "reclaiming" /\ raw # NoJob /\ raw \in Retriable
      /\ main \in Seq(Retriable) /\ processing \in Seq(Retriable) /\ dead \in Seq(Raw)
      /\ w \in Workers /\ crashes \in Nat
  BY DEF ReclaimPush, TypeOK
<1>2. Held = {raw} /\ Held' = {}
  BY <1>1 DEF Held, TypeOK
<1>3. /\ new \in Raw
      /\ ~IsPoison(raw) => new \in Retriable /\ new \notin Junk /\ raw \notin Junk
      /\ raw \notin Junk => new.run = raw.run /\ new \notin Junk
      /\ raw \in Junk => new \in Junk
  BY <1>1, BumpedTyped DEF Bumped, IsPoison
<1>4. raw \notin Junk => new.attempts <= crashes
  <2> SUFFICES ASSUME raw \notin Junk PROVE new.attempts <= crashes
    OBVIOUS
  <2>1. raw \in [run: Runs, attempts: 0..MaxAttempts]
    BY <1>1 DEF Retriable
  <2>2. new.attempts = raw.attempts + 1 /\ raw.attempts \in Nat
    BY <2>1, QueueAssumption DEF Bumped
  <2>3. raw.attempts < crashes
    BY <1>1, <1>2 DEF LineInv, OrphansOwed
  <2> QED
    BY <1>1, <2>2, <2>3
<1>5. /\ ToSet(main') \subseteq ToSet(main) \union {new}
      /\ ToSet(dead') \subseteq ToSet(dead) \union {new}
      /\ main' = main \/ (~IsPoison(raw) /\ main' = Append(main, new)
                                        /\ ToSet(main') = ToSet(main) \union {new})
  <2>1. CASE IsPoison(raw)
    <3> /\ main' = main /\ dead' = Append(dead, new)
        /\ ToSet(Append(dead, new)) = ToSet(dead) \union {new}
      BY <1>1, <1>3, <2>1, PushTail DEF ReclaimPush
    <3> QED
      OBVIOUS
  <2>2. CASE ~IsPoison(raw)
    <3> /\ main' = Append(main, new) /\ dead' = dead
        /\ ToSet(Append(main, new)) = ToSet(main) \union {new}
      BY <1>1, <1>3, <2>2, PushTail DEF ReclaimPush
    <3> QED
      BY <2>2
  <2> QED
    BY <2>1, <2>2
<1>6. Ahead' = Ahead
  BY <1>1, OrderKept
<1>7. SentOnce'
  <2>1. RunsIn(Line') \subseteq RunsIn(Line)
    BY <1>1, <1>2, <1>3, <1>5 DEF RunsIn, Line
  <2> QED
    BY <1>1, <2>1 DEF LineInv, SentOnce
<1>8. LineSorted'
  <2>1. CASE main' = main
    BY <1>1, <1>2, <1>6, <2>1 DEF LineInv, LineSorted, Before
  <2>2. CASE ~IsPoison(raw) /\ main' = Append(main, new)
                            /\ ToSet(main') = ToSet(main) \union {new}
    <3>1. raw \in Line \ Junk
      BY <1>2, <1>3, <2>2 DEF Line
    <3>2. \A b \in Line : /\ <<raw, b>> \in Ahead => <<new, b>> \in Ahead
                          /\ <<b, raw>> \in Ahead => <<b, new>> \in Ahead
      <4> DeliveryTypeOK /\ SentOnce
        BY DEF LineInv
      <4> QED
        BY <3>1, BumpedInPlace
    <3>3. /\ \A b \in ToSet(main) : b \in Line /\ <<b, raw>> \in Ahead
          /\ \A b \in ToSet(processing) : b \in Line /\ <<raw, b>> \in Ahead
      BY <1>2 DEF LineInv, LineSorted, Before, Line
    <3> HIDE DEF raw, new
    <3>4. Before(ToSet(main), {new}, Ahead) /\ Before({new}, ToSet(processing), Ahead)
      <4>1. ASSUME NEW b \in ToSet(main) PROVE <<b, new>> \in Ahead
        BY <3>2, <3>3
      <4>2. ASSUME NEW b \in ToSet(processing) PROVE <<new, b>> \in Ahead
        BY <3>2, <3>3
      <4> QED
        BY <4>1, <4>2 DEF Before
    <3> USE DEF raw, new
    <3>5. Sorted(Append(main, new), Ahead)
      BY <1>1, <1>3, <2>2, <3>4, SortedPushTail DEF LineInv, LineSorted
    <3>6. Before(ToSet(main'), ToSet(processing), Ahead)
      BY <2>2, <3>4 DEF LineInv, LineSorted, Before
    <3> QED
      BY <1>1, <1>2, <1>6, <2>2, <3>5, <3>6 DEF LineInv, LineSorted, Before
  <2> QED
    BY <1>5, <2>1, <2>2
<1>9. \A f \in Flights : cargo[f] = NoJob
  BY <1>1, OneWorker DEF LineInv, HandsTell
<1>10. HandsTell'
  BY <1>1, <1>9 DEF LineInv, HandsTell, TypeOK
<1>11. OrphansOwed'
  BY <1>1, <1>2 DEF LineInv, OrphansOwed
<1>12. OrphansAccounted'
  <2>1. InFlight' = {}
    BY <1>1, <1>9 DEF InFlight
  <2>2. Stored' \subseteq Stored \union {new}
    BY <1>1, <1>2, <1>5 DEF Stored
  <2> QED
    BY <1>1, <1>3, <1>4, <2>1, <2>2 DEF LineInv, OrphansAccounted, UnackedInProcessing,
                                         AttemptsCountCrashes
<1> QED
  BY <1>7, <1>8, <1>10, <1>11, <1>12 DEF LineInv

\* consume_forever's BLMOVE: the last of main becomes the first of processing.
LEMMA FetchInLine ==
  ASSUME DeliveryTypeOK, LineInv, NEW w, Workers = {w}, UNCHANGED <<sent, acked>>,
         NEW s \in Slots, Fetch(w, s)
  PROVE  LineInv'
<1> DEFINE raw == Last(main)
<1> USE DEF DeliveryTypeOK
<1>1. /\ main' = Front(main) /\ processing' = <<raw>> \o processing /\ dead' = dead
      /\ phase' = phase /\ hold' = hold /\ crashes' = crashes /\ sent' = sent
      /\ cargo' = [cargo EXCEPT ![<<w, s>>] = raw]
      /\ phase[w] = "serving" /\ cargo[<<w, s>>] = NoJob
      /\ main \in Seq(Retriable) /\ processing \in Seq(Retriable) /\ main # <<>>
      /\ w \in Workers /\ <<w, s>> \in Flights
  BY DEF Fetch, TypeOK, Flights
<1>2. /\ raw \in Retriable /\ raw # NoJob
      /\ ToSet(main) = ToSet(Front(main)) \union {raw}
      /\ ToSet(processing') = {raw} \union ToSet(processing)
  <2>1. raw \in Retriable /\ ToSet(main) = ToSet(Front(main)) \union {raw}
    BY <1>1, PopTail
  <2> QED
    BY <1>1, <2>1, PushHead, NoJobIsNone
<1>3. Held = {} /\ Held' = {}
  <2> hold[w] = NoJob
    BY <1>1 DEF LineInv, HandsTell
  <2> QED
    BY <1>1, OneWorker DEF Held
<1>4. Line' = Line /\ Stored' = Stored /\ Ahead' = Ahead
  BY <1>1, <1>2, <1>3, OrderKept DEF Line, Stored
<1>5. SentOnce'
  BY <1>1, <1>4 DEF LineInv, SentOnce, RunsIn
<1>6. Before({raw}, ToSet(processing), Ahead)
  BY <1>2 DEF LineInv, LineSorted, Before
<1>7. LineSorted'
  <2>1. Sorted(Front(main), Ahead) /\ Before(ToSet(Front(main)), {raw}, Ahead)
    BY <1>1, SortedPopTail DEF LineInv, LineSorted
  <2>2. Sorted(<<raw>> \o processing, Ahead)
    BY <1>1, <1>2, <1>6, SortedPushHead DEF LineInv, LineSorted
  <2>3. Before(ToSet(Front(main)), {raw} \union ToSet(processing), Ahead)
    BY <1>2, <2>1 DEF LineInv, LineSorted, Before
  <2> QED
    BY <1>1, <1>2, <1>3, <1>4, <2>1, <2>2, <2>3 DEF LineSorted, Before
<1>8. raw \notin ToSet(processing)
  <2> <<raw, raw>> \notin Ahead
    BY DEF Ahead, Newer
  <2> QED
    BY <1>6 DEF Before
<1>9. \A f \in Flights : cargo[f] # NoJob => cargo[f] \in ToSet(processing)
  BY DEF LineInv, OrphansAccounted, UnackedInProcessing, InFlight
<1>10. /\ cargo'[<<w, s>>] = raw
       /\ \A f \in Flights \ {<<w, s>>} : cargo'[f] = cargo[f]
  BY <1>1 DEF TypeOK
<1>11. HandsTell'
  <2>1. \A f \in Flights : cargo'[f] # NoJob => phase'[f[1]] = "serving"
    BY <1>1, OneWorker
  <2>2. ASSUME NEW f \in Flights, NEW g \in Flights,
               cargo'[f] # NoJob, cargo'[f] = cargo'[g]
        PROVE  f = g
    BY <1>8, <1>9, <1>10, <2>2 DEF LineInv, HandsTell
  <2> QED
    BY <1>1, <2>1, <2>2 DEF LineInv, HandsTell
<1>12. OrphansOwed'
  BY <1>1 DEF OrphansOwed
<1>13. OrphansAccounted'
  <2>1. InFlight' \subseteq InFlight \union {raw}
    BY <1>10 DEF InFlight
  <2>2. UnackedInProcessing'
    BY <1>2, <2>1 DEF LineInv, OrphansAccounted, UnackedInProcessing
  <2>3. raw \in Stored
    BY <1>2 DEF Stored
  <2> QED
    BY <1>1, <1>4, <2>1, <2>2, <2>3 DEF LineInv, OrphansAccounted, AttemptsCountCrashes
<1> QED
  BY <1>5, <1>7, <1>11, <1>12, <1>13 DEF LineInv

\* _process: LREM and release; no other slot dispatches an equal entry.
LEMMA FinishInLine ==
  ASSUME DeliveryTypeOK, LineInv, NEW w, Workers = {w}, NEW s \in Slots, Finish(w, s)
  PROVE  LineInv'
<1> DEFINE raw == cargo[<<w, s>>]
<1> USE DEF DeliveryTypeOK
<1>1. /\ main' = main /\ dead' = dead /\ phase' = phase /\ hold' = hold
      /\ crashes' = crashes /\ sent' = sent
      /\ cargo' = [cargo EXCEPT ![<<w, s>>] = NoJob]
      /\ raw # NoJob /\ <<w, s>> \in Flights
      /\ processing \in Seq(Retriable)
  BY DEF Finish, Ack, TypeOK, Flights
<1>2. /\ Sorted(processing', Ahead)
      /\ ToSet(processing') \subseteq ToSet(processing)
      /\ ToSet(processing) \subseteq ToSet(processing') \union {raw}
  <2> Lrem(raw)
    BY DEF Finish, Ack
  <2> QED
    BY <1>1, SortedLrem, LremEffect DEF LineInv, LineSorted
<1>3. Held' = Held /\ Line' \subseteq Line /\ Stored' \subseteq Stored /\ Ahead' = Ahead
  BY <1>1, <1>2, OrderKept DEF Line, Stored, Held
<1>4. SentOnce'
  <2> RunsIn(Line') \subseteq RunsIn(Line)
    BY <1>3 DEF RunsIn
  <2> QED
    BY <1>1 DEF LineInv, SentOnce
<1>5. LineSorted'
  BY <1>1, <1>2, <1>3 DEF LineInv, LineSorted, Before
<1>6. /\ cargo'[<<w, s>>] = NoJob
      /\ \A f \in Flights \ {<<w, s>>} : cargo'[f] = cargo[f]
  BY <1>1 DEF TypeOK
<1>7. HandsTell'
  <2>1. \A f \in Flights : cargo'[f] # NoJob => cargo'[f] = cargo[f]
    BY <1>6
  <2> QED
    BY <1>1, <1>6, <2>1 DEF LineInv, HandsTell
<1>8. OrphansOwed'
  BY <1>1, <1>2, <1>3 DEF LineInv, OrphansOwed
<1>9. OrphansAccounted'
  <2>1. InFlight' \subseteq InFlight
    BY <1>6 DEF InFlight
  <2>2. raw \notin InFlight'
    <3> SUFFICES ASSUME NEW f \in Flights, cargo'[f] = raw PROVE FALSE
      BY DEF InFlight
    <3>1. f # <<w, s>> /\ cargo[f] = raw
      BY <1>1, <1>6
    <3> QED
      BY <1>1, <3>1 DEF LineInv, HandsTell
  <2>3. UnackedInProcessing'
    BY <1>2, <2>1, <2>2 DEF LineInv, OrphansAccounted, UnackedInProcessing
  <2> QED
    BY <1>1, <1>3, <2>1, <2>3 DEF LineInv, OrphansAccounted, AttemptsCountCrashes
<1> QED
  BY <1>4, <1>5, <1>7, <1>8, <1>9 DEF LineInv

\* The worker dies: what it held leaves the line, and one more death is counted.
LEMMA DieInLine ==
  ASSUME DeliveryTypeOK, LineInv, NEW w, Workers = {w}, Die(w)
  PROVE  LineInv'
<1> USE DEF DeliveryTypeOK
<1>1. /\ main' = main /\ processing' = processing /\ dead' = dead /\ sent' = sent
      /\ crashes \in Nat /\ crashes' = crashes + 1
      /\ hold' = [hold EXCEPT ![w] = NoJob]
      /\ w \in Workers
      /\ \A f \in Flights : cargo'[f] = NoJob
  BY OneWorker DEF Die, Crash, lists, TypeOK
<1>2. Held' = {} /\ InFlight' = {}
  BY <1>1 DEF Held, InFlight, TypeOK
<1>3. Line' \subseteq Line /\ Stored' \subseteq Stored /\ Ahead' = Ahead
  BY <1>1, <1>2, OrderKept DEF Line, Stored
<1>4. SentOnce'
  <2> RunsIn(Line') \subseteq RunsIn(Line)
    BY <1>3 DEF RunsIn
  <2> QED
    BY <1>1 DEF LineInv, SentOnce
<1>5. LineSorted'
  BY <1>1, <1>2, <1>3 DEF LineInv, LineSorted, Before
<1>6. HandsTell'
  BY <1>1 DEF HandsTell, TypeOK
<1>7. \A raw \in Stored \ Junk : raw.attempts \in Nat /\ raw.attempts <= crashes
  <2>1. Stored \subseteq Raw
    <3> \A q \in Seq(Raw) : ToSet(q) \subseteq Raw
      BY InList
    <3> QED
      BY LineTyped, NoJobIsNone DEF Stored, Line, TypeOK
  <2>2. \A raw \in Stored \ Junk : raw.attempts \in Nat
    BY <2>1, QueueAssumption DEF Raw, Job
  <2> QED
    BY <2>2 DEF LineInv, OrphansAccounted, AttemptsCountCrashes
<1>8. OrphansOwed'
  BY <1>1, <1>2, <1>7 DEF OrphansOwed, Stored
<1>9. OrphansAccounted'
  BY <1>1, <1>2, <1>3, <1>7 DEF OrphansAccounted, UnackedInProcessing, AttemptsCountCrashes
<1> QED
  BY <1>4, <1>5, <1>6, <1>8, <1>9 DEF LineInv

\* With one worker, however often it dies, the three lists stay one line.
LEMMA LineKept ==
  ASSUME \E w : Workers = {w}
  PROVE  DeliverySpec => []LineInv
<1> PICK w : Workers = {w}
  OBVIOUS
<1>1. DeliveryInit => LineInv
  <2> SUFFICES ASSUME DeliveryInit PROVE LineInv
    OBVIOUS
  <2>1. /\ main = <<>> /\ processing = <<>> /\ dead = <<>> /\ sent = <<>>
        /\ Held = {} /\ InFlight = {} /\ Len(sent) = 0
        /\ \A f \in Flights : cargo[f] = NoJob
        /\ \A v \in Workers : hold[v] = NoJob
    BY DEF DeliveryInit, Init, Held, InFlight
  <2>2. ToSet(main) = {} /\ ToSet(processing) = {} /\ ToSet(dead) = {}
    BY <2>1 DEF ToSet
  <2>3. Line = {} /\ Stored = {}
    BY <2>1, <2>2 DEF Line, Stored
  <2>4. LineSorted /\ SentOnce
    BY <2>1, <2>2, <2>3 DEF LineSorted, SentOnce, RunsIn, Sorted, Before
  <2>5. HandsTell /\ OrphansOwed /\ OrphansAccounted
    BY <2>1, <2>2, <2>3 DEF HandsTell, OrphansOwed, OrphansAccounted,
                            UnackedInProcessing, AttemptsCountCrashes
  <2> QED
    BY <2>4, <2>5 DEF LineInv
<1>2. DeliveryTypeOK /\ LineInv /\ [DeliveryNext]_deliveryVars => LineInv'
  <2> SUFFICES ASSUME DeliveryTypeOK, LineInv, [DeliveryNext]_deliveryVars PROVE LineInv'
    OBVIOUS
  <2>1. ASSUME NEW r \in Runs, Send(r) PROVE LineInv'
    BY <2>1, SendInLine
  <2>2. ASSUME NEW j \in Junk, SendJunk(j) PROVE LineInv'
    BY <2>2, JunkInLine
  <2>3. CASE WorkerStep(w)
    BY <2>3, PhaseInLine, PopInLine, PushInLine, FetchInLine DEF WorkerStep, Recover
  <2>4. ASSUME NEW s \in Slots, Finish(w, s) PROVE LineInv'
    BY <2>4, FinishInLine
  <2>5. CASE Die(w)
    BY <2>5, DieInLine
  <2>6. CASE UNCHANGED deliveryVars
    BY <2>6, OrderKept
       DEF deliveryVars, LineInv, LineSorted, SentOnce, HandsTell, OrphansOwed, Line, Held,
           OrphansAccounted, UnackedInProcessing, AttemptsCountCrashes, Stored, InFlight
  <2> QED
    BY <2>1, <2>2, <2>3, <2>4, <2>5, <2>6 DEF DeliveryNext
<1> QED
  BY <1>1, <1>2, DeliveryTypeCorrect, PTL DEF DeliverySpec

\* What one worker's death leaves is all in processing, and no entry counts more
\* attempts than there were deaths (consume_forever, _process, reclaim).
THEOREM DeathsAreAccounted ==
  ASSUME \E w : Workers = {w}
  PROVE  DeliverySpec => []OrphansAccounted
<1>1. LineInv => OrphansAccounted
  BY DEF LineInv
<1> QED
  BY <1>1, LineKept, PTL

\* "src=RIGHT keeps FIFO": one worker takes the jobs in the order they were sent,
\* those it left to reclaim before all that wait (enqueue, BLMOVE, reclaim's RPUSH).
THEOREM JobsKeepTheirOrder ==
  ASSUME \E w : Workers = {w}
  PROVE  DeliverySpec => []Fifo
<1>1. LineInv => Fifo
  BY DEF LineInv, LineSorted, Sorted, Ahead, Newer, Fifo
<1> QED
  BY <1>1, LineKept, PTL
=============================================================================
