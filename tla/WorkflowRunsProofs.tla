------------------------- MODULE WorkflowRunsProofs -------------------------
(***************************************************************************)
(* Theorems about workflow runs, for any workflow (its steps, gates,       *)
(* branches, attempts and budget) and any number of replicas, requests,    *)
(* runs and restarts: the state is well-typed, what is stored of a run is  *)
(* audited, a run that has ended stays as it ended, and a stored key stays *)
(* stored, to be lost before that only to a failing store or to a decision *)
(* stored first.  If no gate lies on a cycle of the workflow, a gate is    *)
(* begun at most as often as it was approved, and a run with one object    *)
(* executes a gate once.                                                   *)
(*                                                                         *)
(* Three invariants are behind them.  DriveInv: an object that is being    *)
(* driven is running, by one request only, and was approved at the gate it *)
(* is in.  RunKeyInv: a row is of a run that has an object; only the       *)
(* request that began a run may still owe its row the key, its object is   *)
(* the only one until there is a row, and a row without its key was        *)
(* inserted by a decision on that object.  GateInv: gates are approved in  *)
(* the workflow's order, and what the sole object of a run records agrees  *)
(* with the run's history.                                                 *)
(***************************************************************************)
EXTENDS WorkflowRuns, FiniteSetTheorems, SequenceTheorems, TLAPS

\* An audited object (what RecordIsAudited says of a stored one), and that only a run
\* that has ended rejected carries a rejection.
Sound(x) ==
  /\ x \in Object
  /\ x.attempted \intersect Gates \subseteq x.approved \ x.rejected
  /\ x.status = "awaiting_approval" <=> x.pending # Nothing
  /\ x.pending \notin x.approved \union x.rejected
  /\ x.rejected # {} => x.status = "rejected"

DriveInv ==
  /\ \A o \in Requests : heap[o] # Nothing => Sound(heap[o])
  /\ \A r \in Runs : row[r] # Nothing => Sound(row[r].object)
  /\ \A c \in Requests :
       /\ req[c].at \in {"idle", "loading"} => heap[c] = Nothing
       /\ req[c].at = "loaded" => req[c].object = c /\ heap[c] # Nothing
       /\ req[c].at = "storing" => Sound(req[c].stored)
       /\ req[c].at = "stepping" =>
            /\ req[c].object \in Requests
            /\ heap[req[c].object] # Nothing
            /\ heap[req[c].object].status = "running"
            /\ req[c].step \in Steps
            /\ req[c].step \in Gates => req[c].step \in heap[req[c].object].approved
  /\ \A c, d \in Requests :
       /\ req[c].at = "stepping" /\ req[d].at = "stepping"
       /\ req[c].object = req[d].object
       => c = d

\* A request past its arrival is at a replica, and is about a run.
Placed ==
  \A c \in Requests :
    req[c].at \in {"loading", "loaded", "stepping", "storing"} =>
      req[c].replica \in Replicas /\ req[c].run \in Runs

WorkflowIInv == WorkflowTypeOK /\ DriveInv /\ Placed

\* The step that EndedStands is about.
EndedStep ==
  \A o \in Requests :
    heap[o] # Nothing /\ heap[o].status \in Terminal => heap'[o] = heap[o]

-----------------------------------------------------------------------------
(* Objects                                                                   *)

\* A new run is sound.
LEMMA NewRunSound ==
  ASSUME NEW r \in Runs
  PROVE  Sound(NewRun(r)) /\ NewRun(r).status = "running" /\ NewRun(r).run = r
  BY WorkflowAssumption DEF NewRun, Sound, Object

\* The head of the drive's loop (_drive): a sound, running object stays sound, and a step
\* is begun only if it is no gate or an approved one.
LEMMA AtStepSound ==
  ASSUME NEW x, Sound(x), x.status = "running", NEW s \in Steps \union {End}
  PROVE  /\ Sound(AtStep(x, s))
         /\ AtStep(x, s).run = x.run
         /\ AtStep(x, s).status = "running" =>
              s \in Steps /\ (s \in Gates => s \in AtStep(x, s).approved)
<1> DEFINE y == AtStep(x, s)
<1>0. x \in Object /\ x.pending = Nothing /\ x.rejected = {}
  BY DEF Sound
<1>1. CASE s = End
  <2>1. y = [x EXCEPT !.status = "completed"]
    BY <1>0, <1>1, WorkflowAssumption DEF AtStep, Object
  <2> QED
    BY <1>0, <2>1 DEF Sound, Object, Terminal
<1>2. CASE s # End /\ x.executed >= MaxSteps
  <2>1. y = [x EXCEPT !.status = "failed"]
    BY <1>2, <1>0, WorkflowAssumption DEF AtStep, Object
  <2> QED
    BY <1>0, <2>1 DEF Sound, Object, Terminal
<1>3. CASE s # End /\ ~(x.executed >= MaxSteps) /\ s \in Gates \ x.approved
  <2>1. y = [x EXCEPT !.status = "awaiting_approval", !.pending = s]
    BY <1>3, <1>0, WorkflowAssumption DEF AtStep, Object
  <2>2. y \in Object /\ y.run = x.run /\ y.status = "awaiting_approval" /\ y.pending = s
    BY <1>0, <1>3, <2>1 DEF Object
  <2>3. y.attempted = x.attempted /\ y.approved = x.approved /\ y.rejected = x.rejected
    BY <1>0, <2>1 DEF Object
  <2>4. s # Nothing /\ s \notin x.approved /\ s \notin x.rejected
    BY <1>0, <1>3, WorkflowAssumption
  <2>5. x.attempted \intersect Gates \subseteq x.approved \ x.rejected
    BY DEF Sound
  <2>6. Sound(y)
    BY <1>0, <2>2, <2>3, <2>4, <2>5 DEF Sound
  <2> QED
    BY <2>2, <2>6
<1>4. CASE s # End /\ ~(x.executed >= MaxSteps) /\ s \notin Gates \ x.approved
  <2>1. y = [x EXCEPT !.executed = @ + 1]
    BY <1>4, <1>0, WorkflowAssumption DEF AtStep, Object
  <2>2. x.executed + 1 \in 0..MaxSteps
    BY <1>0, <1>4, WorkflowAssumption DEF Object
  <2>3. y \in Object
    BY <1>0, <2>1, <2>2 DEF Object
  <2> QED
    BY <1>0, <1>4, <2>1, <2>3 DEF Sound
<1> QED
  BY <1>1, <1>2, <1>3, <1>4

-----------------------------------------------------------------------------
(* Caches                                                                    *)

\* Putting an object into a cache and dropping the oldest keeps it a list of names.
LEMMA CacheTyped ==
  ASSUME NEW q \in Seq(Requests), NEW o \in Requests, NEW r \in Runs
  PROVE  Put(q, o, r) \in Seq(Requests) /\ Evicted(Put(q, o, r)) \in Seq(Requests)
<1>1. Put(q, o, r) \in Seq(Requests)
  <2>1. CASE \E i \in DOMAIN q : heap[q[i]].run = r
    <3>1. Put(q, o, r) = [i \in 1..Len(q) |-> IF heap[q[i]].run = r THEN o ELSE q[i]]
      BY <2>1 DEF Put
    <3>2. \A i \in 1..Len(q) : q[i] \in Requests
      OBVIOUS
    <3> QED
      BY <3>1, <3>2
  <2>2. CASE ~(\E i \in DOMAIN q : heap[q[i]].run = r)
    BY <2>2 DEF Put
  <2> QED
    BY <2>1, <2>2
<1>2. \A z \in Seq(Requests) : Evicted(z) \in Seq(Requests)
  <2> SUFFICES ASSUME NEW z \in Seq(Requests), Len(z) > CacheSize
               PROVE  SubSeq(z, Len(z) - CacheSize + 1, Len(z)) \in Seq(Requests)
    BY DEF Evicted
  <2>1. CacheSize \in Nat \ {0} /\ Len(z) \in Nat
    BY WorkflowAssumption
  <2>2. \A i \in (Len(z) - CacheSize + 1)..Len(z) : z[i] \in Requests
    BY <2>1
  <2> QED
    BY <2>1, <2>2, SubSeqProperties
<1> QED
  BY <1>1, <1>2

-----------------------------------------------------------------------------
(* Steps of a request                                                        *)

\* A request c, in its new state h, writes a sound object y to o: an object of its own
\* making, or one that nobody else drives and that has not ended.
Moved(c, o, y, h) ==
  /\ Sound(y) /\ h \in Handler
  /\ heap' = [heap EXCEPT ![o] = y] /\ req' = [req EXCEPT ![c] = h]
  /\ \A r \in Runs : row'[r] # Nothing => Sound(row'[r].object)
  /\ \/ o = c /\ heap[c] = Nothing
     \/ heap[o] # Nothing /\ heap[o].status \notin Terminal
  /\ \A d \in Requests \ {c} : req[d].at = "stepping" => req[d].object # o
  /\ h.at \in {"loaded", "stepping", "storing", "answered"}
  /\ h.replica \in Replicas /\ h.run \in Runs
  /\ h.at = "loaded" => h.object = c /\ o = c
  /\ h.at = "storing" => Sound(h.stored)
  /\ h.at = "stepping" =>
       /\ h.object = o /\ y.status = "running" /\ h.step \in Steps
       /\ h.step \in Gates => h.step \in y.approved

\* A request c goes to a state h in which it drives nothing, and no object changes.
Waited(c, h) ==
  /\ heap' = heap /\ req' = [req EXCEPT ![c] = h]
  /\ h \in Handler /\ h.at \in {"loading", "storing", "answered"}
  /\ \A r \in Runs : row'[r] # Nothing => Sound(row'[r].object)
  /\ h.at = "loading" => req[c].at = "idle" /\ h.replica \in Replicas /\ h.run \in Runs
  /\ h.at = "storing" => /\ req[c].at = "storing" /\ h.stored = req[c].stored
                         /\ h.replica = req[c].replica /\ h.run = req[c].run

\* Either way objects and requests stay well-formed, and no object that has ended changes.
WellFormed ==
  /\ heap' \in [Requests -> Object \union {Nothing}]
  /\ req' \in [Requests -> Handler]
  /\ DriveInv' /\ Placed' /\ EndedStep

\* A step that writes an object.
LEMMA Moves ==
  ASSUME WorkflowIInv, NEW c \in Requests, NEW o \in Requests, NEW y, NEW h,
         Moved(c, o, y, h)
  PROVE  WellFormed
<1> USE DEF Moved
<1>1. heap \in [Requests -> Object \union {Nothing}] /\ req \in [Requests -> Handler]
  BY DEF WorkflowIInv, WorkflowTypeOK
<1>2. y \in Object /\ y # Nothing
  BY NothingAssumption DEF Sound
<1>3. heap' \in [Requests -> Object \union {Nothing}] /\ req' \in [Requests -> Handler]
  BY <1>1, <1>2
<1>4. heap'[o] = y /\ \A p \in Requests \ {o} : heap'[p] = heap[p]
  BY <1>1
<1>5. req'[c] = h /\ \A d \in Requests \ {c} : req'[d] = req[d]
  BY <1>1
<1>6. \A p \in Requests : heap'[p] # Nothing => Sound(heap'[p])
  BY <1>4 DEF WorkflowIInv, DriveInv
<1>7. ASSUME NEW d \in Requests
      PROVE  /\ req'[d].at \in {"idle", "loading"} => heap'[d] = Nothing
             /\ req'[d].at = "loaded" => req'[d].object = d /\ heap'[d] # Nothing
             /\ req'[d].at = "storing" => Sound(req'[d].stored)
             /\ req'[d].at = "stepping" =>
                  /\ req'[d].object \in Requests
                  /\ heap'[req'[d].object] # Nothing
                  /\ heap'[req'[d].object].status = "running"
                  /\ req'[d].step \in Steps
                  /\ req'[d].step \in Gates => req'[d].step \in heap'[req'[d].object].approved
  <2>1. CASE d = c
    BY <1>2, <1>4, <1>5, <2>1
  <2>2. CASE d # c
    <3>1. req'[d] = req[d] /\ (req[d].at = "stepping" => req[d].object # o)
      BY <1>5, <2>2
    <3>2. req[d].at \in {"idle", "loading"} => d # o /\ heap[d] = Nothing
      BY <2>2 DEF WorkflowIInv, DriveInv
    <3>3. req[d].at = "loaded" => req[d].object = d /\ heap[d] # Nothing
      BY DEF WorkflowIInv, DriveInv
    <3>4. req[d].at = "storing" => Sound(req[d].stored)
      BY DEF WorkflowIInv, DriveInv
    <3>5. req[d].at = "stepping" =>
            /\ req[d].object \in Requests
            /\ heap[req[d].object] # Nothing
            /\ heap[req[d].object].status = "running"
            /\ req[d].step \in Steps
            /\ req[d].step \in Gates => req[d].step \in heap[req[d].object].approved
      BY DEF WorkflowIInv, DriveInv
    <3> QED
      BY <1>2, <1>4, <3>1, <3>2, <3>3, <3>4, <3>5
  <2> QED
    BY <2>1, <2>2
<1>8. ASSUME NEW d \in Requests, NEW e \in Requests,
             req'[d].at = "stepping", req'[e].at = "stepping", req'[d].object = req'[e].object
      PROVE  d = e
  <2>1. CASE d # c /\ e # c
    BY <1>5, <1>8, <2>1 DEF WorkflowIInv, DriveInv
  <2>2. CASE d = c /\ e # c
    BY <1>5, <1>8, <2>2
  <2>3. CASE d # c /\ e = c
    BY <1>5, <1>8, <2>3
  <2> QED
    BY <2>1, <2>2, <2>3
<1>9. DriveInv'
  BY <1>6, <1>7, <1>8 DEF DriveInv
<1>10. Placed'
  BY <1>5 DEF WorkflowIInv, Placed
<1>11. EndedStep
  BY <1>4 DEF EndedStep
<1> QED
  BY <1>3, <1>9, <1>10, <1>11 DEF WellFormed

\* A step that writes no object.
LEMMA Waits ==
  ASSUME WorkflowIInv, NEW c \in Requests, NEW h, Waited(c, h)
  PROVE  WellFormed
<1> USE DEF Waited
<1>1. heap \in [Requests -> Object \union {Nothing}] /\ req \in [Requests -> Handler]
  BY DEF WorkflowIInv, WorkflowTypeOK
<1>2. req'[c] = h /\ \A d \in Requests \ {c} : req'[d] = req[d]
  BY <1>1
<1>3. DriveInv'
  BY <1>2 DEF WorkflowIInv, DriveInv
<1>4. Placed'
  BY <1>2 DEF WorkflowIInv, Placed
<1> QED
  BY <1>1, <1>3, <1>4 DEF WellFormed, EndedStep

\* What is counted per run and gate stays a count.
LEMMA CountedTyped ==
  ASSUME NEW f \in [Runs \X Gates -> Nat], NEW r \in Runs, NEW s
  PROVE  Counted(f, r, s) \in [Runs \X Gates -> Nat]
<1>1. CASE s \in Gates
  <2>1. <<r, s>> \in Runs \X Gates /\ f[<<r, s>>] + 1 \in Nat
    BY <1>1
  <2> QED
    BY <1>1, <2>1 DEF Counted
<1>2. CASE s \notin Gates
  BY <1>2 DEF Counted
<1> QED
  BY <1>1, <1>2

\* A drive up to its next await (_drive, _store): of an object that the request may write,
\* with a sound and running content, which enters a step it is approved for.
LEMMA Drives ==
  ASSUME WorkflowIInv, NEW c \in Requests, NEW h \in Handler, NEW x, Sound(x),
         x.status = "running", NEW s \in Steps \union {End}, NEW q \in Seq(Requests),
         Drive(c, h, x, s, q), row' = row,
         h.object \in Requests, h.replica \in Replicas, h.run \in Runs,
         \/ h.object = c /\ heap[c] = Nothing
         \/ heap[h.object] # Nothing /\ heap[h.object].status \notin Terminal,
         \A d \in Requests \ {c} : req[d].at = "stepping" => req[d].object # h.object
  PROVE  /\ WellFormed
         /\ cache' \in [Replicas -> Seq(Requests)]
         /\ started' \in [Runs \X Gates -> Nat]
<1> DEFINE y == AtStep(x, s)
<1>1. /\ Sound(y) /\ y.run = x.run
      /\ y.status = "running" => s \in Steps /\ (s \in Gates => s \in y.approved)
  BY AtStepSound
<1>2. x.run \in Runs /\ y \in Object
  BY <1>1 DEF Sound, Object
<1>3. \A r \in Runs : row'[r] # Nothing => Sound(row'[r].object)
  BY DEF WorkflowIInv, DriveInv
<1>4. cache \in [Replicas -> Seq(Requests)] /\ started \in [Runs \X Gates -> Nat]
  BY DEF WorkflowIInv, WorkflowTypeOK
<1>5. CASE y.status = "running"
  <2> DEFINE g == [h EXCEPT !.at = "stepping", !.step = s, !.attempt = 1]
  <2>1. /\ heap' = [heap EXCEPT ![h.object] = y]
        /\ cache' = [cache EXCEPT ![h.replica] = q]
        /\ req' = [req EXCEPT ![c] = g]
        /\ started' = Counted(started, y.run, s)
    BY <1>5 DEF Drive
  <2>2. /\ g \in Handler /\ g.at = "stepping" /\ g.step = s
        /\ g.object = h.object /\ g.replica = h.replica /\ g.run = h.run
    BY <1>1, <1>5 DEF Handler
  <2>3. Moved(c, h.object, y, g)
    <3> HIDE DEF y, g
    <3> QED
      BY <1>1, <1>3, <1>5, <2>1, <2>2 DEF Moved
  <2>4. started' \in [Runs \X Gates -> Nat]
    BY <1>1, <1>2, <1>4, <2>1, CountedTyped
  <2> QED
    BY <1>4, <2>1, <2>3, <2>4, Moves
<1>6. CASE y.status # "running"
  <2> DEFINE g == [h EXCEPT !.at = "storing", !.stored = y, !.step = Nothing, !.attempt = 0]
  <2>1. /\ heap' = [heap EXCEPT ![h.object] = y]
        /\ cache' = [cache EXCEPT ![h.replica] = Evicted(Put(q, h.object, y.run))]
        /\ req' = [req EXCEPT ![c] = g]
        /\ started' = started
    BY <1>6 DEF Drive, PutAway
  <2>2. /\ g \in Handler /\ g.at = "storing" /\ g.stored = y
        /\ g.object = h.object /\ g.replica = h.replica /\ g.run = h.run
    BY <1>2 DEF Handler
  <2>3. Moved(c, h.object, y, g)
    <3> HIDE DEF y, g
    <3> QED
      BY <1>1, <1>3, <1>6, <2>1, <2>2 DEF Moved
  <2>4. Evicted(Put(q, h.object, y.run)) \in Seq(Requests)
    BY <1>1, <1>2, CacheTyped
  <2> QED
    BY <1>4, <2>1, <2>3, <2>4, Moves
<1> QED
  BY <1>5, <1>6

\* A decision on an object (resume): a run that awaits approval is driven by nobody.
LEMMA Resumes ==
  ASSUME WorkflowIInv, NEW c \in Requests, NEW h \in Handler, NEW q \in Seq(Requests),
         h.object \in Requests, h.replica \in Replicas, h.run \in Runs,
         heap[h.object] # Nothing, Resume(c, h, heap[h.object], q), row' = row
  PROVE  /\ WellFormed
         /\ cache' \in [Replicas -> Seq(Requests)]
         /\ granted' \in [Runs \X Gates -> Nat] /\ started' \in [Runs \X Gates -> Nat]
         /\ refused' \subseteq Runs \X Gates
<1> DEFINE x == heap[h.object]
<1>1. Sound(x) /\ x \in Object /\ x.run \in Runs
  BY DEF WorkflowIInv, DriveInv, Sound, Object
<1>2. /\ cache \in [Replicas -> Seq(Requests)] /\ refused \subseteq Runs \X Gates
      /\ granted \in [Runs \X Gates -> Nat] /\ started \in [Runs \X Gates -> Nat]
  BY DEF WorkflowIInv, WorkflowTypeOK
<1>3. \A r \in Runs : row'[r] # Nothing => Sound(row'[r].object)
  BY DEF WorkflowIInv, DriveInv
<1>4. CASE x.status # "awaiting_approval"
  <2> DEFINE g == [h EXCEPT !.at = "answered"]
  <2>1. /\ heap' = heap /\ req' = [req EXCEPT ![c] = g]
        /\ cache' = [cache EXCEPT ![h.replica] = q]
        /\ UNCHANGED <<granted, refused, started>>
    BY <1>4 DEF Resume, Answer
  <2>2. g \in Handler /\ g.at = "answered"
    BY DEF Handler
  <2>3. Waited(c, g)
    <3> HIDE DEF g
    <3> QED
      BY <1>3, <2>1, <2>2 DEF Waited
  <2> QED
    BY <1>2, <2>1, <2>3, Waits
<1>5. ASSUME x.status = "awaiting_approval"
      PROVE  /\ x.pending \in Gates /\ x.pending \in Steps
             /\ x.pending \notin x.approved \union x.rejected /\ x.rejected = {}
             /\ x.status \notin Terminal
             /\ \A d \in Requests \ {c} :
                  req[d].at = "stepping" => req[d].object # h.object
  <2>1. \A d \in Requests : req[d].at = "stepping" => heap[req[d].object].status = "running"
    BY DEF WorkflowIInv, DriveInv
  <2> QED
    BY <1>1, <1>5, <2>1, WorkflowAssumption DEF Sound, Object, Terminal
<1>6. CASE x.status = "awaiting_approval" /\ h.decision = "rejected"
  <2> DEFINE y == [x EXCEPT !.status = "rejected", !.pending = Nothing,
                            !.rejected = @ \union {x.pending}]
             g == [h EXCEPT !.at = "storing", !.stored = y, !.step = Nothing, !.attempt = 0]
  <2>1. /\ heap' = [heap EXCEPT ![h.object] = y]
        /\ cache' = [cache EXCEPT ![h.replica] = Evicted(Put(q, h.object, y.run))]
        /\ req' = [req EXCEPT ![c] = g]
        /\ refused' = refused \union {<<x.run, x.pending>>}
        /\ UNCHANGED <<granted, started>>
    BY <1>6 DEF Resume, PutAway
  <2>2. y \in Object /\ y.run = x.run /\ y.status = "rejected" /\ y.pending = Nothing
    BY <1>1, <1>5, <1>6 DEF Object, Terminal
  <2>3. /\ y.attempted = x.attempted /\ y.approved = x.approved
        /\ y.rejected = x.rejected \union {x.pending}
    BY <1>1 DEF Object
  <2>4. x.attempted \intersect Gates \subseteq x.approved \ y.rejected
    BY <1>1, <1>5, <1>6, <2>3 DEF Sound
  <2>5. Sound(y)
    <3>1. Nothing \notin y.approved \union y.rejected
      BY <2>2, WorkflowAssumption DEF Object
    <3> HIDE DEF y
    <3> QED
      BY <2>2, <2>3, <2>4, <3>1 DEF Sound
  <2>6. /\ g \in Handler /\ g.at = "storing" /\ g.stored = y
        /\ g.object = h.object /\ g.replica = h.replica /\ g.run = h.run
    BY <2>2 DEF Handler
  <2>7. Moved(c, h.object, y, g)
    <3> HIDE DEF y, g
    <3> QED
      BY <1>3, <1>5, <1>6, <2>1, <2>5, <2>6 DEF Moved
  <2>8. Evicted(Put(q, h.object, y.run)) \in Seq(Requests)
    BY <1>1, <2>2, CacheTyped
  <2>9. refused' \subseteq Runs \X Gates
    BY <1>1, <1>2, <1>5, <1>6, <2>1
  <2> QED
    BY <1>2, <2>1, <2>7, <2>8, <2>9, Moves
<1>7. CASE x.status = "awaiting_approval" /\ h.decision = "approved"
  <2> DEFINE y == [x EXCEPT !.status = "running", !.pending = Nothing,
                            !.approved = @ \union {x.pending}]
  <2>1. /\ Drive(c, h, y, x.pending, q)
        /\ granted' = Counted(granted, x.run, x.pending)
        /\ refused' = refused
    BY <1>7 DEF Resume
  <2>2. y \in Object /\ y.status = "running" /\ y.pending = Nothing
    BY <1>1, <1>5, <1>7 DEF Object
  <2>3. /\ y.attempted = x.attempted /\ y.rejected = {}
        /\ y.approved = x.approved \union {x.pending}
    BY <1>1, <1>5, <1>7 DEF Object
  <2>4. Sound(y)
    <3>1. Nothing \notin y.approved \union y.rejected
      BY <2>2, <2>3, WorkflowAssumption DEF Object
    <3>2. y.attempted \intersect Gates \subseteq y.approved
      BY <1>1, <2>3 DEF Sound
    <3> HIDE DEF y
    <3> QED
      BY <2>2, <2>3, <3>1, <3>2 DEF Sound
  <2>5. WellFormed /\ cache' \in [Replicas -> Seq(Requests)] /\ started' \in [Runs \X Gates -> Nat]
    <3> HIDE DEF y
    <3> QED
      BY <1>5, <1>7, <2>1, <2>2, <2>4, Drives
  <2>6. granted' \in [Runs \X Gates -> Nat]
    BY <1>1, <1>2, <2>1, CountedTyped
  <2> QED
    BY <1>2, <2>1, <2>5, <2>6
<1> QED
  BY <1>4, <1>6, <1>7 DEF Resume

-----------------------------------------------------------------------------
(* The actions                                                               *)

\* What every request relies on: its state and its object are typed, and rows are sound.
LEMMA Given ==
  ASSUME WorkflowIInv, NEW c \in Requests
  PROVE  /\ req[c] \in Handler /\ Idle \in Handler
         /\ heap \in [Requests -> Object \union {Nothing}]
         /\ cache \in [Replicas -> Seq(Requests)]
         /\ granted \in [Runs \X Gates -> Nat] /\ started \in [Runs \X Gates -> Nat]
         /\ refused \subseteq Runs \X Gates
         /\ row \in [Runs -> [object: Object, key: Keys \union {NoKey}] \union {Nothing}]
         /\ \A r \in Runs : row[r] # Nothing => Sound(row[r].object)
         /\ req[c].at \in {"idle", "loading"} => heap[c] = Nothing
         /\ heap[c] = Nothing =>
              \A d \in Requests : req[d].at = "stepping" => req[d].object # c
         /\ restarts \in 0..MaxRestarts /\ faults \in 0..MaxFaults
<1>1. Idle \in Handler
  BY WorkflowAssumption DEF Idle, Handler
<1> QED
  BY <1>1 DEF WorkflowIInv, WorkflowTypeOK, DriveInv

\* The counters stay within their bounds.
LEMMA Bounds ==
  ASSUME WorkflowIInv
  PROVE  /\ Fault => faults' \in 0..MaxFaults
         /\ Restarting => restarts' \in 0..MaxRestarts
BY WorkflowAssumption DEF WorkflowIInv, WorkflowTypeOK, Fault, Restarting

\* A new run (run_workflow, execute).
LEMMA RunKeeps ==
  ASSUME WorkflowIInv, NEW c \in Requests, NEW p \in Replicas, NEW r \in Runs,
         NEW k \in Keys \union {NoKey}, Run(c, p, r, k)
  PROVE  WorkflowIInv' /\ EndedStep
<1> DEFINE h == [Idle EXCEPT !.replica = p, !.object = c, !.run = r, !.key = k]
<1>1. h \in Handler /\ h.object = c /\ h.replica = p /\ h.run = r
  BY Given DEF Handler, Idle
<1>2. /\ Drive(c, h, NewRun(r), Entry, cache[p])
      /\ UNCHANGED <<row, granted, refused, restarts>> /\ req[c].at = "idle"
  BY DEF Run
<1>3. cache[p] \in Seq(Requests) /\ heap[c] = Nothing
  BY <1>2, Given
<1>4. \A d \in Requests \ {c} : req[d].at = "stepping" => req[d].object # h.object
  BY <1>1, <1>3, Given
<1>5. Entry \in Steps \union {End}
  BY WorkflowAssumption
<1>6. /\ WellFormed /\ cache' \in [Replicas -> Seq(Requests)]
      /\ started' \in [Runs \X Gates -> Nat]
  <2> HIDE DEF h
  <2> QED
    BY <1>1, <1>2, <1>3, <1>4, <1>5, NewRunSound, Drives
<1>7. faults' \in 0..MaxFaults
  BY Bounds, Given DEF Run
<1> QED
  BY <1>2, <1>6, <1>7, Given DEF WorkflowIInv, WorkflowTypeOK, WellFormed

\* A retried POST (run_workflow).
LEMMA FindRunKeeps ==
  ASSUME WorkflowIInv, NEW c \in Requests, NEW p \in Replicas, NEW k \in Keys,
         FindRun(c, p, k)
  PROVE  WorkflowIInv' /\ EndedStep
<1>1. PICK r \in Holders(k) :
        /\ heap' = [heap EXCEPT ![c] = row[r].object]
        /\ req' = [req EXCEPT ![c] = [Idle EXCEPT !.at = "loaded", !.replica = p, !.object = c,
                                                  !.run = r, !.key = k]]
  BY DEF FindRun
<1>2. r \in Runs /\ row[r] # Nothing
  BY DEF Holders
<1> DEFINE h == [Idle EXCEPT !.at = "loaded", !.replica = p, !.object = c, !.run = r, !.key = k]
<1>3. h \in Handler /\ h.at = "loaded" /\ h.object = c /\ h.replica = p /\ h.run = r
  BY <1>2, Given DEF Handler, Idle
<1>4. heap[c] = Nothing /\ UNCHANGED <<cache, row, granted, refused, started, restarts, faults>>
  BY Given DEF FindRun
<1>5. Moved(c, c, row[r].object, h)
  <2>1. /\ \A d \in Requests \ {c} : req[d].at = "stepping" => req[d].object # c
        /\ \A s \in Runs : row'[s] # Nothing => Sound(row'[s].object)
        /\ Sound(row[r].object)
    BY <1>2, <1>4, Given
  <2>2. heap' = [heap EXCEPT ![c] = row[r].object] /\ req' = [req EXCEPT ![c] = h]
    BY <1>1
  <2> HIDE DEF h
  <2> QED
    BY <1>2, <1>3, <1>4, <2>1, <2>2 DEF Moved
<1>6. WellFormed
  BY <1>5, Moves
<1> QED
  BY <1>4, <1>6, Given DEF WorkflowIInv, WorkflowTypeOK, WellFormed

\* A decision on the cached object (resume_run).
LEMMA DecideKeeps ==
  ASSUME WorkflowIInv, NEW c \in Requests, NEW p \in Replicas, NEW r \in Runs,
         NEW d \in {"approved", "rejected"}, Decide(c, p, r, d)
  PROVE  WorkflowIInv' /\ EndedStep
<1>1. PICK o \in Cached(p, r) :
        Resume(c, [Idle EXCEPT !.replica = p, !.object = o, !.run = r, !.decision = d],
               heap[o], cache[p])
  BY DEF Decide
<1> DEFINE h == [Idle EXCEPT !.replica = p, !.object = o, !.run = r, !.decision = d]
<1>2. o \in Requests /\ heap[o] # Nothing
  BY DEF Cached, Copies
<1>3. h \in Handler /\ h.object = o /\ h.replica = p /\ h.run = r
  BY <1>2, Given DEF Handler, Idle
<1>4. cache[p] \in Seq(Requests) /\ UNCHANGED <<row, restarts, faults>>
  BY Given DEF Decide
<1>5. Resume(c, h, heap[h.object], cache[p])
  BY <1>1, <1>3
<1>6. /\ WellFormed
      /\ cache' \in [Replicas -> Seq(Requests)]
      /\ granted' \in [Runs \X Gates -> Nat] /\ started' \in [Runs \X Gates -> Nat]
      /\ refused' \subseteq Runs \X Gates
  <2> HIDE DEF h
  <2> QED
    BY <1>2, <1>3, <1>4, <1>5, Resumes
<1> QED
  BY <1>4, <1>6, Given DEF WorkflowIInv, WorkflowTypeOK, WellFormed

\* A request that must ask the store (_load).
LEMMA MissKeeps ==
  ASSUME WorkflowIInv, NEW c \in Requests, NEW p \in Replicas, NEW r \in Runs,
         NEW d \in {"approved", "rejected", Nothing}, Miss(c, p, r, d)
  PROVE  WorkflowIInv' /\ EndedStep
<1> DEFINE h == [Idle EXCEPT !.at = "loading", !.replica = p, !.run = r, !.decision = d]
<1>1. h \in Handler /\ h.at = "loading" /\ h.replica = p /\ h.run = r
  BY Given DEF Handler, Idle
<1>2. /\ req[c].at = "idle" /\ req' = [req EXCEPT ![c] = h]
      /\ UNCHANGED <<heap, cache, row, granted, refused, started, restarts, faults>>
  BY DEF Miss
<1>3. Waited(c, h)
  <2> HIDE DEF h
  <2> QED
    BY <1>1, <1>2, Given DEF Waited
<1>4. WellFormed
  BY <1>3, Waits
<1> QED
  BY <1>2, <1>4, Given DEF WorkflowIInv, WorkflowTypeOK, WellFormed

\* The stored object is read (_load).
LEMMA ReadRowKeeps ==
  ASSUME WorkflowIInv, NEW c \in Requests, ReadRow(c)
  PROVE  WorkflowIInv' /\ EndedStep
<1> DEFINE h == [req[c] EXCEPT !.at = "loaded", !.object = c]
           x == row[req[c].run].object
<1>1. /\ req[c].at = "loading" /\ row[req[c].run] # Nothing
      /\ req[c].replica \in Replicas /\ req[c].run \in Runs
  BY DEF ReadRow, WorkflowIInv, Placed
<1>0. req[c] \in Handler
  BY Given
<1>2. /\ h \in Handler /\ h.at = "loaded" /\ h.object = c
      /\ h.replica \in Replicas /\ h.run \in Runs
  BY <1>0, <1>1 DEF Handler
<1>3. /\ heap' = [heap EXCEPT ![c] = x]
      /\ UNCHANGED <<cache, row, granted, refused, started, restarts, faults>>
  BY DEF ReadRow
<1>4. req' = [req EXCEPT ![c] = h]
  BY Given DEF ReadRow, WorkflowIInv, WorkflowTypeOK, Handler
<1>5. Sound(x) /\ heap[c] = Nothing
  BY <1>1, Given
<1>6. /\ \A d \in Requests \ {c} : req[d].at = "stepping" => req[d].object # c
      /\ \A s \in Runs : row'[s] # Nothing => Sound(row'[s].object)
  BY <1>3, <1>5, Given
<1>7. Moved(c, c, x, h)
  <2> HIDE DEF h, x
  <2> QED
    BY <1>2, <1>3, <1>4, <1>5, <1>6 DEF Moved
<1>8. WellFormed
  BY <1>7, Moves
<1> QED
  BY <1>3, <1>8, Given DEF WorkflowIInv, WorkflowTypeOK, WellFormed

\* A request is answered, and no object changes.
LEMMA Answered ==
  ASSUME WorkflowIInv, NEW c \in Requests, Answer(c, req[c]), heap' = heap,
         \A r \in Runs : row'[r] # Nothing => Sound(row'[r].object)
  PROVE  WellFormed
<1> DEFINE h == [req[c] EXCEPT !.at = "answered"]
<1>0. req[c] \in Handler
  BY Given
<1>1. h \in Handler /\ h.at = "answered"
  BY <1>0 DEF Handler
<1>2. Waited(c, h)
  BY <1>1 DEF Waited, Answer
<1> QED
  BY <1>2, Waits

\* The store has no row, or has failed (_load).
LEMMA ReadNothingKeeps ==
  ASSUME WorkflowIInv, NEW c \in Requests, ReadNothing(c)
  PROVE  WorkflowIInv' /\ EndedStep
<1>1. /\ Answer(c, req[c])
      /\ UNCHANGED <<heap, cache, row, granted, refused, started, restarts>>
  BY DEF ReadNothing
<1>2. faults' \in 0..MaxFaults
  BY Bounds, Given DEF ReadNothing
<1>3. WellFormed
  BY <1>1, Answered, Given
<1> QED
  BY <1>1, <1>2, <1>3, Given DEF WorkflowIInv, WorkflowTypeOK, WellFormed

\* The loaded object is cached and, for a decision, resumed (_load, resume_run).
LEMMA WarmKeeps ==
  ASSUME WorkflowIInv, NEW c \in Requests, Warm(c)
  PROVE  WorkflowIInv' /\ EndedStep
<1> DEFINE h == req[c]
           q == Put(cache[h.replica], c, h.run)
<1>1. /\ h \in Handler /\ h.at = "loaded" /\ h.object = c
      /\ h.replica \in Replicas /\ h.run \in Runs /\ heap[c] # Nothing
  BY Given DEF Warm, WorkflowIInv, DriveInv, Placed
<1>2. q \in Seq(Requests)
  BY <1>1, Given, CacheTyped
<1>3. UNCHANGED <<row, restarts, faults>>
  BY DEF Warm
<1>4. CASE h.decision = Nothing
  <2>1. /\ Answer(c, h) /\ cache' = [cache EXCEPT ![h.replica] = q]
        /\ UNCHANGED <<heap, granted, refused, started>>
    BY <1>4 DEF Warm
  <2>2. WellFormed
    BY <1>3, <2>1, Answered, Given
  <2>3. cache' \in [Replicas -> Seq(Requests)]
    BY <1>2, <2>1, Given
  <2> QED
    BY <1>3, <2>1, <2>2, <2>3, Given DEF WorkflowIInv, WorkflowTypeOK, WellFormed
<1>5. CASE h.decision # Nothing
  <2>1. Resume(c, h, heap[h.object], q)
    BY <1>1, <1>5 DEF Warm
  <2>2. /\ WellFormed
        /\ cache' \in [Replicas -> Seq(Requests)]
        /\ granted' \in [Runs \X Gates -> Nat] /\ started' \in [Runs \X Gates -> Nat]
        /\ refused' \subseteq Runs \X Gates
    <3> HIDE DEF h, q
    <3> QED
      BY <1>1, <1>2, <1>3, <2>1, Resumes
  <2> QED
    BY <1>3, <2>2, Given DEF WorkflowIInv, WorkflowTypeOK, WellFormed
<1> QED
  BY <1>4, <1>5

\* A request at a step owns a running object, and may record an attempt in it (_drive).
LEMMA Stepping ==
  ASSUME WorkflowIInv, NEW c \in Requests, req[c].at = "stepping"
  PROVE  /\ req[c] \in Handler /\ req[c].step \in Steps
         /\ req[c].replica \in Replicas /\ req[c].run \in Runs
         /\ req[c].object \in Requests /\ heap[req[c].object] # Nothing
         /\ heap[req[c].object].status \notin Terminal
         /\ Sound(Attempted(c)) /\ Attempted(c).status = "running"
         /\ req[c].step \in Gates => req[c].step \in Attempted(c).approved
         /\ \A d \in Requests \ {c} :
              req[d].at = "stepping" => req[d].object # req[c].object
<1> DEFINE x == heap[req[c].object]
           y == Attempted(c)
<1>1. /\ req[c].object \in Requests /\ x # Nothing /\ x.status = "running"
      /\ req[c].step \in Steps
      /\ req[c].step \in Gates => req[c].step \in x.approved
  BY DEF WorkflowIInv, DriveInv
<1>2. Sound(x) /\ x \in Object
  BY <1>1 DEF WorkflowIInv, DriveInv, Sound
<1>3. /\ y \in Object /\ y.status = "running" /\ y.pending = x.pending
      /\ y.approved = x.approved /\ y.rejected = x.rejected
      /\ y.attempted = x.attempted \union {req[c].step}
  BY <1>1, <1>2 DEF Attempted, Object
<1>4. x.rejected = {} /\ x.pending = Nothing
  BY <1>1, <1>2 DEF Sound
<1>5. Sound(y)
  <2>1. y.attempted \intersect Gates \subseteq y.approved
    BY <1>1, <1>2, <1>3 DEF Sound
  <2>2. Nothing \notin y.approved
    BY <1>2, <1>3, <1>4 DEF Sound
  <2> HIDE DEF y, x
  <2> QED
    BY <1>3, <1>4, <2>1, <2>2 DEF Sound
<1>6. \A d \in Requests \ {c} : req[d].at = "stepping" => req[d].object # req[c].object
  BY DEF WorkflowIInv, DriveInv
<1>7. req[c].replica \in Replicas /\ req[c].run \in Runs /\ req[c] \in Handler
  BY Given DEF WorkflowIInv, Placed
<1> QED
  BY <1>1, <1>3, <1>5, <1>6, <1>7 DEF Terminal

\* A step that succeeds (_drive).
LEMMA StepSucceedsKeeps ==
  ASSUME WorkflowIInv, NEW c \in Requests, StepSucceeds(c)
  PROVE  WorkflowIInv' /\ EndedStep
<1>1. /\ req[c].at = "stepping"
      /\ UNCHANGED <<row, granted, refused, restarts, faults>>
  BY DEF StepSucceeds
<1>2. PICK s \in Succ[req[c].step] :
        Drive(c, req[c], Attempted(c), s, cache[req[c].replica])
  BY DEF StepSucceeds
<1>3. s \in Steps \union {End} /\ cache[req[c].replica] \in Seq(Requests)
  <2>1. req[c].step \in Steps /\ req[c].replica \in Replicas
    BY <1>1, Stepping
  <2>2. Succ[req[c].step] \subseteq Steps \union {End}
    BY <2>1, WorkflowAssumption
  <2>3. cache \in [Replicas -> Seq(Requests)]
    BY Given
  <2>4. cache[req[c].replica] \in Seq(Requests)
    BY <2>1, <2>3
  <2>5. s \in Steps \union {End}
    BY <1>2, <2>2
  <2> QED
    BY <2>4, <2>5
<1>4. /\ WellFormed /\ cache' \in [Replicas -> Seq(Requests)]
      /\ started' \in [Runs \X Gates -> Nat]
  <2>1. /\ req[c] \in Handler /\ req[c].object \in Requests
        /\ req[c].replica \in Replicas /\ req[c].run \in Runs
        /\ Sound(Attempted(c)) /\ Attempted(c).status = "running"
    BY <1>1, Stepping
  <2>2. heap[req[c].object] # Nothing /\ heap[req[c].object].status \notin Terminal
    BY <1>1, Stepping
  <2>3. \A d \in Requests \ {c} : req[d].at = "stepping" => req[d].object # req[c].object
    BY <1>1, Stepping
  <2> DEFINE h == req[c]
             x == Attempted(c)
             q == cache[req[c].replica]
  <2>4. Drive(c, h, x, s, q) /\ row' = row
    BY <1>1, <1>2
  <2> HIDE DEF h, x, q
  <2> QED
    BY <1>3, <2>1, <2>2, <2>3, <2>4, Drives DEF h, x, q
<1> QED
  BY <1>1, <1>4, Given DEF WorkflowIInv, WorkflowTypeOK, WellFormed

\* A step that raises and is tried again (_drive).
LEMMA StepRetriesKeeps ==
  ASSUME WorkflowIInv, NEW c \in Requests, StepRetries(c)
  PROVE  WorkflowIInv' /\ EndedStep
<1> DEFINE h == [req[c] EXCEPT !.attempt = @ + 1]
<1>1. /\ req[c].at = "stepping" /\ heap' = [heap EXCEPT ![req[c].object] = Attempted(c)]
      /\ UNCHANGED <<cache, row, granted, refused, started, restarts, faults>>
  BY DEF StepRetries
<1>2. req' = [req EXCEPT ![c] = h]
  BY Given DEF StepRetries, WorkflowIInv, WorkflowTypeOK, Handler
<1>3. /\ h \in Handler /\ h.at = "stepping" /\ h.step = req[c].step
      /\ h.object = req[c].object /\ h.replica = req[c].replica /\ h.run = req[c].run
  BY <1>1, Stepping DEF Handler
<1>4. \A r \in Runs : row'[r] # Nothing => Sound(row'[r].object)
  BY <1>1, Given
<1>5. Moved(c, req[c].object, Attempted(c), h)
  <2> HIDE DEF h
  <2> QED
    BY <1>1, <1>2, <1>3, <1>4, Stepping DEF Moved
<1>6. WellFormed
  BY <1>1, <1>5, Stepping, Moves
<1> QED
  BY <1>1, <1>6, Given DEF WorkflowIInv, WorkflowTypeOK, WellFormed

\* A step that has failed its run (_drive, _store).
LEMMA StepFailsKeeps ==
  ASSUME WorkflowIInv, NEW c \in Requests, StepFails(c)
  PROVE  WorkflowIInv' /\ EndedStep
<1> DEFINE o == req[c].object
           y == [Attempted(c) EXCEPT !.status = "failed"]
           h == [req[c] EXCEPT !.at = "storing", !.stored = y, !.step = Nothing, !.attempt = 0]
<1>1. /\ req[c].at = "stepping" /\ heap' = [heap EXCEPT ![o] = y]
      /\ cache' = [cache EXCEPT ![req[c].replica] =
                    Evicted(Put(cache[req[c].replica], o, y.run))]
      /\ req' = [req EXCEPT ![c] = h]
      /\ UNCHANGED <<row, granted, refused, started, restarts, faults>>
  BY DEF StepFails, PutAway
<1>2. /\ Attempted(c) \in Object /\ Sound(Attempted(c)) /\ Attempted(c).status = "running"
  BY <1>1, Stepping DEF Sound
<1>3. /\ y \in Object /\ y.status = "failed" /\ y.pending = Attempted(c).pending
      /\ y.approved = Attempted(c).approved /\ y.rejected = Attempted(c).rejected
      /\ y.attempted = Attempted(c).attempted
  BY <1>2 DEF Object, Terminal
<1>4. Sound(y)
  <2> HIDE DEF y
  <2> QED
    BY <1>2, <1>3 DEF Sound
<1>5. /\ h \in Handler /\ h.at = "storing" /\ h.stored = y
      /\ h.replica = req[c].replica /\ h.run = req[c].run
  BY <1>1, <1>3, Stepping DEF Handler
<1>6. \A r \in Runs : row'[r] # Nothing => Sound(row'[r].object)
  BY <1>1, Given
<1>7. Moved(c, o, y, h)
  <2> HIDE DEF h, y
  <2> QED
    BY <1>1, <1>4, <1>5, <1>6, Stepping DEF Moved
<1>8. WellFormed
  BY <1>1, <1>7, Stepping, Moves
<1>9. cache' \in [Replicas -> Seq(Requests)]
  <2>1. y.run \in Runs
    BY <1>3 DEF Object
  <2>2. Evicted(Put(cache[req[c].replica], o, y.run)) \in Seq(Requests)
    BY <1>1, <2>1, Stepping, Given, CacheTyped
  <2> QED
    BY <1>1, <2>2, Given
<1> QED
  BY <1>1, <1>8, <1>9, Given DEF WorkflowIInv, WorkflowTypeOK, WellFormed

\* A `next` that raises (_drive).
LEMMA BranchRaisesKeeps ==
  ASSUME WorkflowIInv, NEW c \in Requests, BranchRaises(c)
  PROVE  WorkflowIInv' /\ EndedStep
<1> DEFINE h == [req[c] EXCEPT !.at = "answered"]
<1>1. /\ req[c].at = "stepping" /\ heap' = [heap EXCEPT ![req[c].object] = Attempted(c)]
      /\ req' = [req EXCEPT ![c] = h]
      /\ UNCHANGED <<cache, row, granted, refused, started, restarts, faults>>
  BY DEF BranchRaises, Answer
<1>2. req[c] \in Handler
  BY Given
<1>3. h \in Handler /\ h.at = "answered" /\ h.replica = req[c].replica /\ h.run = req[c].run
  BY <1>2 DEF Handler
<1>4. \A r \in Runs : row'[r] # Nothing => Sound(row'[r].object)
  BY <1>1, Given
<1>5. Moved(c, req[c].object, Attempted(c), h)
  <2> HIDE DEF h
  <2> QED
    BY <1>1, <1>3, <1>4, Stepping DEF Moved
<1>6. WellFormed
  BY <1>1, <1>5, Stepping, Moves
<1> QED
  BY <1>1, <1>6, Given DEF WorkflowIInv, WorkflowTypeOK, WellFormed

\* session.get tells an insert from an update (upsert_run).
LEMMA UpsertLoadKeeps ==
  ASSUME WorkflowIInv, NEW c \in Requests, UpsertLoad(c)
  PROVE  WorkflowIInv' /\ EndedStep
<1>1. PICK u \in {"insert", "update"} :
        /\ req[c].at = "storing" /\ req' = [req EXCEPT ![c] = [req[c] EXCEPT !.upsert = u]]
        /\ UNCHANGED <<heap, cache, row, granted, refused, started, restarts, faults>>
  BY DEF UpsertLoad, WorkflowIInv, WorkflowTypeOK, Handler
<1> DEFINE h == [req[c] EXCEPT !.upsert = u]
<1>2. req[c] \in Handler
  BY Given
<1>3. /\ h \in Handler /\ h.at = "storing" /\ h.stored = req[c].stored
      /\ h.replica = req[c].replica /\ h.run = req[c].run
  BY <1>1, <1>2 DEF Handler
<1>4. Waited(c, h)
  <2> HIDE DEF h
  <2> QED
    BY <1>1, <1>3, Given DEF Waited, h
<1>5. WellFormed
  BY <1>4, Waits
<1> QED
  BY <1>1, <1>5, Given DEF WorkflowIInv, WorkflowTypeOK, WellFormed

\* upsert_run returns, and the request is answered.
LEMMA UpsertedAnswers ==
  ASSUME WorkflowIInv, NEW c \in Requests, NEW u \in {"done", "failed"}, Upserted(c, u),
         heap' = heap, \A r \in Runs : row'[r] # Nothing => Sound(row'[r].object)
  PROVE  WellFormed
<1> DEFINE h == [req[c] EXCEPT !.at = "answered", !.upsert = u]
<1>0. req[c] \in Handler
  BY Given
<1>1. h \in Handler /\ h.at = "answered"
  BY <1>0 DEF Handler
<1>2. req' = [req EXCEPT ![c] = h]
  BY DEF Upserted, WorkflowIInv, WorkflowTypeOK
<1>3. Waited(c, h)
  <2> HIDE DEF h
  <2> QED
    BY <1>1, <1>2 DEF Waited
<1> QED
  BY <1>3, Waits

\* A row is written, and the request answered (upsert_run).
LEMMA UpsertCommitKeeps ==
  ASSUME WorkflowIInv, NEW c \in Requests, UpsertCommit(c)
  PROVE  WorkflowIInv' /\ EndedStep
<1> DEFINE h == req[c]
           old == row[h.run]
           key == IF h.key = NoKey /\ old # Nothing THEN old.key ELSE h.key
           new == [object |-> h.stored, key |-> key]
<1>1. /\ h.at = "storing" /\ Upserted(c, "done")
      /\ row' = [row EXCEPT ![h.run] = new]
      /\ UNCHANGED <<heap, cache, granted, refused, started, restarts, faults>>
  BY DEF UpsertCommit
<1>2. /\ h \in Handler /\ h.run \in Runs /\ Sound(h.stored)
      /\ row \in [Runs -> [object: Object, key: Keys \union {NoKey}] \union {Nothing}]
  BY <1>1, Given DEF WorkflowIInv, DriveInv, Placed
<1>3. h.key \in Keys \union {NoKey} /\ h.stored \in Object
  BY <1>2 DEF Handler, Sound
<1>4. key \in Keys \union {NoKey}
  BY <1>2, <1>3
<1>5. new \in [object: Object, key: Keys \union {NoKey}] /\ new.object = h.stored
  BY <1>3, <1>4
<1>6. row' \in [Runs -> [object: Object, key: Keys \union {NoKey}] \union {Nothing}]
  <2> HIDE DEF new
  <2> QED
    BY <1>1, <1>2, <1>5
<1>7. \A r \in Runs : row'[r] # Nothing => Sound(row'[r].object)
  <2>1. \A r \in Runs : row[r] # Nothing => Sound(row[r].object)
    BY Given
  <2> HIDE DEF new
  <2> QED
    BY <1>1, <1>2, <1>5, <2>1
<1>8. WellFormed
  BY <1>1, <1>7, UpsertedAnswers
<1> QED
  BY <1>1, <1>6, <1>8, Given DEF WorkflowIInv, WorkflowTypeOK, WellFormed

\* A write that fails, and is swallowed (upsert_run).
LEMMA UpsertFailsKeeps ==
  ASSUME WorkflowIInv, NEW c \in Requests, UpsertFails(c)
  PROVE  WorkflowIInv' /\ EndedStep
<1>1. /\ Upserted(c, "failed") /\ (faults' = faults \/ Fault)
      /\ UNCHANGED <<heap, cache, row, granted, refused, started, restarts>>
  BY DEF UpsertFails
<1>2. faults' \in 0..MaxFaults
  BY <1>1, Bounds, Given
<1>3. WellFormed
  BY <1>1, UpsertedAnswers, Given
<1> QED
  BY <1>1, <1>2, <1>3, Given DEF WorkflowIInv, WorkflowTypeOK, WellFormed

\* A replica is restarted: requests die, objects and rows stay.
LEMMA RestartKeeps ==
  ASSUME WorkflowIInv, NEW p \in Replicas, Restart(p)
  PROVE  WorkflowIInv' /\ EndedStep
<1>1. /\ UNCHANGED <<heap, row, granted, refused, started, faults>>
      /\ cache' = [cache EXCEPT ![p] = <<>>]
      /\ restarts' \in 0..MaxRestarts
  BY Bounds DEF Restart
<1>2. \A c \in Requests :
        /\ req'[c] \in Handler
        /\ req'[c] = req[c] \/ req'[c].at = "dead"
  <2> SUFFICES ASSUME NEW c \in Requests
               PROVE  /\ req'[c] \in Handler
                      /\ req'[c] = req[c] \/ req'[c].at = "dead"
    OBVIOUS
  <2> DEFINE h == [req[c] EXCEPT !.at = "dead"]
  <2>1. req[c] \in Handler
    BY Given
  <2>2. h \in Handler /\ h.at = "dead"
    BY <2>1 DEF Handler
  <2>3. req'[c] = req[c] \/ req'[c] = h
    BY DEF Restart
  <2> HIDE DEF h
  <2> QED
    BY <2>1, <2>2, <2>3
<1>3. req' \in [Requests -> Handler]
  BY <1>2 DEF Restart
<1>4. cache' \in [Replicas -> Seq(Requests)]
  BY <1>1 DEF WorkflowIInv, WorkflowTypeOK
<1>5. WorkflowTypeOK'
  BY <1>1, <1>3, <1>4 DEF WorkflowIInv, WorkflowTypeOK
<1>6. DriveInv'
  BY <1>1, <1>2 DEF WorkflowIInv, DriveInv
<1>7. Placed'
  BY <1>2 DEF WorkflowIInv, Placed
<1> QED
  BY <1>1, <1>5, <1>6, <1>7 DEF WorkflowIInv, EndedStep

-----------------------------------------------------------------------------
(* The theorems                                                              *)

\* The invariant holds at first: there is no object, row or request.
LEMMA WorkflowStart == WorkflowInit => WorkflowIInv
<1> SUFFICES ASSUME WorkflowInit PROVE WorkflowIInv
  OBVIOUS
<1>1. Idle \in Handler /\ Idle.at = "idle"
  BY WorkflowAssumption DEF Idle, Handler
<1>2. WorkflowTypeOK
  BY <1>1, WorkflowAssumption DEF WorkflowInit, WorkflowTypeOK
<1>3. DriveInv /\ Placed
  BY <1>1 DEF WorkflowInit, DriveInv, Placed
<1> QED
  BY <1>2, <1>3 DEF WorkflowIInv

\* Every step keeps the invariant, and no step changes an object that has ended.
LEMMA WorkflowStep == WorkflowIInv /\ [WorkflowNext]_vars => WorkflowIInv' /\ EndedStep
<1> SUFFICES ASSUME WorkflowIInv, [WorkflowNext]_vars PROVE WorkflowIInv' /\ EndedStep
  OBVIOUS
<1>1. ASSUME NEW c \in Requests, Arrives(c) PROVE WorkflowIInv' /\ EndedStep
  BY <1>1, RunKeeps, FindRunKeeps, DecideKeeps, MissKeeps DEF Arrives
<1>2. ASSUME NEW c \in Requests, Proceeds(c) PROVE WorkflowIInv' /\ EndedStep
  BY <1>2, ReadRowKeeps, ReadNothingKeeps, WarmKeeps, StepSucceedsKeeps, StepRetriesKeeps,
     StepFailsKeeps, BranchRaisesKeeps, UpsertLoadKeeps, UpsertCommitKeeps, UpsertFailsKeeps
     DEF Proceeds
<1>3. CASE UNCHANGED vars
  <2>1. WorkflowTypeOK'
    BY <1>3 DEF vars, WorkflowIInv, WorkflowTypeOK
  <2>2. DriveInv'
    BY <1>3 DEF vars, WorkflowIInv, DriveInv
  <2>3. Placed' /\ EndedStep
    BY <1>3 DEF vars, WorkflowIInv, Placed, EndedStep
  <2> QED
    BY <2>1, <2>2, <2>3 DEF WorkflowIInv
<1> QED
  BY <1>1, <1>2, <1>3, RestartKeeps DEF WorkflowNext

\* The state is well-typed: among others, no run exceeds its step budget, and a cache holds
\* objects of requests (_drive, _store, _load).
THEOREM WorkflowTypeCorrect == WorkflowSpec => []WorkflowTypeOK
<1>1. WorkflowIInv => WorkflowTypeOK
  BY DEF WorkflowIInv
<1> QED
  BY <1>1, WorkflowStart, WorkflowStep, PTL DEF WorkflowSpec

\* What is stored of a run is audited, whatever its replicas, restarts and failed writes:
\* each gate it has attempted is among its approvals and none among its rejections, and
\* it waits only at an undecided gate (_drive, resume, _store).
THEOREM RecordAudited == WorkflowSpec => []RecordIsAudited
<1>1. WorkflowIInv => RecordIsAudited
  BY DEF WorkflowIInv, DriveInv, Sound, RecordIsAudited
<1> QED
  BY <1>1, WorkflowStart, WorkflowStep, PTL DEF WorkflowSpec

\* A run that has ended stays as it ended, in every object of it (resume, _drive).
THEOREM EndedRunsStand == WorkflowSpec => EndedStands
<1>1. EndedStep =>
        \A o \in Requests :
          heap[o] # Nothing /\ heap[o].status \in Terminal => heap'[o] = heap[o]
  BY DEF EndedStep
<1> QED
  BY <1>1, WorkflowStart, WorkflowStep, PTL DEF WorkflowSpec, EndedStands

-----------------------------------------------------------------------------
(***************************************************************************)
(* What a step may do to objects, rows and the history, whichever request  *)
(* takes it: what remains to be proved is proved of these.                 *)
(***************************************************************************)
Wrote(o, y)  == heap' = [heap EXCEPT ![o] = y]
Unscored     == UNCHANGED <<granted, refused, started>>
Unstored(c)  == req'[c].stored = Nothing /\ req'[c].upsert = "none"
SameWork(c)  == /\ req'[c].run = req[c].run
                /\ req'[c].key = req[c].key
                /\ req'[c].object = req[c].object

\* The request waits for the store, or is answered with nothing to store.
Waiting(c) ==
  /\ UNCHANGED <<heap, row>> /\ Unscored
  /\ req'[c].at \in {"loading", "answered"} /\ Unstored(c)
  /\ req'[c].at = "loading" => req'[c].key = NoKey

\* It has looked for the row it is to write.
Looked(c) ==
  /\ UNCHANGED <<heap, row>> /\ Unscored
  /\ req[c].at = "storing" /\ req'[c].at = "storing"
  /\ SameWork(c) /\ req'[c].stored = req[c].stored
  /\ req'[c].upsert \in {"insert", "update"}

\* Its write of the row is over.
Kept(c) ==
  /\ UNCHANGED heap /\ Unscored
  /\ req[c].at = "storing" /\ req'[c].at = "answered"
  /\ SameWork(c) /\ req'[c].stored = req[c].stored
  /\ \/ UpsertCommit(c) /\ req'[c].upsert = "done"
     \/ UNCHANGED row /\ req'[c].upsert = "failed" /\ (faults' # 0 \/ Conflicts(c))

\* It makes an object of a row.
Copied(c) ==
  /\ heap[c] = Nothing
  /\ \E r \in Runs : row[r] # Nothing /\ req'[c].run = r /\ Wrote(c, row[r].object)
  /\ UNCHANGED row /\ Unscored
  /\ req'[c].at = "loaded" /\ Unstored(c)
  /\ req'[c].decision # Nothing => req'[c].key = NoKey

\* It drives an object, with content x by now, into step s.
Drove(c, o, x, s) ==
  /\ o \in Requests /\ s \in Steps \union {End}
  /\ Sound(x) /\ x.status = "running" /\ x.run = req'[c].run
  /\ req'[c].object = o /\ Wrote(o, AtStep(x, s))
  /\ AtStep(x, s).status = "running" =>
       /\ req'[c].at = "stepping" /\ req'[c].step = s /\ Unstored(c)
       /\ started' = Counted(started, x.run, s)
  /\ AtStep(x, s).status # "running" =>
       /\ req'[c].at = "storing" /\ req'[c].stored = AtStep(x, s) /\ req'[c].upsert = "none"
       /\ started' = started
  /\ UNCHANGED <<row, refused>>

Began(c) ==
  \E r \in Runs :
    /\ heap[c] = Nothing /\ Copies(r) = {} /\ row[r] = Nothing
    /\ Drove(c, c, NewRun(r), Entry)
    /\ UNCHANGED granted

Stepped(c) ==
  /\ req[c].at = "stepping" /\ SameWork(c)
  /\ \E s \in Succ[req[c].step] : Drove(c, req[c].object, Attempted(c), s)
  /\ UNCHANGED granted

\* It tries its step, and tries again, or fails, or is answered.
Tried(c) ==
  LET o == req[c].object IN
  /\ req[c].at = "stepping" /\ SameWork(c)
  /\ UNCHANGED row /\ Unscored
  /\ \/ /\ Wrote(o, Attempted(c)) /\ Unstored(c)
        /\ \/ req'[c].at = "stepping" /\ req'[c].step = req[c].step
           \/ req'[c].at = "answered"
     \/ LET y == [Attempted(c) EXCEPT !.status = "failed"] IN
          /\ Wrote(o, y)
          /\ req'[c].at = "storing" /\ req'[c].stored = y /\ req'[c].upsert = "none"

\* It decides on an object that awaits approval.
Decided(c, o) ==
  /\ o \in Requests /\ heap[o] # Nothing
  /\ heap[o].status = "awaiting_approval" /\ heap[o].pending \in Gates
  /\ req'[c].run = heap[o].run /\ req'[c].object = o /\ req'[c].key = NoKey

Approved(c) ==
  \E o \in Requests :
    LET x == heap[o] IN
    /\ Decided(c, o)
    /\ Drove(c, o, [x EXCEPT !.status = "running", !.pending = Nothing,
                             !.approved = @ \union {x.pending}], x.pending)
    /\ granted' = Counted(granted, x.run, x.pending)

Rejected(c) ==
  \E o \in Requests :
    LET x == heap[o]
        y == [x EXCEPT !.status = "rejected", !.pending = Nothing,
                       !.rejected = @ \union {x.pending}]
    IN
    /\ Decided(c, o) /\ Wrote(o, y)
    /\ req'[c].at = "storing" /\ req'[c].stored = y /\ req'[c].upsert = "none"
    /\ refused' = refused \union {<<x.run, x.pending>>}
    /\ UNCHANGED <<row, granted, started>>

Turn(c) ==
  /\ \A d \in Requests \ {c} : req'[d] = req[d]
  /\ req[c].at \notin {"answered", "dead"}
  /\ faults' = 0 => faults = 0
  /\ \/ Waiting(c) \/ Looked(c) \/ Kept(c) \/ Copied(c)
     \/ Began(c) \/ Stepped(c) \/ Tried(c) \/ Approved(c) \/ Rejected(c)

\* Nothing happens but that requests may die.
Deaths ==
  /\ UNCHANGED <<heap, row, faults>> /\ Unscored
  /\ \A c \in Requests :
       \/ req'[c] = req[c]
       \/ req[c].at # "answered" /\ req'[c].at = "dead" /\ req'[c].upsert = req[c].upsert

\* What the handlers keep between their awaits.
HandlerInv ==
  \A c \in Requests :
    /\ req[c].at \in {"idle", "loading", "loaded", "stepping"} =>
         req[c].stored = Nothing /\ req[c].upsert = "none"
    /\ req[c].upsert \in {"done", "failed"} => req[c].at = "answered" /\ req[c].run \in Runs
    /\ req[c].at = "loading" => req[c].key = NoKey
    /\ req[c].at = "loaded" /\ req[c].decision # Nothing => req[c].key = NoKey
    /\ req[c].at = "loaded" => heap[c] # Nothing /\ heap[c].run = req[c].run

\* A request that made a run under a key, and has not stored it yet.
Owes(c) == req[c].key # NoKey /\ req[c].at \in {"stepping", "storing"}

\* Another request has stored its decision on the object that c made.
Overtaken(c) == \E d \in Requests \ {c} : req[d].object = c /\ req[d].upsert = "done"

RunKeyInv ==
  /\ \A r \in Runs : row[r] # Nothing => row[r].object.run = r /\ Copies(r) # {}
  /\ \A c \in Requests : req[c].at \in {"stepping", "storing"} =>
       /\ req[c].object \in Requests /\ heap[req[c].object] # Nothing
       /\ heap[req[c].object].run = req[c].run
       /\ req[c].at = "storing" => req[c].stored.run = req[c].run
  /\ \A c, d \in Requests : Owes(c) /\ Owes(d) /\ req[c].run = req[d].run => c = d
  /\ \A c \in Requests, r \in Runs : Owes(c) /\ req[c].run = r =>
       /\ req[c].object = c
       /\ row[r] = Nothing => Copies(r) = {c}
       /\ row[r] # Nothing => row[r].key = NoKey /\ Overtaken(c)
  /\ KeyHeldUnlessOvertaken

\* The request's new state, and the others'.
LEMMA TurnOf ==
  ASSUME WorkflowIInv, NEW c \in Requests, NEW h, req' = [req EXCEPT ![c] = h]
  PROVE  req'[c] = h /\ \A d \in Requests \ {c} : req'[d] = req[d]
  BY DEF WorkflowIInv, WorkflowTypeOK

\* _drive up to its next await.
LEMMA DriveTurn ==
  ASSUME WorkflowIInv, NEW c \in Requests, NEW h \in Handler, NEW x, Sound(x),
         x.status = "running", NEW s \in Steps \union {End}, NEW q,
         Drive(c, h, x, s, q), UNCHANGED <<row, refused>>,
         h.object \in Requests, x.run = h.run, h.stored = Nothing, h.upsert = "none"
  PROVE  /\ \A d \in Requests \ {c} : req'[d] = req[d]
         /\ req'[c].run = h.run /\ req'[c].key = h.key /\ req'[c].object = h.object
         /\ Drove(c, h.object, x, s)
<1> DEFINE y == AtStep(x, s)
<1>1. Sound(y) /\ y \in Object /\ y.run = x.run
  BY AtStepSound DEF Sound
<1>2. CASE y.status = "running"
  <2> DEFINE g == [h EXCEPT !.at = "stepping", !.step = s, !.attempt = 1]
  <2>1. /\ heap' = [heap EXCEPT ![h.object] = y] /\ req' = [req EXCEPT ![c] = g]
        /\ started' = Counted(started, x.run, s)
    BY <1>1, <1>2 DEF Drive
  <2>2. /\ g.at = "stepping" /\ g.step = s /\ g.stored = Nothing /\ g.upsert = "none"
        /\ g.object = h.object /\ g.run = h.run /\ g.key = h.key
    BY DEF Handler
  <2> HIDE DEF g, y
  <2>3. req'[c] = g /\ \A d \in Requests \ {c} : req'[d] = req[d]
    BY <2>1, TurnOf
  <2> QED
    BY <1>2, <2>1, <2>2, <2>3 DEF Drove, Wrote, Unstored, y
<1>3. CASE y.status # "running"
  <2> DEFINE g == [h EXCEPT !.at = "storing", !.stored = y, !.step = Nothing, !.attempt = 0]
  <2>1. /\ heap' = [heap EXCEPT ![h.object] = y] /\ req' = [req EXCEPT ![c] = g]
        /\ started' = started
    BY <1>3 DEF Drive, PutAway
  <2>2. /\ g.at = "storing" /\ g.stored = y /\ g.upsert = "none"
        /\ g.object = h.object /\ g.run = h.run /\ g.key = h.key
    BY DEF Handler
  <2> HIDE DEF g, y
  <2>3. req'[c] = g /\ \A d \in Requests \ {c} : req'[d] = req[d]
    BY <2>1, TurnOf
  <2> QED
    BY <1>3, <2>1, <2>2, <2>3 DEF Drove, Wrote, y
<1> QED
  BY <1>2, <1>3

\* resume: a 409, a rejection, or an approval that drives the run on.
LEMMA ResumeTurn ==
  ASSUME WorkflowIInv, NEW c \in Requests, NEW h \in Handler, NEW q,
         h.object \in Requests, heap[h.object] # Nothing, heap[h.object].run = h.run,
         h.key = NoKey, h.stored = Nothing, h.upsert = "none",
         req[c].at \in {"idle", "loaded"},
         Resume(c, h, heap[h.object], q), UNCHANGED <<row, faults>>
  PROVE  Turn(c)
<1> DEFINE x == heap[h.object]
<1>1. Sound(x) /\ x \in Object /\ x.run \in Runs
  BY DEF WorkflowIInv, DriveInv, Sound, Object
<1>2. CASE x.status # "awaiting_approval"
  <2> DEFINE g == [h EXCEPT !.at = "answered"]
  <2>1. /\ heap' = heap /\ req' = [req EXCEPT ![c] = g]
        /\ UNCHANGED <<granted, refused, started>>
    BY <1>2 DEF Resume, Answer
  <2>2. g.at = "answered" /\ g.stored = Nothing /\ g.upsert = "none"
    BY DEF Handler
  <2> HIDE DEF g
  <2>3. req'[c] = g /\ \A d \in Requests \ {c} : req'[d] = req[d]
    BY <2>1, TurnOf
  <2>4. Waiting(c)
    BY <2>1, <2>2, <2>3 DEF Waiting, Unscored, Unstored
  <2> QED
    BY <2>3, <2>4 DEF Turn
<1>3. ASSUME x.status = "awaiting_approval"
      PROVE  x.pending \in Gates /\ x.pending \in Steps
             /\ x.pending \notin x.approved \union x.rejected /\ x.rejected = {}
  BY <1>1, <1>3, WorkflowAssumption DEF Sound, Object
<1>4. CASE x.status = "awaiting_approval" /\ h.decision = "rejected"
  <2> DEFINE y == [x EXCEPT !.status = "rejected", !.pending = Nothing,
                            !.rejected = @ \union {x.pending}]
             g == [h EXCEPT !.at = "storing", !.stored = y, !.step = Nothing, !.attempt = 0]
  <2>1. /\ heap' = [heap EXCEPT ![h.object] = y] /\ req' = [req EXCEPT ![c] = g]
        /\ refused' = refused \union {<<x.run, x.pending>>}
        /\ UNCHANGED <<granted, started>>
    BY <1>4 DEF Resume, PutAway
  <2>2. /\ g.at = "storing" /\ g.stored = y /\ g.upsert = "none"
        /\ g.object = h.object /\ g.run = h.run /\ g.key = h.key
    BY DEF Handler
  <2> HIDE DEF g
  <2>3. req'[c] = g /\ \A d \in Requests \ {c} : req'[d] = req[d]
    BY <2>1, TurnOf
  <2>4. Decided(c, h.object)
    BY <1>3, <1>4, <2>2, <2>3 DEF Decided
  <2>5. Rejected(c)
    BY <2>1, <2>2, <2>3, <2>4 DEF Rejected, Wrote
  <2> QED
    BY <2>3, <2>5 DEF Turn
<1>5. CASE x.status = "awaiting_approval" /\ h.decision = "approved"
  <2> DEFINE y == [x EXCEPT !.status = "running", !.pending = Nothing,
                            !.approved = @ \union {x.pending}]
  <2>1. /\ Drive(c, h, y, x.pending, q)
        /\ granted' = Counted(granted, x.run, x.pending)
        /\ refused' = refused
    BY <1>5 DEF Resume
  <2>2. /\ y \in Object /\ y.status = "running" /\ y.pending = Nothing /\ y.run = h.run
        /\ y.attempted = x.attempted /\ y.rejected = {}
        /\ y.approved = x.approved \union {x.pending}
    BY <1>1, <1>3, <1>5 DEF Object
  <2>3. Sound(y)
    <3>1. Nothing \notin y.approved \union y.rejected
      BY <2>2, WorkflowAssumption DEF Object
    <3>2. y.attempted \intersect Gates \subseteq y.approved
      BY <1>1, <2>2 DEF Sound
    <3> HIDE DEF y
    <3> QED
      BY <2>2, <3>1, <3>2 DEF Sound
  <2> HIDE DEF y
  <2>4. /\ \A d \in Requests \ {c} : req'[d] = req[d]
        /\ req'[c].run = h.run /\ req'[c].key = h.key /\ req'[c].object = h.object
        /\ Drove(c, h.object, y, x.pending)
    BY <1>3, <1>5, <2>1, <2>2, <2>3, DriveTurn
  <2>5. Decided(c, h.object)
    BY <1>3, <1>5, <2>4 DEF Decided
  <2>6. Approved(c)
    BY <2>1, <2>4, <2>5 DEF Approved, y
  <2> QED
    BY <2>4, <2>6 DEF Turn
<1> QED
  BY <1>2, <1>4, <1>5 DEF Resume

\* A request that arrives.
LEMMA ArrivesTurn ==
  ASSUME WorkflowIInv, NEW c \in Requests, Arrives(c)
  PROVE  Turn(c)
<1> Idle \in Handler
  BY Given
<1>1. ASSUME NEW p \in Replicas, NEW r \in Runs, NEW k \in Keys \union {NoKey}, Run(c, p, r, k)
      PROVE  Turn(c)
  <2> DEFINE h == [Idle EXCEPT !.replica = p, !.object = c, !.run = r, !.key = k]
  <2>1. /\ h \in Handler /\ h.object = c /\ h.run = r
        /\ h.stored = Nothing /\ h.upsert = "none"
    BY DEF Handler, Idle
  <2>2. /\ Drive(c, h, NewRun(r), Entry, cache[p])
        /\ UNCHANGED <<row, granted, refused>> /\ req[c].at = "idle"
        /\ Copies(r) = {} /\ row[r] = Nothing
        /\ faults' = 0 => faults = 0
    BY <1>1, Given DEF Run, Fault
  <2>3. heap[c] = Nothing /\ Entry \in Steps \union {End}
    BY <2>2, Given, WorkflowAssumption
  <2> HIDE DEF h
  <2>4. /\ \A d \in Requests \ {c} : req'[d] = req[d]
        /\ Drove(c, c, NewRun(r), Entry)
    BY <2>1, <2>2, <2>3, NewRunSound, DriveTurn
  <2>5. Began(c)
    BY <2>2, <2>3, <2>4 DEF Began
  <2> QED
    BY <2>2, <2>4, <2>5 DEF Turn
<1>2. ASSUME NEW p \in Replicas, NEW k \in Keys, FindRun(c, p, k) PROVE Turn(c)
  <2>1. PICK r \in Holders(k) :
          /\ heap' = [heap EXCEPT ![c] = row[r].object]
          /\ req' = [req EXCEPT ![c] = [Idle EXCEPT !.at = "loaded", !.replica = p,
                                                    !.object = c, !.run = r, !.key = k]]
    BY <1>2 DEF FindRun
  <2> DEFINE h == [Idle EXCEPT !.at = "loaded", !.replica = p, !.object = c, !.run = r, !.key = k]
  <2>2. /\ h.at = "loaded" /\ h.run = r /\ h.decision = Nothing
        /\ h.stored = Nothing /\ h.upsert = "none"
    BY DEF Handler, Idle
  <2>3. req' = [req EXCEPT ![c] = h]
    BY <2>1
  <2> HIDE DEF h
  <2>4. req'[c] = h /\ \A d \in Requests \ {c} : req'[d] = req[d]
    BY <2>3, TurnOf
  <2>5. /\ req[c].at = "idle" /\ heap[c] = Nothing /\ r \in Runs /\ row[r] # Nothing
        /\ UNCHANGED <<row, granted, refused, started, faults>>
    BY <1>2, Given DEF FindRun, Holders
  <2>6. Copied(c)
    BY <2>1, <2>2, <2>4, <2>5 DEF Copied, Wrote, Unscored, Unstored
  <2> QED
    BY <2>4, <2>5, <2>6 DEF Turn
<1>3. ASSUME NEW p \in Replicas, NEW r \in Runs, NEW d \in {"approved", "rejected"},
             Decide(c, p, r, d)
      PROVE  Turn(c)
  <2>1. PICK o \in Cached(p, r) :
          Resume(c, [Idle EXCEPT !.replica = p, !.object = o, !.run = r, !.decision = d],
                 heap[o], cache[p])
    BY <1>3 DEF Decide
  <2> DEFINE h == [Idle EXCEPT !.replica = p, !.object = o, !.run = r, !.decision = d]
  <2>2. o \in Requests /\ heap[o] # Nothing /\ heap[o].run = r
    BY DEF Cached, Copies
  <2>3. /\ h \in Handler /\ h.object = o /\ h.run = r /\ h.key = NoKey
        /\ h.stored = Nothing /\ h.upsert = "none"
    BY <2>2 DEF Handler, Idle
  <2>4. /\ Resume(c, h, heap[h.object], cache[p]) /\ UNCHANGED <<row, faults>>
        /\ req[c].at = "idle"
    BY <1>3, <2>1, <2>3 DEF Decide
  <2> HIDE DEF h
  <2> QED
    BY <2>2, <2>3, <2>4, ResumeTurn
<1>4. ASSUME NEW p \in Replicas, NEW r \in Runs, NEW d \in {"approved", "rejected", Nothing},
             Miss(c, p, r, d)
      PROVE  Turn(c)
  <2> DEFINE h == [Idle EXCEPT !.at = "loading", !.replica = p, !.run = r, !.decision = d]
  <2>1. h.at = "loading" /\ h.key = NoKey /\ h.stored = Nothing /\ h.upsert = "none"
    BY DEF Handler, Idle
  <2>2. req[c].at = "idle" /\ req' = [req EXCEPT ![c] = h] /\ UNCHANGED <<heap, row, granted, refused, started, faults>>
    BY <1>4 DEF Miss
  <2> HIDE DEF h
  <2>3. req'[c] = h /\ \A e \in Requests \ {c} : req'[e] = req[e]
    BY <2>2, TurnOf
  <2>4. Waiting(c)
    BY <2>1, <2>2, <2>3 DEF Waiting, Unscored, Unstored
  <2> QED
    BY <2>2, <2>3, <2>4 DEF Turn
<1> QED
  BY <1>1, <1>2, <1>3, <1>4 DEF Arrives

\* An answer changes nothing of a request but where it is.
LEMMA AnswerTurn ==
  ASSUME WorkflowIInv, NEW c \in Requests, Answer(c, req[c])
  PROVE  /\ \A d \in Requests \ {c} : req'[d] = req[d]
         /\ req'[c].at = "answered" /\ SameWork(c)
         /\ req'[c].stored = req[c].stored /\ req'[c].upsert = req[c].upsert
<1> DEFINE h == [req[c] EXCEPT !.at = "answered"]
<1>1. req[c] \in Handler
  BY Given
<1>2. /\ h.at = "answered" /\ h.run = req[c].run /\ h.key = req[c].key
      /\ h.object = req[c].object /\ h.stored = req[c].stored /\ h.upsert = req[c].upsert
  BY <1>1 DEF Handler
<1>3. req' = [req EXCEPT ![c] = h]
  BY DEF Answer
<1> HIDE DEF h
<1>4. req'[c] = h /\ \A d \in Requests \ {c} : req'[d] = req[d]
  BY <1>3, TurnOf
<1> QED
  BY <1>2, <1>4 DEF SameWork

\* A request that loads its run.
LEMMA LoadTurn ==
  ASSUME WorkflowIInv, HandlerInv, NEW c \in Requests, ReadRow(c) \/ ReadNothing(c) \/ Warm(c)
  PROVE  Turn(c)
<1>1. CASE ReadRow(c)
  <2> DEFINE h == [req[c] EXCEPT !.at = "loaded", !.object = c]
  <2>1. /\ req[c].at = "loading" /\ row[req[c].run] # Nothing /\ req[c].run \in Runs
        /\ heap' = [heap EXCEPT ![c] = row[req[c].run].object]
        /\ UNCHANGED <<row, granted, refused, started, faults>>
        /\ heap[c] = Nothing /\ req[c] \in Handler
    BY <1>1, Given DEF ReadRow, WorkflowIInv, Placed
  <2>2. /\ h.at = "loaded" /\ h.run = req[c].run /\ h.key = req[c].key
        /\ h.stored = req[c].stored /\ h.decision = req[c].decision
        /\ h.upsert = req[c].upsert
    BY <2>1 DEF Handler
  <2>3. req' = [req EXCEPT ![c] = h]
    BY <1>1 DEF ReadRow, WorkflowIInv, WorkflowTypeOK, Handler
  <2> HIDE DEF h
  <2>4. req'[c] = h /\ \A d \in Requests \ {c} : req'[d] = req[d]
    BY <2>3, TurnOf
  <2>5. req[c].key = NoKey /\ req[c].stored = Nothing /\ req[c].upsert = "none"
    BY <2>1 DEF HandlerInv
  <2>6. Copied(c)
    BY <2>1, <2>2, <2>4, <2>5 DEF Copied, Wrote, Unscored, Unstored
  <2> QED
    BY <2>1, <2>4, <2>6 DEF Turn
<1>2. CASE ReadNothing(c)
  <2>1. /\ Answer(c, req[c]) /\ req[c].at = "loading"
        /\ UNCHANGED <<heap, row, granted, refused, started>>
        /\ faults' = 0 => faults = 0
    BY <1>2, Given DEF ReadNothing, Fault
  <2>2. Waiting(c)
    BY <2>1, AnswerTurn DEF Waiting, Unscored, Unstored, HandlerInv
  <2> QED
    BY <2>1, <2>2, AnswerTurn DEF Turn
<1>3. CASE Warm(c) /\ req[c].decision = Nothing
  <2>1. /\ Answer(c, req[c]) /\ req[c].at = "loaded"
        /\ UNCHANGED <<heap, row, granted, refused, started, faults>>
    BY <1>3 DEF Warm
  <2>2. Waiting(c)
    BY <2>1, AnswerTurn DEF Waiting, Unscored, Unstored, HandlerInv
  <2> QED
    BY <2>1, <2>2, AnswerTurn DEF Turn
<1>4. CASE Warm(c) /\ req[c].decision # Nothing
  <2> DEFINE h == req[c]
             q == Put(cache[h.replica], c, h.run)
  <2>1. /\ h \in Handler /\ h.at = "loaded" /\ h.object = c /\ heap[c] # Nothing
        /\ h.key = NoKey /\ h.stored = Nothing /\ h.upsert = "none"
        /\ heap[c].run = h.run
    BY <1>4, Given DEF Warm, WorkflowIInv, DriveInv, HandlerInv
  <2>2. Resume(c, h, heap[h.object], q) /\ UNCHANGED <<row, faults>> /\ req[c].at = "loaded"
    BY <1>4, <2>1 DEF Warm
  <2> HIDE DEF h, q
  <2> QED
    BY <2>1, <2>2, ResumeTurn
<1> QED
  BY <1>1, <1>2, <1>3, <1>4

\* A request at a step of its run.
LEMMA StepTurn ==
  ASSUME WorkflowIInv, HandlerInv, RunKeyInv, NEW c \in Requests,
         StepSucceeds(c) \/ StepRetries(c) \/ StepFails(c) \/ BranchRaises(c)
  PROVE  Turn(c)
<1> DEFINE o == req[c].object
<1>1. /\ req[c].at = "stepping" /\ UNCHANGED <<row, granted, refused, faults>>
      /\ req[c].stored = Nothing /\ req[c].upsert = "none"
  BY DEF StepSucceeds, StepRetries, StepFails, BranchRaises, HandlerInv
<1>2. /\ req[c] \in Handler /\ req[c].step \in Steps
      /\ o \in Requests /\ heap[o] # Nothing
      /\ Sound(Attempted(c)) /\ Attempted(c).status = "running"
  BY <1>1, Stepping
<1>3. Attempted(c).run = req[c].run
  BY <1>1, <1>2 DEF RunKeyInv, Attempted, Sound, Object
<1>4. CASE StepSucceeds(c)
  <2>1. PICK s \in Succ[req[c].step] :
          Drive(c, req[c], Attempted(c), s, cache[req[c].replica])
    BY <1>4 DEF StepSucceeds
  <2>2. s \in Steps \union {End}
    <3> Succ[req[c].step] \subseteq Steps \union {End}
      BY <1>2, WorkflowAssumption
    <3> QED
      OBVIOUS
  <2>3. /\ \A d \in Requests \ {c} : req'[d] = req[d]
        /\ SameWork(c) /\ Drove(c, o, Attempted(c), s)
    <3> DEFINE h == req[c]
               x == Attempted(c)
               q == cache[req[c].replica]
    <3>1. Drive(c, h, x, s, q)
      BY <2>1
    <3> HIDE DEF h, x, q
    <3> QED
      BY <1>1, <1>2, <1>3, <2>2, <3>1, DriveTurn DEF SameWork, h, x, q
  <2>4. Stepped(c)
    BY <1>1, <2>3 DEF Stepped
  <2> QED
    BY <1>1, <2>3, <2>4 DEF Turn
<1>5. CASE StepRetries(c)
  <2> DEFINE h == [req[c] EXCEPT !.attempt = @ + 1]
  <2>1. heap' = [heap EXCEPT ![o] = Attempted(c)] /\ UNCHANGED started
    BY <1>5 DEF StepRetries
  <2>2. req' = [req EXCEPT ![c] = h]
    BY <1>5, Given DEF StepRetries, WorkflowIInv, WorkflowTypeOK, Handler
  <2>3. /\ h.at = "stepping" /\ h.step = req[c].step /\ h.object = o
        /\ h.run = req[c].run /\ h.key = req[c].key
        /\ h.stored = Nothing /\ h.upsert = "none"
    BY <1>1, <1>2 DEF Handler
  <2> HIDE DEF h
  <2>4. req'[c] = h /\ \A d \in Requests \ {c} : req'[d] = req[d]
    BY <2>2, TurnOf
  <2>5. Tried(c)
    BY <1>1, <2>1, <2>3, <2>4 DEF Tried, SameWork, Unscored, Unstored, Wrote
  <2> QED
    BY <1>1, <2>4, <2>5 DEF Turn
<1>6. CASE StepFails(c)
  <2> DEFINE y == [Attempted(c) EXCEPT !.status = "failed"]
             h == [req[c] EXCEPT !.at = "storing", !.stored = y, !.step = Nothing, !.attempt = 0]
  <2>1. heap' = [heap EXCEPT ![o] = y] /\ UNCHANGED started /\ req' = [req EXCEPT ![c] = h]
    BY <1>6 DEF StepFails, PutAway
  <2>2. /\ h.at = "storing" /\ h.object = o /\ h.run = req[c].run /\ h.key = req[c].key
        /\ h.stored = y /\ h.upsert = "none"
    BY <1>1, <1>2 DEF Handler
  <2> HIDE DEF h
  <2>3. req'[c] = h /\ \A d \in Requests \ {c} : req'[d] = req[d]
    BY <2>1, TurnOf
  <2>4. Tried(c)
    BY <1>1, <2>1, <2>2, <2>3 DEF Tried, SameWork, Unscored, Wrote
  <2> QED
    BY <1>1, <2>3, <2>4 DEF Turn
<1>7. CASE BranchRaises(c)
  <2>1. /\ heap' = [heap EXCEPT ![o] = Attempted(c)] /\ UNCHANGED started
        /\ Answer(c, req[c])
    BY <1>7 DEF BranchRaises
  <2>2. Tried(c)
    BY <1>1, <2>1, AnswerTurn DEF Tried, Unscored, Unstored, Wrote
  <2> QED
    BY <1>1, <2>1, <2>2, AnswerTurn DEF Turn
<1> QED
  BY <1>4, <1>5, <1>6, <1>7

\* A request in upsert_run: it looks for the row, and writes it or not.
LEMMA UpsertTurn ==
  ASSUME WorkflowIInv, HandlerInv, NEW c \in Requests,
         UpsertLoad(c) \/ UpsertCommit(c) \/ UpsertFails(c)
  PROVE  Turn(c)
<1>1. req[c] \in Handler /\ req[c].at = "storing"
  BY Given DEF UpsertLoad, UpsertCommit, UpsertFails
<1>2. CASE UpsertLoad(c)
  <2>1. PICK u \in {"insert", "update"} : req' = [req EXCEPT ![c] = [req[c] EXCEPT !.upsert = u]]
    BY <1>2 DEF UpsertLoad, WorkflowIInv, WorkflowTypeOK, Handler
  <2> DEFINE h == [req[c] EXCEPT !.upsert = u]
  <2>2. /\ h.at = "storing" /\ h.run = req[c].run /\ h.key = req[c].key
        /\ h.object = req[c].object /\ h.stored = req[c].stored /\ h.upsert = u
    BY <1>1 DEF Handler
  <2>3. req' = [req EXCEPT ![c] = h]
    BY <2>1
  <2> HIDE DEF h
  <2>4. req'[c] = h /\ \A d \in Requests \ {c} : req'[d] = req[d]
    BY <2>3, TurnOf
  <2>5. UNCHANGED <<heap, row, granted, refused, started, faults>>
    BY <1>2 DEF UpsertLoad
  <2>6. Looked(c)
    BY <1>1, <2>2, <2>4, <2>5 DEF Looked, SameWork, Unscored
  <2> QED
    BY <1>1, <2>4, <2>5, <2>6 DEF Turn
<1>3. ASSUME NEW u \in {"done", "failed"}, Upserted(c, u)
      PROVE  /\ \A d \in Requests \ {c} : req'[d] = req[d]
             /\ req'[c].at = "answered" /\ SameWork(c)
             /\ req'[c].stored = req[c].stored /\ req'[c].upsert = u
  <2> DEFINE h == [req[c] EXCEPT !.at = "answered", !.upsert = u]
  <2>1. /\ h.at = "answered" /\ h.run = req[c].run /\ h.key = req[c].key
        /\ h.object = req[c].object /\ h.stored = req[c].stored /\ h.upsert = u
    BY <1>1 DEF Handler
  <2>2. req' = [req EXCEPT ![c] = h]
    BY <1>3 DEF Upserted, WorkflowIInv, WorkflowTypeOK
  <2> HIDE DEF h
  <2>3. req'[c] = h /\ \A d \in Requests \ {c} : req'[d] = req[d]
    BY <2>2, TurnOf
  <2> QED
    BY <2>1, <2>3 DEF SameWork
<1>4. CASE UpsertCommit(c)
  <2>1. Upserted(c, "done") /\ UNCHANGED <<heap, granted, refused, started, faults>>
    BY <1>4 DEF UpsertCommit
  <2>2. Kept(c)
    BY <1>1, <1>3, <1>4, <2>1 DEF Kept, Unscored
  <2> QED
    BY <1>1, <1>3, <2>1, <2>2 DEF Turn
<1>5. CASE UpsertFails(c)
  <2>1. /\ Upserted(c, "failed") /\ UNCHANGED <<heap, row, granted, refused, started>>
        /\ faults' # 0 \/ Conflicts(c)
        /\ faults' = 0 => faults = 0
    BY <1>5, Given DEF UpsertFails, Fault
  <2>2. Kept(c)
    BY <1>1, <1>3, <2>1 DEF Kept, Unscored
  <2> QED
    BY <1>1, <1>3, <2>1, <2>2 DEF Turn
<1> QED
  BY <1>2, <1>4, <1>5

\* Every step is one request's turn, or some requests' deaths.
LEMMA EveryTurn ==
  ASSUME WorkflowIInv, HandlerInv, RunKeyInv, [WorkflowNext]_vars
  PROVE  (\E c \in Requests : Turn(c)) \/ Deaths
<1>1. ASSUME NEW c \in Requests, UpsertLoad(c) \/ UpsertCommit(c) \/ UpsertFails(c)
      PROVE  Turn(c)
  BY <1>1, UpsertTurn
<1>2. ASSUME NEW p \in Replicas, Restart(p) PROVE Deaths
  <2> SUFFICES ASSUME NEW c \in Requests
               PROVE  \/ req'[c] = req[c]
                      \/ /\ req[c].at # "answered" /\ req'[c].at = "dead"
                         /\ req'[c].upsert = req[c].upsert
    BY <1>2 DEF Restart, Deaths, Unscored
  <2> DEFINE h == [req[c] EXCEPT !.at = "dead"]
  <2>1. req[c] \in Handler
    BY Given
  <2>2. h.at = "dead" /\ h.upsert = req[c].upsert
    BY <2>1 DEF Handler
  <2>3. req'[c] = req[c] \/ (req[c].at # "answered" /\ req'[c] = h)
    BY <1>2 DEF Restart
  <2> HIDE DEF h
  <2> QED
    BY <2>2, <2>3
<1>3. CASE UNCHANGED vars
  BY <1>3 DEF vars, Deaths, Unscored
<1> QED
  BY <1>1, <1>2, <1>3, ArrivesTurn, LoadTurn, StepTurn DEF WorkflowNext, Proceeds

-----------------------------------------------------------------------------
(* The key of an answered run                                                *)

\* The drive's loop head decides on no gate, and waits only at one not yet approved.
LEMMA AtStepKeeps ==
  ASSUME NEW x, Sound(x), x.status = "running", NEW s \in Steps \union {End}
  PROVE  /\ AtStep(x, s).approved = x.approved
         /\ AtStep(x, s).pending # Nothing => AtStep(x, s).pending = s /\ s \notin x.approved
<1>0. x \in Object /\ x.pending = Nothing
  BY DEF Sound
<1> QED
  BY <1>0, WorkflowAssumption DEF AtStep, Object

\* The turn gives object o the content y, of the run that o is an object of, and with
\* the approvals that o has.
Writes(c, o, y) ==
  /\ o \in Requests /\ y \in Object /\ Wrote(o, y)
  /\ heap[o] # Nothing => heap[o].run = y.run /\ heap[o].approved \subseteq y.approved
  /\ req'[c].at \in {"loaded", "stepping", "storing", "answered"}
  /\ req'[c].at = "loaded" => o = c /\ req'[c].run = y.run
  /\ req'[c].at \in {"stepping", "storing"} => req'[c].object = o /\ req'[c].run = y.run
  /\ req'[c].at = "storing" => req'[c].stored = y

\* A turn writes at most one object, and what the request stores is what it has written.
LEMMA TurnWrites ==
  ASSUME WorkflowIInv, RunKeyInv, NEW c \in Requests, Turn(c)
  PROVE  \/ UNCHANGED heap /\ (req'[c].at \in {"loading", "answered"} \/ Looked(c))
         \/ \E o \in Requests : \E y \in Object : Writes(c, o, y)
<1>1. CASE Waiting(c) \/ Looked(c) \/ Kept(c)
  BY <1>1 DEF Waiting, Looked, Kept
<1>2. CASE Copied(c)
  <2>1. PICK r \in Runs : row[r] # Nothing /\ req'[c].run = r /\ Wrote(c, row[r].object)
    BY <1>2 DEF Copied
  <2>2. row[r].object \in Object /\ row[r].object.run = r
    BY <2>1, Given DEF Sound, RunKeyInv
  <2>3. Writes(c, c, row[r].object)
    BY <1>2, <2>1, <2>2 DEF Writes, Copied
  <2> QED
    BY <2>2, <2>3
<1>3. ASSUME NEW o, NEW x, NEW s, Drove(c, o, x, s),
             heap[o] # Nothing => heap[o].run = x.run /\ heap[o].approved \subseteq x.approved
      PROVE  Writes(c, o, AtStep(x, s)) /\ o \in Requests /\ AtStep(x, s) \in Object
  <2>1. /\ Sound(AtStep(x, s)) /\ AtStep(x, s).run = x.run
        /\ AtStep(x, s).approved = x.approved
    BY <1>3, AtStepSound, AtStepKeeps DEF Drove
  <2> QED
    BY <1>3, <2>1 DEF Drove, Writes, Sound
<1>4. CASE Began(c)
  BY <1>3, <1>4 DEF Began
<1>5. ASSUME req[c].at = "stepping"
      PROVE  LET o == req[c].object IN
               /\ o \in Requests /\ heap[o] # Nothing /\ Attempted(c) \in Object
               /\ Attempted(c).run = heap[o].run /\ heap[o].run = req[c].run
               /\ Attempted(c).approved = heap[o].approved
  <2>1. heap[req[c].object] \in Object
    BY <1>5, Stepping DEF WorkflowIInv, DriveInv, Sound
  <2> QED
    BY <1>5, <2>1, Stepping DEF Attempted, Object, Sound, RunKeyInv
<1>6. CASE Stepped(c)
  BY <1>3, <1>5, <1>6 DEF Stepped
<1>7. CASE Tried(c)
  <2> DEFINE o == req[c].object
             y == [Attempted(c) EXCEPT !.status = "failed"]
  <2>1. /\ o \in Requests /\ Attempted(c) \in Object
        /\ Attempted(c).run = heap[o].run /\ heap[o].run = req[c].run
        /\ Attempted(c).approved = heap[o].approved
    BY <1>5, <1>7 DEF Tried
  <2>2. y \in Object /\ y.run = heap[o].run /\ y.approved = heap[o].approved
    BY <2>1 DEF Object, Terminal
  <2>3. CASE Wrote(o, Attempted(c)) /\ req'[c].at \in {"stepping", "answered"}
    <3>1. Writes(c, o, Attempted(c))
      BY <1>7, <2>1, <2>3 DEF Writes, Tried, SameWork
    <3> QED
      BY <2>1, <3>1
  <2>4. CASE Wrote(o, y) /\ req'[c].at = "storing" /\ req'[c].stored = y
    <3>1. Writes(c, o, y)
      BY <1>7, <2>1, <2>2, <2>4 DEF Writes, Tried, SameWork
    <3> QED
      BY <2>1, <2>2, <3>1
  <2> QED
    BY <1>7, <2>3, <2>4 DEF Tried
<1>8. CASE Approved(c)
  <2>1. PICK o \in Requests :
          /\ Decided(c, o)
          /\ Drove(c, o, [heap[o] EXCEPT !.status = "running", !.pending = Nothing,
                                         !.approved = @ \union {heap[o].pending}],
                   heap[o].pending)
    BY <1>8 DEF Approved
  <2> DEFINE x == [heap[o] EXCEPT !.status = "running", !.pending = Nothing,
                                  !.approved = @ \union {heap[o].pending}]
  <2>2. heap[o].run = req'[c].run /\ heap[o] \in Object
    BY <2>1 DEF Decided, WorkflowIInv, DriveInv, Sound
  <2>3. x.run = heap[o].run /\ heap[o].approved \subseteq x.approved
    BY <2>2 DEF Object
  <2>4. Drove(c, o, x, heap[o].pending)
    BY <2>1
  <2> HIDE DEF x
  <2> QED
    BY <1>3, <2>3, <2>4
<1>9. CASE Rejected(c)
  <2>1. PICK o \in Requests :
          LET y == [heap[o] EXCEPT !.status = "rejected", !.pending = Nothing,
                                   !.rejected = @ \union {heap[o].pending}]
          IN  Decided(c, o) /\ Wrote(o, y) /\ req'[c].at = "storing" /\ req'[c].stored = y
    BY <1>9 DEF Rejected
  <2> DEFINE y == [heap[o] EXCEPT !.status = "rejected", !.pending = Nothing,
                                  !.rejected = @ \union {heap[o].pending}]
  <2>2. heap[o] \in Object /\ heap[o].pending \in Gates
    BY <2>1 DEF Decided, WorkflowIInv, DriveInv, Sound
  <2>3. y \in Object /\ y.run = heap[o].run /\ y.approved = heap[o].approved
    BY <2>2 DEF Object, Terminal
  <2>4. Writes(c, o, y)
    <3>1. Wrote(o, y) /\ req'[c].at = "storing" /\ req'[c].stored = y
      BY <2>1
    <3> HIDE DEF y
    <3> QED
      BY <2>1, <2>3, <3>1 DEF Writes, Decided
  <2> QED
    BY <2>3, <2>4
<1> QED
  BY <1>1, <1>2, <1>4, <1>6, <1>7, <1>8, <1>9 DEF Turn

\* Objects are not forgotten: each stays an object of its run, with its approvals; and a
\* turn makes one object at most.
LEMMA ObjectsStay ==
  ASSUME WorkflowIInv, RunKeyInv, NEW c \in Requests, Turn(c)
  PROVE  /\ \A o \in Requests :
              heap[o] # Nothing => /\ heap'[o] # Nothing /\ heap'[o].run = heap[o].run
                                   /\ heap[o].approved \subseteq heap'[o].approved
         /\ \A r \in Runs : Copies(r) \subseteq Copies(r)'
         /\ \E o \in Requests : \A p \in Requests \ {o} : heap'[p] = heap[p]
<1> DEFINE Stays(o) == heap[o] # Nothing => /\ heap'[o] # Nothing /\ heap'[o].run = heap[o].run
                                            /\ heap[o].approved \subseteq heap'[o].approved
<1>1. (\A o \in Requests : Stays(o))
      /\ \E o \in Requests : \A p \in Requests \ {o} : heap'[p] = heap[p]
  <2>1. CASE UNCHANGED heap
    BY <2>1
  <2>2. ASSUME NEW p \in Requests, NEW y \in Object, Writes(c, p, y)
        PROVE  (\A o \in Requests : Stays(o)) /\ \A o \in Requests \ {p} : heap'[o] = heap[o]
    BY <2>2, NothingAssumption DEF Writes, Wrote, WorkflowIInv, WorkflowTypeOK
  <2> QED
    BY <2>1, <2>2, TurnWrites
<1> QED
  BY <1>1 DEF Copies

\* Another object of a run is its first, or a copy of its row.
LEMMA NewCopy ==
  ASSUME WorkflowIInv, RunKeyInv, NEW c \in Requests, Turn(c),
         NEW r \in Runs, NEW o \in Copies(r)', o \notin Copies(r)
  PROVE  row[r] # Nothing \/ (Copies(r) = {} /\ Began(c))
<1>0. o \in Requests /\ heap'[o] # Nothing /\ heap'[o].run = r
  BY DEF Copies
<1>1. heap[o] = Nothing
  <2>1. heap[o] # Nothing => heap[o].run = r
    BY <1>0, ObjectsStay
  <2> QED
    BY <1>0, <2>1 DEF Copies
<1>2. PICK p \in Requests, y \in Object : Writes(c, p, y)
  BY <1>0, <1>1, TurnWrites
<1>3. p = o /\ heap'[o] = y
  BY <1>0, <1>1, <1>2 DEF Writes, Wrote, WorkflowIInv, WorkflowTypeOK
<1>4. CASE Copied(c)
  <2>1. PICK q \in Runs : row[q] # Nothing /\ Wrote(c, row[q].object)
    BY <1>4 DEF Copied
  <2>2. c = o /\ heap'[c] = row[q].object
    BY <1>0, <1>1, <1>3, <2>1 DEF Wrote, WorkflowIInv, WorkflowTypeOK
  <2>3. q = r
    BY <1>0, <2>1, <2>2 DEF RunKeyInv
  <2> QED
    BY <2>1, <2>3
<1>5. CASE Began(c)
  <2>1. PICK q \in Runs : Copies(q) = {} /\ Drove(c, c, NewRun(q), Entry)
    BY <1>5 DEF Began
  <2> DEFINE x == NewRun(q)
  <2>2. Drove(c, c, x, Entry) /\ x.run = q
    BY <2>1, NewRunSound
  <2> HIDE DEF x
  <2>3. AtStep(x, Entry).run = q
    BY <2>2, AtStepSound DEF Drove
  <2>4. c = o /\ heap'[c] = AtStep(x, Entry)
    BY <1>0, <1>1, <2>2 DEF Drove, Wrote, WorkflowIInv, WorkflowTypeOK
  <2>5. q = r
    BY <1>0, <2>3, <2>4
  <2> QED
    BY <1>5, <2>1, <2>5
<1>6. ~Stepped(c) /\ ~Tried(c) /\ ~Approved(c) /\ ~Rejected(c)
  <2>1. req[c].at = "stepping" => req[c].object \in Requests /\ req[c].object # o
    BY <1>1 DEF WorkflowIInv, DriveInv
  <2>2. ASSUME NEW q \in Requests, NEW z, Wrote(q, z) PROVE q = o
    BY <1>0, <1>1, <2>2 DEF Wrote, WorkflowIInv, WorkflowTypeOK
  <2>3. ~Stepped(c)
    BY <2>1, <2>2 DEF Stepped, Drove
  <2>4. ~Approved(c)
    BY <1>1, <2>2 DEF Approved, Drove, Decided
  <2>5. ~Rejected(c)
    BY <1>1, <2>2 DEF Rejected, Decided
  <2>6. ~Tried(c)
    BY <2>1, <2>2 DEF Tried
  <2> QED
    BY <2>3, <2>4, <2>5, <2>6
<1>7. ~Waiting(c) /\ ~Looked(c) /\ ~Kept(c)
  BY <1>0, <1>1 DEF Waiting, Looked, Kept
<1> QED
  BY <1>4, <1>5, <1>6, <1>7 DEF Turn

\* A request owes the store of a run, and of a key, only since it began the run, of which
\* it then makes the only object.
LEMMA OwesSince ==
  ASSUME WorkflowIInv, RunKeyInv, NEW c \in Requests, Turn(c), Owes(c)'
  PROVE  /\ UNCHANGED row
         /\ \/ Owes(c) /\ SameWork(c)
            \/ \E r \in Runs : /\ req'[c].run = r /\ req'[c].object = c
                              /\ Copies(r) = {} /\ row[r] = Nothing /\ Copies(r)' = {c}
<1> req'[c].key # NoKey /\ req'[c].at \in {"stepping", "storing"}
  BY DEF Owes
<1>1. CASE Began(c)
  <2>1. PICK r \in Runs : /\ Copies(r) = {} /\ row[r] = Nothing
                          /\ Drove(c, c, NewRun(r), Entry)
    BY <1>1 DEF Began
  <2> DEFINE x == NewRun(r)
  <2>2. Drove(c, c, x, Entry) /\ x.run = r
    BY <2>1, NewRunSound
  <2> HIDE DEF x
  <2>3. AtStep(x, Entry).run = r /\ AtStep(x, Entry) \in Object
    BY <2>2, AtStepSound DEF Drove, Sound
  <2>4. /\ heap'[c] = AtStep(x, Entry) /\ \A o \in Requests \ {c} : heap'[o] = heap[o]
        /\ req'[c].object = c /\ req'[c].run = r /\ UNCHANGED row
    BY <2>2 DEF Drove, Wrote, WorkflowIInv, WorkflowTypeOK
  <2>5. Copies(r)' = {c}
    BY <2>1, <2>3, <2>4, NothingAssumption DEF Copies
  <2> QED
    BY <2>1, <2>4, <2>5
<1>2. CASE Stepped(c) \/ Tried(c)
  BY <1>2 DEF Stepped, Tried, SameWork, Owes, Drove
<1>3. CASE Looked(c)
  BY <1>3 DEF Looked, SameWork, Owes
<1> QED
  BY <1>1, <1>2, <1>3 DEF Turn, Waiting, Kept, Copied, Approved, Rejected, Decided

\* What the handlers keep between their awaits, they keep.
LEMMA HandlerKept ==
  ASSUME WorkflowIInv, HandlerInv, RunKeyInv, NEW c \in Requests, Turn(c)
  PROVE  HandlerInv'
<1> SUFFICES ASSUME NEW d \in Requests
             PROVE  /\ req'[d].at \in {"idle", "loading", "loaded", "stepping"} => Unstored(d)
                    /\ req'[d].upsert \in {"done", "failed"} =>
                         req'[d].at = "answered" /\ req'[d].run \in Runs
                    /\ req'[d].at = "loading" => req'[d].key = NoKey
                    /\ req'[d].at = "loaded" /\ req'[d].decision # Nothing =>
                         req'[d].key = NoKey
                    /\ req'[d].at = "loaded" => heap'[d] # Nothing /\ heap'[d].run = req'[d].run
  BY DEF HandlerInv, Unstored
<1>1. CASE d # c
  BY <1>1, ObjectsStay DEF Turn, HandlerInv, Unstored
<1>2. CASE d = c
  <2>1. req'[c].at = "loaded" => heap'[c] # Nothing /\ heap'[c].run = req'[c].run
    <3>1. ASSUME NEW p \in Requests, NEW y \in Object, Writes(c, p, y)
          PROVE  req'[c].at = "loaded" => heap'[c] # Nothing /\ heap'[c].run = req'[c].run
      BY <3>1, NothingAssumption DEF Writes, Wrote, WorkflowIInv, WorkflowTypeOK
    <3> QED
      BY <3>1, TurnWrites DEF Looked
  <2>2. /\ req'[c].at \in {"idle", "loading", "loaded", "stepping"} => Unstored(c)
        /\ req'[c].upsert \in {"done", "failed"} =>
             req'[c].at = "answered" /\ req'[c].run \in Runs
        /\ req'[c].at = "loading" => req'[c].key = NoKey
        /\ req'[c].at = "loaded" /\ req'[c].decision # Nothing => req'[c].key = NoKey
    <3>1. ASSUME NEW o, NEW x, NEW s, Drove(c, o, x, s)
          PROVE  /\ req'[c].at \in {"stepping", "storing"} /\ req'[c].upsert = "none"
                 /\ req'[c].at = "stepping" => Unstored(c)
      BY <3>1 DEF Drove, Unstored
    <3>2. CASE Began(c) \/ Stepped(c) \/ Approved(c)
      BY <3>1, <3>2 DEF Began, Stepped, Approved
    <3>3. CASE Waiting(c) \/ Looked(c) \/ Kept(c) \/ Copied(c) \/ Tried(c) \/ Rejected(c)
      BY <3>3 DEF Waiting, Looked, Kept, Copied, Tried, Rejected, Unstored, SameWork,
                  WorkflowIInv, Placed
    <3> QED
      BY <3>2, <3>3 DEF Turn
  <2> QED
    BY <1>2, <2>1, <2>2
<1> QED
  BY <1>1, <1>2

\* A row that holds a key holds it on: a request that owes a key is the only one of its
\* run, and one without a key leaves the row's alone (upsert_run).
LEMMA HeldOn ==
  ASSUME WorkflowIInv, RunKeyInv, NEW c \in Requests, Turn(c), NEW k \in Keys,
         Holders(k) # {}
  PROVE  Holders(k)' # {}
<1>1. PICK r \in Runs : row[r] # Nothing /\ row[r].key = k
  BY DEF Holders
<1>2. k # NoKey
  BY WorkflowAssumption
<1>3. CASE UNCHANGED row
  BY <1>1, <1>2, <1>3 DEF Holders
<1>4. CASE UpsertCommit(c) /\ req[c].run # r
  <2>1. row'[r] = row[r]
    BY <1>1, <1>4 DEF UpsertCommit, WorkflowIInv, WorkflowTypeOK
  <2> QED
    BY <1>1, <1>2, <2>1 DEF Holders
<1>5. CASE UpsertCommit(c) /\ req[c].run = r
  <2>1. req[c].key = NoKey
    BY <1>1, <1>2, <1>5 DEF UpsertCommit, RunKeyInv, Owes
  <2>2. row'[r] = [object |-> req[c].stored, key |-> k]
    BY <1>1, <1>5, <2>1 DEF UpsertCommit, WorkflowIInv, WorkflowTypeOK
  <2>3. row'[r] # Nothing /\ row'[r].key = k
    <3>1. row'[r] \in [object: Object, key: Keys \union {NoKey}]
      <4>1. req[c].stored \in Object
        BY <1>5 DEF UpsertCommit, WorkflowIInv, DriveInv, Sound
      <4> QED
        BY <2>2, <4>1
    <3> QED
      BY <2>2, <3>1, NothingAssumption
  <2> QED
    BY <1>1, <1>2, <2>3 DEF Holders
<1> QED
  BY <1>3, <1>4, <1>5
     DEF Turn, Waiting, Looked, Kept, Copied, Began, Stepped, Tried, Approved, Rejected, Drove

\* What a request is answered after it has stored, its row has been tried to be written.
LEMMA StoredAnswer ==
  ASSUME NEW c \in Requests, Turn(c), req'[c].at = "answered"
  PROVE  Unstored(c) \/ Kept(c)
<1>1. /\ ~Approved(c) /\ ~Began(c) /\ ~Stepped(c) /\ ~Rejected(c) /\ ~Copied(c)
      /\ ~Looked(c)
  BY DEF Approved, Began, Stepped, Drove, Rejected, Copied, Looked
<1>2. CASE Tried(c)
  BY <1>2 DEF Tried
<1> QED
  BY <1>1, <1>2 DEF Turn, Waiting

\* A commit leaves a row, with the key of the request if it has one (upsert_run).
LEMMA CommitsObject ==
  ASSUME WorkflowIInv, NEW c \in Requests, UpsertCommit(c)
  PROVE  /\ req[c].run \in Runs /\ row'[req[c].run] # Nothing
         /\ req[c].key # NoKey => row'[req[c].run].key = req[c].key
<1> DEFINE h == req[c]
           old == row[h.run]
           key == IF h.key = NoKey /\ old # Nothing THEN old.key ELSE h.key
           new == [object |-> h.stored, key |-> key]
<1>1. /\ h \in Handler /\ h.run \in Runs /\ h.stored \in Object
      /\ row' = [row EXCEPT ![h.run] = new]
  BY Given DEF UpsertCommit, WorkflowIInv, DriveInv, Placed, Sound
<1>2. key \in Keys \union {NoKey}
  BY <1>1, Given DEF Handler
<1>3. new # Nothing /\ new.key = key
  BY <1>1, <1>2, NothingAssumption
<1>4. row'[h.run] = new
  <2> HIDE DEF new
  <2> QED
    BY <1>1, Given
<1> QED
  BY <1>1, <1>3, <1>4

\* Rows stay.
LEMMA RowsStay ==
  ASSUME WorkflowIInv, NEW c \in Requests, Turn(c)
  PROVE  \A r \in Runs : row[r] # Nothing => row'[r] # Nothing
<1> SUFFICES ASSUME NEW r \in Runs, row[r] # Nothing PROVE row'[r] # Nothing
  OBVIOUS
<1>1. CASE UpsertCommit(c) /\ req[c].run = r
  BY <1>1, CommitsObject
<1>2. CASE UpsertCommit(c) /\ req[c].run # r
  BY <1>2 DEF UpsertCommit, WorkflowIInv, WorkflowTypeOK
<1> QED
  BY <1>1, <1>2
     DEF Turn, Waiting, Looked, Kept, Copied, Began, Stepped, Tried, Approved, Rejected, Drove

\* What a request owes its row is left to it, after another's turn: the row's first writer
\* is the one that the run has been overtaken by.
LEMMA OwedStays ==
  ASSUME WorkflowIInv, WorkflowIInv', HandlerInv, RunKeyInv, NEW c \in Requests, Turn(c),
         NEW d \in Requests \ {c}, Owes(d)', NEW r \in Runs, req'[d].run = r
  PROVE  /\ req'[d].object = d
         /\ row'[r] = Nothing => Copies(r)' = {d}
         /\ row'[r] # Nothing => row'[r].key = NoKey /\ Overtaken(d)'
<1>1. req'[d] = req[d] /\ Owes(d) /\ req[d].run = r
  BY DEF Owes, Turn
<1>2. /\ req[d].object = d
      /\ row[r] = Nothing => Copies(r) = {d}
      /\ row[r] # Nothing => row[r].key = NoKey /\ Overtaken(d)
  BY <1>1 DEF RunKeyInv
<1>3. Overtaken(d) => Overtaken(d)'
  BY DEF Overtaken, Turn, HandlerInv
<1>4. CASE row'[r] = Nothing
  <2>1. row[r] = Nothing
    <3>1. CASE UNCHANGED row
      BY <1>4, <3>1
    <3>2. CASE UpsertCommit(c) /\ req[c].run # r
      BY <1>2, <1>4, <3>2 DEF UpsertCommit, WorkflowIInv, WorkflowTypeOK
    <3>3. CASE UpsertCommit(c) /\ req[c].run = r
      BY <1>2, <1>4, <3>3, CommitsObject
    <3> QED
      BY <3>1, <3>2, <3>3
         DEF Turn, Waiting, Looked, Kept, Copied, Began, Stepped, Tried, Approved, Rejected, Drove
  <2>2. Copies(r)' \subseteq Copies(r)
    BY <1>2, <2>1, NewCopy
  <2> QED
    BY <1>1, <1>2, <1>4, <2>1, <2>2, ObjectsStay
<1>5. CASE row'[r] # Nothing /\ row'[r] = row[r]
  BY <1>1, <1>2, <1>3, <1>5
<1>6. CASE row'[r] # Nothing /\ row'[r] # row[r]
  <2>1. Kept(c) /\ UpsertCommit(c) /\ req'[c].upsert = "done" /\ req[c].run = r
    BY <1>2, <1>6 DEF Turn, Waiting, Looked, Kept, Copied, Began, Stepped, Tried, Approved,
                      Rejected, Drove, UpsertCommit, WorkflowIInv, WorkflowTypeOK
  <2>2. req[c].at = "storing" /\ req'[c].object = req[c].object
    BY <2>1 DEF Kept, SameWork
  <2>3. req[c].key = NoKey
    BY <1>1, <2>1, <2>2 DEF RunKeyInv, Owes
  <2>4. row'[r].key = NoKey
    BY <1>2, <2>1, <2>3 DEF UpsertCommit, WorkflowIInv, WorkflowTypeOK
  <2>5. row[r] = Nothing => req[c].object = d
    BY <1>2, <2>1, <2>2 DEF RunKeyInv, Copies
  <2>6. Overtaken(d)'
    BY <1>2, <1>3, <2>1, <2>2, <2>5 DEF Overtaken
  <2> QED
    BY <1>1, <1>2, <1>6, <2>4, <2>6
<1> QED
  BY <1>1, <1>4, <1>5, <1>6

\* A request is answered with its key in a row, or the store has failed, or it has been
\* overtaken (upsert_run).
LEMMA KeyAnswered ==
  ASSUME WorkflowIInv, HandlerInv, RunKeyInv, NEW c \in Requests, Turn(c), Kept(c),
         NEW k \in Keys, req'[c].key = k, Holders(k)' = {}
  PROVE  /\ req'[c].upsert = "failed"
         /\ faults' = 0 => row'[req'[c].run] # Nothing /\ Overtaken(c)
<1> DEFINE h == req[c]
<1>1. /\ h.at = "storing" /\ h \in Handler /\ h.run \in Runs
      /\ h.key = k /\ k # NoKey /\ req'[c].run = h.run
  BY Given, WorkflowAssumption DEF Kept, SameWork, WorkflowIInv, Placed
<1>2. Holders(k) = {}
  BY <1>1, HeldOn
<1>3. ~UpsertCommit(c)
  <2> SUFFICES ASSUME UpsertCommit(c) PROVE FALSE
    OBVIOUS
  <2>1. row'[h.run] # Nothing /\ row'[h.run].key = k
    BY <1>1, CommitsObject
  <2> QED
    BY <1>1, <2>1 DEF Holders
<1>4. Conflicts(c) => row[h.run] # Nothing /\ Overtaken(c)
  BY <1>1, <1>2 DEF Conflicts, RunKeyInv, Owes
<1> QED
  BY <1>1, <1>3, <1>4 DEF Kept

\* A key that was answered is lost by no turn.
LEMMA KeyHeldKept ==
  ASSUME WorkflowIInv, WorkflowIInv', HandlerInv, RunKeyInv, NEW c \in Requests, Turn(c)
  PROVE  KeyHeldUnlessOvertaken'
<1> SUFFICES ASSUME NEW d \in Requests, req'[d].at = "answered", req'[d].key # NoKey,
                    NEW k, req'[d].key = k, Holders(k)' = {}
             PROVE  /\ req'[d].upsert # "done"
                    /\ req'[d].upsert = "failed" /\ faults' = 0 =>
                         row'[req'[d].run] # Nothing /\ Overtaken(d)'
  BY DEF KeyHeldUnlessOvertaken, Overtaken, Holders
<1>0. k \in Keys
  BY DEF WorkflowIInv, WorkflowTypeOK, Handler
<1>1. Overtaken(d) => Overtaken(d)'
  BY DEF Overtaken, Turn, HandlerInv
<1>2. CASE d = c
  <2>1. CASE Unstored(c)
    BY <1>2, <2>1 DEF Unstored
  <2>2. CASE Kept(c)
    BY <1>0, <1>1, <1>2, <2>2, KeyAnswered
  <2> QED
    BY <1>2, <2>1, <2>2, StoredAnswer
<1>3. CASE d # c
  <2>1. req'[d] = req[d] /\ (faults' = 0 => faults = 0)
    BY <1>3 DEF Turn
  <2>2. Holders(k) = {}
    BY <1>0, HeldOn
  <2>3. req[d].key = k
    BY <2>1
  <2>4. /\ req[d].upsert # "done"
        /\ req[d].upsert = "failed" /\ faults = 0 => row[req[d].run] # Nothing /\ Overtaken(d)
    BY <2>1, <2>2, <2>3 DEF RunKeyInv, KeyHeldUnlessOvertaken, Overtaken
  <2>5. req[d].upsert = "failed" /\ faults = 0 => row'[req[d].run] # Nothing
    BY <2>4, RowsStay DEF HandlerInv
  <2> QED
    BY <1>1, <2>1, <2>4, <2>5
<1> QED
  BY <1>2, <1>3

\* Each conjunct of RunKeyInv, after a turn.
LEMMA RunKeyKept ==
  ASSUME WorkflowIInv, WorkflowIInv', HandlerInv, RunKeyInv, NEW c \in Requests, Turn(c)
  PROVE  RunKeyInv'
<1> DEFINE h == req[c]
<1>1. UNCHANGED row \/ (Kept(c) /\ UpsertCommit(c) /\ h.run \in Runs)
  BY DEF Turn, Waiting, Looked, Kept, Copied, Began, Stepped, Tried, Approved, Rejected, Drove,
         WorkflowIInv, Placed
<1>2. /\ \A o \in Requests :
           heap[o] # Nothing => heap'[o] # Nothing /\ heap'[o].run = heap[o].run
      /\ \A r \in Runs : Copies(r) \subseteq Copies(r)'
  BY ObjectsStay
<1>3. ASSUME NEW r \in Runs, row'[r] # Nothing
      PROVE  row'[r].object.run = r /\ Copies(r)' # {}
  <2>1. CASE row'[r] = row[r]
    BY <1>2, <1>3, <2>1 DEF RunKeyInv
  <2>2. CASE row'[r] # row[r]
    <3>1. h.at = "storing" /\ h.run = r /\ row'[r].object = h.stored
      BY <1>1, <2>2 DEF UpsertCommit, WorkflowIInv, WorkflowTypeOK
    <3>2. h.object \in Copies(r) /\ h.stored.run = r
      BY <3>1 DEF RunKeyInv, Copies
    <3> QED
      BY <1>2, <3>1, <3>2
  <2> QED
    BY <2>1, <2>2
<1>4. ASSUME NEW d \in Requests, req'[d].at \in {"stepping", "storing"}
      PROVE  /\ req'[d].object \in Requests /\ heap'[req'[d].object] # Nothing
             /\ heap'[req'[d].object].run = req'[d].run
             /\ req'[d].at = "storing" => req'[d].stored.run = req'[d].run
  <2>1. CASE d # c
    BY <1>2, <1>4, <2>1 DEF Turn, RunKeyInv
  <2>2. CASE d = c /\ ~Looked(c)
    <3>1. PICK o \in Requests, y \in Object : Writes(c, o, y)
      BY <1>4, <2>2, TurnWrites
    <3>2. heap'[o] = y /\ y # Nothing
      BY <3>1, NothingAssumption DEF Writes, Wrote, WorkflowIInv, WorkflowTypeOK
    <3> QED
      BY <1>4, <2>2, <3>1, <3>2 DEF Writes
  <2>3. CASE d = c /\ Looked(c)
    BY <1>2, <2>3 DEF Looked, SameWork, RunKeyInv
  <2> QED
    BY <2>1, <2>2, <2>3
<1>5. ASSUME NEW d \in Requests, NEW e \in Requests, Owes(d)', Owes(e)', req'[d].run = req'[e].run
      PROVE  d = e
  <2>1. ASSUME NEW f \in Requests \ {c}, Owes(f)'
        PROVE  Owes(f) /\ req'[f] = req[f] /\ req[f].object \in Copies(req[f].run)
    BY <2>1 DEF Owes, Turn, RunKeyInv, Copies
  <2>2. ASSUME NEW f \in Requests \ {c}, Owes(f)', Owes(c)', req'[f].run = req'[c].run
        PROVE  FALSE
    <3>1. PICK r \in Runs : req'[f].run = r
      BY <2>1, <2>2 DEF WorkflowIInv, Placed, Owes
    <3>2. Owes(f) /\ req[f].run = r /\ req[f].object \in Copies(r)
      BY <2>1, <2>2, <3>1
    <3>3. CASE Owes(c) /\ SameWork(c)
      <4>1. req[c].run = req[f].run
        BY <2>2, <3>1, <3>2, <3>3 DEF SameWork
      <4> QED
        BY <3>2, <3>3, <4>1 DEF RunKeyInv
    <3>4. CASE ~(Owes(c) /\ SameWork(c))
      BY <2>2, <3>1, <3>2, <3>4, OwesSince
    <3> QED
      BY <3>3, <3>4
  <2> QED
    BY <1>5, <2>1, <2>2 DEF RunKeyInv
<1>6. ASSUME NEW d \in Requests, NEW r \in Runs, Owes(d)', req'[d].run = r
      PROVE  /\ req'[d].object = d
             /\ row'[r] = Nothing => Copies(r)' = {d}
             /\ row'[r] # Nothing => row'[r].key = NoKey /\ Overtaken(d)'
  <2>1. CASE d # c
    BY <1>6, <2>1, OwedStays
  <2>2. CASE d = c /\ Owes(c) /\ SameWork(c)
    <3>1. /\ UNCHANGED row /\ req'[c].object = c
          /\ row[r] = Nothing => Copies(r) = {c}
          /\ row[r] # Nothing => row[r].key = NoKey /\ Overtaken(c)
      BY <1>6, <2>2, OwesSince DEF RunKeyInv, SameWork
    <3>2. Overtaken(c) => Overtaken(c)'
      BY DEF Overtaken, Turn, HandlerInv
    <3>3. row[r] = Nothing => Copies(r)' = {c}
      BY <3>1, NewCopy, ObjectsStay
    <3> QED
      BY <2>2, <3>1, <3>2, <3>3
  <2>3. CASE d = c /\ ~(Owes(c) /\ SameWork(c))
    BY <1>6, <2>3, OwesSince
  <2> QED
    BY <2>1, <2>2, <2>3
<1> QED
  BY <1>3, <1>4, <1>5, <1>6, KeyHeldKept DEF RunKeyInv

\* Rows and handlers after some requests' deaths.
LEMMA DeathsKeepKeys ==
  ASSUME HandlerInv, RunKeyInv, Deaths
  PROVE  HandlerInv' /\ RunKeyInv'
<1>1. HandlerInv'
  BY DEF Deaths, HandlerInv
<1>2. /\ \A r \in Runs : Copies(r)' = Copies(r)
      /\ \A k : Holders(k)' = Holders(k)
      /\ \A c \in Requests : Owes(c)' => Owes(c) /\ req'[c] = req[c]
      /\ \A c \in Requests : req[c].upsert = "done" => req'[c] = req[c]
  BY DEF Deaths, Copies, Holders, Owes, HandlerInv
<1>3. \A c \in Requests : Overtaken(c) => Overtaken(c)'
  BY <1>2 DEF Overtaken
<1>4. KeyHeldUnlessOvertaken'
  <2> SUFFICES ASSUME NEW d \in Requests, req'[d].at = "answered", req'[d].key # NoKey,
                      NEW k, req'[d].key = k, Holders(k)' = {}
               PROVE  /\ req'[d].upsert # "done"
                      /\ req'[d].upsert = "failed" /\ faults' = 0 =>
                           row'[req'[d].run] # Nothing /\ Overtaken(d)'
    BY DEF KeyHeldUnlessOvertaken, Overtaken, Holders
  <2>1. req'[d] = req[d] /\ Holders(k) = {} /\ row' = row /\ faults' = faults
    BY <1>2 DEF Deaths
  <2> QED
    BY <1>3, <2>1 DEF RunKeyInv, KeyHeldUnlessOvertaken, Overtaken
<1>5. /\ \A r \in Runs : row'[r] # Nothing => row'[r].object.run = r /\ Copies(r)' # {}
      /\ \A c \in Requests : req'[c].at \in {"stepping", "storing"} => req'[c] = req[c]
  BY <1>2 DEF Deaths, RunKeyInv
<1>6. \A c \in Requests, r \in Runs : Owes(c)' /\ req'[c].run = r =>
        /\ req'[c].object = c
        /\ row'[r] = Nothing => Copies(r)' = {c}
        /\ row'[r] # Nothing => row'[r].key = NoKey /\ Overtaken(c)'
  BY <1>2, <1>3 DEF Deaths, RunKeyInv
<1>7. \A c, d \in Requests : Owes(c)' /\ Owes(d)' /\ req'[c].run = req'[d].run => c = d
  BY <1>2 DEF RunKeyInv
<1>8. \A c \in Requests : req'[c].at \in {"stepping", "storing"} =>
       /\ req'[c].object \in Requests /\ heap'[req'[c].object] # Nothing
       /\ heap'[req'[c].object].run = req'[c].run
       /\ req'[c].at = "storing" => req'[c].stored.run = req'[c].run
  BY <1>5 DEF Deaths, RunKeyInv
<1> QED
  BY <1>1, <1>4, <1>5, <1>6, <1>7, <1>8 DEF RunKeyInv

KeyIInv == WorkflowIInv /\ HandlerInv /\ RunKeyInv

\* At first no run has a row, and no request a run.
LEMMA KeyStart == WorkflowInit => KeyIInv
<1> SUFFICES ASSUME WorkflowInit PROVE KeyIInv
  OBVIOUS
<1>1. WorkflowIInv
  BY WorkflowStart
<1>2. \A c \in Requests : req[c] = Idle
  BY DEF WorkflowInit
<1>3. HandlerInv
  BY <1>2 DEF HandlerInv, Idle
<1>4. RunKeyInv
  BY <1>2 DEF RunKeyInv, Owes, KeyHeldUnlessOvertaken, Idle, WorkflowInit
<1> QED
  BY <1>1, <1>3, <1>4 DEF KeyIInv

LEMMA KeyStep == KeyIInv /\ [WorkflowNext]_vars => KeyIInv'
  BY WorkflowStep, EveryTurn, HandlerKept, RunKeyKept, DeathsKeepKeys DEF KeyIInv

\* A key once stored stays stored, whatever is written to its row later; and without a
\* failing store call a key that was answered is lost only if another request's decision on
\* the very object of the POST has inserted the run first (run_workflow, _store, upsert_run):
\* with any number of replicas, restarts and requests that use the key at the same time.
THEOREM KeysAreHeldUnlessOvertaken == WorkflowSpec => []KeyHeldUnlessOvertaken
<1>1. KeyIInv => KeyHeldUnlessOvertaken
  BY DEF KeyIInv, RunKeyInv
<1> QED
  BY <1>1, KeyStart, KeyStep, PTL DEF WorkflowSpec

-----------------------------------------------------------------------------
(* The gates of a run                                                        *)

\* R contains the steps' successors, is transitive, and leads no gate back to itself.
GateOrder(R) ==
  /\ \A s \in Steps : \A t \in Succ[s] \ {End} : <<s, t>> \in R
  /\ \A s, t, u \in Steps : <<s, t>> \in R /\ <<t, u>> \in R => <<s, u>> \in R
  /\ \A g \in Gates : <<g, g>> \notin R

\* No gate lies on a cycle of the workflow.
NoGateOnCycle == \E R \in SUBSET (Steps \X Steps) : GateOrder(R)

\* The approvals of an object that awaits another, or ends, lie before.
Past(x, R) == x.pending # Nothing => \A g \in x.approved : <<g, x.pending>> \in R

\* Gates are approved in the workflow's order.
PastInv(R) ==
  /\ \A o \in Requests : heap[o] # Nothing => Past(heap[o], R)
  /\ \A r \in Runs : row[r] # Nothing => Past(row[r].object, R)
  /\ \A c \in Requests : req[c].at = "storing" => Past(req[c].stored, R)
  /\ \A c \in Requests : req[c].at = "stepping" =>
       \A g \in heap[req[c].object].approved : g = req[c].step \/ <<g, req[c].step>> \in R

\* What the sole object of a run tells of its history.
Tells(r, x) ==
  \A g \in Gates :
    /\ started[<<r, g>>] <= 1
    /\ started[<<r, g>>] > 0 => g \in x.approved
    /\ <<r, g>> \in refused => x.status = "rejected" /\ started[<<r, g>>] = 0

GateInv(R) ==
  /\ PastInv(R)
  /\ \A r \in Runs : Copies(r) = {} =>
       \A g \in Gates : started[<<r, g>>] = 0 /\ <<r, g>> \notin refused
  /\ \A r \in Runs, o \in Requests : Copies(r) = {o} => Tells(r, heap[o])
  /\ \A r \in Runs : IsFiniteSet(Copies(r))
  /\ ApprovedOnly

\* A turn that writes object o, and leaves it and its request in order.
LEMMA PastWritten ==
  ASSUME WorkflowIInv, NEW R, PastInv(R), NEW c \in Requests, NEW o \in Requests,
         \A d \in Requests \ {c} : req'[d] = req[d],
         \A p \in Requests \ {o} : heap'[p] = heap[p],
         \A d \in Requests \ {c} : req[d].at = "stepping" => req[d].object # o,
         UNCHANGED row, Past(heap'[o], R),
         req'[c].at = "storing" => Past(req'[c].stored, R),
         req'[c].at = "stepping" =>
           \A g \in heap'[req'[c].object].approved :
             g = req'[c].step \/ <<g, req'[c].step>> \in R
  PROVE  PastInv(R)'
<1>1. ASSUME NEW d \in Requests, req'[d].at = "stepping"
      PROVE  \A g \in heap'[req'[d].object].approved :
               g = req'[d].step \/ <<g, req'[d].step>> \in R
  <2>1. CASE d # c
    <3>1. req'[d] = req[d] /\ req[d].object \in Requests /\ req[d].object # o
      BY <1>1, <2>1 DEF WorkflowIInv, DriveInv
    <3> QED
      BY <1>1, <3>1 DEF PastInv
  <2> QED
    BY <1>1, <2>1
<1>2. \A p \in Requests : heap'[p] # Nothing => Past(heap'[p], R)
  BY DEF PastInv
<1>3. \A d \in Requests : req'[d].at = "storing" => Past(req'[d].stored, R)
  BY DEF PastInv
<1> QED
  BY <1>1, <1>2, <1>3 DEF PastInv, Past

\* Past, of an object that a drive leaves (_drive): the gates before are approved, and the
\* gate it enters or waits at comes after them.
LEMMA DrovePast ==
  ASSUME WorkflowIInv, NEW R, PastInv(R), NEW c \in Requests, NEW o, NEW x, NEW s,
         Drove(c, o, x, s), s # End => \A g \in x.approved : g = s \/ <<g, s>> \in R,
         \A d \in Requests \ {c} : req'[d] = req[d],
         \A d \in Requests \ {c} : req[d].at = "stepping" => req[d].object # o
  PROVE  PastInv(R)'
<1> DEFINE y == AtStep(x, s)
<1>1. /\ heap'[o] = y /\ \A p \in Requests \ {o} : heap'[p] = heap[p]
  BY DEF Drove, Wrote, WorkflowIInv, WorkflowTypeOK
<1>2. /\ y.approved = x.approved
      /\ y.pending # Nothing => y.pending = s /\ s \notin x.approved
      /\ Sound(y)
      /\ y.status = "running" => s \in Steps
  BY AtStepKeeps, AtStepSound DEF Drove
<1>3. y.pending # Nothing => s # End
  BY <1>2, WorkflowAssumption DEF Sound, Object
<1>4. Past(y, R)
  BY <1>2, <1>3 DEF Past
<1>5. y.status = "running" => s # End
  BY <1>2, WorkflowAssumption
<1> HIDE DEF y
<1>6. /\ req'[c].at = "storing" => Past(req'[c].stored, R)
      /\ req'[c].at = "stepping" =>
           \A g \in heap'[req'[c].object].approved :
             g = req'[c].step \/ <<g, req'[c].step>> \in R
  BY <1>1, <1>2, <1>4, <1>5 DEF Drove, y
<1>7. o \in Requests /\ UNCHANGED row /\ Past(heap'[o], R)
  BY <1>1, <1>4 DEF Drove
<1> QED
  BY <1>1, <1>6, <1>7, PastWritten

\* Gates are approved in the workflow's order, in every object, row and pending store.
LEMMA PastKept ==
  ASSUME WorkflowIInv, HandlerInv, RunKeyInv, NEW R, GateOrder(R), PastInv(R),
         NEW c \in Requests, Turn(c)
  PROVE  PastInv(R)'
<1> USE DEF Turn
<1>1. CASE Waiting(c)
  <2>1. \A d \in Requests : req'[d].at \in {"stepping", "storing"} => req'[d] = req[d]
    BY <1>1 DEF Waiting
  <2> QED
    BY <1>1, <2>1 DEF Waiting, PastInv, Past
<1>11. CASE Looked(c)
  <2>1. \A d \in Requests : /\ req'[d].at = "stepping" => req'[d] = req[d]
                            /\ req'[d].at = "storing" =>
                                 req[d].at = "storing" /\ req'[d].stored = req[d].stored
    BY <1>11 DEF Looked
  <2> QED
    BY <1>11, <2>1 DEF Looked, PastInv, Past
<1>2. CASE Kept(c)
  <2>1. \A d \in Requests : req'[d].at \in {"stepping", "storing"} => req'[d] = req[d]
    BY <1>2 DEF Kept
  <2>2. \A r \in Runs : row'[r] # Nothing => Past(row'[r].object, R)
    <3>1. \A r \in Runs : row'[r] = row[r] \/ row'[r].object = req[c].stored
      BY <1>2 DEF Kept, UpsertCommit, WorkflowIInv, WorkflowTypeOK
    <3> QED
      BY <1>2, <3>1 DEF Kept, PastInv
  <2> QED
    BY <1>2, <2>1, <2>2 DEF Kept, PastInv, Past
<1>3. CASE Copied(c)
  <2>1. PICK r \in Runs : row[r] # Nothing /\ Wrote(c, row[r].object)
    BY <1>3 DEF Copied
  <2>2. heap'[c] = row[r].object /\ \A p \in Requests \ {c} : heap'[p] = heap[p]
    BY <2>1 DEF Wrote, WorkflowIInv, WorkflowTypeOK
  <2>3. \A d \in Requests : req[d].at = "stepping" => req[d].object # c
    BY <1>3 DEF Copied, WorkflowIInv, DriveInv
  <2> QED
    BY <1>3, <2>1, <2>2, <2>3, PastWritten DEF Copied, PastInv
<1>4. CASE Began(c)
  <2>1. PICK r \in Runs : Drove(c, c, NewRun(r), Entry) /\ heap[c] = Nothing
    BY <1>4 DEF Began
  <2>2. NewRun(r).approved = {}
    BY DEF NewRun
  <2>3. \A d \in Requests : req[d].at = "stepping" => req[d].object # c
    BY <2>1 DEF WorkflowIInv, DriveInv
  <2>4. UNCHANGED row
    BY <2>1 DEF Drove
  <2> DEFINE x == NewRun(r)
             s == Entry
  <2>5. Drove(c, c, x, s) /\ x.approved = {}
    BY <2>1, <2>2
  <2> HIDE DEF x, s
  <2> QED
    BY <2>3, <2>4, <2>5, DrovePast
<1>5. ASSUME req[c].at = "stepping"
      PROVE  LET o == req[c].object IN
               /\ o \in Requests /\ Attempted(c) \in Object
               /\ Attempted(c).approved = heap[o].approved
               /\ Attempted(c).pending = Nothing
               /\ \A d \in Requests \ {c} : req[d].at = "stepping" => req[d].object # o
  <2>1. heap[req[c].object] \in Object
    BY <1>5, Stepping DEF WorkflowIInv, DriveInv, Sound
  <2> QED
    BY <1>5, <2>1, Stepping DEF Attempted, Object, Sound
<1>6. CASE Stepped(c)
  <2> DEFINE o == req[c].object
             x == Attempted(c)
  <2>1. PICK s \in Succ[req[c].step] : Drove(c, o, x, s)
    BY <1>6 DEF Stepped
  <2>2. ASSUME s # End, NEW g \in x.approved PROVE <<g, s>> \in R
    <3>1. g = req[c].step \/ <<g, req[c].step>> \in R
      BY <1>5, <1>6, <2>2 DEF Stepped, PastInv
    <3>2. req[c].step \in Steps /\ s \in Steps /\ g \in Steps
      BY <1>5, <1>6, <2>1, <2>2, Stepping, WorkflowAssumption DEF Stepped, Drove, Object
    <3>3. <<req[c].step, s>> \in R
      BY <2>2, <3>2 DEF GateOrder
    <3> QED
      BY <3>1, <3>2, <3>3 DEF GateOrder
  <2>3. /\ o \in Requests /\ UNCHANGED row
        /\ \A d \in Requests \ {c} : req[d].at = "stepping" => req[d].object # o
    BY <1>5, <1>6, <2>1 DEF Stepped, Drove
  <2> HIDE DEF o, x
  <2> QED
    BY <2>1, <2>2, <2>3, DrovePast
<1>7. CASE Tried(c)
  <2> DEFINE o == req[c].object
             y == [Attempted(c) EXCEPT !.status = "failed"]
  <2>1. /\ o \in Requests /\ Past(Attempted(c), R)
        /\ Attempted(c).approved = heap[o].approved
        /\ \A d \in Requests \ {c} : req[d].at = "stepping" => req[d].object # o
    BY <1>5, <1>7 DEF Tried, Past
  <2>2. Past(y, R)
    BY <1>5, <1>7 DEF Tried, Past, Object
  <2>3. UNCHANGED row /\ req'[c].object = o
    BY <1>7 DEF Tried, SameWork
  <2>4. CASE Wrote(o, Attempted(c)) /\ req'[c].at = "answered"
    <3>1. heap'[o] = Attempted(c) /\ \A p \in Requests \ {o} : heap'[p] = heap[p]
      BY <2>1, <2>4 DEF Wrote, WorkflowIInv, WorkflowTypeOK
    <3> HIDE DEF o
    <3> QED
      BY <2>1, <2>3, <2>4, <3>1, PastWritten
  <2>5. CASE Wrote(o, Attempted(c)) /\ req'[c].at = "stepping" /\ req'[c].step = req[c].step
    <3>1. heap'[o] = Attempted(c) /\ \A p \in Requests \ {o} : heap'[p] = heap[p]
      BY <2>1, <2>5 DEF Wrote, WorkflowIInv, WorkflowTypeOK
    <3>2. \A g \in heap'[o].approved : g = req'[c].step \/ <<g, req'[c].step>> \in R
      BY <1>7, <2>1, <2>5, <3>1 DEF Tried, PastInv
    <3> HIDE DEF o
    <3> QED
      BY <2>1, <2>3, <2>5, <3>1, <3>2, PastWritten
  <2>6. CASE Wrote(o, y) /\ req'[c].at = "storing" /\ req'[c].stored = y
    <3> HIDE DEF y
    <3>1. heap'[o] = y /\ \A p \in Requests \ {o} : heap'[p] = heap[p]
      BY <2>1, <2>6 DEF Wrote, WorkflowIInv, WorkflowTypeOK
    <3> HIDE DEF o
    <3> QED
      BY <2>1, <2>2, <2>3, <2>6, <3>1, PastWritten
  <2> QED
    BY <1>7, <2>4, <2>5, <2>6 DEF Tried
<1>8. ASSUME NEW o, Decided(c, o)
      PROVE  /\ heap[o] \in Object /\ Sound(heap[o])
             /\ \A g \in heap[o].approved : <<g, heap[o].pending>> \in R
             /\ \A d \in Requests \ {c} : req[d].at = "stepping" => req[d].object # o
  <2>1. heap[o] \in Object /\ Sound(heap[o]) /\ heap[o].pending # Nothing
    BY <1>8 DEF Decided, WorkflowIInv, DriveInv, Sound
  <2>2. \A g \in heap[o].approved : <<g, heap[o].pending>> \in R
    BY <1>8, <2>1 DEF Decided, PastInv, Past
  <2>3. \A d \in Requests : req[d].at = "stepping" => req[d].object # o
    BY <1>8 DEF Decided, WorkflowIInv, DriveInv
  <2> QED
    BY <2>1, <2>2, <2>3
<1>9. CASE Approved(c)
  <2>1. PICK o \in Requests :
          /\ Decided(c, o)
          /\ Drove(c, o, [heap[o] EXCEPT !.status = "running", !.pending = Nothing,
                                         !.approved = @ \union {heap[o].pending}],
                   heap[o].pending)
    BY <1>9 DEF Approved
  <2> DEFINE x == [heap[o] EXCEPT !.status = "running", !.pending = Nothing,
                                  !.approved = @ \union {heap[o].pending}]
             s == heap[o].pending
  <2>2. Drove(c, o, x, s) /\ x.approved = heap[o].approved \union {s}
    BY <1>8, <2>1 DEF Object
  <2>3. /\ \A g \in x.approved : g = s \/ <<g, s>> \in R
        /\ \A d \in Requests \ {c} : req[d].at = "stepping" => req[d].object # o
    BY <1>8, <2>1, <2>2
  <2> HIDE DEF x, s
  <2>4. UNCHANGED row
    BY <2>2 DEF Drove
  <2> QED
    BY <2>2, <2>3, <2>4, DrovePast
<1>10. CASE Rejected(c)
  <2>1. PICK o \in Requests :
          LET y == [heap[o] EXCEPT !.status = "rejected", !.pending = Nothing,
                                   !.rejected = @ \union {heap[o].pending}]
          IN  Decided(c, o) /\ Wrote(o, y) /\ req'[c].at = "storing" /\ req'[c].stored = y
    BY <1>10 DEF Rejected
  <2> DEFINE y == [heap[o] EXCEPT !.status = "rejected", !.pending = Nothing,
                                  !.rejected = @ \union {heap[o].pending}]
  <2>2. Wrote(o, y) /\ req'[c].at = "storing" /\ req'[c].stored = y /\ y.pending = Nothing
    BY <1>8, <2>1 DEF Object
  <2> HIDE DEF y
  <2>3. /\ heap'[o] = y /\ \A p \in Requests \ {o} : heap'[p] = heap[p] /\ Past(y, R)
        /\ Past(y, R)
    BY <2>2 DEF Wrote, WorkflowIInv, WorkflowTypeOK, Past
  <2>4. UNCHANGED row
    BY <1>10 DEF Rejected
  <2> QED
    BY <1>8, <2>1, <2>2, <2>3, <2>4, PastWritten
<1> QED
  BY <1>1, <1>2, <1>3, <1>4, <1>6, <1>7, <1>9, <1>10, <1>11

\* The history only changes as a gate is decided on, and a gate is begun only as it is
\* approved: a gate that a step names next is one that the run has not approved yet.
LEMMA Scores ==
  ASSUME WorkflowIInv, HandlerInv, RunKeyInv, NEW R, GateOrder(R), PastInv(R),
         NEW c \in Requests, Turn(c)
  PROVE  Unscored \/ Approved(c) \/ Rejected(c)
<1>1. CASE Began(c)
  <2>1. PICK r \in Runs : Drove(c, c, NewRun(r), Entry) /\ UNCHANGED granted
    BY <1>1 DEF Began
  <2> DEFINE x == NewRun(r)
  <2>2. /\ AtStep(x, Entry).approved = {}
        /\ AtStep(x, Entry).status = "running" /\ Entry \in Gates =>
             Entry \in AtStep(x, Entry).approved
    <3>1. Sound(x) /\ x.status = "running" /\ x.approved = {} /\ Entry \in Steps \union {End}
      BY <2>1, NewRunSound, WorkflowAssumption DEF NewRun
    <3> HIDE DEF x
    <3> QED
      BY <3>1, AtStepSound, AtStepKeeps
  <2>3. started' = started
    BY <2>1, <2>2 DEF Drove, Counted
  <2> QED
    BY <2>1, <2>3 DEF Unscored, Drove
<1>2. CASE Stepped(c)
  <2> DEFINE x == Attempted(c)
  <2>1. PICK s \in Succ[req[c].step] : Drove(c, req[c].object, x, s) /\ UNCHANGED granted
    BY <1>2 DEF Stepped
  <2>2. /\ Sound(x) /\ x.status = "running" /\ s \in Steps \union {End}
        /\ req[c].step \in Steps /\ x.approved = heap[req[c].object].approved
    <3>1. heap[req[c].object] \in Object
      BY <1>2, Stepping DEF Stepped, WorkflowIInv, DriveInv, Sound
    <3> QED
      BY <1>2, <2>1, <3>1, Stepping DEF Stepped, Drove, Attempted, Object
  <2>3. ASSUME s \in Gates PROVE s \notin x.approved
    <3>1. s \in Steps /\ s # End
      BY <2>3, WorkflowAssumption
    <3>2. <<req[c].step, s>> \in R
      BY <2>1, <2>2, <3>1 DEF GateOrder
    <3>3. s \in x.approved => s = req[c].step \/ <<s, req[c].step>> \in R
      BY <1>2, <2>2 DEF Stepped, PastInv
    <3> QED
      BY <2>2, <2>3, <3>1, <3>2, <3>3 DEF GateOrder
  <2>4. AtStep(x, s).status = "running" /\ s \in Gates => s \in x.approved
    <3> HIDE DEF x
    <3> QED
      BY <2>2, AtStepSound, AtStepKeeps
  <2>5. started' = started
    <3> HIDE DEF x
    <3> QED
      BY <2>1, <2>3, <2>4 DEF Drove, Counted
  <2> QED
    BY <2>1, <2>5 DEF Unscored, Drove
<1>3. CASE Tried(c)
  BY <1>3 DEF Tried
<1> QED
  BY <1>1, <1>2, <1>3 DEF Turn, Waiting, Looked, Kept, Copied

\* A run has finitely many objects.
LEMMA CopiesFinite ==
  ASSUME WorkflowIInv, RunKeyInv, NEW c \in Requests, Turn(c),
         NEW r \in Runs, IsFiniteSet(Copies(r))
  PROVE  IsFiniteSet(Copies(r)')
<1>1. PICK o \in Requests : \A p \in Requests \ {o} : heap'[p] = heap[p]
  BY ObjectsStay
<1>2. Copies(r)' \subseteq Copies(r) \union {o}
  BY <1>1 DEF Copies
<1> QED
  BY <1>2, FS_AddElement, FS_Subset

\* A sole object was the sole object before, or is a run's first.
LEMMA SoleBefore ==
  ASSUME WorkflowIInv, RunKeyInv, NEW c \in Requests, Turn(c),
         NEW r \in Runs, NEW o \in Requests, Copies(r)' = {o}
  PROVE  Copies(r) = {o} \/ (Copies(r) = {} /\ Began(c))
<1>1. Copies(r) \subseteq {o}
  BY ObjectsStay
<1>2. CASE o \in Copies(r)
  BY <1>1, <1>2
<1>3. CASE o \notin Copies(r)
  BY <1>1, <1>3, NewCopy DEF RunKeyInv
<1> QED
  BY <1>2, <1>3

\* What a sole object tells stays true of it as long as no gate of its run is decided on.
LEMMA TellsStill ==
  ASSUME WorkflowIInv, EndedStep, RunKeyInv, NEW R, GateInv(R), NEW c \in Requests, Turn(c),
         NEW r \in Runs, NEW o \in Requests, Copies(r)' = {o},
         \A g \in Gates : /\ started'[<<r, g>>] = started[<<r, g>>]
                          /\ <<r, g>> \in refused' <=> <<r, g>> \in refused
  PROVE  Tells(r, heap[o])'
<1>1. CASE Copies(r) = {}
  <2>1. \A g \in Gates : started[<<r, g>>] = 0 /\ <<r, g>> \notin refused
    BY <1>1 DEF GateInv
  <2> QED
    BY <2>1 DEF Tells
<1>2. CASE Copies(r) = {o}
  <2>1. Tells(r, heap[o]) /\ heap[o] # Nothing
    BY <1>2 DEF GateInv, Copies
  <2>2. heap[o].approved \subseteq heap'[o].approved
    BY <2>1, ObjectsStay
  <2>3. heap[o].status = "rejected" => heap'[o].status = "rejected"
    BY <2>1 DEF EndedStep, Terminal
  <2> QED
    BY <2>1, <2>2, <2>3 DEF Tells
<1> QED
  BY <1>1, <1>2, SoleBefore

\* An approval counts for one gate of one run, at which the gate is begun or not.
LEMMA ApprovedScores ==
  ASSUME WorkflowIInv, NEW c \in Requests, Approved(c)
  PROVE  \E o \in Requests :
           /\ Decided(c, o)
           /\ heap'[o].approved = heap[o].approved \union {heap[o].pending}
           /\ granted' = Counted(granted, heap[o].run, heap[o].pending)
           /\ started' = started \/ started' = Counted(started, heap[o].run, heap[o].pending)
           /\ refused' = refused
<1>1. PICK o \in Requests :
        /\ Decided(c, o)
        /\ Drove(c, o, [heap[o] EXCEPT !.status = "running", !.pending = Nothing,
                                       !.approved = @ \union {heap[o].pending}],
                 heap[o].pending)
        /\ granted' = Counted(granted, heap[o].run, heap[o].pending)
  BY DEF Approved
<1> DEFINE x == [heap[o] EXCEPT !.status = "running", !.pending = Nothing,
                                !.approved = @ \union {heap[o].pending}]
           s == heap[o].pending
<1>2. Drove(c, o, x, s) /\ x.approved = heap[o].approved \union {s} /\ x.run = heap[o].run
  BY <1>1 DEF Decided, WorkflowIInv, DriveInv, Sound, Object
<1> HIDE DEF x, s
<1>3. heap'[o] = AtStep(x, s) /\ AtStep(x, s).approved = x.approved
  BY <1>2, AtStepKeeps DEF Drove, Wrote, WorkflowIInv, WorkflowTypeOK
<1>4. (started' = started \/ started' = Counted(started, x.run, s)) /\ refused' = refused
  BY <1>2 DEF Drove
<1> QED
  BY <1>1, <1>2, <1>3, <1>4 DEF s

\* What the history and the objects tell of each other, after a turn.
LEMMA GateKept ==
  ASSUME WorkflowIInv, WorkflowIInv', EndedStep, HandlerInv, RunKeyInv,
         NEW R, GateOrder(R), GateInv(R), NEW c \in Requests, Turn(c)
  PROVE  GateInv(R)'
<1> DEFINE Same(r) == \A g \in Gates : /\ started'[<<r, g>>] = started[<<r, g>>]
                                       /\ <<r, g>> \in refused' <=> <<r, g>> \in refused
<1>1. PastInv(R)' /\ \A r \in Runs : IsFiniteSet(Copies(r))'
  BY PastKept, CopiesFinite DEF GateInv
<1>2. \A r \in Runs : Copies(r) \subseteq Copies(r)'
  BY ObjectsStay
<1>4. /\ started \in [Runs \X Gates -> Nat] /\ granted \in [Runs \X Gates -> Nat]
      /\ refused \subseteq Runs \X Gates
  BY DEF WorkflowIInv, WorkflowTypeOK
<1>5. ASSUME \A r \in Runs : Copies(r)' = {} => Same(r),
             \A r \in Runs, o \in Requests : Copies(r)' = {o} => Same(r) \/ Tells(r, heap[o])',
             ApprovedOnly'
      PROVE  GateInv(R)'
  <2>1. \A r \in Runs, o \in Requests : Copies(r)' = {o} => Tells(r, heap[o])'
    BY <1>5, TellsStill
  <2>2. \A r \in Runs : Copies(r)' = {} =>
          \A g \in Gates : started'[<<r, g>>] = 0 /\ <<r, g>> \notin refused'
    BY <1>2, <1>5 DEF GateInv
  <2> QED
    BY <1>1, <1>5, <2>1, <2>2 DEF GateInv
<1>6. CASE Unscored
  BY <1>5, <1>6 DEF Unscored, GateInv, ApprovedOnly
<1>7. ASSUME NEW o \in Requests, Decided(c, o), NEW r, r = heap[o].run
      PROVE  /\ r \in Runs /\ o \in Copies(r) /\ heap[o].pending \in Gates \ heap[o].approved
             /\ Copies(r)' # {}
             /\ \A q \in Requests : Copies(r)' = {q} =>
                  /\ q = o /\ Tells(r, heap[o])
                  /\ \A g \in Gates : <<r, g>> \notin refused
                  /\ started[<<r, heap[o].pending>>] = 0
  <2>1. r \in Runs /\ o \in Copies(r) /\ heap[o].pending \in Gates \ heap[o].approved
    BY <1>7 DEF Decided, WorkflowIInv, DriveInv, Sound, Object, Copies
  <2>2. ASSUME NEW q \in Requests, Copies(r)' = {q}
        PROVE  /\ q = o /\ Tells(r, heap[o])
               /\ \A g \in Gates : <<r, g>> \notin refused
               /\ started[<<r, heap[o].pending>>] = 0
    <3>1. q = o
      BY <1>2, <2>1, <2>2
    <3>2. Copies(r) = {o}
      BY <2>1, <2>2, <3>1, SoleBefore
    <3>3. Tells(r, heap[o])
      BY <2>1, <3>2 DEF GateInv
    <3>4. \A g \in Gates : <<r, g>> \notin refused
      BY <1>7, <3>3 DEF Tells, Decided
    <3>5. started[<<r, heap[o].pending>>] \in Nat
      BY <1>4, <2>1
    <3> QED
      BY <2>1, <3>1, <3>3, <3>4, <3>5 DEF Tells
  <2> QED
    BY <1>2, <2>1, <2>2
<1>8. CASE Approved(c)
  <2>1. PICK o \in Requests :
          /\ Decided(c, o)
          /\ heap'[o].approved = heap[o].approved \union {heap[o].pending}
          /\ granted' = Counted(granted, heap[o].run, heap[o].pending)
          /\ started' = started \/ started' = Counted(started, heap[o].run, heap[o].pending)
          /\ refused' = refused
    BY <1>8, ApprovedScores
  <2>0. PICK r, p : r = heap[o].run /\ p = heap[o].pending
    OBVIOUS
  <2>2. r \in Runs /\ p \in Gates /\ Copies(r)' # {}
    BY <1>7, <2>0, <2>1
  <2>3. \A q \in Runs : q # r => Same(q)
    BY <1>4, <2>0, <2>1, <2>2 DEF Counted
  <2>4. ApprovedOnly'
    BY <1>4, <2>0, <2>1, <2>2 DEF Counted, ApprovedOnly, GateInv
  <2>5. ASSUME NEW q \in Requests, Copies(r)' = {q} PROVE Tells(r, heap[q])'
    <3>1. /\ q = o /\ Tells(r, heap[o]) /\ started[<<r, p>>] = 0
          /\ \A g \in Gates : <<r, g>> \notin refused
      BY <1>7, <2>0, <2>1, <2>5
    <3>2. \A g \in Gates : started[<<r, g>>] \in Nat
                           /\ (g # p => started'[<<r, g>>] = started[<<r, g>>])
                           /\ started'[<<r, p>>] <= 1
      BY <1>4, <2>0, <2>1, <2>2, <3>1 DEF Counted
    <3> QED
      BY <2>0, <2>1, <2>5, <3>1, <3>2 DEF Tells
  <2> QED
    BY <1>5, <2>2, <2>3, <2>4, <2>5
<1>9. CASE Rejected(c)
  <2>1. PICK o \in Requests :
          /\ Decided(c, o)
          /\ Wrote(o, [heap[o] EXCEPT !.status = "rejected", !.pending = Nothing,
                                      !.rejected = @ \union {heap[o].pending}])
          /\ refused' = refused \union {<<heap[o].run, heap[o].pending>>}
          /\ UNCHANGED <<granted, started>>
    BY <1>9 DEF Rejected
  <2>0. PICK r, p : r = heap[o].run /\ p = heap[o].pending
    OBVIOUS
  <2>2. r \in Runs /\ p \in Gates /\ Copies(r)' # {}
    BY <1>7, <2>0, <2>1
  <2>3. \A q \in Runs : q # r => Same(q)
    BY <1>4, <2>0, <2>1, <2>2
  <2>4. ApprovedOnly'
    BY <2>1 DEF ApprovedOnly, GateInv
  <2>5. heap[o] \in Object
    BY <2>1 DEF Decided, WorkflowIInv, DriveInv, Sound
  <2>6. heap'[o].approved = heap[o].approved /\ heap'[o].status = "rejected"
    BY <2>1, <2>5 DEF Wrote, WorkflowIInv, WorkflowTypeOK, Object
  <2>7. ASSUME NEW q \in Requests, Copies(r)' = {q} PROVE Tells(r, heap[q])'
    <3>1. /\ q = o /\ Tells(r, heap[o]) /\ started[<<r, p>>] = 0
          /\ \A g \in Gates : <<r, g>> \notin refused
      BY <1>7, <2>0, <2>1, <2>7
    <3> QED
      BY <2>0, <2>1, <2>6, <2>7, <3>1 DEF Tells
  <2> QED
    BY <1>5, <2>2, <2>3, <2>4, <2>7
<1> QED
  BY <1>6, <1>8, <1>9, Scores DEF GateInv

\* Nothing that GateInv is about dies with a request.
LEMMA DeathsKeepGates ==
  ASSUME NEW R, GateInv(R), Deaths
  PROVE  GateInv(R)'
<1>1. \A r \in Runs : Copies(r)' = Copies(r)
  BY DEF Deaths, Copies
<1>2. \A c \in Requests : req'[c].at \in {"storing", "stepping"} => req'[c] = req[c]
  BY DEF Deaths
<1>3. PastInv(R)'
  BY <1>2 DEF Deaths, GateInv, PastInv, Past
<1> QED
  BY <1>1, <1>3 DEF Deaths, Unscored, GateInv, Tells, ApprovedOnly

LEMMA GateStart ==
  ASSUME NEW R, WorkflowInit
  PROVE  GateInv(R)
<1>1. \A c \in Requests : req[c] = Idle
  BY DEF WorkflowInit
<1>2. PastInv(R)
  BY <1>1 DEF PastInv, Idle, WorkflowInit
<1>3. \A r \in Runs : Copies(r) = {}
  BY DEF WorkflowInit, Copies
<1>4. \A r \in Runs : IsFiniteSet(Copies(r))
  BY <1>3, FS_EmptySet
<1>5. \A r \in Runs, g \in Gates : started[<<r, g>>] = 0 /\ <<r, g>> \notin refused
  BY DEF WorkflowInit
<1>6. ApprovedOnly
  BY DEF WorkflowInit, ApprovedOnly
<1>7. \A r \in Runs, o \in Requests : Copies(r) = {o} => Tells(r, heap[o])
  BY <1>3
<1> QED
  BY <1>2, <1>4, <1>5, <1>6, <1>7 DEF GateInv

LEMMA GateStep ==
  ASSUME NEW R, GateOrder(R)
  PROVE  KeyIInv /\ GateInv(R) /\ [WorkflowNext]_vars => GateInv(R)'
  BY WorkflowStep, EveryTurn, GateKept, DeathsKeepGates DEF KeyIInv

\* The invariant of the gates, for a workflow without a gate on a cycle.
LEMMA GatesInOrder ==
  ASSUME NEW R, GateOrder(R)
  PROVE  WorkflowSpec => [](KeyIInv /\ GateInv(R))
<1>1. WorkflowInit => KeyIInv /\ GateInv(R)
  BY KeyStart, GateStart
<1>2. KeyIInv /\ GateInv(R) /\ [WorkflowNext]_vars => KeyIInv' /\ GateInv(R)'
  BY KeyStep, GateStep
<1> QED
  BY <1>1, <1>2, PTL DEF WorkflowSpec

\* "Any way a requires_approval step executes without a recorded human decision" is a bug
\* (SECURITY.md): a gate is begun at most as often as it was approved, whatever the replicas,
\* copies, evictions, restarts and failed writes, if no gate lies on a cycle (_drive, resume).
THEOREM GatesAreApproved ==
  ASSUME NoGateOnCycle
  PROVE  WorkflowSpec => []ApprovedOnly
<1>1. PICK R : GateOrder(R)
  BY DEF NoGateOnCycle
<1>2. GateInv(R) => ApprovedOnly
  BY DEF GateInv
<1> QED
  BY <1>1, <1>2, GatesInOrder, PTL

\* A run with one object - no other replica, eviction, restart or retried POST has made
\* another - executes a gate once, and never one that was rejected (resume, _load).
THEOREM SoleCopiesAreGated ==
  ASSUME NoGateOnCycle
  PROVE  WorkflowSpec => []SoleCopyIsGated
<1>1. PICK R : GateOrder(R)
  BY DEF NoGateOnCycle
<1>2. GateInv(R) => SoleCopyIsGated
  <2> SUFFICES ASSUME GateInv(R), NEW r \in Runs, NEW g \in Gates, Cardinality(Copies(r)) = 1
               PROVE  /\ started[<<r, g>>] <= 1
                      /\ <<r, g>> \in refused => started[<<r, g>>] = 0
    BY DEF SoleCopyIsGated
  <2>1. PICK o : Copies(r) = {o}
    BY FS_Singleton DEF GateInv
  <2>2. o \in Requests /\ heap[o] # Nothing /\ heap[o].run = r
    BY <2>1 DEF Copies
  <2> QED
    BY <2>1, <2>2 DEF GateInv, Tells
<1> QED
  BY <1>1, <1>2, GatesInOrder, PTL
=============================================================================
