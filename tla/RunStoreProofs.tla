--------------------------- MODULE RunStoreProofs ---------------------------
(***************************************************************************)
(* Theorems about the run store, for any sets of runs, keys and callers    *)
(* and any lease.                                                          *)
(***************************************************************************)
EXTENDS RunStore, TLAPS

\* Every row the store writes is a row (NewRow is what all its writes go through).
LEMMA NewRowIsRow ==
  ASSUME NEW s \in Statuses, NEW k \in Keys \union {NoKey}, NEW e \in Errors
  PROVE  NewRow(s, k, e) \in Row
  BY StoreAssumption DEF NewRow, Row

\* A stamped row keeps its key, and is a row (claim, touch, flush, sweep).
LEMMA StampedIsRow ==
  ASSUME TypeOK, NEW r \in Runs, NEW s \in Statuses, NEW e \in Errors
  PROVE  Stamped(r, s, e) \in Row
  BY NewRowIsRow DEF Stamped, TypeOK, Row

\* The fields of a row of the table are in their ranges.
LEMMA RowFields ==
  ASSUME TypeOK, NEW r \in Runs
  PROVE  /\ row[r].status \in Statuses
         /\ row[r].error \in Errors
         /\ row[r].age \in 0..(Lease + 1)
  BY DEF TypeOK, Row

\* The constants the operations write are in range.
LEMMA ConstantsInRange ==
  /\ {"absent", "pending", "running", "failed"} \subseteq Statuses
  /\ {"none", "agent", "swept"} \subseteq Errors
  /\ Outcomes \subseteq Statuses
  /\ \A s \in Outcomes : ErrorOf(s) \in Errors
  BY DEF Statuses, Live, Outcomes, Errors, ErrorOf

\* What an upsert commits, by UPDATE or by INSERT, is a row.
LEMMA CommitsRow ==
  ASSUME TypeOK, NEW s \in Session
  PROVE  Flushed(s) \in Row /\ Inserted(s) \in Row
<1>1. s.run \in Runs /\ s.status \in Outcomes
  BY DEF Session
<1>2. /\ Written(s.status, s.seen.status, row[s.run].status) \in Statuses
      /\ Written(ErrorOf(s.status), s.seen.error, row[s.run].error) \in Errors
  BY <1>1, RowFields, ConstantsInRange DEF Written
<1>3. Flushed(s) \in Row
  BY <1>1, <1>2, StampedIsRow DEF Flushed
<1>4. Inserted(s) \in Row
  BY <1>1, NewRowIsRow, ConstantsInRange DEF Inserted
<1> QED
  BY <1>3, <1>4

\* Type correctness of the table and of the upserts in flight.
THEOREM TypeCorrect == Spec => []TypeOK
<1>1. Init => TypeOK
  BY NewRowIsRow, ConstantsInRange DEF Init, TypeOK, NoRow
<1>2. TypeOK /\ [Next]_vars => TypeOK'
  <2> SUFFICES ASSUME TypeOK, [Next]_vars PROVE TypeOK'
    OBVIOUS
  <2>1. ASSUME NEW r \in Runs, NEW k \in Keys \union {NoKey}, CreateRun(r, k) PROVE TypeOK'
    <3> NewRow("pending", k, "none") \in Row
      BY NewRowIsRow, ConstantsInRange
    <3> QED
      BY <2>1 DEF CreateRun, TypeOK
  <2>2. ASSUME NEW r \in Runs, ClaimRun(r) PROVE TypeOK'
    <3> Stamped(r, "running", row[r].error) \in Row
      BY StampedIsRow, RowFields, ConstantsInRange
    <3> QED
      BY <2>2 DEF ClaimRun, TypeOK
  <2>3. ASSUME NEW r \in Runs, TouchRun(r) PROVE TypeOK'
    <3> Stamped(r, row[r].status, row[r].error) \in Row
      BY StampedIsRow, RowFields
    <3> QED
      BY <2>3 DEF TouchRun, TypeOK
  <2>4. ASSUME NEW c \in Callers, NEW r \in Runs, NEW s \in Outcomes, UpsertLoad(c, r, s)
        PROVE TypeOK'
    BY <2>4, RowFields DEF UpsertLoad, Session, Loaded, TypeOK
  <2>5. ASSUME NEW c \in Callers, UpsertCommit(c) PROVE TypeOK'
    <3>1. session[c] \in Session
      BY <2>5 DEF UpsertCommit, TypeOK
    <3>2. /\ Flushed(session[c]) \in Row
          /\ Inserted(session[c]) \in Row
          /\ session[c].run \in Runs
      BY <3>1, CommitsRow DEF Session
    <3>3. row' \in [Runs -> Row]
      BY <2>5, <3>2 DEF UpsertCommit, TypeOK
    <3> QED
      BY <2>5, <3>3 DEF UpsertCommit, TypeOK
  <2>6. ASSUME NEW C \in SUBSET Callers, UpsertsLost(C) PROVE TypeOK'
    BY <2>6 DEF UpsertsLost, TypeOK
  <2>7. ASSUME SweepStuckRuns PROVE TypeOK'
    <3> \A r \in Runs : Stamped(r, "failed", "swept") \in Row
      BY StampedIsRow, ConstantsInRange
    <3> QED
      BY <2>7 DEF SweepStuckRuns, TypeOK
  <2>8. ASSUME Tick PROVE TypeOK'
    <3> \A r \in Runs : [row[r] EXCEPT !.age = Older(@)] \in Row
      <4> SUFFICES ASSUME NEW r \in Runs PROVE [row[r] EXCEPT !.age = Older(@)] \in Row
        OBVIOUS
      <4> DEFINE n == row[r].age
      <4>1. Older(n) \in 0..(Lease + 1)
        BY RowFields, StoreAssumption DEF Older
      <4> QED
        BY <4>1 DEF TypeOK, Row
    <3> QED
      BY <2>8 DEF Tick, TypeOK
  <2>9. CASE UNCHANGED vars
    BY <2>9 DEF vars, TypeOK
  <2> QED
    BY <2>1, <2>2, <2>3, <2>4, <2>5, <2>6, <2>7, <2>8, <2>9 DEF Next
<1> QED
  BY <1>1, <1>2, PTL DEF Spec

-----------------------------------------------------------------------------
(***************************************************************************)
(* A settled run is never reopened.  The one operation that does not look  *)
(* at the status it overwrites is upsert_run's commit; it is safe because  *)
(* it either writes an outcome, or leaves the status alone, and then it    *)
(* has loaded an outcome, and what was settled when it was loaded still is.*)
(***************************************************************************)
SeenSettled ==
  \A c \in Callers :
    session[c] # NoSession /\ session[c].seen.status \in Outcomes => Settled(session[c].run)

\* Row by row, what no step of the store undoes (its two clauses are NeverReopened's).
Kept(r) ==
  /\ Settled(r) => Settled(r)'
  /\ row[r].status = "running" => row'[r].status \notin {"absent", "pending"}

\* After a commit the run is settled, unless the commit changed nothing (upsert_run).
LEMMA CommitSettles ==
  ASSUME TypeOK, SeenSettled, NEW c \in Callers, UpsertCommit(c)
  PROVE  row' = row \/ row'[session[c].run].status \in Outcomes
<1> DEFINE s == session[c]
<1>1. s \in Session /\ s # NoSession /\ s.run \in Runs /\ s.status \in Outcomes
  BY DEF UpsertCommit, TypeOK, Session
<1>2. CASE s.seen.status # "absent"
  <2>1. Written(s.status, s.seen.status, row[s.run].status) \in Outcomes
    BY <1>1 DEF Written, SeenSettled, Settled
  <2>2. Flushed(s).status \in Outcomes
    BY <2>1 DEF Flushed, Stamped, NewRow
  <2>3. row'[s.run] = Flushed(s)
    BY <1>1, <1>2 DEF UpsertCommit, TypeOK
  <2> QED
    BY <2>2, <2>3
<1>3. CASE s.seen.status = "absent" /\ row[s.run].status = "absent"
  <2>1. row'[s.run] = Inserted(s)
    BY <1>1, <1>3 DEF UpsertCommit, TypeOK
  <2> QED
    BY <1>1, <2>1 DEF Inserted, NewRow
<1>4. CASE s.seen.status = "absent" /\ row[s.run].status # "absent"
  BY <1>4 DEF UpsertCommit
<1> QED
  BY <1>2, <1>3, <1>4

\* No operation of the store undoes what Kept says (every operation of runs.py).
LEMMA StepKeeps ==
  ASSUME TypeOK, SeenSettled, [Next]_vars
  PROVE  \A r \in Runs : Kept(r)
<1> SUFFICES ASSUME NEW r \in Runs PROVE Kept(r)
  OBVIOUS
<1> USE DEF Kept, Settled, Outcomes, TypeOK
<1>1. ASSUME NEW q \in Runs, NEW k \in Keys \union {NoKey}, CreateRun(q, k) PROVE Kept(r)
  BY <1>1 DEF CreateRun
<1>2. ASSUME NEW q \in Runs, ClaimRun(q) PROVE Kept(r)
  BY <1>2 DEF ClaimRun, Claimable, Stamped, NewRow
<1>3. ASSUME NEW q \in Runs, TouchRun(q) PROVE Kept(r)
  BY <1>3 DEF TouchRun, Stamped, NewRow
<1>4. ASSUME NEW c \in Callers, NEW q \in Runs, NEW s \in Outcomes, UpsertLoad(c, q, s)
      PROVE  Kept(r)
  BY <1>4 DEF UpsertLoad
<1>5. ASSUME NEW c \in Callers, UpsertCommit(c) PROVE Kept(r)
  <2>1. row' = row \/ row'[session[c].run].status \in Outcomes
    BY <1>5, CommitSettles
  <2>2. r # session[c].run => row'[r] = row[r]
    BY <1>5 DEF UpsertCommit
  <2> QED
    BY <2>1, <2>2
<1>6. ASSUME NEW C \in SUBSET Callers, UpsertsLost(C) PROVE Kept(r)
  BY <1>6 DEF UpsertsLost
<1>7. ASSUME SweepStuckRuns PROVE Kept(r)
  BY <1>7 DEF SweepStuckRuns, Expired, Stamped, NewRow
<1>8. ASSUME Tick PROVE Kept(r)
  <2> row'[r].status = row[r].status
    BY <1>8 DEF Tick, Row
  <2> QED
    OBVIOUS
<1>9. CASE UNCHANGED vars
  BY <1>9 DEF vars
<1> QED
  BY <1>1, <1>2, <1>3, <1>4, <1>5, <1>6, <1>7, <1>8, <1>9 DEF Next

\* What was settled when an upsert loaded it is settled when the upsert commits.
LEMMA StepKeepsSeen ==
  ASSUME TypeOK, SeenSettled, [Next]_vars
  PROVE  SeenSettled'
<1> SUFFICES ASSUME NEW c \in Callers, session'[c] # NoSession,
                    session'[c].seen.status \in Outcomes
             PROVE  Settled(session[c].run)'
  BY DEF SeenSettled, Settled
<1>1. CASE session'[c] = session[c]
  <2> session[c].run \in Runs
    BY <1>1 DEF TypeOK, Session
  <2> QED
    BY <1>1, StepKeeps DEF SeenSettled, Kept, Settled
<1>2. CASE session'[c] # session[c]
  <2>1. PICK q \in Runs, s \in Outcomes : UpsertLoad(c, q, s)
    BY <1>2 DEF Next, vars, TypeOK, CreateRun, ClaimRun, TouchRun, UpsertLoad, UpsertCommit,
                UpsertsLost, SweepStuckRuns, Tick
  <2> QED
    BY <2>1 DEF UpsertLoad, Settled, TypeOK
<1> QED
  BY <1>1, <1>2

\* Whoever calls the store in whatever order, no settled run is reopened (NeverReopened).
THEOREM StoreNeverReopens == Spec => NeverReopened
<1>1. Init => SeenSettled
  BY DEF Init, SeenSettled
<1>2. TypeOK /\ SeenSettled /\ [Next]_vars => SeenSettled'
  BY StepKeepsSeen
<1>3. TypeOK /\ SeenSettled /\ [Next]_vars => [\A r \in Runs : Kept(r)]_vars
  BY StepKeeps
<1> QED
  BY <1>1, <1>2, <1>3, TypeCorrect, PTL DEF Spec, NeverReopened, Kept
=============================================================================
