----------------------------- MODULE TraceStore -----------------------------
(***************************************************************************)
(* The trace store: finished runs and tool calls are recorded, best-effort,*)
(* one row each, and never changed.  The dashboard reads its figures with  *)
(* one statement after the other while rows keep coming, and each statement*)
(* sees what is committed when it runs.  Of a row, its kind and its status *)
(* count.                                                                  *)
(***************************************************************************)
EXTENDS Naturals, FiniteSets

CONSTANTS
  MaxTraces       \* bound on the rows of a kind and status

ASSUME TraceAssumption == MaxTraces \in Nat

VARIABLES
  traces,         \* the rows of the table
  summary         \* one request for the dashboard figures and what it has read so far

traceVars == <<traces, summary>>

Kinds    == {"agent", "tool"}
InFlight == {"running", "awaiting_approval"}                 \* NON_TERMINAL_STATUSES
Recorded == {"completed", "failed", "denied"}
Success  == {"completed"}                                    \* SUCCESS_STATUSES

Rows     == [kind: Kinds, status: Recorded, id: 1..MaxTraces]

\* How many rows have these kinds and statuses.
Selected(kinds, statuses) == {row \in traces : row.kind \in kinds /\ row.status \in statuses}
CountOf(kinds, statuses)  == Cardinality(Selected(kinds, statuses))

NoFigures == [at |-> "idle", total |-> 0, success |-> 0, byKind |-> [k \in Kinds |-> 0],
              failures |-> [k \in Kinds |-> 0]]

TraceTypeOK ==
  /\ traces \subseteq Rows
  /\ summary \in [at: {"idle", "kinds", "failures", "done"}, total: Nat, success: Nat,
                  byKind: [Kinds -> Nat], failures: [Kinds -> Nat]]

TraceInit ==
  /\ traces = {}
  /\ summary = NoFigures

-----------------------------------------------------------------------------
\* record_trace commits a row, except for a run that is still in flight; safe_record swallows
\* an outage of the store, and the row is missing.
Record(kind, status) ==
  IF status \in InFlight THEN UNCHANGED traces
  ELSE \/ \E id \in 1..MaxTraces :
            LET row == [kind |-> kind, status |-> status, id |-> id]
            IN  row \notin traces /\ traces' = traces \union {row}
       \/ UNCHANGED traces

\* The status of an audit entry's trace: an error without a message passes for none.
AuditStatus(entry) == IF ~entry.allowed THEN "denied"
                      ELSE IF entry.error = "message" THEN "failed" ELSE "completed"

\* The statements of _aggregates, in order.
ReadTotals ==
  /\ summary.at = "idle"
  /\ summary' = [summary EXCEPT !.at = "kinds", !.total = CountOf(Kinds, Recorded),
                                !.success = CountOf(Kinds, Success)]
ReadKinds ==
  /\ summary.at = "kinds"
  /\ summary' = [summary EXCEPT !.at = "failures",
                                !.byKind = [k \in Kinds |-> CountOf({k}, Recorded)]]
\* Mutant: the total is counted last.
ReadFailuresThenTotal ==
  /\ summary.at = "failures"
  /\ summary' = [summary EXCEPT !.at = "done", !.total = CountOf(Kinds, Recorded),
                    !.failures = [k \in Kinds |-> CountOf({k}, Recorded \ Success)]]
ReadFailures ==
  /\ summary.at = "failures"
  /\ summary' = [summary EXCEPT !.at = "done",
                                !.failures = [k \in Kinds |-> CountOf({k}, Recorded \ Success)]]
\* The store fails under any of them: the dashboard shows zeros.
ReadFails ==
  /\ summary.at \in {"idle", "kinds", "failures"}
  /\ summary' = [NoFigures EXCEPT !.at = "done"]

ReadSummary == (ReadTotals \/ ReadKinds \/ ReadFailures \/ ReadFails) /\ UNCHANGED traces

TraceNext ==
  \/ \E kind \in Kinds, status \in Recorded \union InFlight :
       Record(kind, status) /\ UNCHANGED summary
  \/ ReadSummary
TraceSpec == TraceInit /\ [][TraceNext]_traceVars

-----------------------------------------------------------------------------
Added(counts) == counts["agent"] + counts["tool"]

(* store.py:170-199: figures read while rows are written differ in one     *)
(* direction only.  The kinds add up to at least the total, the failures   *)
(* to at least the unsuccessful part of it, and none exceeds the table.    *)
SummaryGrows ==
  summary.at = "done" =>
    /\ summary.total <= Added(summary.byKind)
    /\ summary.total - summary.success <= Added(summary.failures)
    /\ \A k \in Kinds : /\ summary.byKind[k] <= CountOf({k}, Recorded)
                        /\ summary.failures[k] <= CountOf({k}, Recorded \ Success)
=============================================================================
