---------------------------- MODULE ToolGateway ----------------------------
(***************************************************************************)
(* The tool gateway of one request: its registry and allowlist, the calls  *)
(* made through it, and their audit.  An entry goes to the list returned   *)
(* with the result and, through the sink, to a task that writes it to the  *)
(* trace store later; such tasks overlap in their awaits, so the entries   *)
(* are written in any order.                                               *)
(***************************************************************************)
EXTENDS TraceStore, Sequences

CONSTANTS
  Tools,          \* tool names
  MaxWrites       \* bound on the audit entries being written at once

NoTool == "none"

ASSUME ToolsAssumption == NoTool \notin Tools /\ MaxWrites \in Nat

VARIABLES
  gate,           \* the tools registered and the tools allowed
  running,        \* the tool whose handler has been started and not returned, or none
  audit,          \* ToolGateway.audit
  unsaved,        \* positions in audit whose record_tool_audit task has not finished
  saved,          \* history: the rows such tasks have written
  handled,        \* history: handlers started, per tool
  asked           \* history: calls made

gatewayVars == <<traceVars, gate, running, audit, unsaved, saved, handled, asked>>

\* What is recorded of an exception is its text, which may be empty.
Errors == {"none", "empty", "message"}
Entry  == [tool: Tools, allowed: BOOLEAN, error: Errors]

GatewayTypeOK ==
  /\ TraceTypeOK
  /\ gate \in [registry: SUBSET Tools, allow: SUBSET Tools]
  /\ running \in Tools \union {NoTool}
  /\ audit \in Seq(Entry) /\ unsaved \subseteq DOMAIN audit /\ saved \subseteq traces
  /\ handled \in [Tools -> Nat] /\ asked \in Nat

GatewayInit(registry, allow) ==
  /\ TraceInit
  /\ gate = [registry |-> registry, allow |-> allow]
  /\ running = NoTool /\ audit = <<>> /\ unsaved = {} /\ saved = {}
  /\ handled = [t \in Tools |-> 0] /\ asked = 0

-----------------------------------------------------------------------------
Permitted(tool) == tool \in gate.registry /\ tool \in gate.allow

\* _record: the list always gets the entry; the sink schedules a write, unless it fails.
RecordCall(tool, allowed, error) ==
  /\ audit' = Append(audit, [tool |-> tool, allowed |-> allowed, error |-> error])
  /\ \/ UNCHANGED unsaved
     \/ Cardinality(unsaved) < MaxWrites /\ unsaved' = unsaved \union {Len(audit) + 1}
  /\ UNCHANGED saved

\* An unknown tool, or one that is not on the allowlist: no handler runs.
Deny(tool) ==
  /\ running = NoTool /\ ~Permitted(tool)
  /\ asked' = asked + 1
  /\ RecordCall(tool, FALSE, "message")
  /\ UNCHANGED <<gate, running, handled>>

Invoke(tool) ==
  /\ running = NoTool /\ Permitted(tool)
  /\ asked' = asked + 1
  /\ running' = tool
  /\ handled' = [handled EXCEPT ![tool] = @ + 1]
  /\ UNCHANGED <<gate, audit, unsaved, saved>>

\* Mutant: the entry is written after the handler, not in a finally.
ReturnUnrecorded(tool, error) ==
  /\ running = tool /\ running # NoTool
  /\ running' = NoTool
  /\ IF error # "none" THEN UNCHANGED <<audit, unsaved, saved>>
     ELSE RecordCall(tool, TRUE, error)
  /\ UNCHANGED <<gate, handled, asked>>

\* The handler returns or raises; either way the caller gets a result.
Return(tool, error) ==
  /\ running = tool /\ running # NoTool
  /\ running' = NoTool
  /\ RecordCall(tool, TRUE, error)
  /\ UNCHANGED <<gate, handled, asked>>

\* A scheduled write is done.
SaveAudit ==
  /\ \E i \in unsaved : /\ Record("tool", AuditStatus(audit[i]))
                        /\ unsaved' = unsaved \ {i}
  /\ saved' = saved \union (traces' \ traces)
  /\ UNCHANGED <<gate, running, audit, handled, asked, summary>>

\* The process ends with writes still scheduled: they are lost, nobody waits for them.
LoseUnsaved ==
  /\ unsaved # {}
  /\ unsaved' = {}
  /\ UNCHANGED <<traceVars, gate, running, audit, saved, handled, asked>>

-----------------------------------------------------------------------------
\* The calls of a tool that the audit shows as allowed; those of its entries i that are
\* recorded with a status; the rows written with it.
Allowed(tool)      == {i \in DOMAIN audit : audit[i].tool = tool /\ audit[i].allowed}
Audited(status)    == {i \in DOMAIN audit : AuditStatus(audit[i]) = status}
SavedWith(status)  == {row \in saved : row.status = status}

(* gateway.py:6-10: every call leaves exactly one entry once it is         *)
(* answered; a tool's handler ran exactly as often as the audit says it    *)
(* was allowed, so a denied call never reached one; and the trace store    *)
(* is told of no call that the audit does not hold, and of none twice.     *)
EveryCallAudited ==
  /\ Len(audit) + (IF running = NoTool THEN 0 ELSE 1) = asked
  /\ \A t \in Tools :
       handled[t] = Cardinality(Allowed(t)) + (IF running = t THEN 1 ELSE 0)
  /\ \A s \in Recorded :
       Cardinality(SavedWith(s)) + Cardinality(unsaved \intersect Audited(s))
         <= Cardinality(Audited(s))
=============================================================================
