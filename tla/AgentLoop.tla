----------------------------- MODULE AgentLoop -----------------------------
(***************************************************************************)
(* run_agent: one model turn after another over a growing transcript, the  *)
(* tool calls of each answer run in order, until an answer without calls   *)
(* or max_steps; and the context engine, which folds the older part of a   *)
(* transcript that grew too large into one summary.                        *)
(*                                                                         *)
(* A transcript item is its role, its size, and how many tool calls of the *)
(* answer it belongs to are still open after it: all of them after the     *)
(* answer, one less after each result.  That stands for the call ids.      *)
(***************************************************************************)
EXTENDS Integers, SequencesExt

CONSTANTS
  MaxSteps,       \* Agent.max_steps
  MaxCalls,       \* bound on the tool calls of one answer
  Sizes,          \* estimated sizes of a tool result
  Trigger,        \* max_context_tokens * compact_trigger_ratio
  KeepRecent      \* ContextPolicy.keep_recent_items

ASSUME LoopAssumption ==
  /\ MaxSteps \in Nat /\ MaxCalls \in Nat /\ Sizes \subseteq Nat
  /\ Trigger \in Nat /\ KeepRecent \in Nat

VARIABLES
  talk,           \* the transcript
  loop,           \* where run_agent is, and in which step
  cost,           \* run_agent's own cost_usd
  billed          \* history: what the model turns came to, as router.step reported them

loopVars == <<talk, loop, cost, billed>>

Item   == [role: {"user", "assistant", "tool"}, size: Nat, open: Nat]
Ended  == {"completed", "max_steps_reached", "failed"}
Stages == {"idle", "summarizing", "asking", "tooling"} \union Ended

\* A sum of dollars, or None; an answer of known price costs one.
Unpriced == -1
Costs    == Nat \union {Unpriced}

LoopTypeOK ==
  /\ talk \in Seq(Item)
  /\ loop \in [stage: Stages, step: 0..MaxSteps]
  /\ cost \in Costs /\ billed \in [turns: Nat, unpriced: BOOLEAN]

User           == [role |-> "user", size |-> 1, open |-> 0]
Assistant(n)   == [role |-> "assistant", size |-> 1, open |-> n]
Result(t, s)   == [role |-> "tool", size |-> s, open |-> Last(t).open - 1]

-----------------------------------------------------------------------------
\* The context engine.
Estimate(t) == FoldLeft(LAMBDA total, item : total + item.size, 0, t)

\* Mutant: the cut falls where it may.
CutAnywhere(t) == IF Len(t) > KeepRecent THEN Len(t) - KeepRecent ELSE 0

\* Where the recent part starts, as the number of items before it.
Cut(t) ==
  LET from == IF Len(t) > KeepRecent THEN Len(t) - KeepRecent ELSE 0
  IN  CHOOSE c \in from..Len(t) :
        /\ c = Len(t) \/ t[c + 1].role # "tool"
        /\ \A d \in from..(c - 1) : t[d + 1].role = "tool"

Compacts(t)  == Estimate(t) >= Trigger /\ Cut(t) >= 2
Compacted(t) == <<User>> \o SubSeq(t, Cut(t) + 1, Len(t))

\* Mutant: a message of its own for each item.
EmitApart(messages, item) ==
  Append(messages, [role    |-> IF item.role = "assistant" THEN "assistant" ELSE "user",
                    uses    |-> IF item.role = "assistant" THEN item.open ELSE 0,
                    results |-> IF item.role = "tool" THEN 1 ELSE 0])

\* What the Anthropic client sends: items of one role in a row share a message, with the
\* tool_use blocks of an answer and the tool_result blocks of a user message counted.
Emit(messages, item) ==
  LET role    == IF item.role = "assistant" THEN "assistant" ELSE "user"
      uses    == IF item.role = "assistant" THEN item.open ELSE 0
      results == IF item.role = "tool" THEN 1 ELSE 0
      n       == Len(messages)
  IN  IF n > 0 /\ messages[n].role = role
      THEN [messages EXCEPT ![n].uses = @ + uses, ![n].results = @ + results]
      ELSE Append(messages, [role |-> role, uses |-> uses, results |-> results])
Rendered(t) ==
  LET messages[n \in 0..Len(t)] == IF n = 0 THEN <<>> ELSE Emit(messages[n - 1], t[n])
  IN  messages[Len(t)]
\* What the other clients send: the system prompt and one message per item.
RenderedOpenAi(t) == <<[role |-> "system", open |-> 0]>>
                     \o [i \in DOMAIN t |-> [role |-> t[i].role, open |-> t[i].open]]

-----------------------------------------------------------------------------
\* None is contagious.
AddCost(total, delta) == IF Unpriced \in {total, delta} THEN Unpriced ELSE total + delta

\* The price table knows the model that answered, or it does not.
CostOf(known) == IF known THEN 1 ELSE Unpriced
Bill(known)   == billed' = [turns |-> billed.turns + 1, unpriced |-> billed.unpriced \/ ~known]

\* The head of the for loop, with the compaction that may come first.
Goto(t, step) == [step  |-> step,
                  stage |-> IF step = MaxSteps THEN "max_steps_reached"
                            ELSE IF Compacts(t) THEN "summarizing" ELSE "asking"]

LoopInit ==
  /\ talk = <<>>
  /\ loop = [stage |-> "idle", step |-> 0]
  /\ cost = 0 /\ billed = [turns |-> 0, unpriced |-> FALSE]

\* run_agent is called; what its caller adds up is the caller's.
Launch ==
  /\ loop.stage = "idle"
  /\ talk' = <<User>>
  /\ loop' = Goto(<<User>>, 0)
  /\ cost' = 0
StartRun == Launch /\ UNCHANGED billed

\* Mutant: the summarizer's tokens are not paid for.
SummarizeFree(known) ==
  /\ loop.stage = "summarizing"
  /\ talk' = Compacted(talk)
  /\ loop' = [loop EXCEPT !.stage = "asking"]
  /\ UNCHANGED cost /\ Bill(known)

\* The summarizer answers.
Summarize(known) ==
  /\ loop.stage = "summarizing"
  /\ talk' = Compacted(talk)
  /\ loop' = [loop EXCEPT !.stage = "asking"]
  /\ cost' = AddCost(cost, CostOf(known)) /\ Bill(known)

\* The model answers with n tool calls; without any, the run is over.
Answer(n, known) ==
  /\ loop.stage = "asking"
  /\ talk' = Append(talk, Assistant(n))
  /\ loop' = [loop EXCEPT !.stage = IF n = 0 THEN "completed" ELSE "tooling"]
  /\ cost' = AddCost(cost, CostOf(known)) /\ Bill(known)

\* A tool call is done: the result, or what went wrong, as text.  After the last one the
\* next step begins.
ToolReturns(size) ==
  /\ loop.stage = "tooling"
  /\ LET longer == Append(talk, Result(talk, size))
     IN  /\ talk' = longer
         /\ loop' = IF Last(longer).open = 0 THEN Goto(longer, loop.step + 1) ELSE loop
  /\ UNCHANGED <<cost, billed>>

\* The router has nobody left, or lets an exception through: so does run_agent.
ModelFails ==
  /\ loop.stage \in {"summarizing", "asking"}
  /\ loop' = [loop EXCEPT !.stage = "failed"]
  /\ UNCHANGED <<talk, cost, billed>>

LoopStep ==
  \/ \E known \in BOOLEAN : Summarize(known) \/ \E n \in 0..MaxCalls : Answer(n, known)
  \/ \E size \in Sizes : ToolReturns(size)
  \/ ModelFails
LoopNext == StartRun \/ LoopStep

\* A model turn ends (ModelRouter.TurnsEnd), and so does a tool.
LoopSpec == LoopInit /\ [][LoopNext]_loopVars /\ WF_loopVars(LoopStep)

-----------------------------------------------------------------------------
\* Each open call is followed by its result, and nothing else is a result.
Paired(t) ==
  /\ t # <<>> /\ t[1].role = "user"
  /\ \A i \in 1..(Len(t) - 1) :
       /\ t[i + 1].role = "tool" <=> t[i].open > 0
       /\ t[i + 1].role = "tool" => t[i + 1].open = t[i].open - 1

(* context.py:101-102: what is sent to a model holds every tool call with  *)
(* all its results right behind it, and no result without its call, after  *)
(* any number of compactions.                                              *)
CallsAnswered ==
  loop.stage \in {"summarizing", "asking"} => Paired(talk) /\ Last(talk).open = 0

(* clients.py:227-232: the messages rendered for Anthropic begin and end   *)
(* with the user, take turns, and hold the results of all tool uses of an  *)
(* answer in the message right after it; to the other providers a tool     *)
(* message goes behind a message that has calls open, and only there.      *)
MessagesAlternate ==
  loop.stage = "asking" =>
    LET messages == Rendered(talk)
        n        == Len(messages)
        wire     == RenderedOpenAi(talk)
    IN  /\ \A i \in 2..Len(wire) : wire[i].role = "tool" <=> wire[i - 1].open > 0
        /\ messages[1].role = "user" /\ messages[n].role = "user"
        /\ messages[1].results = 0
        /\ \A i \in 1..(n - 1) : /\ messages[i].role # messages[i + 1].role
                                 /\ messages[i].uses = messages[i + 1].results

(* A run ends whatever the models answer and the tools return.             *)
RunEnds == []<>(loop.stage \in {"idle"} \union Ended)
=============================================================================
