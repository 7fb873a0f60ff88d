-------------------------- MODULE AutonomousAgent --------------------------
(***************************************************************************)
(* run_autonomous: rounds of plan, act and reflect.  A round acts through  *)
(* run_agent (AgentLoop), whose `remember` tool writes into the memory the *)
(* rounds share.  The text a round ends with is named by its round; 0 is   *)
(* the empty text.                                                         *)
(***************************************************************************)
EXTENDS AgentLoop

CONSTANTS
  MaxRounds,      \* max_iterations
  Notes           \* what the model may ask to remember

ASSUME RoundsAssumption == MaxRounds \in Nat /\ Notes \intersect Nat = {}

VARIABLES
  auto,           \* the outer loop and the result it builds
  memory,         \* the scratchpad: notes and round results
  spent           \* run_autonomous's own cost_usd

autoVars == <<loopVars, auto, memory, spent>>

\* How the reflection's reply reads: goal_met is true, is a text (which Python takes for
\* true, "false" included), is false or empty, or cannot be found.
Verdicts == {"true", "text", "false", "unparsed"}
Met      == {"true", "text"}

AutoStages == {"idle", "planning", "acting", "reflecting", "done", "failed"}
AutoTypeOK ==
  /\ LoopTypeOK
  /\ auto \in [stage: AutoStages, round: 0..MaxRounds, focused: BOOLEAN,
               text: 0..MaxRounds, answer: 0..MaxRounds, completed: BOOLEAN,
               rounds: Seq([actions: 0..MaxRounds, verdict: Verdicts])]
  /\ memory \in Seq(Notes \union 1..MaxRounds) /\ spent \in Costs

AutoInit ==
  /\ LoopInit
  /\ auto = [stage |-> "idle", round |-> 0, focused |-> FALSE, text |-> 0, answer |-> 0,
             completed |-> FALSE, rounds |-> <<>>]
  /\ memory = <<>> /\ spent = 0

-----------------------------------------------------------------------------
StartAuto ==
  /\ auto.stage = "idle"
  /\ auto' = IF MaxRounds = 0 THEN [auto EXCEPT !.stage = "done"]
             ELSE [auto EXCEPT !.stage = "planning", !.round = 1]
  /\ UNCHANGED <<loopVars, memory, spent>>

\* The planner answers; whatever it said, some plan is made of it (the goal itself, if no
\* steps are found), and the acting agent starts on it.
Plan(known) ==
  /\ auto.stage = "planning"
  /\ Launch
  /\ auto' = [auto EXCEPT !.stage = "acting"]
  /\ spent' = AddCost(spent, CostOf(known)) /\ Bill(known)
  /\ UNCHANGED memory

Act ==
  /\ auto.stage = "acting"
  /\ LoopStep
  /\ UNCHANGED <<auto, memory, spent>>

\* The tool call that returns is `remember`: a note not there yet is added.
Remember(note) ==
  /\ auto.stage = "acting"
  /\ \E size \in Sizes : ToolReturns(size)
  /\ memory' = IF note \in ToSet(memory) THEN memory ELSE Append(memory, note)
  /\ UNCHANGED <<auto, spent>>

\* run_agent returns, with a text only if it completed: the text becomes the answer and is
\* remembered; an empty one leaves the answer of an earlier round.
ActReturns(text) ==
  /\ auto.stage = "acting"
  /\ \/ loop.stage = "completed" /\ text \in {0, auto.round}
     \/ loop.stage = "max_steps_reached" /\ text = 0
  /\ talk' = <<>> /\ loop' = [stage |-> "idle", step |-> 0] /\ cost' = 0
  /\ spent' = AddCost(spent, cost)
  /\ auto' = [auto EXCEPT !.stage = "reflecting", !.text = text,
                          !.answer = IF text # 0 THEN text ELSE @]
  /\ memory' = IF text # 0 THEN Append(memory, text) ELSE memory
  /\ UNCHANGED billed

\* Mutant: whatever is not a refusal counts as a success.
GoalMetUnlessDenied(verdict) == verdict # "false"

GoalMet(verdict) == verdict \in Met

\* The judge answers: done if the goal is met or the rounds are used up, else another round,
\* focused on what the judge named as missing (an unreadable reply always names something).
Reflect(verdict, named, known) ==
  LET met  == GoalMet(verdict)
      last == auto.round = MaxRounds
  IN  /\ auto.stage = "reflecting"
      /\ verdict = "unparsed" => named
      /\ auto' = [auto EXCEPT !.rounds = Append(@, [actions |-> auto.text, verdict |-> verdict]),
                              !.completed = met, !.focused = IF met THEN @ ELSE named,
                              !.stage = IF met \/ last THEN "done" ELSE "planning",
                              !.round = IF met \/ last THEN @ ELSE @ + 1, !.text = 0]
      /\ spent' = AddCost(spent, CostOf(known)) /\ Bill(known)
      /\ UNCHANGED <<talk, loop, cost, memory>>

\* No provider, an exception from a client, or a plan that is JSON but not a list of steps:
\* nothing is caught here, run_autonomous raises.
AutoFails ==
  /\ \/ auto.stage \in {"planning", "reflecting"}
     \/ auto.stage = "acting" /\ loop.stage = "failed"
  /\ auto' = [auto EXCEPT !.stage = "failed"]
  /\ UNCHANGED <<loopVars, memory, spent>>

AutoStep ==
  \/ \E known \in BOOLEAN : \/ Plan(known)
                            \/ \E verdict \in Verdicts, named \in BOOLEAN :
                                  Reflect(verdict, named, known)
  \/ Act
  \/ \E note \in Notes : Remember(note)
  \/ \E text \in 0..MaxRounds : ActReturns(text)
  \/ AutoFails
AutoNext == StartAuto \/ AutoStep
AutoSpec == AutoInit /\ [][AutoNext]_autoVars /\ WF_autoVars(AutoStep)

-----------------------------------------------------------------------------
(* agent.py:125-127 and 240-242: the result tells what the rounds did.     *)
(* The final answer is the last text any round ended with (a text is named *)
(* by its round), all those texts are in the memory, in order and once,    *)
(* only the last round's verdict may complete the run, and an unreadable   *)
(* one never does.                                                         *)
ResultFollowsRounds ==
  LET n     == Len(auto.rounds)
      texts == {auto.rounds[i].actions : i \in 1..n} \ {0}
  IN  auto.stage \in {"planning", "done"} =>
        /\ auto.answer \in texts \union {0} /\ \A x \in texts : x <= auto.answer
        /\ ToSet(memory) \ Notes = texts
        /\ \A i, j \in DOMAIN memory :
             i < j /\ {memory[i], memory[j]} \subseteq texts => memory[i] < memory[j]
        /\ auto.completed <=> n > 0 /\ auto.rounds[n].verdict \in Met
        /\ \A i \in 1..(n - 1) : auto.rounds[i].verdict \notin Met
        /\ auto.completed => auto.rounds[n].verdict # "unparsed"

(* _util.py:12-13 and agent.py:221-246: the cost that is reported holds    *)
(* the price of every model turn the run has taken, once: the plans', the  *)
(* acting steps', the compactions' and the reflections'; it is unknown     *)
(* exactly if the price of one of them is.                                 *)
CostIsHonest ==
  auto.stage = "done" => spent = IF billed.unpriced THEN Unpriced ELSE billed.turns

(* The rounds end whatever the models answer.                              *)
AutoEnds == []<>(auto.stage \in {"idle", "done", "failed"})
=============================================================================
