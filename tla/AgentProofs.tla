---------------------------- MODULE AgentProofs ----------------------------
(***************************************************************************)
(* The agent: its transcript, its rounds, and the router its turns go to.  *)
(* A transcript holds each tool call with all its results behind it, for   *)
(* any number of steps, calls, results and compactions, and what is        *)
(* rendered of it for a provider takes turns; the result of a              *)
(* run in rounds tells what its rounds did; and the router refuses a turn, *)
(* or passes a provider over, only for failures and cooldowns that concern *)
(* this turn.                                                              *)
(*                                                                         *)
(* The cut of a compaction is a CHOOSE over indices, the provider a turn   *)
(* asks one over ranks; that there is a least one is taken here from the   *)
(* well-foundedness of inclusion on the subsets of a finite set.           *)
(***************************************************************************)
EXTENDS AutonomousAgent, ModelRouter, FiniteSetTheorems, TLAPS

LEMMA LeastNat ==
  ASSUME NEW S \in SUBSET Nat, S # {}
  PROVE  \E x \in S : \A y \in S : x <= y
<1>1. PICK m \in S : TRUE
  OBVIOUS
<1> DEFINE below == {x \in S : x <= m}
           T     == {0..x : x \in below}
           R     == StrictSubsetOrdering(0..m)
<1>2. IsFiniteSet(0..m)
  BY <1>1, FS_Interval
<1>3. IsWellFoundedOn(R, SUBSET (0..m))
  BY <1>2, FS_StrictSubsetOrderingWellFounded, FS_FiniteSubsetsOfFinite
<1>4. T \subseteq SUBSET (0..m) /\ T # {}
  OBVIOUS
<1>5. \E t \in T : \A u \in T : ~(<<u, t>> \in R)
  <2> HIDE DEF T, R
  <2> QED
    BY <1>3, <1>4, WFMin
<1>6. PICK t \in T : \A u \in T : ~(<<u, t>> \in R)
  BY <1>5
<1>7. PICK x \in below : t = 0..x
  BY <1>6
<1>8. ASSUME NEW y \in S, y < x PROVE FALSE
  <2>1. y \in below /\ 0..y \in T
    BY <1>7, <1>8
  <2>2. <<0..y, 0..x>> \in R
    BY <2>1, <1>7, <1>8, <1>4 DEF StrictSubsetOrdering
  <2> QED
    BY <2>1, <2>2, <1>6, <1>7
<1> QED
  BY <1>7, <1>8

\* Induction up to a number, over the members of a set.
LEMMA UpTo ==
  ASSUME NEW N \in Nat, NEW S, 0 \in S, \A k \in 0..(N - 1) : k \in S => k + 1 \in S
  PROVE  0..N \subseteq S
<1> SUFFICES ASSUME (0..N) \ S # {} PROVE FALSE
  OBVIOUS
<1>1. PICK x \in (0..N) \ S : \A y \in (0..N) \ S : x <= y
  <2>1. (0..N) \ S \in SUBSET Nat
    OBVIOUS
  <2> QED
    BY <2>1, LeastNat
<1>2. x # 0 /\ x - 1 \in 0..(N - 1)
  BY <1>1
<1>3. x - 1 \in S
  BY <1>1, <1>2
<1> QED
  BY <1>1, <1>2, <1>3

-----------------------------------------------------------------------------
Working == {"summarizing", "asking", "tooling"}

\* What is open at the end of the transcript says where the loop is.
LoopInv ==
  /\ LoopTypeOK
  /\ loop.stage # "idle" => Paired(talk)
  /\ loop.stage \in {"summarizing", "asking"} => Last(talk).open = 0
  /\ loop.stage = "tooling" => Last(talk).open > 0
  /\ loop.stage \in Working => loop.step < MaxSteps

\* An item more.
LEMMA OneMoreItem ==
  ASSUME NEW t \in Seq(Item), NEW item \in Item
  PROVE  /\ Append(t, item) \in Seq(Item)
         /\ Len(t) \in Nat /\ Len(Append(t, item)) = Len(t) + 1
         /\ \A i \in 1..Len(t) : Append(t, item)[i] = t[i]
         /\ Append(t, item)[Len(t) + 1] = item
         /\ Last(Append(t, item)) = item
         /\ Append(t, item) # <<>>
  BY DEF Last

LEMMA LastItem ==
  ASSUME NEW t \in Seq(Item), t # <<>>
  PROVE  /\ Len(t) \in Nat /\ Len(t) >= 1
         /\ Last(t) = t[Len(t)] /\ Last(t) \in Item
         /\ Last(t).open \in Nat
<1>1. Len(t) \in Nat /\ Len(t) >= 1 /\ Last(t) = t[Len(t)] /\ Last(t) \in Item
  BY DEF Last
<1> QED
  BY <1>1 DEF Item

\* An item that goes with what is open before it keeps the transcript paired.
LEMMA PairedMore ==
  ASSUME NEW t \in Seq(Item), Paired(t), NEW item \in Item,
         item.role = "tool" <=> Last(t).open > 0,
         item.role = "tool" => item.open = Last(t).open - 1
  PROVE  Paired(Append(t, item))
<1> DEFINE longer == Append(t, item)
           n      == Len(t)
<1>1. /\ n \in Nat /\ Len(longer) = n + 1 /\ longer # <<>>
      /\ \A i \in 1..n : longer[i] = t[i]
      /\ longer[n + 1] = item
  BY OneMoreItem
<1>2. t # <<>> /\ t[1].role = "user" /\ n >= 1 /\ Last(t) = t[n]
  BY LastItem DEF Paired
<1>3. ASSUME NEW i \in 1..n
      PROVE  /\ longer[i + 1].role = "tool" <=> longer[i].open > 0
             /\ longer[i + 1].role = "tool" => longer[i + 1].open = longer[i].open - 1
  <2>1. CASE i = n
    BY <1>1, <1>2, <2>1
  <2>2. CASE i # n
    <3>1. i \in 1..(n - 1) /\ i + 1 \in 1..n
      BY <1>1, <2>2
    <3>2. /\ t[i + 1].role = "tool" <=> t[i].open > 0
          /\ t[i + 1].role = "tool" => t[i + 1].open = t[i].open - 1
      BY <3>1 DEF Paired
    <3>3. longer[i + 1] = t[i + 1] /\ longer[i] = t[i]
      BY <1>1, <3>1
    <3> QED
      BY <3>2, <3>3
  <2> QED
    BY <2>1, <2>2
<1> HIDE DEF longer
<1>4. longer[1].role = "user"
  BY <1>1, <1>2
<1>5. Paired(longer)
  BY <1>1, <1>3, <1>4 DEF Paired
<1> QED
  BY <1>5 DEF longer

\* The cut is behind everything, or before something that is not a result.
LEMMA CutSeparates ==
  ASSUME NEW t \in Seq(Item)
  PROVE  /\ Cut(t) \in 0..Len(t)
         /\ Cut(t) = Len(t) \/ t[Cut(t) + 1].role # "tool"
<1> DEFINE n    == Len(t)
           from == IF n > KeepRecent THEN n - KeepRecent ELSE 0
           S    == {c \in from..n : c = n \/ t[c + 1].role # "tool"}
<1>1. n \in Nat /\ from \in 0..n
  BY LoopAssumption
<1>2. PICK x \in S : \A y \in S : x <= y
  <2>1. S \in SUBSET Nat /\ n \in S
    BY <1>1
  <2> HIDE DEF S
  <2> QED
    BY <2>1, LeastNat
<1>3. ASSUME NEW d \in from..(x - 1) PROVE t[d + 1].role = "tool"
  <2>1. d \in from..n /\ ~(x <= d) /\ d # n
    BY <1>1, <1>2
  <2>2. d \notin S
    BY <1>2, <2>1
  <2> QED
    BY <2>1, <2>2
<1>4. Cut(t) \in from..n /\ (Cut(t) = n \/ t[Cut(t) + 1].role # "tool")
  <2> DEFINE Good(c) == /\ c = n \/ t[c + 1].role # "tool"
                       /\ \A d \in from..(c - 1) : t[d + 1].role = "tool"
  <2>1. Cut(t) = CHOOSE c \in from..n : Good(c)
    BY DEF Cut
  <2>2. x \in from..n /\ Good(x)
    BY <1>2, <1>3
  <2> HIDE DEF Good, from
  <2>3. Cut(t) \in from..n /\ Good(Cut(t))
    BY <2>1, <2>2
  <2> QED
    BY <2>3 DEF Good
<1> QED
  BY <1>1, <1>4

\* A compaction splits no call from its results.
LEMMA CompactedPaired ==
  ASSUME NEW t \in Seq(Item), Paired(t), Last(t).open = 0
  PROVE  /\ Compacted(t) \in Seq(Item)
         /\ Paired(Compacted(t)) /\ Last(Compacted(t)).open = 0
<1> DEFINE c == Cut(t)
           n == Len(t)
           r == SubSeq(t, c + 1, n)
           s == Compacted(t)
<1>1. c \in 0..n /\ n \in Nat /\ (c = n \/ t[c + 1].role # "tool")
  BY CutSeparates
<1>2. r \in Seq(Item) /\ Len(r) = n - c /\ \A i \in 1..(n - c) : r[i] = t[c + i]
  <2> HIDE DEF c
  <2> QED
    BY <1>1
<1>3. User \in Item /\ User.role = "user" /\ User.open = 0
  BY DEF User, Item
<1>4. s = <<User>> \o r
  BY DEF Compacted
<1> HIDE DEF r, s, c
<1>5. /\ s \in Seq(Item) /\ Len(s) = n - c + 1
      /\ s[1] = User /\ s # <<>>
      /\ \A i \in 2..(n - c + 1) : s[i] = r[i - 1]
  BY <1>1, <1>2, <1>3, <1>4
<1>6. \A i \in 2..(n - c + 1) : s[i] = t[c + i - 1]
  <2> SUFFICES ASSUME NEW i \in 2..(n - c + 1) PROVE s[i] = t[c + i - 1]
    OBVIOUS
  <2>1. i - 1 \in 1..(n - c) /\ c + (i - 1) = c + i - 1
    BY <1>1
  <2> QED
    BY <1>2, <1>5, <2>1
<1>7. ASSUME NEW i \in 1..(Len(s) - 1)
      PROVE  /\ s[i + 1].role = "tool" <=> s[i].open > 0
             /\ s[i + 1].role = "tool" => s[i + 1].open = s[i].open - 1
  <2>1. i \in 1..(n - c) /\ s[i + 1] = t[c + i]
    <3>1. i \in 1..(n - c)
      BY <1>1, <1>5
    <3>2. i + 1 \in 2..(n - c + 1) /\ c + (i + 1) - 1 = c + i
      BY <1>1, <3>1
    <3> QED
      BY <1>6, <3>1, <3>2
  <2>2. CASE i = 1
    <3>1. c # n /\ s[2] = t[c + 1] /\ s[1] = User
      BY <1>1, <1>5, <2>1, <2>2
    <3> QED
      BY <1>1, <1>3, <2>2, <3>1
  <2>3. CASE i # 1
    <3>1. s[i] = t[c + i - 1] /\ c + i - 1 \in 1..(n - 1) /\ (c + i - 1) + 1 = c + i
      BY <1>1, <1>6, <2>1, <2>3
    <3>2. /\ t[(c + i - 1) + 1].role = "tool" <=> t[c + i - 1].open > 0
          /\ t[(c + i - 1) + 1].role = "tool"
               => t[(c + i - 1) + 1].open = t[c + i - 1].open - 1
      BY <3>1 DEF Paired
    <3> QED
      BY <2>1, <3>1, <3>2
  <2> QED
    BY <2>2, <2>3
<1>8. Paired(s)
  BY <1>3, <1>5, <1>7 DEF Paired
<1>9. Last(s).open = 0
  <2>1. Last(s) = s[n - c + 1] /\ n - c + 1 \in 1..(n - c + 1)
    BY <1>1, <1>5 DEF Last
  <2>2. CASE c = n
    BY <1>1, <1>3, <1>5, <2>1, <2>2
  <2>3. CASE c # n
    <3>1. s[n - c + 1] = t[n]
      BY <1>1, <1>6, <2>3
    <3>2. Last(t) = t[n]
      BY LastItem DEF Paired
    <3> QED
      BY <2>1, <3>1, <3>2
  <2> QED
    BY <2>2, <2>3
<1> QED
  BY <1>5, <1>8, <1>9 DEF s

-----------------------------------------------------------------------------
\* Where the loop goes after a transcript with nothing open.
LEMMA GoesOn ==
  ASSUME NEW t, NEW step \in 0..MaxSteps
  PROVE  /\ Goto(t, step) \in [stage: Stages, step: 0..MaxSteps]
         /\ Goto(t, step).stage \in {"max_steps_reached", "summarizing", "asking"}
         /\ Goto(t, step).stage \in Working => Goto(t, step).step < MaxSteps
  BY LoopAssumption DEF Goto, Stages, Ended, Working

LEMMA LoopStarts == LoopInit => LoopInv
<1> SUFFICES ASSUME LoopInit PROVE LoopInv
  OBVIOUS
<1>1. loop \in [stage: Stages, step: 0..MaxSteps] /\ loop.stage = "idle"
  BY LoopAssumption DEF LoopInit, Stages
<1>2. cost \in Costs /\ billed \in [turns: Nat, unpriced: BOOLEAN]
  BY DEF LoopInit, Costs
<1>3. talk \in Seq(Item)
  <2>1. <<>> \in Seq(Item)
    OBVIOUS
  <2> QED
    BY <2>1 DEF LoopInit
<1> QED
  BY <1>1, <1>2, <1>3 DEF LoopInv, LoopTypeOK, Working

\* None is contagious, whatever the order.
LEMMA CostAdded ==
  ASSUME NEW x \in Costs, NEW y \in Costs, NEW z \in Costs
  PROVE  /\ AddCost(x, y) \in Costs /\ AddCost(x, 0) = x
         /\ AddCost(x, AddCost(y, z)) = AddCost(AddCost(x, y), z)
         /\ AddCost(AddCost(x, y), z) = AddCost(AddCost(x, z), y)
<1>1. /\ x \in Nat \/ x = Unpriced
      /\ y \in Nat \/ y = Unpriced
      /\ z \in Nat \/ z = Unpriced
      /\ Unpriced \notin Nat
  BY DEF Costs, Unpriced
<1> QED
  BY <1>1 DEF AddCost, Costs, Unpriced

\* What some turns came to.
Due(b) == IF b.unpriced THEN Unpriced ELSE b.turns

LEMMA OneMoreBilled ==
  ASSUME billed \in [turns: Nat, unpriced: BOOLEAN], NEW known \in BOOLEAN, Bill(known)
  PROVE  /\ billed' \in [turns: Nat, unpriced: BOOLEAN] /\ CostOf(known) \in Costs
         /\ Due(billed') = AddCost(Due(billed), CostOf(known))
<1> DEFINE more == billed.turns + 1
           none == billed.unpriced \/ ~known
<1>0. billed' = [turns |-> more, unpriced |-> none] /\ more \in Nat /\ none \in BOOLEAN
  BY DEF Bill
<1>1. /\ billed'.turns = billed.turns + 1 /\ billed.turns \in Nat
      /\ billed'.unpriced = (billed.unpriced \/ ~known)
      /\ billed.unpriced \in BOOLEAN
      /\ billed' \in [turns: Nat, unpriced: BOOLEAN]
  <2>1. billed.turns \in Nat /\ billed.unpriced \in BOOLEAN
    OBVIOUS
  <2>2. billed'.turns = more /\ billed'.unpriced = none
    BY <1>0
  <2> HIDE DEF more, none
  <2>3. billed' \in [turns: Nat, unpriced: BOOLEAN]
    BY <1>0
  <2> QED
    BY <2>1, <2>2, <2>3 DEF more, none
<1>2. CostOf(known) \in Costs
  BY DEF CostOf, Costs
<1>3. Due(billed') = AddCost(Due(billed), CostOf(known))
  BY <1>1 DEF Due, AddCost, CostOf, Unpriced
<1> QED
  BY <1>1, <1>2, <1>3

\* A transcript begins with the prompt, whatever its caller has paid for before.
LEMMA LaunchKeeps ==
  ASSUME Launch, billed' \in [turns: Nat, unpriced: BOOLEAN]
  PROVE  LoopInv'
<1>0. cost' = 0 /\ cost' \in Costs
  BY DEF Launch, Costs
<1>1. talk' = <<User>> /\ loop' = Goto(<<User>>, 0) /\ 0 \in 0..MaxSteps
  BY LoopAssumption DEF Launch
<1>2. User \in Item /\ User.role = "user" /\ User.open = 0
  BY DEF User, Item
<1>3. <<User>> \in Seq(Item) /\ Paired(<<User>>) /\ Last(<<User>>) = User
  BY <1>2 DEF Paired, Last
<1> QED
  BY <1>0, <1>1, <1>2, <1>3, GoesOn DEF LoopInv, LoopTypeOK

LEMMA LoopSteps == LoopInv /\ [LoopNext]_loopVars => LoopInv'
<1> SUFFICES ASSUME LoopInv, [LoopNext]_loopVars PROVE LoopInv'
  OBVIOUS
<1>t. /\ talk \in Seq(Item) /\ loop \in [stage: Stages, step: 0..MaxSteps]
      /\ cost \in Costs /\ billed \in [turns: Nat, unpriced: BOOLEAN] /\ MaxSteps \in Nat
  BY LoopAssumption DEF LoopInv, LoopTypeOK
<1>p. ASSUME NEW known \in BOOLEAN, Bill(known), cost' = AddCost(cost, CostOf(known))
      PROVE  cost' \in Costs /\ billed' \in [turns: Nat, unpriced: BOOLEAN]
  BY <1>t, <1>p, OneMoreBilled, CostAdded
<1>1. CASE StartRun
  BY <1>1, <1>t, LaunchKeeps DEF StartRun
<1>2. ASSUME NEW known \in BOOLEAN, Summarize(known) PROVE LoopInv'
  <2>1. /\ loop.stage = "summarizing" /\ talk' = Compacted(talk)
        /\ loop' = [loop EXCEPT !.stage = "asking"]
        /\ Bill(known) /\ cost' = AddCost(cost, CostOf(known))
    BY <1>2 DEF Summarize
  <2>2. talk' \in Seq(Item) /\ Paired(talk') /\ Last(talk').open = 0
    BY <1>t, <2>1, CompactedPaired DEF LoopInv
  <2>3. loop'.stage = "asking" /\ loop'.step = loop.step /\ loop.step < MaxSteps
    BY <1>t, <2>1 DEF LoopInv, Working
  <2>4. loop' \in [stage: Stages, step: 0..MaxSteps]
    BY <1>t, <2>1 DEF Stages
  <2> QED
    BY <1>p, <2>1, <2>2, <2>3, <2>4 DEF LoopInv, LoopTypeOK
<1>3. ASSUME NEW known \in BOOLEAN, NEW n \in 0..MaxCalls, Answer(n, known) PROVE LoopInv'
  <2>1. /\ loop.stage = "asking" /\ talk' = Append(talk, Assistant(n))
        /\ Bill(known) /\ cost' = AddCost(cost, CostOf(known))
        /\ loop' = [loop EXCEPT !.stage = IF n = 0 THEN "completed" ELSE "tooling"]
    BY <1>3 DEF Answer
  <2>2. /\ Assistant(n) \in Item /\ Assistant(n).role = "assistant"
        /\ Assistant(n).open = n /\ n \in Nat
    BY LoopAssumption DEF Assistant, Item
  <2>3. Paired(talk) /\ Last(talk).open = 0 /\ loop.step < MaxSteps
    BY <2>1 DEF LoopInv, Working
  <2>4. talk' \in Seq(Item) /\ Last(talk') = Assistant(n)
    BY <1>t, <2>1, <2>2, OneMoreItem
  <2>5. Paired(talk')
    BY <1>t, <2>1, <2>2, <2>3, PairedMore
  <2>6. /\ loop' \in [stage: Stages, step: 0..MaxSteps]
        /\ loop'.stage = (IF n = 0 THEN "completed" ELSE "tooling")
        /\ loop'.step = loop.step
    BY <1>t, <2>1 DEF Stages, Ended
  <2> QED
    BY <1>p, <2>1, <2>2, <2>3, <2>4, <2>5, <2>6 DEF LoopInv, LoopTypeOK, Working
<1>4. ASSUME NEW size \in Sizes, ToolReturns(size) PROVE LoopInv'
  <2> DEFINE item   == Result(talk, size)
             longer == Append(talk, item)
  <2>1. /\ loop.stage = "tooling" /\ talk' = longer /\ UNCHANGED <<cost, billed>>
        /\ loop' = IF Last(longer).open = 0 THEN Goto(longer, loop.step + 1) ELSE loop
    BY <1>4 DEF ToolReturns
  <2>2. Paired(talk) /\ Last(talk).open > 0 /\ loop.step < MaxSteps
    BY <2>1 DEF LoopInv, Working
  <2>3. Last(talk).open \in Nat
    BY <1>t, <2>2, LastItem DEF Paired
  <2>4. /\ item \in Item /\ item.role = "tool" /\ item.open = Last(talk).open - 1
        /\ item.open \in Nat
    BY <2>2, <2>3, LoopAssumption DEF Result, Item
  <2> HIDE DEF item
  <2>5. longer \in Seq(Item) /\ Last(longer) = item
    BY <1>t, <2>4, OneMoreItem
  <2>6. Paired(longer)
    BY <1>t, <2>2, <2>4, PairedMore
  <2> HIDE DEF longer
  <2>7. CASE item.open = 0
    <3>1. loop' = Goto(longer, loop.step + 1) /\ loop.step + 1 \in 0..MaxSteps
      BY <1>t, <2>1, <2>2, <2>5, <2>7
    <3>2. /\ loop' \in [stage: Stages, step: 0..MaxSteps]
          /\ loop'.stage \in {"max_steps_reached", "summarizing", "asking"}
          /\ loop'.stage \in Working => loop'.step < MaxSteps
      BY <3>1, GoesOn
    <3> QED
      BY <1>t, <2>1, <2>5, <2>6, <2>7, <3>2 DEF LoopInv, LoopTypeOK
  <2>8. CASE item.open # 0
    <3>1. /\ loop' \in [stage: Stages, step: 0..MaxSteps]
          /\ loop'.stage = "tooling" /\ loop'.step < MaxSteps
      BY <1>t, <2>1, <2>2, <2>5, <2>8
    <3>2. Last(talk').open > 0
      <4>1. item.open > 0
        BY <2>3, <2>4, <2>8
      <4> QED
        BY <2>1, <2>5, <4>1, Zenon
    <3>3. /\ talk' \in Seq(Item) /\ Paired(talk') /\ cost' \in Costs
          /\ billed' \in [turns: Nat, unpriced: BOOLEAN]
      BY <1>t, <2>1, <2>5, <2>6
    <3> QED
      BY <3>1, <3>2, <3>3 DEF LoopInv, LoopTypeOK
  <2> QED
    BY <2>7, <2>8
<1>5. CASE ModelFails
  <2>1. /\ loop.stage # "idle" /\ loop' = [loop EXCEPT !.stage = "failed"]
        /\ UNCHANGED <<talk, cost, billed>>
    BY <1>5 DEF ModelFails
  <2>2. loop' \in [stage: Stages, step: 0..MaxSteps] /\ loop'.stage = "failed"
    BY <1>t, <2>1 DEF Stages, Ended
  <2> QED
    BY <1>t, <2>1, <2>2 DEF LoopInv, LoopTypeOK, Working
<1>6. CASE UNCHANGED loopVars
  BY <1>6 DEF loopVars, LoopInv, LoopTypeOK
<1> QED
  BY <1>1, <1>2, <1>3, <1>4, <1>5, <1>6 DEF LoopNext, LoopStep

\* What is sent to a model holds every tool call with all its results right behind it, and no
\* result without its call, for any number of steps, calls and compactions, and wherever
\* the compactions fall (agent.py:54-124, context.py:97-118).
THEOREM CallsAreAnswered == LoopSpec => []CallsAnswered
<1>1. LoopInv => CallsAnswered
  BY DEF LoopInv, CallsAnswered
<1> QED
  BY <1>1, LoopStarts, LoopSteps, PTL DEF LoopSpec

\* The type invariant of the loop, its step within max_steps included.
THEOREM LoopTyped == LoopSpec => []LoopTypeOK
<1>1. LoopInv => LoopTypeOK
  BY DEF LoopInv
<1> QED
  BY <1>1, LoopStarts, LoopSteps, PTL DEF LoopSpec

-----------------------------------------------------------------------------
(* What is rendered for Anthropic.                                         *)
Message == [role: {"user", "assistant"}, uses: Nat, results: Nat]

\* The messages m of a transcript that ends with the item: they take turns, all uses but the
\* last one's are answered, and what is open after the item is still to be.
TakesTurns(m, item) ==
  LET n == Len(m)
  IN  /\ m \in Seq(Message) /\ n > 0 /\ m[1].role = "user" /\ m[1].results = 0
      /\ \A i \in 1..(n - 1) : m[i].role # m[i + 1].role
      /\ \A i \in 1..(n - 2) : m[i].uses = m[i + 1].results
      /\ item.role = "assistant" => /\ m[n].role = "assistant" /\ m[n].uses = item.open
                                    /\ n > 1 /\ m[n - 1].uses = m[n].results
      /\ item.role # "assistant" =>
           /\ m[n].role = "user" /\ m[n].uses = 0
           /\ item.open = IF n = 1 THEN 0 ELSE m[n - 1].uses - m[n].results

\* After the prompt there is no user, and only an answer with calls has something behind it.
Speaks(t) ==
  /\ t[1].open = 0
  /\ \A i \in 2..Len(t) : t[i].role # "user"
  /\ \A i \in 1..(Len(t) - 1) : t[i].role = "assistant" => t[i].open > 0

LEMMA OneMoreMessage ==
  ASSUME NEW m \in Seq(Message), NEW x \in Message
  PROVE  /\ Append(m, x) \in Seq(Message) /\ Len(m) \in Nat
         /\ Len(Append(m, x)) = Len(m) + 1 /\ Append(m, x)[Len(m) + 1] = x
         /\ \A i \in 1..Len(m) : Append(m, x)[i] = m[i]
  OBVIOUS

LEMMA EmitTakesTurns ==
  ASSUME NEW m, NEW item \in Item, NEW next \in Item, TakesTurns(m, item),
         next.role # "user", next.role = "tool" <=> item.open > 0,
         next.role = "tool" => next.open = item.open - 1,
         item.role = "assistant" => item.open > 0
  PROVE  TakesTurns(Emit(m, next), next)
<1> DEFINE n == Len(m)
           e == Emit(m, next)
<1>1. /\ m \in Seq(Message) /\ n \in Nat /\ n > 0
      /\ m[1].role = "user" /\ m[1].results = 0
      /\ \A i \in 1..(n - 1) : m[i].role # m[i + 1].role
      /\ \A i \in 1..(n - 2) : m[i].uses = m[i + 1].results
      /\ \A i \in 1..n : m[i] \in Message
  BY DEF TakesTurns
<1>2. /\ item.open \in Nat /\ next.open \in Nat
      /\ next.role \in {"assistant", "tool"} /\ item.role \in {"user", "assistant", "tool"}
  BY DEF Item
<1>3. /\ m[n].role \in {"user", "assistant"} /\ m[n].uses \in Nat /\ m[n].results \in Nat
      /\ n > 1 => m[n - 1].uses \in Nat
  <2>1. n \in 1..n /\ (n > 1 => n - 1 \in 1..n)
    BY <1>1
  <2>2. m[n] \in Message /\ (n > 1 => m[n - 1] \in Message)
    BY <1>1, <2>1
  <2> QED
    BY <2>2 DEF Message
<1>a. /\ item.role = "assistant" => /\ m[n].role = "assistant" /\ m[n].uses = item.open
                                    /\ n > 1 /\ m[n - 1].uses = m[n].results
      /\ item.role # "assistant" =>
           /\ m[n].role = "user" /\ m[n].uses = 0
           /\ item.open = IF n = 1 THEN 0 ELSE m[n - 1].uses - m[n].results
  BY DEF TakesTurns
<1>4. ASSUME NEW x \in Message, e = Append(m, x), x.role # m[n].role,
             n > 1 => m[n - 1].uses = m[n].results
      PROVE  /\ e \in Seq(Message) /\ Len(e) = n + 1 /\ e[1] = m[1] /\ e[n] = m[n] /\ e[n + 1] = x
             /\ \A i \in 1..n : e[i].role # e[i + 1].role
             /\ \A i \in 1..(n - 1) : e[i].uses = e[i + 1].results
  <2>1. /\ e \in Seq(Message) /\ Len(e) = n + 1 /\ e[n + 1] = x
        /\ \A i \in 1..n : e[i] = m[i]
    BY <1>1, <1>4, OneMoreMessage
  <2> HIDE DEF e
  <2>2. ASSUME NEW i \in 1..n PROVE e[i].role # e[i + 1].role
    <3>1. CASE i = n
      BY <1>1, <1>4, <2>1, <3>1
    <3>2. CASE i # n
      <4>1. i \in 1..(n - 1) /\ i + 1 \in 1..n
        BY <1>1, <3>2
      <4> QED
        BY <1>1, <2>1, <4>1
    <3> QED
      BY <3>1, <3>2
  <2>3. ASSUME NEW i \in 1..(n - 1) PROVE e[i].uses = e[i + 1].results
    <3>1. e[i] = m[i] /\ e[i + 1] = m[i + 1]
      BY <1>1, <2>1
    <3>2. m[i].uses = m[i + 1].results
      <4>1. CASE i = n - 1
        BY <1>1, <1>4, <4>1
      <4>2. CASE i # n - 1
        BY <1>1, <4>2
      <4> QED
        BY <4>1, <4>2
    <3> QED
      BY <3>1, <3>2
  <2> QED
    BY <1>1, <2>1, <2>2, <2>3
<1>5. CASE next.role = "assistant"
  <2> DEFINE x == [role |-> "assistant", uses |-> next.open, results |-> 0]
  <2>1. item.role # "assistant" /\ item.open = 0
    BY <1>2, <1>5
  <2>2. m[n].role = "user" /\ m[n].uses = 0 /\ (n > 1 => m[n - 1].uses = m[n].results)
    BY <1>3, <2>1, <1>a
  <2>3. x \in Message /\ e = Append(m, x)
    BY <1>1, <1>2, <1>5, <2>2 DEF Emit, Message
  <2>4. /\ e \in Seq(Message) /\ Len(e) = n + 1 /\ e[1] = m[1] /\ e[n] = m[n] /\ e[n + 1] = x
        /\ \A i \in 1..n : e[i].role # e[i + 1].role
        /\ \A i \in 1..(n - 1) : e[i].uses = e[i + 1].results
    <3> HIDE DEF e
    <3> QED
      BY <1>4, <2>2, <2>3
  <2> HIDE DEF e
  <2>5. TakesTurns(e, next)
    BY <1>1, <1>5, <2>2, <2>4 DEF TakesTurns
  <2> QED
    BY <2>5 DEF e
<1>6. CASE next.role = "tool" /\ item.role = "assistant"
  <2> DEFINE x == [role |-> "user", uses |-> 0, results |-> 1]
  <2>1. /\ m[n].role = "assistant" /\ m[n].uses = item.open
        /\ n > 1 /\ m[n - 1].uses = m[n].results
    BY <1>6, <1>a
  <2>2. x \in Message /\ e = Append(m, x)
    BY <1>1, <1>6, <2>1 DEF Emit, Message
  <2>3. next.open = m[n].uses - 1
    BY <1>6, <2>1
  <2>4. /\ e \in Seq(Message) /\ Len(e) = n + 1 /\ e[1] = m[1] /\ e[n] = m[n] /\ e[n + 1] = x
        /\ \A i \in 1..n : e[i].role # e[i + 1].role
        /\ \A i \in 1..(n - 1) : e[i].uses = e[i + 1].results
    <3> HIDE DEF e
    <3> QED
      BY <1>4, <2>1, <2>2
  <2> HIDE DEF e
  <2>5. TakesTurns(e, next)
    BY <1>1, <1>3, <1>6, <2>1, <2>3, <2>4 DEF TakesTurns
  <2> QED
    BY <2>5 DEF e
<1>7. CASE next.role = "tool" /\ item.role # "assistant"
  <2>1. /\ m[n].role = "user" /\ m[n].uses = 0 /\ n > 1
        /\ item.open = m[n - 1].uses - m[n].results
    <3>1. item.open > 0 /\ item.open # 0
      BY <1>2, <1>7
    <3>2. n # 1
      BY <1>7, <1>a, <3>1
    <3>3. m[n].role = "user" /\ m[n].uses = 0
      BY <1>7, <1>a
    <3>4. item.open = IF n = 1 THEN 0 ELSE m[n - 1].uses - m[n].results
      BY <1>7, <1>a
    <3>5. n > 1
      <4>1. n \in Nat /\ n > 0
        BY <1>1
      <4> HIDE DEF n
      <4> QED
        BY <3>2, <4>1
    <3>6. item.open = m[n - 1].uses - m[n].results
      BY <3>2, <3>4, Zenon
    <3> QED
      BY <3>3, <3>5, <3>6
  <2>2. e = [m EXCEPT ![n].uses = @ + 0, ![n].results = @ + 1]
    BY <1>1, <1>7, <2>1 DEF Emit
  <2>3. /\ e \in Seq(Message) /\ Len(e) = n
        /\ \A i \in 1..(n - 1) : e[i] = m[i]
        /\ e[n].role = "user" /\ e[n].uses = 0 /\ e[n].results = m[n].results + 1
    <3> DEFINE y == [m[n] EXCEPT !.uses = @ + 0]
               x == [y EXCEPT !.results = @ + 1]
    <3>1. m[n] \in Message
      BY <1>1
    <3>2. y \in Message /\ y.role = m[n].role /\ y.uses = m[n].uses /\ y.results = m[n].results
      BY <3>1 DEF Message
    <3>3. e = [m EXCEPT ![n] = x]
      BY <1>1, <2>2
    <3> HIDE DEF y
    <3>4. x \in Message /\ x.role = "user" /\ x.uses = 0 /\ x.results = m[n].results + 1
      BY <2>1, <3>2 DEF Message
    <3> HIDE DEF x, e
    <3>5. e \in Seq(Message) /\ Len(e) = n /\ e[n] = x /\ \A i \in 1..(n - 1) : e[i] = m[i]
      BY <1>1, <3>3, <3>4
    <3> QED
      BY <3>4, <3>5
  <2> HIDE DEF e
  <2>4. ASSUME NEW i \in 1..(n - 1) PROVE e[i].role # e[i + 1].role
    <3>1. i + 1 \in 1..n /\ e[i] = m[i] /\ e[i + 1].role = m[i + 1].role
      BY <1>1, <2>1, <2>3
    <3> QED
      BY <1>1, <3>1
  <2>5. ASSUME NEW i \in 1..(n - 2) PROVE e[i].uses = e[i + 1].results
    BY <1>1, <2>3
  <2>6. next.open = e[n - 1].uses - e[n].results
    <3>1. e[n - 1] = m[n - 1]
      BY <1>1, <2>1, <2>3
    <3> QED
      BY <1>2, <1>3, <1>7, <2>1, <2>3, <3>1
  <2>7. e[1].role = "user" /\ e[1].results = 0
    BY <1>1, <2>1, <2>3
  <2>8. TakesTurns(e, next)
    BY <1>1, <1>7, <2>1, <2>3, <2>4, <2>5, <2>6, <2>7 DEF TakesTurns
  <2> QED
    BY <2>8 DEF e
<1> QED
  BY <1>2, <1>5, <1>6, <1>7

\* The messages of the first items, as far as N.
Emitting(f, t, N) ==
  f = [n \in 0..N |-> IF n = 0 THEN <<>> ELSE Emit(f[n - 1], t[n])]

LEMMA EmittingExists ==
  ASSUME NEW t, NEW N \in Nat
  PROVE  \E f : Emitting(f, t, N)
<1> DEFINE S == {k \in 0..N : \E f : Emitting(f, t, k)}
<1>1. 0 \in S
  <2>1. Emitting([n \in 0..0 |-> <<>>], t, 0)
    BY DEF Emitting
  <2> QED
    BY <2>1
<1>2. ASSUME NEW k \in 0..(N - 1), k \in S PROVE k + 1 \in S
  <2>1. PICK f : Emitting(f, t, k)
    BY <1>2
  <2> DEFINE g == [n \in 0..(k + 1) |-> IF n = k + 1 THEN Emit(f[k], t[k + 1]) ELSE f[n]]
  <2>2. \A n \in 0..k : f[n] = IF n = 0 THEN <<>> ELSE Emit(f[n - 1], t[n])
    BY <2>1 DEF Emitting
  <2>3. \A n \in 0..(k + 1) : g[n] = IF n = 0 THEN <<>> ELSE Emit(g[n - 1], t[n])
    BY <2>2
  <2>4. Emitting(g, t, k + 1)
    BY <2>3 DEF Emitting
  <2> QED
    BY <2>4
<1> HIDE DEF S
<1>3. 0..N \subseteq S
  BY <1>1, <1>2, UpTo
<1> QED
  BY <1>3 DEF S

LEMMA FirstMessage ==
  ASSUME NEW t \in Seq(Item), Paired(t), Speaks(t)
  PROVE  TakesTurns(Emit(<<>>, t[1]), t[1])
<1> DEFINE x == [role |-> "user", uses |-> 0, results |-> 0]
<1>1. t[1].role = "user" /\ t[1].open = 0
  BY DEF Paired, Speaks
<1>2. Emit(<<>>, t[1]) = <<x>>
  BY <1>1 DEF Emit
<1>3. x \in Message /\ <<x>> \in Seq(Message)
  BY DEF Message
<1> QED
  BY <1>1, <1>2, <1>3 DEF TakesTurns

\* Item by item, the messages take turns.
LEMMA RenderedTakesTurns ==
  ASSUME NEW t \in Seq(Item), Paired(t), Speaks(t)
  PROVE  TakesTurns(Rendered(t), Last(t))
<1> DEFINE N == Len(t)
           f == CHOOSE f : Emitting(f, t, N)
           S == {k \in 0..(N - 1) : TakesTurns(f[k + 1], t[k + 1])}
<1>1. N \in Nat /\ N > 0 /\ Last(t) = t[N] /\ \A i \in 1..N : t[i] \in Item
  <2>1. t # <<>>
    BY DEF Paired
  <2> QED
    BY <2>1, LastItem
<1>2. Emitting(f, t, N)
  BY <1>1, EmittingExists
<1>3. Rendered(t) = f[N]
  BY DEF Rendered, Emitting
<1> HIDE DEF f
<1>4. f[0] = <<>> /\ \A n \in 1..N : f[n] = Emit(f[n - 1], t[n])
  <2>1. \A n \in 0..N : f[n] = IF n = 0 THEN <<>> ELSE Emit(f[n - 1], t[n])
    BY <1>2 DEF Emitting
  <2> QED
    BY <1>1, <2>1
<1>5. 0 \in S
  <2>1. f[1] = Emit(<<>>, t[1])
    BY <1>1, <1>4
  <2>2. TakesTurns(f[0 + 1], t[0 + 1])
    BY <2>1, FirstMessage
  <2> QED
    BY <1>1, <2>2
<1>6. ASSUME NEW k \in 0..((N - 1) - 1), k \in S PROVE k + 1 \in S
  <2> DEFINE i == k + 1
  <2>1. /\ i \in 1..(N - 1) /\ i \in 1..N /\ i + 1 \in 1..N /\ i + 1 \in 2..N
        /\ (i + 1) - 1 = i /\ i \in 0..(N - 1) /\ N = Len(t)
    BY <1>1
  <2> HIDE DEF N
  <2>2. TakesTurns(f[i], t[i])
    BY <1>6
  <2> HIDE DEF i
  <2>3. /\ t[i + 1].role = "tool" <=> t[i].open > 0
        /\ t[i + 1].role = "tool" => t[i + 1].open = t[i].open - 1
    BY <2>1 DEF Paired
  <2>4. t[i + 1].role # "user" /\ (t[i].role = "assistant" => t[i].open > 0)
    BY <2>1 DEF Speaks
  <2>5. t[i] \in Item /\ t[i + 1] \in Item
    BY <1>1, <2>1
  <2>6. TakesTurns(Emit(f[i], t[i + 1]), t[i + 1])
    BY <2>2, <2>3, <2>4, <2>5, EmitTakesTurns
  <2>7. f[i + 1] = Emit(f[i], t[i + 1])
    BY <1>4, <2>1
  <2>8. i \in S
    BY <2>1, <2>6, <2>7
  <2> QED
    BY <2>8 DEF i
<1>7. N - 1 \in S
  <2>1. N - 1 \in Nat /\ N - 1 \in 0..(N - 1)
    BY <1>1
  <2> HIDE DEF S, N
  <2> QED
    BY <1>5, <1>6, <2>1, UpTo
<1>8. (N - 1) + 1 = N
  BY <1>1
<1> QED
  BY <1>1, <1>3, <1>7, <1>8

\* What is sent behind a transcript with nothing open and no answer at its end.
LEMMA RenderedAnswers ==
  ASSUME NEW t \in Seq(Item), Paired(t), Speaks(t), Last(t).open = 0, Last(t).role # "assistant"
  PROVE  LET messages == Rendered(t)
             n        == Len(messages)
         IN  /\ messages[1].role = "user" /\ messages[n].role = "user"
             /\ messages[1].results = 0
             /\ \A i \in 1..(n - 1) : /\ messages[i].role # messages[i + 1].role
                                      /\ messages[i].uses = messages[i + 1].results
<1> DEFINE m == Rendered(t)
           n == Len(m)
<1>1. TakesTurns(m, Last(t))
  BY RenderedTakesTurns
<1> HIDE DEF m
<1>2. /\ m \in Seq(Message) /\ n > 0 /\ m[1].role = "user" /\ m[1].results = 0
      /\ \A i \in 1..(n - 1) : m[i].role # m[i + 1].role
      /\ \A i \in 1..(n - 2) : m[i].uses = m[i + 1].results
  BY <1>1 DEF TakesTurns
<1>3. m[n].role = "user" /\ 0 = IF n = 1 THEN 0 ELSE m[n - 1].uses - m[n].results
  BY <1>1 DEF TakesTurns
<1>4. n \in Nat /\ \A i \in 1..n : m[i] \in Message
  BY <1>2
<1>5. ASSUME NEW i \in 1..(n - 1) PROVE m[i].uses = m[i + 1].results
  <2>1. CASE i = n - 1
    <3>1. n # 1 /\ n - 1 \in 1..n /\ n \in 1..n /\ i + 1 = n
      BY <1>4, <2>1
    <3>2. m[n - 1].uses - m[n].results = 0
      BY <1>3, <3>1, Zenon
    <3>3. m[n - 1].uses \in Nat /\ m[n].results \in Nat
      BY <1>4, <3>1 DEF Message
    <3>4. m[n - 1].uses = m[n].results
      BY <3>2, <3>3
    <3> QED
      BY <2>1, <3>1, <3>4
  <2>2. CASE i # n - 1
    BY <1>2, <1>4, <2>2
  <2> QED
    BY <2>1, <2>2
<1>6. /\ m[1].role = "user" /\ m[n].role = "user" /\ m[1].results = 0
      /\ \A i \in 1..(n - 1) : m[i].role # m[i + 1].role /\ m[i].uses = m[i + 1].results
  BY <1>2, <1>3, <1>5
<1> QED
  BY <1>6 DEF m

\* The other clients send the items as they are, behind a system prompt.
LEMMA WireFollows ==
  ASSUME NEW t \in Seq(Item), Paired(t)
  PROVE  LET wire == RenderedOpenAi(t)
         IN  \A i \in 2..Len(wire) : wire[i].role = "tool" <=> wire[i - 1].open > 0
<1> DEFINE Sent == [role: {"system", "user", "assistant", "tool"}, open: Nat]
           item(i) == [role |-> t[i].role, open |-> t[i].open]
           rest == [i \in DOMAIN t |-> item(i)]
           prompt == [role |-> "system", open |-> 0]
           wire == RenderedOpenAi(t)
           N == Len(t)
<1>1. N \in Nat /\ DOMAIN t = 1..N /\ N > 0 /\ \A i \in 1..N : t[i] \in Item
  <2>1. t # <<>>
    BY DEF Paired
  <2> QED
    BY <2>1, LastItem
<1>2. /\ rest \in Seq(Sent) /\ Len(rest) = N
      /\ \A i \in 1..N : rest[i].role = t[i].role /\ rest[i].open = t[i].open
  <2>0. \A i \in 1..N : rest[i] = item(i)
    BY <1>1
  <2>r. \A i \in 1..N : rest[i].role = t[i].role /\ rest[i].open = t[i].open
    BY <2>0
  <2>1. \A i \in 1..N : item(i) \in Sent
    BY <1>1 DEF Item
  <2>2. rest \in Seq(Sent) /\ Len(rest) = N
    <3> HIDE DEF item, Sent
    <3> QED
      BY <1>1, <2>1
  <2> QED
    BY <2>2, <2>r
<1>3. prompt \in Sent /\ <<prompt>> \in Seq(Sent)
  OBVIOUS
<1>4. wire = <<prompt>> \o rest
  BY DEF RenderedOpenAi
<1> HIDE DEF wire, rest, Sent
<1>5. Len(wire) = N + 1 /\ wire[1] = prompt /\ \A i \in 2..(N + 1) : wire[i] = rest[i - 1]
  BY <1>1, <1>2, <1>3, <1>4
<1>6. ASSUME NEW i \in 2..(N + 1) PROVE wire[i].role = "tool" <=> wire[i - 1].open > 0
  <2>1. i - 1 \in 1..N /\ wire[i] = rest[i - 1] /\ wire[i].role = t[i - 1].role
    <3>1. i - 1 \in 1..N /\ wire[i] = rest[i - 1]
      BY <1>1, <1>5
    <3> QED
      BY <1>2, <3>1
  <2>2. CASE i = 2
    <3>1. wire[i - 1].open = 0 /\ t[i - 1].role = "user"
      BY <1>5, <2>2 DEF Paired
    <3> QED
      BY <2>1, <3>1
  <2>3. CASE i # 2
    <3>1. i - 1 \in 2..(N + 1) /\ (i - 1) - 1 \in 1..(N - 1)
      BY <1>1, <2>3
    <3>2. wire[i - 1].open = t[(i - 1) - 1].open
      <4>1. wire[i - 1] = rest[(i - 1) - 1] /\ (i - 1) - 1 \in 1..N
        BY <1>1, <1>5, <3>1
      <4> QED
        BY <1>2, <4>1
    <3>3. t[((i - 1) - 1) + 1].role = "tool" <=> t[(i - 1) - 1].open > 0
      BY <3>1 DEF Paired
    <3>4. ((i - 1) - 1) + 1 = i - 1
      BY <2>1
    <3> QED
      BY <2>1, <3>2, <3>3, <3>4
  <2> QED
    BY <2>2, <2>3
<1> QED
  BY <1>5, <1>6 DEF wire

\* A compaction leaves the prompt, a new one, out; the transcript ends with no answer when it
\* is the model's turn.
TurnsInv ==
  /\ loop.stage # "idle" => Speaks(talk)
  /\ loop.stage \in {"summarizing", "asking"} => Last(talk).role # "assistant"
  /\ loop.stage = "summarizing" => Cut(talk) >= 1

LEMMA SpeaksMore ==
  ASSUME NEW t \in Seq(Item), t # <<>>, Speaks(t), NEW item \in Item, item.role # "user",
         Last(t).role = "assistant" => Last(t).open > 0
  PROVE  Speaks(Append(t, item))
<1> DEFINE longer == Append(t, item)
           n == Len(t)
<1>1. /\ n \in Nat /\ n >= 1 /\ Last(t) = t[n] /\ Len(longer) = n + 1
      /\ longer[n + 1] = item /\ \A i \in 1..n : longer[i] = t[i]
  BY OneMoreItem, LastItem
<1> HIDE DEF longer
<1>2. \A i \in 2..(n + 1) : longer[i].role # "user"
  <2>1. ASSUME NEW i \in 2..(n + 1), i # n + 1 PROVE longer[i].role # "user"
    <3>1. i \in 2..n
      BY <1>1, <2>1
    <3> QED
      BY <1>1, <3>1 DEF Speaks
  <2> QED
    BY <1>1, <2>1
<1>3. \A i \in 1..n : longer[i].role = "assistant" => longer[i].open > 0
  <2>1. ASSUME NEW i \in 1..n, i # n, longer[i].role = "assistant" PROVE longer[i].open > 0
    <3>1. i \in 1..(n - 1) /\ longer[i] = t[i]
      BY <1>1, <2>1
    <3> QED
      BY <2>1, <3>1 DEF Speaks
  <2>2. longer[n].role = "assistant" => longer[n].open > 0
    BY <1>1
  <2> QED
    BY <1>1, <2>1, <2>2
<1>4. longer[1].open = 0 /\ (n + 1) - 1 = n
  BY <1>1 DEF Speaks
<1>5. Speaks(longer)
  BY <1>1, <1>2, <1>3, <1>4 DEF Speaks
<1> QED
  BY <1>5 DEF longer

LEMMA CompactedSpeaks ==
  ASSUME NEW t \in Seq(Item), t # <<>>, Speaks(t), Cut(t) >= 1, Last(t).role # "assistant"
  PROVE  Speaks(Compacted(t)) /\ Last(Compacted(t)).role # "assistant"
<1> DEFINE c == Cut(t)
           n == Len(t)
           r == SubSeq(t, c + 1, n)
           s == Compacted(t)
<1>1. c \in 1..n /\ n \in Nat /\ Last(t) = t[n]
  <2>1. Cut(t) \in 0..n
    BY CutSeparates
  <2> QED
    BY <2>1, LastItem
<1>2. r \in Seq(Item) /\ Len(r) = n - c /\ \A i \in 1..(n - c) : r[i] = t[c + i]
  <2> HIDE DEF c
  <2> QED
    BY <1>1
<1>3. User \in Item /\ User.role = "user" /\ User.open = 0
  BY DEF User, Item
<1>4. s = <<User>> \o r
  BY DEF Compacted
<1> HIDE DEF r, s, c
<1>5. /\ s \in Seq(Item) /\ Len(s) = n - c + 1
      /\ s[1] = User /\ s # <<>>
      /\ \A i \in 2..(n - c + 1) : s[i] = r[i - 1]
  <2>1. c \in 0..n /\ n \in Nat
    BY <1>1
  <2> QED
    BY <2>1, <1>2, <1>3, <1>4
<1>6. ASSUME NEW i \in 2..(n - c + 1)
      PROVE  s[i] = t[c + i - 1] /\ c + i - 1 \in 2..n
  <2>1. i - 1 \in 1..(n - c) /\ c + (i - 1) = c + i - 1 /\ c + i - 1 \in 2..n
    BY <1>1
  <2> QED
    BY <1>2, <1>5, <2>1
<1>7. \A i \in 2..(n - c + 1) : s[i].role # "user"
  BY <1>6 DEF Speaks
<1>8. ASSUME NEW i \in 1..(n - c), s[i].role = "assistant" PROVE s[i].open > 0
  <2>1. i # 1
    BY <1>3, <1>5, <1>8
  <2>2. i \in 2..(n - c + 1) /\ c + i - 1 \in 1..(n - 1)
    BY <1>1, <2>1
  <2>3. s[i] = t[c + i - 1]
    BY <1>6, <2>2
  <2> QED
    BY <1>8, <2>2, <2>3 DEF Speaks
<1>9. s[1].open = 0 /\ (n - c + 1) - 1 = n - c
  BY <1>1, <1>3, <1>5
<1>10. Speaks(s)
  BY <1>5, <1>7, <1>8, <1>9 DEF Speaks
<1>11. Last(s).role # "assistant"
  <2>1. Last(s) = s[n - c + 1] /\ n - c + 1 >= 1
    BY <1>1, <1>5 DEF Last
  <2>2. CASE c = n
    BY <1>1, <1>3, <1>5, <2>1, <2>2
  <2>3. CASE c # n
    <3>1. n - c + 1 \in 2..(n - c + 1) /\ c + (n - c + 1) - 1 = n
      BY <1>1, <2>3
    <3> QED
      BY <1>1, <1>6, <2>1, <3>1
  <2> QED
    BY <2>2, <2>3
<1> QED
  BY <1>10, <1>11 DEF s

LEMMA LaunchSpeaks == Launch => TurnsInv'
<1> SUFFICES ASSUME Launch PROVE TurnsInv'
  OBVIOUS
<1>1. talk' = <<User>> /\ loop' = Goto(<<User>>, 0)
  BY DEF Launch
<1>2. Speaks(<<User>>) /\ Last(<<User>>).role # "assistant"
  BY DEF Speaks, User, Last
<1>3. Goto(<<User>>, 0).stage = "summarizing" => Cut(<<User>>) >= 1
  <2>1. Goto(<<User>>, 0).stage = "summarizing" => Cut(<<User>>) >= 2
    BY DEF Goto, Compacts
  <2>2. <<User>> \in Seq(Item)
    BY DEF User, Item
  <2>3. Cut(<<User>>) \in Int
    <3>1. Len(<<User>>) = 1 /\ Cut(<<User>>) \in 0..Len(<<User>>)
      BY <2>2, CutSeparates
    <3> QED
      BY <3>1
  <2> QED
    BY <2>1, <2>3
<1> QED
  BY <1>1, <1>2, <1>3 DEF TurnsInv

LEMMA LoopSpeaks == LoopInv /\ TurnsInv /\ LoopStep => TurnsInv'
<1> SUFFICES ASSUME LoopInv, TurnsInv, LoopStep PROVE TurnsInv'
  OBVIOUS
<1>t. talk \in Seq(Item) /\ loop \in [stage: Stages, step: 0..MaxSteps]
  BY DEF LoopInv, LoopTypeOK
<1>p. loop.stage # "idle" => Paired(talk) /\ talk # <<>> /\ Speaks(talk)
  BY DEF LoopInv, Paired, TurnsInv
<1>1. ASSUME NEW known \in BOOLEAN, Summarize(known) PROVE TurnsInv'
  <2>1. /\ loop.stage = "summarizing" /\ talk' = Compacted(talk)
        /\ loop' = [loop EXCEPT !.stage = "asking"]
    BY <1>1 DEF Summarize
  <2>2. loop'.stage = "asking"
    BY <1>t, <2>1
  <2>3. Speaks(talk') /\ Last(talk').role # "assistant"
    BY <1>t, <1>p, <2>1, CompactedSpeaks DEF TurnsInv
  <2> QED
    BY <2>2, <2>3 DEF TurnsInv
<1>2. ASSUME NEW known \in BOOLEAN, NEW n \in 0..MaxCalls, Answer(n, known) PROVE TurnsInv'
  <2>1. /\ loop.stage = "asking" /\ talk' = Append(talk, Assistant(n))
        /\ loop' = [loop EXCEPT !.stage = IF n = 0 THEN "completed" ELSE "tooling"]
    BY <1>2 DEF Answer
  <2>2. Assistant(n) \in Item /\ Assistant(n).role = "assistant"
    BY LoopAssumption DEF Assistant, Item
  <2>3. Last(talk).role # "assistant"
    BY <2>1 DEF TurnsInv
  <2>4. Speaks(talk')
    BY <1>t, <1>p, <2>1, <2>2, <2>3, SpeaksMore
  <2>5. loop'.stage \in {"completed", "tooling"}
    BY <1>t, <2>1
  <2> QED
    BY <2>4, <2>5 DEF TurnsInv
<1>3. ASSUME NEW size \in Sizes, ToolReturns(size) PROVE TurnsInv'
  <2> DEFINE item   == Result(talk, size)
             longer == Append(talk, item)
  <2>1. /\ loop.stage = "tooling" /\ talk' = longer
        /\ loop' = IF Last(longer).open = 0 THEN Goto(longer, loop.step + 1) ELSE loop
    BY <1>3 DEF ToolReturns
  <2>2. Last(talk).open > 0 /\ Last(talk).open \in Nat
    BY <1>t, <1>p, <2>1, LastItem DEF LoopInv
  <2>3. item \in Item /\ item.role = "tool"
    BY <2>2, LoopAssumption DEF Result, Item
  <2> HIDE DEF item
  <2>4. longer \in Seq(Item) /\ Last(longer) = item
    BY <1>t, <2>3, OneMoreItem
  <2>5. Speaks(longer)
    BY <1>t, <1>p, <2>1, <2>2, <2>3, SpeaksMore
  <2> HIDE DEF longer
  <2>6. loop'.stage = "summarizing" => Cut(talk') >= 1
    <3>1. CASE loop' = loop
      BY <2>1, <3>1
    <3>2. CASE loop' = Goto(longer, loop.step + 1)
      <4>1. loop'.stage = "summarizing" => Cut(longer) >= 2
        BY <3>2 DEF Goto, Compacts
      <4>2. Cut(longer) \in Int
        BY <2>4, CutSeparates
      <4> QED
        BY <2>1, <4>1, <4>2
    <3> QED
      BY <2>1, <3>1, <3>2
  <2> QED
    BY <2>1, <2>3, <2>4, <2>5, <2>6 DEF TurnsInv
<1>4. CASE ModelFails
  <2>1. loop.stage # "idle" /\ loop'.stage = "failed" /\ talk' = talk
    BY <1>4, <1>t DEF ModelFails
  <2> QED
    BY <2>1 DEF TurnsInv
<1> QED
  BY <1>1, <1>2, <1>3, <1>4 DEF LoopStep

LEMMA TurnsAlternate == LoopInv /\ TurnsInv => MessagesAlternate
<1> SUFFICES ASSUME LoopInv, TurnsInv, loop.stage = "asking" PROVE MessagesAlternate
  BY DEF MessagesAlternate
<1>1. /\ talk \in Seq(Item) /\ Paired(talk) /\ Speaks(talk) /\ Last(talk).open = 0
      /\ Last(talk).role # "assistant"
  BY DEF LoopInv, LoopTypeOK, TurnsInv
<1> QED
  BY <1>1, RenderedAnswers, WireFollows DEF MessagesAlternate

\* The messages rendered for Anthropic begin and end with the user, take turns, and answer
\* all tool uses of a message in the next; to the other providers a tool message goes only
\* behind calls (clients.py:227-232), for any transcript that the loop comes to.
THEOREM MessagesTakeTurns == LoopSpec => []MessagesAlternate
<1>1. LoopInit => LoopInv /\ TurnsInv
  BY LoopStarts DEF LoopInit, TurnsInv
<1>2. LoopInv /\ TurnsInv /\ [LoopNext]_loopVars => LoopInv' /\ TurnsInv'
  <2> SUFFICES ASSUME LoopInv, TurnsInv, [LoopNext]_loopVars PROVE TurnsInv'
    BY LoopSteps
  <2>1. CASE UNCHANGED loopVars
    BY <2>1 DEF loopVars, TurnsInv
  <2> QED
    BY <2>1, LaunchSpeaks, LoopSpeaks DEF LoopNext, StartRun
<1> QED
  BY <1>1, <1>2, TurnsAlternate, PTL DEF LoopSpec

-----------------------------------------------------------------------------
(* The rounds of run_autonomous around it.                                 *)
Records == [stage: AutoStages, round: 0..MaxRounds, focused: BOOLEAN,
            text: 0..MaxRounds, answer: 0..MaxRounds, completed: BOOLEAN,
            rounds: Seq([actions: 0..MaxRounds, verdict: Verdicts])]

Running == {"planning", "acting", "reflecting"}

\* The texts a run has ended its rounds with, the one under judgement included.
Told(a) == {a.rounds[i].actions : i \in DOMAIN a.rounds} \union {a.text}

\* What only a finished record says of its verdicts.
Judged(a) ==
  LET n == Len(a.rounds)
  IN  /\ a.completed <=> n > 0 /\ a.rounds[n].verdict \in Met
      /\ \A i \in 1..(n - 1) : a.rounds[i].verdict \notin Met

\* A round that is still to be judged comes after rounds that all were and did not meet the
\* goal; a text is from the round that ended with it.
InRounds(a) ==
  /\ a.stage = "idle" => a.rounds = <<>> /\ a.round = 0
  /\ a.stage = "idle" => ~a.completed
  /\ a.stage \in Running => /\ a.round = Len(a.rounds) + 1 /\ ~a.completed
                            /\ \A i \in DOMAIN a.rounds : a.rounds[i].verdict \notin Met
  /\ a.text \in {0, a.round}
  /\ a.stage \notin {"reflecting", "failed"} => a.text = 0
  /\ \A i \in DOMAIN a.rounds : a.rounds[i].actions \in {0, i}
  /\ a.stage = "done" => Judged(a)

LastTold(a) == /\ a.answer \in Told(a) \union {0}
               /\ \A x \in Told(a) : x <= a.answer

\* The scratchpad m holds the texts told, each after those of earlier rounds.
Remembered(a, m) ==
  /\ ToSet(m) \ Notes = Told(a) \ {0}
  /\ \A i, j \in DOMAIN m : i < j /\ m[i] \notin Notes /\ m[j] \notin Notes => m[i] < m[j]

\* The sum of the acting agent that is running, and that of the rounds, hold together what all
\* turns came to, and outside of a round's acting the rounds' sum does alone.
CostInv ==
  /\ spent \in Costs /\ AddCost(spent, cost) = Due(billed)
  /\ auto.stage \notin {"acting", "failed"} => cost = 0

AutoInv == /\ LoopInv /\ CostInv
           /\ auto \in Records /\ memory \in Seq(Notes \union 1..MaxRounds)
           /\ InRounds(auto) /\ LastTold(auto) /\ Remembered(auto, memory)

\* A turn that one of the two sums has added keeps them equal to what all turns came to.
LEMMA PaidByAgent ==
  ASSUME NEW known \in BOOLEAN, Bill(known), LoopInv, CostInv,
         cost' = AddCost(cost, CostOf(known)), spent' = spent
  PROVE  AddCost(spent', cost') = Due(billed')
<1>1. spent \in Costs /\ cost \in Costs /\ AddCost(spent, cost) = Due(billed)
  BY DEF CostInv, LoopInv, LoopTypeOK
<1>2. CostOf(known) \in Costs /\ Due(billed') = AddCost(Due(billed), CostOf(known))
  BY OneMoreBilled DEF LoopInv, LoopTypeOK
<1> QED
  BY <1>1, <1>2, CostAdded

LEMMA PaidByRounds ==
  ASSUME NEW known \in BOOLEAN, Bill(known), LoopInv, CostInv, cost = 0, cost' = 0,
         spent' = AddCost(spent, CostOf(known))
  PROVE  /\ spent' \in Costs /\ AddCost(spent', cost') = Due(billed')
         /\ billed' \in [turns: Nat, unpriced: BOOLEAN]
<1>1. spent \in Costs /\ cost \in Costs /\ AddCost(spent, cost) = Due(billed)
  BY DEF CostInv, LoopInv, LoopTypeOK
<1>2. /\ CostOf(known) \in Costs /\ Due(billed') = AddCost(Due(billed), CostOf(known))
      /\ billed' \in [turns: Nat, unpriced: BOOLEAN]
  BY OneMoreBilled DEF LoopInv, LoopTypeOK
<1>3. 0 \in Costs
  BY DEF Costs
<1>4. AddCost(spent', cost') = spent' /\ spent' = AddCost(spent, CostOf(known)) /\ spent' \in Costs
  BY <1>1, <1>2, <1>3, CostAdded
<1>5. spent = Due(billed)
  BY <1>1, <1>3, CostAdded
<1> QED
  BY <1>2, <1>4, <1>5

LEMMA StepPaid ==
  ASSUME LoopStep, LoopInv, CostInv, auto.stage = "acting", UNCHANGED <<auto, spent>>
  PROVE  CostInv'
<1> SUFFICES AddCost(spent', cost') = Due(billed')
  BY DEF CostInv
<1>0. AddCost(spent, cost) = Due(billed)
  BY DEF CostInv
<1>1. CASE ModelFails
  BY <1>0, <1>1 DEF ModelFails
<1>2. ASSUME NEW size \in Sizes, ToolReturns(size) PROVE AddCost(spent', cost') = Due(billed')
  BY <1>0, <1>2 DEF ToolReturns
<1>3. ASSUME NEW known \in BOOLEAN, Summarize(known)
      PROVE  AddCost(spent', cost') = Due(billed')
  BY <1>3, PaidByAgent DEF Summarize
<1>4. ASSUME NEW known \in BOOLEAN, NEW n \in 0..MaxCalls, Answer(n, known)
      PROVE  AddCost(spent', cost') = Due(billed')
  BY <1>4, PaidByAgent DEF Answer
<1> QED
  BY <1>1, <1>2, <1>3, <1>4 DEF LoopStep

\* Nothing but the stage, or what the judge will look at, changes.
LEMMA SameTexts ==
  ASSUME NEW a, NEW b, NEW m, LastTold(a), Remembered(a, m),
         b.rounds = a.rounds, b.text = a.text, b.answer = a.answer
  PROVE  LastTold(b) /\ Remembered(b, m)
<1>1. Told(b) = Told(a)
  BY DEF Told
<1> QED
  BY <1>1 DEF LastTold, Remembered

\* A note that is added is none of the texts.
LEMMA NoteAdded ==
  ASSUME NEW a, NEW m \in Seq(Notes \union 1..MaxRounds), NEW note \in Notes,
         Remembered(a, m)
  PROVE  Remembered(a, Append(m, note))
<1> DEFINE n == Len(m)
           b == Append(m, note)
<1>1. /\ n \in Nat /\ DOMAIN m = 1..n /\ DOMAIN b = 1..(n + 1)
      /\ b[n + 1] = note /\ \A i \in 1..n : b[i] = m[i]
  OBVIOUS
<1> HIDE DEF b, n
<1>2. ToSet(b) = ToSet(m) \union {note}
  BY <1>1 DEF ToSet
<1>3. \A i, j \in 1..(n + 1) : i < j /\ b[i] \notin Notes /\ b[j] \notin Notes => b[i] < b[j]
  BY <1>1 DEF Remembered
<1>4. Remembered(a, b)
  BY <1>1, <1>2, <1>3 DEF Remembered
<1> QED
  BY <1>4 DEF b

\* A text of a later round is added behind the others.
LEMMA TextAdded ==
  ASSUME NEW a, NEW b, NEW m \in Seq(Notes \union 1..MaxRounds), Remembered(a, m),
         NEW x \in 1..MaxRounds, a.text = 0, b.text = x, b.rounds = a.rounds,
         \A y \in Told(a) : y < x
  PROVE  Remembered(b, Append(m, x))
<1> DEFINE n == Len(m)
           l == Append(m, x)
<1>1. /\ n \in Nat /\ DOMAIN m = 1..n /\ DOMAIN l = 1..(n + 1)
      /\ l[n + 1] = x /\ \A i \in 1..n : l[i] = m[i]
  OBVIOUS
<1> HIDE DEF l, n
<1>2. ToSet(l) = ToSet(m) \union {x}
  BY <1>1 DEF ToSet
<1>3. Told(b) \ {0} = (Told(a) \ {0}) \union {x}
  BY DEF Told
<1>4. x \notin Notes /\ x # 0
  BY RoundsAssumption
<1>5. ToSet(l) \ Notes = Told(b) \ {0}
  BY <1>2, <1>3, <1>4 DEF Remembered
<1>6. \A i \in 1..n : m[i] \notin Notes => m[i] < x
  <2>1. \A i \in 1..n : m[i] \in ToSet(m)
    BY <1>1 DEF ToSet
  <2> QED
    BY <2>1 DEF Remembered
<1>7. \A i, j \in 1..(n + 1) : i < j /\ l[i] \notin Notes /\ l[j] \notin Notes => l[i] < l[j]
  BY <1>1, <1>6 DEF Remembered
<1>8. Remembered(b, l)
  BY <1>1, <1>5, <1>7 DEF Remembered
<1> QED
  BY <1>8 DEF l

LEMMA AutoStarts == AutoInit => AutoInv
<1> SUFFICES ASSUME AutoInit PROVE AutoInv
  OBVIOUS
<1>1. LoopInv /\ CostInv
  BY LoopStarts DEF AutoInit, LoopInit, CostInv, Costs, AddCost, Due, Unpriced
<1>2. auto = [stage |-> "idle", round |-> 0, focused |-> FALSE, text |-> 0, answer |-> 0,
              completed |-> FALSE, rounds |-> <<>>]
  BY DEF AutoInit
<1>3. auto \in Records
  <2>1. <<>> \in Seq([actions: 0..MaxRounds, verdict: Verdicts])
    OBVIOUS
  <2> QED
    BY <1>2, <2>1, RoundsAssumption DEF Records, AutoStages
<1>4. memory = <<>> /\ memory \in Seq(Notes \union 1..MaxRounds) /\ ToSet(memory) = {}
  BY DEF AutoInit, ToSet
<1>5. Told(auto) = {0}
  BY <1>2 DEF Told
<1>6. InRounds(auto) /\ LastTold(auto) /\ Remembered(auto, memory)
  BY <1>2, <1>4, <1>5 DEF InRounds, LastTold, Remembered, Running
<1> QED
  BY <1>1, <1>3, <1>4, <1>6 DEF AutoInv

\* Every text told so far is from a round before the one that is running.
LEMMA EarlierTexts ==
  ASSUME NEW a \in Records, InRounds(a), a.stage \in Running, a.text = 0
  PROVE  \A y \in Told(a) : y \in 0..MaxRounds /\ y < a.round
<1>1. /\ a.round \in 0..MaxRounds /\ a.rounds \in Seq([actions: 0..MaxRounds, verdict: Verdicts])
      /\ MaxRounds \in Nat
  BY RoundsAssumption DEF Records
<1>2. /\ a.round = Len(a.rounds) + 1
      /\ \A i \in DOMAIN a.rounds : a.rounds[i].actions \in {0, i}
  BY DEF InRounds
<1>3. \A i \in DOMAIN a.rounds : i \in Nat /\ i < a.round
  BY <1>1, <1>2
<1> QED
  BY <1>1, <1>2, <1>3 DEF Told

LEMMA StartKeeps ==
  ASSUME AutoInv, StartAuto
  PROVE  AutoInv'
<1>1. /\ auto.stage = "idle" /\ auto \in Records /\ InRounds(auto)
      /\ LastTold(auto) /\ Remembered(auto, memory)
      /\ memory \in Seq(Notes \union 1..MaxRounds)
      /\ UNCHANGED <<talk, loop, cost, billed, memory, spent>> /\ LoopInv /\ CostInv
      /\ auto' = IF MaxRounds = 0 THEN [auto EXCEPT !.stage = "done"]
                 ELSE [auto EXCEPT !.stage = "planning", !.round = 1]
  BY DEF AutoInv, StartAuto, loopVars
<1>2. auto.rounds = <<>> /\ ~auto.completed /\ auto.text = 0 /\ auto.round = 0
  BY <1>1 DEF InRounds
<1>c. LoopInv' /\ CostInv'
  BY <1>1 DEF LoopInv, LoopTypeOK, CostInv
<1>3. CASE MaxRounds = 0
  <2>1. auto' = [auto EXCEPT !.stage = "done"]
    BY <1>1, <1>3
  <2>2. auto' \in Records /\ auto'.stage = "done" /\ auto'.rounds = <<>> /\ auto'.text = 0
        /\ auto'.answer = auto.answer /\ ~auto'.completed /\ auto'.round = 0
    BY <1>1, <1>2, <2>1 DEF Records, AutoStages
  <2>3. InRounds(auto')
    BY <2>2 DEF InRounds, Running, Judged
  <2> QED
    BY <1>1, <1>2, <1>c, <2>2, <2>3, SameTexts DEF AutoInv
<1>4. CASE MaxRounds # 0
  <2>1. auto' = [auto EXCEPT !.stage = "planning", !.round = 1] /\ 1 \in 0..MaxRounds
    BY <1>1, <1>4, RoundsAssumption
  <2>2. auto' \in Records /\ auto'.stage = "planning" /\ auto'.rounds = <<>> /\ auto'.text = 0
        /\ auto'.answer = auto.answer /\ ~auto'.completed /\ auto'.round = 1
    BY <1>1, <1>2, <2>1 DEF Records, AutoStages
  <2>3. InRounds(auto')
    BY <2>2 DEF InRounds, Running
  <2> QED
    BY <1>1, <1>2, <1>c, <2>2, <2>3, SameTexts DEF AutoInv
<1> QED
  BY <1>3, <1>4

LEMMA PlanKeeps ==
  ASSUME AutoInv, NEW known \in BOOLEAN, Plan(known)
  PROVE  AutoInv'
<1>1. /\ auto.stage = "planning" /\ auto \in Records /\ InRounds(auto)
      /\ LastTold(auto) /\ Remembered(auto, memory)
      /\ memory \in Seq(Notes \union 1..MaxRounds)
      /\ memory' = memory /\ Launch /\ Bill(known) /\ LoopInv /\ CostInv
      /\ spent' = AddCost(spent, CostOf(known))
      /\ auto' = [auto EXCEPT !.stage = "acting"]
  BY DEF AutoInv, Plan
<1>2. LoopInv' /\ CostInv'
  <2>1. cost = 0 /\ cost' = 0
    BY <1>1 DEF CostInv, Launch
  <2> QED
    BY <1>1, <2>1, PaidByRounds, LaunchKeeps DEF CostInv
<1>3. /\ auto' \in Records /\ auto'.stage = "acting" /\ auto'.rounds = auto.rounds
      /\ auto'.text = auto.text /\ auto'.answer = auto.answer
      /\ auto'.completed = auto.completed /\ auto'.round = auto.round
  BY <1>1 DEF Records, AutoStages
<1>4. InRounds(auto')
  BY <1>1, <1>3 DEF InRounds, Running
<1> QED
  BY <1>1, <1>2, <1>3, <1>4, SameTexts DEF AutoInv

\* The loop steps on its own, or as the agent calls `remember`.
LEMMA ActKeeps ==
  ASSUME AutoInv, Act
  PROVE  AutoInv'
<1>1. /\ LoopStep /\ auto' = auto /\ memory' = memory /\ spent' = spent
      /\ LoopInv /\ CostInv /\ auto.stage = "acting"
  BY DEF Act, AutoInv
<1>2. LoopInv'
  BY <1>1, LoopSteps DEF LoopNext
<1>3. CostInv'
  BY <1>1, StepPaid
<1> QED
  BY <1>1, <1>2, <1>3 DEF AutoInv

LEMMA RememberKeeps ==
  ASSUME AutoInv, NEW note \in Notes, Remember(note)
  PROVE  AutoInv'
<1>1. /\ LoopStep /\ auto' = auto /\ spent' = spent /\ auto.stage = "acting"
      /\ LoopInv /\ CostInv
      /\ memory' = IF note \in ToSet(memory) THEN memory ELSE Append(memory, note)
      /\ Remembered(auto, memory) /\ memory \in Seq(Notes \union 1..MaxRounds)
  BY DEF Remember, AutoInv, LoopStep
<1>2. LoopInv'
  BY <1>1, LoopSteps DEF LoopNext
<1>3. CostInv'
  BY <1>1, StepPaid
<1>4. Remembered(auto, memory') /\ memory' \in Seq(Notes \union 1..MaxRounds)
  BY <1>1, NoteAdded
<1> QED
  BY <1>1, <1>2, <1>3, <1>4 DEF AutoInv

LEMMA ReturnKeeps ==
  ASSUME AutoInv, NEW text \in 0..MaxRounds, ActReturns(text)
  PROVE  AutoInv'
<1>1. /\ auto.stage = "acting" /\ auto \in Records /\ InRounds(auto)
      /\ LastTold(auto) /\ Remembered(auto, memory)
      /\ memory \in Seq(Notes \union 1..MaxRounds)
      /\ LoopInv /\ CostInv /\ UNCHANGED billed
      /\ cost' = 0 /\ spent' = AddCost(spent, cost)
      /\ talk' = <<>> /\ loop' = [stage |-> "idle", step |-> 0]
      /\ text \in {0, auto.round}
      /\ auto' = [auto EXCEPT !.stage = "reflecting", !.text = text,
                              !.answer = IF text # 0 THEN text ELSE @]
      /\ memory' = IF text # 0 THEN Append(memory, text) ELSE memory
  BY DEF AutoInv, ActReturns
<1>2. LoopInv' /\ CostInv'
  <2>1. loop' \in [stage: Stages, step: 0..MaxSteps] /\ loop'.stage = "idle"
    BY <1>1, LoopAssumption DEF Stages
  <2>2. talk' \in Seq(Item)
    <3>1. <<>> \in Seq(Item)
      OBVIOUS
    <3> QED
      BY <1>1, <3>1
  <2>3. /\ cost' \in Costs /\ billed' \in [turns: Nat, unpriced: BOOLEAN]
        /\ cost \in Costs /\ spent \in Costs /\ AddCost(spent, cost) = Due(billed)
    BY <1>1 DEF LoopInv, LoopTypeOK, CostInv, Costs
  <2>4. CostInv'
    <3>1. spent' \in Costs /\ AddCost(spent', cost') = spent'
      BY <1>1, <2>3, CostAdded
    <3> QED
      BY <1>1, <2>3, <3>1 DEF CostInv
  <2> QED
    BY <1>1, <2>1, <2>2, <2>3, <2>4 DEF LoopInv, LoopTypeOK, Working
<1>3. /\ auto' \in Records /\ auto'.stage = "reflecting" /\ auto'.rounds = auto.rounds
      /\ auto'.text = text /\ auto'.answer = (IF text # 0 THEN text ELSE auto.answer)
      /\ auto'.completed = auto.completed /\ auto'.round = auto.round
  BY <1>1 DEF Records, AutoStages
<1>4. InRounds(auto')
  BY <1>1, <1>3 DEF InRounds, Running
<1>5. auto.text = 0
  BY <1>1 DEF InRounds
<1>6. CASE text = 0
  <2>1. memory' = memory /\ auto'.answer = auto.answer /\ auto'.text = auto.text
    BY <1>1, <1>3, <1>5, <1>6
  <2>2. LastTold(auto') /\ Remembered(auto', memory)
    <3>1. /\ LastTold(auto) /\ Remembered(auto, memory) /\ auto'.rounds = auto.rounds
          /\ auto'.text = auto.text /\ auto'.answer = auto.answer
      BY <1>1, <1>3, <2>1
    <3> QED
      BY ONLY <3>1, SameTexts, Zenon
  <2> QED
    BY <1>1, <1>2, <1>3, <1>4, <2>1, <2>2 DEF AutoInv
<1>7. CASE text # 0
  <2>1. text \in 1..MaxRounds /\ text = auto.round /\ memory' = Append(memory, text)
        /\ auto'.answer = text
    BY <1>1, <1>3, <1>7, RoundsAssumption
  <2>2. \A y \in Told(auto) : y \in 0..MaxRounds /\ y < text
    BY <1>1, <1>5, <2>1, EarlierTexts DEF Running
  <2>3. Remembered(auto', memory')
    <3>1. Remembered(auto', Append(memory, text))
      <4>1. \A y \in Told(auto) : y < text
        BY <2>2
      <4> QED
        BY <1>1, <1>3, <1>5, <2>1, <4>1, TextAdded, Zenon
    <3> QED
      BY <2>1, <3>1
  <2>4. memory' \in Seq(Notes \union 1..MaxRounds)
    BY <1>1, <2>1
  <2>5. Told(auto') \subseteq Told(auto) \union {text} /\ text \in Told(auto')
    BY <1>3 DEF Told
  <2>6. LastTold(auto')
    BY <2>1, <2>2, <2>5 DEF LastTold
  <2> QED
    BY <1>2, <1>3, <1>4, <2>3, <2>4, <2>6 DEF AutoInv
<1> QED
  BY <1>6, <1>7

LEMMA ReflectKeeps ==
  ASSUME AutoInv, NEW verdict \in Verdicts, NEW named \in BOOLEAN, NEW known \in BOOLEAN,
         Reflect(verdict, named, known)
  PROVE  AutoInv'
<1> DEFINE met  == GoalMet(verdict)
           last == auto.round = MaxRounds
           one  == [actions |-> auto.text, verdict |-> verdict]
           n    == Len(auto.rounds)
<1>1. /\ auto.stage = "reflecting" /\ auto \in Records /\ InRounds(auto)
      /\ LastTold(auto) /\ Remembered(auto, memory)
      /\ memory \in Seq(Notes \union 1..MaxRounds)
      /\ LoopInv /\ CostInv /\ Bill(known) /\ spent' = AddCost(spent, CostOf(known))
      /\ UNCHANGED <<talk, loop, cost, memory>>
      /\ auto' = [auto EXCEPT !.rounds = Append(@, one),
                              !.completed = met, !.focused = IF met THEN @ ELSE named,
                              !.stage = IF met \/ last THEN "done" ELSE "planning",
                              !.round = IF met \/ last THEN @ ELSE @ + 1, !.text = 0]
  BY DEF AutoInv, Reflect
<1>2. LoopInv' /\ CostInv'
  <2>1. cost = 0 /\ cost' = 0
    BY <1>1 DEF CostInv
  <2>2. spent' \in Costs /\ AddCost(spent', cost') = Due(billed')
        /\ billed' \in [turns: Nat, unpriced: BOOLEAN]
    BY <1>1, <2>1, PaidByRounds
  <2> QED
    BY <1>1, <2>1, <2>2 DEF LoopInv, LoopTypeOK, CostInv
<1>3. /\ auto.rounds \in Seq([actions: 0..MaxRounds, verdict: Verdicts])
      /\ auto.round \in 0..MaxRounds /\ auto.text \in 0..MaxRounds /\ n \in Nat
      /\ MaxRounds \in Nat /\ auto.focused \in BOOLEAN /\ auto.stage \in Running
      /\ auto.text \in {0, auto.round} /\ auto.round = n + 1
  BY <1>1, RoundsAssumption DEF Records, InRounds, Running
<1>4. one \in [actions: 0..MaxRounds, verdict: Verdicts] /\ met \in BOOLEAN
  BY <1>3 DEF GoalMet
<1>m. met <=> verdict \in Met
  BY DEF GoalMet
<1> HIDE DEF met
<1>5. /\ auto'.rounds = Append(auto.rounds, one) /\ auto'.text = 0 /\ auto'.completed = met
      /\ auto'.answer = auto.answer
      /\ auto'.stage = (IF met \/ last THEN "done" ELSE "planning")
      /\ auto'.round = (IF met \/ last THEN auto.round ELSE auto.round + 1)
  BY <1>1 DEF Records
<1>6. auto' \in Records
  <2>1. Append(auto.rounds, one) \in Seq([actions: 0..MaxRounds, verdict: Verdicts])
    BY <1>3, <1>4
  <2>2. (IF met \/ last THEN auto.round ELSE auto.round + 1) \in 0..MaxRounds
    BY <1>3
  <2> DEFINE r == Append(auto.rounds, one)
             f == IF met THEN auto.focused ELSE named
             s == IF met \/ last THEN "done" ELSE "planning"
             k == IF met \/ last THEN auto.round ELSE auto.round + 1
  <2>3. f \in BOOLEAN /\ s \in AutoStages /\ 0 \in 0..MaxRounds
    BY <1>3, <1>4 DEF AutoStages
  <2>4. auto' = [auto EXCEPT !.rounds = r, !.completed = met, !.focused = f, !.stage = s,
                             !.round = k, !.text = 0]
    BY <1>1
  <2> HIDE DEF r, f, s, k
  <2>5. r \in Seq([actions: 0..MaxRounds, verdict: Verdicts]) /\ k \in 0..MaxRounds
    BY <2>1, <2>2 DEF r, k
  <2> QED
    BY <1>1, <1>4, <2>3, <2>4, <2>5 DEF Records
<1>7. /\ Len(auto'.rounds) = n + 1 /\ auto'.rounds[n + 1] = one
      /\ DOMAIN auto'.rounds = 1..(n + 1) /\ DOMAIN auto.rounds = 1..n
      /\ \A i \in 1..n : auto'.rounds[i] = auto.rounds[i]
  BY <1>3, <1>4, <1>5
<1>8. /\ \A i \in 1..n : auto.rounds[i].verdict \notin Met /\ auto.rounds[i].actions \in {0, i}
      /\ one.verdict = verdict /\ one.actions = auto.text
  BY <1>1, <1>3, <1>7 DEF InRounds
<1>i. \A i \in 1..(n + 1) : i = n + 1 \/ i \in 1..n
  BY <1>3
<1> HIDE DEF one, n
<1>9. Told(auto') = Told(auto) \union {0}
  <2>1. Told(auto') = {auto'.rounds[i].actions : i \in 1..(n + 1)} \union {0}
    BY <1>5, <1>7 DEF Told
  <2>2. Told(auto) = {auto.rounds[i].actions : i \in 1..n} \union {auto.text}
    BY <1>7 DEF Told
  <2>3. {auto'.rounds[i].actions : i \in 1..(n + 1)}
          = {auto.rounds[i].actions : i \in 1..n} \union {auto.text}
    <3>1. \A i \in 1..n : i \in 1..(n + 1) /\ auto'.rounds[i].actions = auto.rounds[i].actions
      BY <1>3, <1>7
    <3>2. n + 1 \in 1..(n + 1) /\ auto'.rounds[n + 1].actions = auto.text
      BY <1>3, <1>7, <1>8
    <3> QED
      BY <1>i, <3>1, <3>2
  <2> QED
    BY <2>1, <2>2, <2>3
<1>10. LastTold(auto') /\ Remembered(auto', memory')
  <2>1. auto.answer >= 0
    BY <1>1, <1>3 DEF Records
  <2> QED
    BY <1>1, <1>5, <1>9, <2>1 DEF LastTold, Remembered
<1>11. \A i \in 1..(n + 1) : auto'.rounds[i].actions \in {0, i}
  BY <1>3, <1>i, <1>7, <1>8
<1>12. CASE met \/ last
  <2>1. auto'.stage = "done"
    BY <1>5, <1>12
  <2>2. Judged(auto')
    BY <1>m, <1>3, <1>5, <1>7, <1>8 DEF Judged
  <2> QED
    BY <1>1, <1>2, <1>5, <1>6, <1>7, <1>10, <1>11, <2>1, <2>2 DEF AutoInv, InRounds, Running
<1>13. CASE ~(met \/ last)
  <2>1. auto'.stage = "planning" /\ auto'.round = n + 2 /\ ~auto'.completed
    BY <1>3, <1>5, <1>13
  <2>2. \A i \in 1..(n + 1) : auto'.rounds[i].verdict \notin Met
    BY <1>m, <1>i, <1>7, <1>8, <1>13
  <2>3. InRounds(auto')
    BY <1>3, <1>5, <1>7, <1>11, <2>1, <2>2 DEF InRounds, Running
  <2> QED
    BY <1>1, <1>2, <1>6, <1>10, <2>3 DEF AutoInv
<1> QED
  BY <1>12, <1>13

LEMMA FailureKeeps ==
  ASSUME AutoInv, AutoFails
  PROVE  AutoInv'
<1>1. /\ auto' = [auto EXCEPT !.stage = "failed"] /\ UNCHANGED <<talk, loop, cost, billed, memory, spent>>
      /\ LoopInv /\ CostInv /\ auto \in Records /\ InRounds(auto) /\ LastTold(auto) /\ Remembered(auto, memory)
  BY DEF AutoInv, AutoFails, loopVars
<1>2. /\ auto' \in Records /\ auto'.stage = "failed" /\ auto'.rounds = auto.rounds
      /\ auto'.text = auto.text /\ auto'.answer = auto.answer /\ auto'.round = auto.round
  BY <1>1 DEF Records, AutoStages
<1>3. InRounds(auto')
  BY <1>1, <1>2 DEF InRounds, Running
<1>c. LoopInv' /\ CostInv'
  BY <1>1, <1>2 DEF LoopInv, LoopTypeOK, CostInv
<1> QED
  BY <1>1, <1>2, <1>3, <1>c, SameTexts DEF AutoInv

LEMMA AutoSteps == AutoInv /\ [AutoNext]_autoVars => AutoInv'
<1> SUFFICES ASSUME AutoInv, [AutoNext]_autoVars PROVE AutoInv'
  OBVIOUS
<1>1. CASE UNCHANGED autoVars
  <2>1. UNCHANGED <<talk, loop, cost, billed, auto, memory, spent>>
    BY <1>1 DEF autoVars, loopVars
  <2> QED
    BY <2>1 DEF AutoInv, LoopInv, LoopTypeOK, CostInv
<1> QED
  BY <1>1, StartKeeps, PlanKeeps, ActKeeps, RememberKeeps, ReturnKeeps, ReflectKeeps,
     FailureKeeps DEF AutoNext, AutoStep

\* The result tells what the rounds did (agent.py:125-127 and 240-242), for any number of
\* rounds, notes, steps and texts: the answer is the last text told, the scratchpad has all
\* of them in order, and only the last verdict, one that could be read, completes the run.
THEOREM ResultsFollowRounds == AutoSpec => []ResultFollowsRounds
<1>1. AutoInv => ResultFollowsRounds
  <2> SUFFICES ASSUME AutoInv, auto.stage \in {"planning", "done"} PROVE ResultFollowsRounds
    BY DEF ResultFollowsRounds
  <2> DEFINE n     == Len(auto.rounds)
             texts == {auto.rounds[i].actions : i \in 1..n} \ {0}
  <2>1. /\ auto.rounds \in Seq([actions: 0..MaxRounds, verdict: Verdicts]) /\ n \in Nat
        /\ DOMAIN auto.rounds = 1..n /\ auto.text = 0
        /\ LastTold(auto) /\ Remembered(auto, memory)
    BY DEF AutoInv, Records, InRounds
  <2>2. texts = Told(auto) \ {0} /\ \A x \in texts : x \notin Notes
    <3>1. texts = Told(auto) \ {0}
      BY <2>1 DEF Told
    <3>2. \A i \in 1..n : auto.rounds[i] \in [actions: 0..MaxRounds, verdict: Verdicts]
      <4> DEFINE R == [actions: 0..MaxRounds, verdict: Verdicts]
      <4>1. auto.rounds \in Seq(R)
        BY <2>1
      <4> HIDE DEF R
      <4>2. \A i \in 1..Len(auto.rounds) : auto.rounds[i] \in R
        BY <4>1
      <4> QED
        BY <4>2 DEF R
    <3>3. \A i \in 1..n : auto.rounds[i].actions \in Nat
      BY <3>2, RoundsAssumption
    <3> QED
      BY <3>1, <3>3, RoundsAssumption
  <2>3. Judged(auto)
    <3>1. CASE auto.stage = "planning"
      <4>1. ~auto.completed /\ \A i \in 1..n : auto.rounds[i].verdict \notin Met
        BY <2>1, <3>1 DEF AutoInv, InRounds, Running
      <4> QED
        BY <2>1, <4>1 DEF Judged
    <3>2. CASE auto.stage = "done"
      BY <3>2 DEF AutoInv, InRounds
    <3> QED
      BY <3>1, <3>2
  <2>4. auto.answer \in texts \union {0} /\ \A x \in texts : x <= auto.answer
    BY <2>1, <2>2 DEF LastTold
  <2>5. /\ ToSet(memory) \ Notes = texts
        /\ \A i, j \in DOMAIN memory :
             i < j /\ {memory[i], memory[j]} \subseteq texts => memory[i] < memory[j]
    BY <2>1, <2>2 DEF Remembered
  <2>6. "unparsed" \notin Met
    BY DEF Met
  <2> HIDE DEF texts
  <2>7. /\ auto.completed <=> n > 0 /\ auto.rounds[n].verdict \in Met
        /\ \A i \in 1..(n - 1) : auto.rounds[i].verdict \notin Met
        /\ auto.completed => auto.rounds[n].verdict # "unparsed"
    BY <2>3, <2>6 DEF Judged
  <2> QED
    BY <2>4, <2>5, <2>7 DEF ResultFollowsRounds, texts
<1> QED
  BY <1>1, AutoStarts, AutoSteps, PTL DEF AutoSpec

\* The cost that is reported (agent.py:221-263) is the sum of what all model turns came to, or
\* unknown exactly if one of them is (_util.py:12-13), for any number of rounds, steps and
\* compactions: no turn's price is forgotten, and none is added twice.
THEOREM CostsAreHonest == AutoSpec => []CostIsHonest
<1>1. AutoInv => CostIsHonest
  <2> SUFFICES ASSUME AutoInv, auto.stage = "done" PROVE CostIsHonest
    BY DEF CostIsHonest
  <2>1. cost = 0 /\ spent \in Costs /\ AddCost(spent, cost) = Due(billed)
    BY DEF AutoInv, CostInv
  <2> QED
    BY <2>1, CostAdded DEF CostIsHonest, Due, Costs
<1> QED
  BY <1>1, AutoStarts, AutoSteps, PTL DEF AutoSpec

\* The acting agent of an autonomous run sends no call without its results either, round
\* after round (agent.py:54-124, context.py:97-118).
THEOREM RoundsAnswerCalls == AutoSpec => []CallsAnswered
<1>1. AutoInv => CallsAnswered
  BY DEF AutoInv, LoopInv, CallsAnswered
<1> QED
  BY <1>1, AutoStarts, AutoSteps, PTL DEF AutoSpec

\* The type invariant of the rounds and of the agent that acts in them.
THEOREM RoundsTyped == AutoSpec => []AutoTypeOK
<1>1. AutoInv => AutoTypeOK
  BY DEF AutoInv, CostInv, LoopInv, AutoTypeOK, Records
<1> QED
  BY <1>1, AutoStarts, AutoSteps, PTL DEF AutoSpec

\* So do those of the acting agent, whose transcript begins anew in each round.
THEOREM RoundsTakeTurns == AutoSpec => []MessagesAlternate
<1>1. AutoInit => AutoInv /\ TurnsInv
  BY AutoStarts DEF AutoInit, LoopInit, TurnsInv
<1>2. AutoInv /\ TurnsInv /\ [AutoNext]_autoVars => AutoInv' /\ TurnsInv'
  <2> SUFFICES ASSUME AutoInv, TurnsInv, [AutoNext]_autoVars PROVE TurnsInv'
    BY AutoSteps
  <2>1. CASE UNCHANGED <<talk, loop>>
    BY <2>1 DEF TurnsInv
  <2>2. CASE LoopStep
    BY <2>2, LoopSpeaks DEF AutoInv
  <2>3. ASSUME NEW text \in 0..MaxRounds, ActReturns(text) PROVE TurnsInv'
    BY <2>3 DEF ActReturns, TurnsInv
  <2>4. ASSUME NEW known \in BOOLEAN, Plan(known) PROVE TurnsInv'
    BY <2>4, LaunchSpeaks DEF Plan
  <2>5. ASSUME NEW note \in Notes, Remember(note) PROVE LoopStep
    BY <2>5 DEF Remember, LoopStep
  <2>6. UNCHANGED autoVars => UNCHANGED <<talk, loop>>
    BY DEF autoVars, loopVars
  <2> QED
    BY <2>1, <2>2, <2>3, <2>4, <2>5, <2>6
    DEF AutoNext, AutoStep, StartAuto, Act, Reflect, AutoFails, loopVars
<1>3. AutoInv /\ TurnsInv => MessagesAlternate
  BY TurnsAlternate DEF AutoInv
<1> QED
  BY <1>1, <1>2, <1>3, PTL DEF AutoSpec

-----------------------------------------------------------------------------
(* The router.                                                             *)

\* What a turn chose when it began: it goes through all of it, and nothing else.
TurnInv(o) ==
  /\ o.stage # "idle" => o.todo \union o.attempts = IF o.fit = {} THEN Chain(o.tier) ELSE o.fit
  /\ o.stage \in {"asking", "answered"} => o.todo # {}
  /\ o.stage = "unavailable" => o.todo = {}

RouterInv == RouterTypeOK /\ \A t \in Turns : TurnInv(turn[t])

LEMMA Ranked == \A p \in Providers : Rank(p) \in Nat
<1>1. DOMAIN Preference = 1..5
  BY DEF Preference
<1>2. \A p \in Providers : \E i \in 1..5 : Preference[i] = p
  BY DEF Preference, Providers
<1> QED
  BY <1>1, <1>2 DEF Rank

LEMMA ChainTyped == \A tier \in Tiers : Chain(tier) \subseteq Providers
  BY RouterAssumption DEF Chain, Providers, Tiers, Enabled

LEMMA IdleTyped == Idle \in Turn /\ TurnInv(Idle)
  BY RouterAssumption DEF Idle, Turn, Tiers, Outcomes, TurnInv

\* The provider that is asked is the first of those left.
LEMMA FirstIsAsked ==
  ASSUME NEW t \in Turns, turn[t].todo \subseteq Providers, turn[t].todo # {}
  PROVE  /\ Asked(t) \in turn[t].todo
         /\ \A q \in turn[t].todo : Rank(Asked(t)) <= Rank(q)
<1> DEFINE todo  == turn[t].todo
           ranks == {Rank(p) : p \in todo}
<1>1. ranks \in SUBSET Nat /\ ranks # {}
  BY Ranked
<1>2. PICK x \in ranks : \A y \in ranks : x <= y
  <2> HIDE DEF ranks
  <2> QED
    BY <1>1, LeastNat
<1>3. PICK p \in todo : Rank(p) = x
  OBVIOUS
<1>4. \A q \in todo : Rank(p) <= Rank(q)
  BY <1>2, <1>3
<1> QED
  BY <1>4 DEF Asked

LEMMA RouterStarts == RouterInit => RouterInv
<1> SUFFICES ASSUME RouterInit PROVE RouterInv
  OBVIOUS
<1>1. unhealthy \in [Providers -> 0..Cooldown]
  BY RouterAssumption DEF RouterInit
<1>2. turn = [t \in Turns |-> Idle]
  BY DEF RouterInit
<1> QED
  BY <1>1, <1>2, IdleTyped DEF RouterInv, RouterTypeOK

\* One turn changes.
LEMMA OneTurn ==
  ASSUME RouterInv, NEW t \in Turns, NEW o \in Turn, TurnInv(o),
         turn' = [turn EXCEPT ![t] = o], unhealthy' \in [Providers -> 0..Cooldown]
  PROVE  RouterInv'
<1>1. turn \in [Turns -> Turn]
  BY DEF RouterInv, RouterTypeOK
<1>2. turn' \in [Turns -> Turn]
  BY <1>1
<1>3. \A s \in Turns : turn'[s] = IF s = t THEN o ELSE turn[s]
  BY <1>1
<1>4. \A s \in Turns : TurnInv(turn'[s])
  BY <1>3 DEF RouterInv
<1> QED
  BY <1>2, <1>4 DEF RouterInv, RouterTypeOK

LEMMA BeginKeeps ==
  ASSUME RouterInv, NEW t \in Turns, NEW tier \in Tiers, BeginTurn(t, tier)
  PROVE  RouterInv'
<1> DEFINE chain == Chain(tier)
           fit   == {p \in chain : Healthy(p)}
           stage == IF chain = {} THEN "unavailable" ELSE "asking"
           o     == [stage |-> stage, tier |-> tier, todo |-> Candidates(tier),
                     attempts |-> {}, fit |-> fit, posts |-> 0, plain |-> FALSE]
<1>1. turn' = [turn EXCEPT ![t] = o] /\ unhealthy' = unhealthy
  BY DEF BeginTurn
<1>2. chain \subseteq Providers /\ fit \subseteq chain
  BY ChainTyped
<1>3. Candidates(tier) = IF fit = {} THEN chain ELSE fit
  BY DEF Candidates
<1>4. stage \in {"unavailable", "asking"} /\ (stage = "unavailable" <=> chain = {})
  OBVIOUS
<1> HIDE DEF chain, fit, stage
<1>5. /\ o.stage = stage /\ o.tier = tier /\ o.todo = Candidates(tier) /\ o.fit = fit
      /\ o.attempts = {} /\ o \in Turn
  <2>1. /\ stage \in {"idle", "asking"} \union Outcomes /\ Candidates(tier) \subseteq Providers
        /\ fit \subseteq Providers /\ 0 \in 0..MaxRetries
    BY <1>2, <1>3, <1>4, RouterAssumption DEF Outcomes
  <2> QED
    BY <2>1 DEF Turn
<1> HIDE DEF o
<1>6. TurnInv(o)
  BY <1>2, <1>3, <1>4, <1>5 DEF TurnInv, chain
<1> QED
  BY <1>1, <1>5, <1>6, OneTurn DEF RouterInv, RouterTypeOK

\* Another post of the request to the same provider.
LEMMA RetryKeeps ==
  ASSUME RouterInv, NEW t \in Turns, RetryPost(t) \/ AskPlainly(t)
  PROVE  RouterInv'
<1>1. /\ turn[t] \in Turn /\ TurnInv(turn[t]) /\ turn \in [Turns -> Turn]
      /\ unhealthy \in [Providers -> 0..Cooldown]
  BY DEF RouterInv, RouterTypeOK
<1>2. /\ unhealthy' = unhealthy
      /\ \E posts \in 0..MaxRetries, plain \in BOOLEAN :
           turn' = [turn EXCEPT ![t] = [turn[t] EXCEPT !.posts = posts, !.plain = plain]]
  <2>1. CASE RetryPost(t)
    <3>1. /\ turn' = [turn EXCEPT ![t].posts = @ + 1] /\ turn[t].posts < MaxRetries
          /\ unhealthy' = unhealthy
      BY <2>1 DEF RetryPost
    <3>2. turn[t].posts + 1 \in 0..MaxRetries /\ turn[t].plain \in BOOLEAN
      BY <1>1, <3>1, RouterAssumption DEF Turn
    <3>3. [turn[t] EXCEPT !.posts = turn[t].posts + 1]
            = [turn[t] EXCEPT !.posts = turn[t].posts + 1, !.plain = turn[t].plain]
      BY <1>1 DEF Turn
    <3>4. turn' = [turn EXCEPT ![t] = [turn[t] EXCEPT !.posts = turn[t].posts + 1]]
      BY <1>1, <3>1
    <3> QED
      BY <3>1, <3>2, <3>3, <3>4
  <2>2. CASE AskPlainly(t)
    <3>1. turn' = [turn EXCEPT ![t] = [turn[t] EXCEPT !.posts = 0, !.plain = TRUE]]
      BY <1>1, <2>2 DEF AskPlainly
    <3>2. 0 \in 0..MaxRetries /\ TRUE \in BOOLEAN /\ unhealthy' = unhealthy
      BY <2>2, RouterAssumption DEF AskPlainly
    <3> QED
      BY <3>1, <3>2, Zenon
  <2> QED
    BY <2>1, <2>2
<1>3. PICK posts \in 0..MaxRetries, plain \in BOOLEAN :
        turn' = [turn EXCEPT ![t] = [turn[t] EXCEPT !.posts = posts, !.plain = plain]]
  BY <1>2
<1> DEFINE o == [turn[t] EXCEPT !.posts = posts, !.plain = plain]
<1>4. /\ o \in Turn /\ o.stage = turn[t].stage /\ o.todo = turn[t].todo
      /\ o.attempts = turn[t].attempts /\ o.fit = turn[t].fit /\ o.tier = turn[t].tier
  BY <1>1 DEF Turn
<1>5. turn' = [turn EXCEPT ![t] = o]
  BY <1>3
<1> HIDE DEF o
<1>6. TurnInv(o)
  BY <1>1, <1>4 DEF TurnInv
<1> QED
  BY <1>1, <1>2, <1>4, <1>5, <1>6, OneTurn

LEMMA FailKeeps ==
  ASSUME RouterInv, NEW t \in Turns, CallFails(t)
  PROVE  RouterInv'
<1>1. /\ turn[t] \in Turn /\ TurnInv(turn[t]) /\ turn[t].stage = "asking"
      /\ turn' = [turn EXCEPT ![t] = Failed(t)]
      /\ unhealthy' = [unhealthy EXCEPT ![Asked(t)] = Cooldown]
      /\ unhealthy \in [Providers -> 0..Cooldown]
  BY DEF RouterInv, RouterTypeOK, CallFails, Asking
<1>2. turn[t].todo \subseteq Providers /\ turn[t].todo # {}
  BY <1>1 DEF Turn, TurnInv
<1>3. Asked(t) \in turn[t].todo
  BY <1>2, FirstIsAsked
<1> DEFINE left  == turn[t].todo \ {Asked(t)}
           stage == IF left = {} THEN "unavailable" ELSE "asking"
           tried == turn[t].attempts \union {Asked(t)}
           o     == [turn[t] EXCEPT !.stage = stage, !.todo = left, !.attempts = tried,
                                    !.posts = 0, !.plain = FALSE]
<1>4. Failed(t) = o
  BY DEF Failed
<1>5. left \subseteq Providers /\ tried \subseteq Providers /\ left \union tried = turn[t].todo \union turn[t].attempts
  BY <1>1, <1>2, <1>3 DEF Turn
<1>6. stage \in {"unavailable", "asking"} /\ (stage = "unavailable" <=> left = {})
  OBVIOUS
<1> HIDE DEF left, stage, tried
<1>7. /\ o \in Turn /\ o.stage = stage /\ o.todo = left
      /\ o.attempts = tried /\ o.fit = turn[t].fit /\ o.tier = turn[t].tier
  <2>1. 0 \in 0..MaxRetries /\ FALSE \in BOOLEAN
        /\ stage \in {"idle", "asking"} \union Outcomes
    BY <1>6, RouterAssumption DEF Outcomes
  <2> QED
    BY <1>1, <1>5, <2>1 DEF Turn
<1> HIDE DEF o
<1>8. TurnInv(o)
  BY <1>1, <1>5, <1>6, <1>7 DEF TurnInv
<1>9. unhealthy' \in [Providers -> 0..Cooldown]
  BY <1>1, <1>2, <1>3, RouterAssumption
<1> QED
  BY <1>1, <1>4, <1>7, <1>8, <1>9, OneTurn

\* The turn ends with an answer, or with an exception that is not ProviderCallError.
LEMMA EndKeeps ==
  ASSUME RouterInv, NEW t \in Turns, CallBreaks(t) \/ CallAnswers(t)
  PROVE  RouterInv'
<1>1. /\ turn[t] \in Turn /\ TurnInv(turn[t]) /\ turn[t].stage = "asking"
      /\ turn \in [Turns -> Turn] /\ unhealthy \in [Providers -> 0..Cooldown]
  BY DEF RouterInv, RouterTypeOK, CallBreaks, CallAnswers, Asking
<1>2. PICK stage \in {"raised", "answered"} :
        turn' = [turn EXCEPT ![t] = [turn[t] EXCEPT !.stage = stage]]
  BY <1>1 DEF CallBreaks, CallAnswers
<1>3. unhealthy' \in [Providers -> 0..Cooldown]
  BY <1>1, RouterAssumption DEF CallBreaks, CallAnswers
<1> DEFINE o == [turn[t] EXCEPT !.stage = stage]
<1>4. /\ o \in Turn /\ o.stage = stage /\ o.todo = turn[t].todo
      /\ o.attempts = turn[t].attempts /\ o.fit = turn[t].fit /\ o.tier = turn[t].tier
  BY <1>1 DEF Turn, Outcomes
<1>5. turn' = [turn EXCEPT ![t] = o]
  BY <1>2
<1> HIDE DEF o
<1>6. TurnInv(o)
  BY <1>1, <1>4 DEF TurnInv
<1> QED
  BY <1>3, <1>4, <1>5, <1>6, OneTurn

LEMMA TickKeeps ==
  ASSUME RouterInv, Tick
  PROVE  RouterInv'
<1>1. /\ turn' = turn /\ unhealthy \in [Providers -> 0..Cooldown] /\ Cooldown \in Nat
      /\ unhealthy' = [p \in Providers |-> IF Healthy(p) THEN 0 ELSE unhealthy[p] - 1]
  BY RouterAssumption DEF Tick, RouterInv, RouterTypeOK
<1>2. \A p \in Providers : (IF Healthy(p) THEN 0 ELSE unhealthy[p] - 1) \in 0..Cooldown
  BY <1>1 DEF Healthy
<1>3. unhealthy' \in [Providers -> 0..Cooldown]
  BY <1>1, <1>2
<1> QED
  BY <1>1, <1>3 DEF RouterInv, RouterTypeOK

LEMMA RouterSteps == RouterInv /\ [RouterNext]_routerVars => RouterInv'
<1> SUFFICES ASSUME RouterInv, [RouterNext]_routerVars PROVE RouterInv'
  OBVIOUS
<1>1. CASE UNCHANGED routerVars
  BY <1>1 DEF routerVars, RouterInv, RouterTypeOK
<1>2. ASSUME NEW t \in Turns, EndTurn(t) PROVE RouterInv'
  <2>1. turn' = [turn EXCEPT ![t] = Idle] /\ unhealthy' = unhealthy
    BY <1>2 DEF EndTurn
  <2> QED
    BY <2>1, IdleTyped, OneTurn DEF RouterInv, RouterTypeOK
<1> QED
  BY <1>1, <1>2, BeginKeeps, RetryKeeps, FailKeeps, EndKeeps, TickKeeps
     DEF RouterNext, CallEnds

\* For any number of concurrent turns, any keys, retries and cooldown (router.py:118-147):
\* a turn is told that nobody is available only when all it chose when it began failed this
\* very call, and it asks a provider only after those before it failed or were left out.
THEOREM RouterIsSound == RouterSpec => []RouterSound
<1>1. RouterInv => RouterSound
  <2> SUFFICES ASSUME RouterInv PROVE FailoverExhausts /\ InOrder
    BY DEF RouterSound
  <2>1. \A t \in Turns : TurnInv(turn[t]) /\ turn[t] \in Turn
    BY DEF RouterInv, RouterTypeOK
  <2>2. FailoverExhausts
    BY <2>1 DEF FailoverExhausts, TurnInv
  <2>3. InOrder
    <3> SUFFICES ASSUME NEW t \in Turns, turn[t].stage \in {"asking", "answered"},
                        NEW p \in Chain(turn[t].tier), Rank(p) < Rank(Asked(t))
                 PROVE  p \in turn[t].attempts \/ (p \notin turn[t].fit /\ turn[t].fit # {})
      BY DEF InOrder
    <3>1. turn[t].todo \subseteq Providers /\ turn[t].todo # {} /\ turn[t].tier \in Tiers
      BY <2>1 DEF TurnInv, Turn
    <3>2. /\ Asked(t) \in turn[t].todo
          /\ \A q \in turn[t].todo : Rank(Asked(t)) <= Rank(q)
      BY <3>1, FirstIsAsked
    <3>3. p \notin turn[t].todo
      <4>1. Rank(p) \in Nat /\ Rank(Asked(t)) \in Nat
        BY <3>1, <3>2, ChainTyped, Ranked
      <4> QED
        BY <3>2, <4>1
    <3> QED
      BY <2>1, <3>3 DEF TurnInv
  <2> QED
    BY <2>2, <2>3
<1> QED
  BY <1>1, RouterStarts, RouterSteps, PTL DEF RouterSpec

\* The router's type invariant: among others, no request is posted more than MaxRetries
\* times again.
THEOREM RouterTyped == RouterSpec => []RouterTypeOK
<1>1. RouterInv => RouterTypeOK
  BY DEF RouterInv
<1> QED
  BY <1>1, RouterStarts, RouterSteps, PTL DEF RouterSpec
=============================================================================
