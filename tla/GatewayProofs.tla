---------------------------- MODULE GatewayProofs ----------------------------
(***************************************************************************)
(* Theorems about the gateway process.  The sliding window of the rate     *)
(* limiter holds for every limit, window and number of clients, and the    *)
(* map of clients is kept to those that were heard of since about the last *)
(* cleanup.  The in-process queue keeps to its slots, drops no run, and    *)
(* keeps the lease of the runs it executes, for any number of runs and     *)
(* slots, any lease and heartbeat interval, and any shutdowns and crashes; *)
(* it implements the run store and the life cycle of runs.                 *)
(* The figures of the dashboard differ in one direction only, however many *)
(* rows come while they are read.  Every call through the tool gateway     *)
(* leaves one audit entry, whatever tools are registered and allowed, and  *)
(* a research request cites only what it fetched.                          *)
(*                                                                         *)
(* The deque of a client is found by a CHOOSE over indices; that there is  *)
(* one is the least element of a set of numbers, which is taken here from  *)
(* the well-foundedness of inclusion on the subsets of a finite set.       *)
(***************************************************************************)
EXTENDS GatewayFront, InProcessRuns, DeepResearch, FiniteSetTheorems, TLAPS

LEMMA LeastNat ==
  ASSUME NEW S \in SUBSET Nat, S # {}
  PROVE  \E x \in S : \A y \in S : x <= y
<1>1. PICK m \in S : TRUE
  OBVIOUS
<1> DEFINE below == {x \in S : x <= m}
           T     == {0..x : x \in below}
           R     == StrictSubsetOrdering(0..m)
<1>2. IsFiniteSet(0..m)
  BY <1>1, FS_Interval
<1>3. IsWellFoundedOn(R, SUBSET (0..m))
  BY <1>2, FS_StrictSubsetOrderingWellFounded, FS_FiniteSubsetsOfFinite
<1>4. T \subseteq SUBSET (0..m) /\ T # {}
  OBVIOUS
<1>5. \E t \in T : \A u \in T : ~(<<u, t>> \in R)
  <2> HIDE DEF T, R
  <2> QED
    BY <1>3, <1>4, WFMin
<1>6. PICK t \in T : \A u \in T : ~(<<u, t>> \in R)
  BY <1>5
<1>7. PICK x \in below : t = 0..x
  BY <1>6
<1>8. ASSUME NEW y \in S, y < x PROVE FALSE
  <2>1. y \in below /\ 0..y \in T
    BY <1>7, <1>8
  <2>2. <<0..y, 0..x>> \in R
    BY <2>1, <1>7, <1>8, <1>4 DEF StrictSubsetOrdering
  <2> QED
    BY <2>1, <2>2, <1>6, <1>7
<1> QED
  BY <1>7, <1>8

-----------------------------------------------------------------------------
\* The log of a client is in the order of time, its deque is a suffix of it, what is not in
\* the deque is older than the window, and only a known client has one.
InOrder ==
  /\ cleaned <= clock
  /\ \A a \in Addresses :
       /\ \A i \in 1..Newest(a) : log[a][i] <= clock
       /\ \A i, j \in 1..Newest(a) : i <= j => log[a][i] <= log[a][j]
       /\ first[a] <= Newest(a) + 1
       /\ \A i \in 1..(first[a] - 1) : Old(a, i)
       /\ a \notin known => Empty(a)

FrontInv == FrontTypeOK /\ InOrder /\ LimiterSound

LEMMA LogsTyped ==
  ASSUME FrontTypeOK, NEW a \in Addresses
  PROVE  /\ Newest(a) \in Nat /\ first[a] \in Nat /\ first[a] >= 1
         /\ clock \in Nat /\ Window \in Nat /\ conf.limit \in Int /\ cleaned \in Nat
         /\ \A i \in 1..Newest(a) : log[a][i] \in Nat
<1>1. log[a] \in Seq(0..MaxTime) /\ first[a] \in Nat \ {0} /\ MaxTime \in Nat
  BY FrontAssumption DEF FrontTypeOK
<1>2. Newest(a) \in Nat /\ \A i \in 1..Newest(a) : log[a][i] \in Nat
  BY <1>1 DEF Newest
<1>3. clock \in Nat /\ cleaned \in Nat /\ Window \in Nat
  BY <1>1, FrontAssumption DEF FrontTypeOK
<1>4. conf.limit \in Int
  <2>1. conf.limit \in Limits
    BY DEF FrontTypeOK, Settings
  <2> QED
    BY <2>1, FrontAssumption
<1> QED
  BY <1>1, <1>2, <1>3, <1>4

\* The deque of a client about to be looked at begins where the old entries end.
LEMMA PoppedOld ==
  ASSUME FrontTypeOK, InOrder, NEW a \in Addresses
  PROVE  /\ Popped(a) \in 1..(Newest(a) + 1)
         /\ Popped(a) = Newest(a) + 1 \/ ~Old(a, Popped(a))
         /\ \A j \in 1..(Popped(a) - 1) : Old(a, j)
<1> DEFINE n    == Newest(a)
           from == IF a \in known \ Reaped THEN first[a] ELSE n + 1
           S    == {i \in from..(n + 1) : i = n + 1 \/ ~Old(a, i)}
<1>1. n \in Nat /\ from \in 1..(n + 1)
  BY LogsTyped DEF InOrder
<1>2. PICK x \in S : \A y \in S : x <= y
  <2>1. S \in SUBSET Nat /\ n + 1 \in S
    BY <1>1
  <2> HIDE DEF S
  <2> QED
    BY <2>1, LeastNat
<1>3. \A j \in from..(x - 1) : Old(a, j)
  BY <1>1, <1>2
<1>4. /\ Popped(a) \in from..(n + 1)
      /\ Popped(a) = n + 1 \/ ~Old(a, Popped(a))
      /\ \A j \in from..(Popped(a) - 1) : Old(a, j)
  BY <1>2, <1>3 DEF Popped
<1>5. \A j \in 1..(from - 1) : Old(a, j)
  <2>1. CASE a \in known \ Reaped
    BY <2>1 DEF InOrder
  <2>2. CASE a \notin known
    <3>1. first[a] = n + 1
      BY <2>2, LogsTyped DEF InOrder, Empty
    <3> QED
      BY <2>2, <3>1 DEF InOrder
  <2>3. CASE a \in Reaped
    <3>1. first[a] > n \/ Old(a, n)
      BY <2>3 DEF Reaped, Empty
    <3>2. CASE first[a] > n
      <4>1. first[a] = n + 1
        BY <3>2, LogsTyped DEF InOrder
      <4> QED
        BY <2>3, <4>1 DEF InOrder
    <3>3. CASE first[a] <= n /\ Old(a, n)
      <4>1. n \in 1..n
        BY <1>1, <3>3, LogsTyped
      <4>2. \A j \in 1..n : log[a][j] <= log[a][n]
        BY <4>1 DEF InOrder
      <4>3. from = n + 1
        BY <2>3
      <4> QED
        BY <1>1, <3>3, <4>1, <4>2, <4>3, LogsTyped DEF Old
    <3> QED
      BY <1>1, <3>1, <3>2, <3>3, LogsTyped
  <2> QED
    BY <2>1, <2>2, <2>3
<1>6. \A j \in 1..(Popped(a) - 1) : Old(a, j)
  <2> HIDE DEF from
  <2> QED
    BY <1>1, <1>4, <1>5
<1> QED
  BY <1>1, <1>4, <1>6

\* A dispatch of client `a` leaves the deques in order, before the append to its own.
LEMMA SweptInOrder ==
  ASSUME FrontTypeOK, InOrder, NEW a \in Addresses, Swept(a), NEW b \in Addresses
  PROVE  /\ first'[b] \in 1..(Newest(b) + 1)
         /\ \A i \in 1..(first'[b] - 1) : Old(b, i)
         /\ b \notin known' => first'[b] = Newest(b) + 1
<1>1. first'[b] = IF b = a THEN Popped(a) ELSE IF b \in Reaped THEN Newest(b) + 1 ELSE first[b]
  BY DEF Swept, Kept
<1>2. CASE b = a
  BY <1>1, <1>2, PoppedOld DEF Swept
<1>3. CASE b # a /\ b \in Reaped
  <2>1. Newest(b) \in Nat
    BY LogsTyped
  <2>2. first[b] > Newest(b) \/ Old(b, Newest(b))
    BY <1>3 DEF Reaped, Empty
  <2>3. \A i \in 1..Newest(b) : Old(b, i)
    <3>1. CASE first[b] > Newest(b)
      BY <2>1, <3>1, LogsTyped DEF InOrder
    <3>2. CASE Old(b, Newest(b))
      <4>1. \A i \in 1..Newest(b) : Newest(b) \in 1..Newest(b) /\ log[b][i] <= log[b][Newest(b)]
        BY <2>1 DEF InOrder
      <4> QED
        BY <2>1, <3>2, <4>1, LogsTyped DEF Old
    <3> QED
      BY <2>2, <3>1, <3>2
  <2> QED
    BY <1>1, <1>3, <2>1, <2>3
<1>4. CASE b # a /\ b \notin Reaped
  <2>1. b \notin known' => b \notin known
    BY <1>4 DEF Swept
  <2> QED
    BY <1>1, <1>4, <2>1, LogsTyped DEF InOrder, Empty
<1> QED
  BY <1>2, <1>3, <1>4

\* Whoever is known after a dispatch of `a`, `a` aside, was heard of recently enough.
LEMMA SweptForgets ==
  ASSUME FrontInv, conf.limit > 0, NEW a \in Addresses, Swept(a), NEW b \in known', b # a
  PROVE  /\ b \in Addresses
         /\ first'[b] <= Newest(b)
         /\ log[b][Newest(b)] + Window >= cleaned'
<1>1. b \in known /\ b \notin Reaped /\ b \in Addresses
  BY DEF Swept, FrontInv, FrontTypeOK
<1>2. first'[b] = first[b]
  BY <1>1 DEF Swept, Kept
<1>3. ~Empty(b) /\ log[b][Newest(b)] + Window >= cleaned
  BY <1>1 DEF FrontInv, LimiterSound, IdleForgotten
<1>4. Newest(b) \in 1..Newest(b)
  BY <1>1, <1>3, LogsTyped DEF Empty, FrontInv
<1>5. CleanupDue => ~Old(b, Newest(b))
  BY <1>1 DEF Reaped
<1>6. log[b][Newest(b)] + Window >= cleaned'
  BY <1>1, <1>3, <1>4, <1>5, LogsTyped DEF Old, Swept, FrontInv
<1> QED
  BY <1>1, <1>2, <1>3, <1>4, <1>6, LogsTyped DEF Empty, FrontInv

LEMMA FrontStarts == FrontInit => FrontInv
<1> SUFFICES ASSUME FrontInit PROVE FrontInv
  OBVIOUS
<1>1. FrontTypeOK
  BY FrontAssumption DEF FrontInit, FrontTypeOK
<1>2. \A a \in Addresses : Newest(a) = 0 /\ first[a] = 1 /\ log[a] = <<>>
  BY DEF FrontInit, Newest
<1>3. InOrder
  BY <1>2 DEF FrontInit, InOrder, Empty
<1>4. WithinLimit
  <2>1. conf.limit \in Int
    <3>1. conf.limit \in Limits
      BY <1>1 DEF FrontTypeOK, Settings
    <3> QED
      BY <3>1, FrontAssumption
  <2>2. ASSUME NEW a \in Addresses
        PROVE  /\ conf.limit < 0 => log[a] = <<>>
               /\ \A i \in 1..(Newest(a) - conf.limit) :
                    conf.limit > 0 => log[a][i + conf.limit] - log[a][i] > Window
    <3>1. Newest(a) = 0 /\ log[a] = <<>>
      BY <1>2
    <3>2. conf.limit > 0 => 1..(0 - conf.limit) = {}
      BY <2>1
    <3> QED
      BY <3>1, <3>2
  <2> QED
    BY <2>2 DEF WithinLimit
<1>5. IdleForgotten
  BY DEF FrontInit, IdleForgotten
<1> QED
  BY <1>1, <1>3, <1>4, <1>5 DEF FrontInv, LimiterSound

\* A dispatch of client `a`, when nothing is let through.
LEMMA RefusalInOrder ==
  ASSUME FrontInv, NEW a \in Addresses, conf.limit # 0, Full(a), Swept(a), UNCHANGED log
  PROVE  FrontInv'
<1> USE DEF FrontInv
<1>1. FrontTypeOK'
  <2>1. first' \in [Addresses -> Nat \ {0}]
    <3>1. \A b \in Addresses : first'[b] \in Nat \ {0}
      BY SweptInOrder, LogsTyped
    <3> QED
      BY <3>1 DEF Swept, Kept
  <2> QED
    BY <2>1 DEF FrontTypeOK, Swept
<1>2. \A b \in Addresses : Newest(b)' = Newest(b) /\ log'[b] = log[b]
  BY DEF Newest
<1>3. clock' = clock /\ conf' = conf /\ cleaned' \in {cleaned, clock}
  BY DEF Swept
<1>4. InOrder'
  <2>1. cleaned' <= clock'
    BY <1>3 DEF InOrder, FrontTypeOK
  <2>2. ASSUME NEW b \in Addresses
        PROVE  /\ \A i \in 1..Newest(b)' : log'[b][i] <= clock'
               /\ \A i, j \in 1..Newest(b)' : i <= j => log'[b][i] <= log'[b][j]
               /\ first'[b] <= Newest(b)' + 1
               /\ \A i \in 1..(first'[b] - 1) : Old(b, i)'
               /\ b \notin known' => Empty(b)'
    <3>1. /\ first'[b] \in 1..(Newest(b) + 1)
          /\ \A i \in 1..(first'[b] - 1) : Old(b, i)
          /\ b \notin known' => first'[b] = Newest(b) + 1
      BY <2>2, SweptInOrder
    <3> QED
      BY <1>2, <1>3, <2>2, <3>1, LogsTyped DEF InOrder, Old, Empty
  <2> QED
    BY <2>1, <2>2 DEF InOrder
<1>5. WithinLimit'
  BY <1>2, <1>3 DEF LimiterSound, WithinLimit
<1>6. IdleForgotten'
  <2> SUFFICES ASSUME conf.limit > 0, NEW b \in known'
               PROVE  first'[b] <= Newest(b) /\ log[b][Newest(b)] + Window >= cleaned'
    BY <1>1, <1>2, <1>3, LogsTyped DEF IdleForgotten, Empty, FrontTypeOK
  <2>1. CASE b # a
    BY <2>1, SweptForgets
  <2>2. CASE b = a
    <3>1. first'[a] = Popped(a)
      BY DEF Swept, Kept
    <3>2. Popped(a) \in 1..Newest(a)
      BY PoppedOld, LogsTyped DEF Full
    <3>3. ~Old(a, Popped(a))
      BY <3>2, PoppedOld, LogsTyped
    <3>4. log[a][Popped(a)] <= log[a][Newest(a)] /\ Newest(a) \in 1..Newest(a)
      BY <3>2, LogsTyped DEF InOrder
    <3> QED
      BY <1>3, <2>2, <3>1, <3>2, <3>3, <3>4, LogsTyped DEF Old, InOrder
  <2> QED
    BY <2>1, <2>2
<1> QED
  BY <1>1, <1>4, <1>5, <1>6 DEF LimiterSound


\* ... and when the request goes through.
Logged(a) == log' = [log EXCEPT ![a] = Append(@, clock)]

LEMMA AdmissionInOrder ==
  ASSUME FrontInv, NEW a \in Addresses, conf.limit # 0, ~Full(a), Swept(a), Logged(a)
  PROVE  FrontInv'
<1> USE DEF FrontInv
<1> DEFINE n == Newest(a)
<1>1. /\ clock' = clock /\ conf' = conf /\ cleaned' \in {cleaned, clock}
      /\ clock \in 0..MaxTime
  BY DEF Swept, FrontTypeOK
<1>2. /\ log[a] \in Seq(0..MaxTime) /\ log' \in [Addresses -> Seq(0..MaxTime)]
      /\ log'[a] = Append(log[a], clock)
      /\ \A b \in Addresses : b # a => log'[b] = log[b]
  BY <1>1 DEF FrontTypeOK, Logged
<1>3. /\ n \in Nat /\ Newest(a)' = n + 1
      /\ log'[a][n + 1] = clock
      /\ \A i \in 1..n : log'[a][i] = log[a][i]
      /\ \A b \in Addresses : b # a => Newest(b)' = Newest(b)
  BY <1>2 DEF Newest
<1>4. ASSUME NEW b \in Addresses
      PROVE  /\ first'[b] \in 1..(Newest(b) + 1)
             /\ \A i \in 1..(first'[b] - 1) : Old(b, i)
             /\ b \notin known' => first'[b] = Newest(b) + 1
  BY SweptInOrder
<1>5. first'[a] = Popped(a) /\ a \in known'
  BY DEF Swept, Kept
<1>6. FrontTypeOK'
  <2>1. first' \in [Addresses -> Nat \ {0}]
    <3>1. \A b \in Addresses : first'[b] \in Nat \ {0}
      BY <1>4, LogsTyped
    <3> QED
      BY <3>1 DEF Swept, Kept
  <2> QED
    BY <1>2, <2>1 DEF FrontTypeOK, Swept
<1>7. InOrder'
  <2>1. cleaned' <= clock'
    BY <1>1 DEF InOrder, FrontTypeOK
  <2>2. ASSUME NEW b \in Addresses, b # a
        PROVE  /\ \A i \in 1..Newest(b)' : log'[b][i] <= clock'
               /\ \A i, j \in 1..Newest(b)' : i <= j => log'[b][i] <= log'[b][j]
               /\ first'[b] <= Newest(b)' + 1
               /\ \A i \in 1..(first'[b] - 1) : Old(b, i)'
               /\ b \notin known' => Empty(b)'
    <3>1. Newest(b)' = Newest(b) /\ log'[b] = log[b] /\ clock' = clock
      BY <1>1, <1>2, <1>3, <2>2
    <3>2. \A i \in 1..Newest(b) : log[b][i] <= clock
      BY DEF InOrder
    <3>3. \A i, j \in 1..Newest(b) : i <= j => log[b][i] <= log[b][j]
      BY DEF InOrder
    <3>4. \A i \in 1..(first'[b] - 1) : Old(b, i)'
      BY <1>4, <3>1 DEF Old
    <3>5. first'[b] <= Newest(b)' + 1 /\ (b \notin known' => Empty(b)')
      BY <1>4, <3>1, LogsTyped DEF Empty
    <3> QED
      BY <3>1, <3>2, <3>3, <3>4, <3>5
  <2>3. /\ \A i \in 1..Newest(a)' : log'[a][i] <= clock'
        /\ \A i, j \in 1..Newest(a)' : i <= j => log'[a][i] <= log'[a][j]
    <3> HIDE DEF n
    <3>1. \A i \in 1..(n + 1) : i = n + 1 \/ i \in 1..n
      BY <1>3
    <3>2. \A i \in 1..n : log[a][i] <= clock
      BY DEF InOrder, n
    <3>3. \A i, j \in 1..n : i <= j => log[a][i] <= log[a][j]
      BY DEF InOrder, n
    <3>4. \A i \in 1..(n + 1) : log'[a][i] <= clock
      BY <1>1, <1>3, <3>1, <3>2
    <3>5. \A i, j \in 1..(n + 1) : i <= j => log'[a][i] <= log'[a][j]
      <4> SUFFICES ASSUME NEW i \in 1..(n + 1), NEW j \in 1..(n + 1), i <= j
                   PROVE  log'[a][i] <= log'[a][j]
        OBVIOUS
      <4>1. CASE j = n + 1
        BY <1>3, <3>4, <4>1
      <4>2. CASE j \in 1..n
        <5>1. i \in 1..n
          BY <1>3, <4>2
        <5> QED
          BY <1>3, <3>3, <4>2, <5>1
      <4> QED
        BY <3>1, <4>1, <4>2
    <3> QED
      BY <1>1, <1>3, <3>4, <3>5
  <2>4. first'[a] <= Newest(a)' + 1 /\ \A i \in 1..(first'[a] - 1) : Old(a, i)'
    <3> HIDE DEF n
    <3>1. first'[a] \in 1..(n + 1) /\ \A i \in 1..(first'[a] - 1) : Old(a, i)
      BY <1>4 DEF n
    <3>2. \A i \in 1..(first'[a] - 1) : i \in 1..n
      BY <1>3, <3>1
    <3> QED
      BY <1>1, <1>3, <3>1, <3>2 DEF Old
  <2> QED
    BY <1>5, <2>1, <2>2, <2>3, <2>4 DEF InOrder
<1>8. WithinLimit'
  <2>1. ASSUME NEW b \in Addresses, b # a
        PROVE  /\ conf'.limit < 0 => log'[b] = <<>>
               /\ \A i \in 1..(Newest(b)' - conf'.limit) :
                    conf'.limit > 0 => log'[b][i + conf'.limit] - log'[b][i] > Window
    BY <1>1, <1>2, <1>3, <2>1 DEF LimiterSound, WithinLimit
  <2>2. ~(conf.limit < 0)
    BY <1>3, PoppedOld, LogsTyped DEF Full
  <2>3. ASSUME NEW i \in 1..(n + 1 - conf.limit), conf.limit > 0
        PROVE  log'[a][i + conf.limit] - log'[a][i] > Window
    <3>1. conf.limit \in Nat /\ i \in 1..n
      BY <1>3, <2>3, LogsTyped
    <3>2. CASE i = n + 1 - conf.limit
      <4>1. i < Popped(a) /\ i + conf.limit = n + 1
        BY <1>3, <3>1, <3>2, PoppedOld, LogsTyped DEF Full
      <4>2. Old(a, i)
        BY <3>1, <4>1, PoppedOld, LogsTyped
      <4> QED
        BY <1>3, <3>1, <4>1, <4>2 DEF Old
    <3>3. CASE i # n + 1 - conf.limit
      <4>1. i \in 1..(n - conf.limit) /\ i + conf.limit \in 1..n
        BY <1>3, <2>3, <3>1, <3>3
      <4> QED
        BY <1>3, <2>3, <3>1, <4>1 DEF LimiterSound, WithinLimit
    <3> QED
      BY <3>2, <3>3
  <2> QED
    <3>1. Newest(a)' = n + 1 /\ conf' = conf /\ n \in Nat /\ conf.limit \in Int
      BY <1>1, <1>3, LogsTyped
    <3> HIDE DEF n
    <3>2. conf'.limit < 0 => log'[a] = <<>>
      BY <2>2, <3>1
    <3>3. ASSUME NEW i \in 1..(Newest(a)' - conf'.limit), conf'.limit > 0
          PROVE  log'[a][i + conf'.limit] - log'[a][i] > Window
      <4>1. i \in 1..(n + 1 - conf.limit) /\ conf.limit > 0
        BY <3>1, <3>3
      <4>2. log'[a][i + conf.limit] - log'[a][i] > Window
        BY <2>3, <4>1
      <4> QED
        BY <3>1, <4>2
    <3> QED
      BY <2>1, <3>2, <3>3 DEF WithinLimit
<1>9. IdleForgotten'
  <2> SUFFICES ASSUME conf'.limit > 0, NEW b \in known'
               PROVE  ~Empty(b)' /\ log'[b][Newest(b)'] + Window >= cleaned'
    BY DEF IdleForgotten
  <2>1. b \in Addresses
    BY <1>6 DEF FrontTypeOK
  <2>2. first'[b] \in Nat
    BY <1>4, <2>1, LogsTyped
  <2>3. CASE b # a
    <3>1. Newest(b)' = Newest(b) /\ log'[b] = log[b]
      BY <1>2, <1>3, <2>1, <2>3
    <3>2. first'[b] <= Newest(b) /\ log[b][Newest(b)] + Window >= cleaned'
      BY <1>1, <2>3, SweptForgets
    <3> QED
      BY <2>1, <2>2, <3>1, <3>2, LogsTyped DEF Empty
  <2>4. CASE b = a
    <3>1. Newest(a)' = n + 1 /\ log'[a][n + 1] = clock /\ first'[a] \in 1..(n + 1)
      BY <1>3, <1>4
    <3>2. cleaned \in Nat /\ cleaned <= clock /\ Window \in Nat
      BY LogsTyped DEF InOrder
    <3> HIDE DEF n
    <3> QED
      BY <1>1, <1>3, <2>4, <3>1, <3>2 DEF Empty
  <2> QED
    BY <2>3, <2>4
<1> QED
  BY <1>6, <1>7, <1>8, <1>9 DEF LimiterSound

LEMMA FrontStep == FrontInv /\ [FrontNext]_frontVars => FrontInv'
<1> SUFFICES ASSUME FrontInv, [FrontNext]_frontVars PROVE FrontInv'
  OBVIOUS
<1>1. CASE Boot
  <2>1. FrontTypeOK' /\ InOrder'
    BY <1>1 DEF Boot, FrontInv, FrontTypeOK, InOrder, Newest, Old, Empty
  <2>2. LimiterSound'
    BY <1>1 DEF Boot, FrontInv, LimiterSound, WithinLimit, IdleForgotten, Newest, Empty
  <2> QED
    BY <2>1, <2>2 DEF FrontInv
<1>2. ASSUME NEW peer \in Addresses, NEW forwarded \in Addresses \union {NoAddress},
             Refuse429(peer, forwarded) \/ Admit(peer, forwarded)
      PROVE  FrontInv'
  <2> DEFINE a == Client(peer, forwarded)
  <2>1. a \in Addresses
    BY DEF Client
  <2>2. conf.limit # 0
    BY <1>2 DEF Refuse429, Admit, Limited
  <2> HIDE DEF a
  <2>3. CASE Refuse429(peer, forwarded)
    BY <2>1, <2>2, <2>3, RefusalInOrder DEF Refuse429, a
  <2>4. CASE Admit(peer, forwarded)
    BY <2>1, <2>2, <2>4, AdmissionInOrder DEF Admit, Logged, a
  <2> QED
    BY <1>2, <2>3, <2>4
<1>3. CASE Elapse
  <2>1. FrontTypeOK'
    BY <1>3, FrontAssumption DEF Elapse, FrontInv, FrontTypeOK
  <2>2. InOrder'
    <3>1. clock' = clock + 1 /\ UNCHANGED <<log, first, known, cleaned>>
      BY <1>3 DEF Elapse
    <3>2. ASSUME NEW a \in Addresses
          PROVE  /\ \A i \in 1..Newest(a)' : log'[a][i] <= clock'
                 /\ \A i \in 1..(first'[a] - 1) : Old(a, i)'
      <4>1. \A i \in 1..(first[a] - 1) : i \in 1..Newest(a)
        BY LogsTyped DEF FrontInv, InOrder
      <4> QED
        BY <3>1, <4>1, LogsTyped DEF FrontInv, InOrder, Newest, Old
    <3>3. cleaned' <= clock'
      BY <3>1 DEF FrontInv, FrontTypeOK, InOrder
    <3> QED
      BY <3>1, <3>2, <3>3 DEF FrontInv, InOrder, Newest, Empty
  <2>3. LimiterSound'
    BY <1>3 DEF Elapse, FrontInv, LimiterSound, WithinLimit, IdleForgotten, Newest, Empty
  <2> QED
    BY <2>1, <2>2, <2>3 DEF FrontInv
<1>4. CASE UNCHANGED frontVars
  <2>1. FrontTypeOK' /\ InOrder'
    BY <1>4 DEF frontVars, FrontInv, FrontTypeOK, InOrder, Newest, Old, Empty
  <2>2. LimiterSound'
    BY <1>4 DEF frontVars, FrontInv, LimiterSound, WithinLimit, IdleForgotten, Newest, Empty
  <2> QED
    BY <2>1, <2>2 DEF FrontInv
<1> QED
  BY <1>1, <1>2, <1>3, <1>4 DEF FrontNext

\* The limiter, for every limit and window: no client gets more than the limit through in any
\* window, whatever is forgotten about idle clients, and a client that has gone silent is
\* forgotten (security.py:85-148).
THEOREM LimiterIsSound == FrontSpec => []LimiterSound
<1>1. FrontInv => LimiterSound
  BY DEF FrontInv
<1> QED
  BY <1>1, FrontStarts, FrontStep, PTL DEF FrontSpec

\* The type invariant of the front, for every value of the constants.
THEOREM FrontTyped == FrontSpec => []FrontTypeOK
<1>1. FrontInv => FrontTypeOK
  BY DEF FrontInv
<1> QED
  BY <1>1, FrontStarts, FrontStep, PTL DEF FrontSpec

-----------------------------------------------------------------------------
(***************************************************************************)
(* The in-process queue.  As in AutonomousRunsProofs, every step is a step *)
(* of the run store, so that the store's theorems hold of the process.     *)
(***************************************************************************)
StoreThm == INSTANCE RunStoreProofs WITH Callers <- Runs

\* The assumption on the store's constants follows from the one made here.
LEMMA StoreConstants == StoreThm!StoreAssumption
  BY InProcessAssumption DEF StoreThm!StoreAssumption

\* The two instances of the store, this process's and its theorems', say the same.
LEMMA SameStore ==
  /\ Store!Spec <=> StoreThm!Spec
  /\ Store!NeverReopened <=> StoreThm!NeverReopened
  /\ Store!TypeOK <=> StoreThm!TypeOK
  BY DEF Store!Spec, StoreThm!Spec, Store!NeverReopened, StoreThm!NeverReopened,
         Store!Outcomes, StoreThm!Outcomes, Store!Live, StoreThm!Live, Store!Statuses,
         StoreThm!Statuses, Store!Errors, StoreThm!Errors, Store!Row, StoreThm!Row,
         Store!Loaded, StoreThm!Loaded, Store!Session, StoreThm!Session, Store!NewRow,
         StoreThm!NewRow, Store!NoRow, StoreThm!NoRow, Store!Stamped, StoreThm!Stamped,
         Store!Stale, StoreThm!Stale, Store!Settled, StoreThm!Settled, Store!ErrorOf,
         StoreThm!ErrorOf, Store!Holders, StoreThm!Holders, Store!TypeOK, StoreThm!TypeOK,
         Store!Init, StoreThm!Init, Store!CreateRun, StoreThm!CreateRun, Store!Claimable,
         StoreThm!Claimable, Store!ClaimRun, StoreThm!ClaimRun, Store!TouchRun,
         StoreThm!TouchRun, Store!UpsertLoad, StoreThm!UpsertLoad, Store!Written,
         StoreThm!Written, Store!Flushed, StoreThm!Flushed, Store!Inserted,
         StoreThm!Inserted, Store!UpsertCommit, StoreThm!UpsertCommit, Store!UpsertsLost,
         StoreThm!UpsertsLost, Store!Expired, StoreThm!Expired, Store!SweepStuckRuns,
         StoreThm!SweepStuckRuns, Store!Older, StoreThm!Older, Store!Tick, StoreThm!Tick,
         Store!Next, StoreThm!Next, Store!vars, StoreThm!vars

\* Whatever the process does to the table is an operation of the store (runs.py).
LEMMA ProcessStoreStep ==
  ASSUME [InProcessNext]_inprocVars
  PROVE  [Store!Next]_(Store!vars)
<1>1. ASSUME NEW r \in Runs, \/ \E key \in Keys \union {NoKey} : Accept(r, key)
                             \/ EnqueueTask(r) \/ TaskStep(r) \/ HeartbeatOf(r)
      PROVE  Store!Next \/ UNCHANGED Store!vars
  BY <1>1 DEF Accept, EnqueueTask, TaskStep, Dispatch, Claim, ClaimRefused, SaveOutcome, AgentEnds,
              HeartbeatOf, Store!Next, Store!vars
<1>2. ASSUME Reconcile \/ SweepRuns \/ Shutdown \/ Drained \/ CutShort \/ Restart \/ Passes
      PROVE  Store!Next \/ UNCHANGED Store!vars
  BY <1>2 DEF Reconcile, SweepRuns, Shutdown, Drained, CutShort, Restart, Passes, Store!Next,
              Store!vars
<1>3. CASE UNCHANGED inprocVars
  BY <1>3 DEF inprocVars, Store!vars
<1> QED
  BY <1>1, <1>2, <1>3 DEF InProcessNext

\* The process implements the run store, and the table keeps its type.
LEMMA ProcessImplementsStore == InProcessSpec => Store!Spec
<1>1. InProcessInit => Store!Init
  BY DEF InProcessInit
<1>2. [InProcessNext]_inprocVars => [Store!Next]_(Store!vars)
  BY ProcessStoreStep
<1> QED
  BY <1>1, <1>2, PTL DEF InProcessSpec, Store!Spec

LEMMA ProcessStore == InProcessSpec => []Store!TypeOK
  BY ProcessImplementsStore, SameStore, StoreConstants, StoreThm!TypeCorrect, PTL

\* No shutdown, crash, restart, sweep or second claim reopens a settled run (runs.py, as the
\* in-process queue uses it).
THEOREM ProcessNeverReopens == InProcessSpec => Store!NeverReopened
  BY ProcessImplementsStore, SameStore, StoreConstants, StoreThm!StoreNeverReopens, PTL

-----------------------------------------------------------------------------
\* The tasks at work fit the semaphore's slots.
Slots == IsFiniteSet(Holding) /\ Cardinality(Holding) <= MaxInflight

\* Only a living process has tasks, only one that serves takes in runs, and a shutdown is
\* one of the MaxDowns ends.
Alive ==
  /\ server \in {"new", "starting", "stopped"} => \A r \in Runs : task[r] = "none"
  /\ server # "serving" => creating = {}
  /\ server = "draining" => downs < MaxDowns

\* A task that executes its run holds its lease, and a save writes that run's outcome over
\* the status it has seen.
Leases ==
  /\ \A r \in Runs : task[r] \in {"running", "saving"} =>
       row[r].status = "running" /\ row[r].age <= HeartbeatEvery
  /\ \A r \in Runs : session[r] # NoSession =>
       /\ task[r] = "saving" /\ session[r].run = r
       /\ session[r].seen.status = "running" /\ session[r].status \in Store!Outcomes

\* An unfinished run has a task, or is about to get one, or was turned away.
Owned ==
  server \in {"serving", "draining"} =>
    \A r \in Runs : row[r].status \in Store!Live => \/ task[r] # "none"
                                                    \/ r \in creating
                                                    \/ r \in refused

ProcessTyped ==
  /\ server \in {"new", "starting", "serving", "draining", "stopped"}
  /\ task \in [Runs -> {"none", "waiting"} \union Working]
  /\ creating \subseteq Runs /\ refused \subseteq Runs /\ downs \in 0..MaxDowns

DrainInv == ProcessTyped /\ Slots /\ Alive /\ Leases /\ Owned

\* Slots that are given back leave the rest within bounds (the semaphore).
LEMMA SlotsKept ==
  ASSUME Slots, Holding' \subseteq Holding
  PROVE  Slots'
<1>1. IsFiniteSet(Holding') /\ Cardinality(Holding') <= Cardinality(Holding)
  BY FS_Subset DEF Slots
<1>2. Cardinality(Holding) \in Nat /\ Cardinality(Holding') \in Nat
  BY <1>1, FS_CardinalityType DEF Slots
<1> QED
  BY <1>1, <1>2, InProcessAssumption DEF Slots

\* A slot is taken only if one is free.
LEMMA SlotTaken ==
  ASSUME ProcessTyped, Slots, NEW r \in Runs, Dispatch(r)
  PROVE  Slots'
<1>1. Holding' = Holding \union {r} /\ r \notin Holding
  BY DEF Dispatch, Move, Holding, Working, ProcessTyped
<1>2. IsFiniteSet(Holding') /\ Cardinality(Holding') = Cardinality(Holding) + 1
  BY <1>1, FS_AddElement DEF Slots
<1>3. Cardinality(Holding) \in Nat
  BY FS_CardinalityType DEF Slots
<1> QED
  BY <1>2, <1>3, InProcessAssumption DEF Slots, Dispatch

\* A task that moves on, of a run whose row stays as it is.
LEMMA TaskMoves ==
  ASSUME ProcessTyped, Alive, Leases, Owned, NEW r \in Runs,
         \/ Dispatch(r) \/ ClaimRefused(r) \/ EnqueueTask(r)
  PROVE  ProcessTyped' /\ Alive' /\ Leases' /\ Owned'
<1>1. PICK a, b : Move(r, a, b) /\ a \in {"none", "waiting", "claiming"}
                  /\ b \in {"none", "waiting", "claiming"}
                  /\ (a = "none" => r \in creating) /\ (b = "none" => refused' = refused \union {r})
                  /\ creating' \subseteq creating /\ creating \subseteq creating' \union {r}
                  /\ (r \in creating' \/ b # "none" \/ r \notin creating)
                  /\ refused \subseteq refused' /\ refused' \subseteq refused \union {r}
  BY DEF Dispatch, ClaimRefused, EnqueueTask, Move
<1>2. task' = [task EXCEPT ![r] = b] /\ task[r] = a /\ UNCHANGED <<row, session, server, downs>>
  BY <1>1 DEF Dispatch, ClaimRefused, EnqueueTask, Move
<1>3. task'[r] = b /\ \A q \in Runs \ {r} : task'[q] = task[q]
  BY <1>2 DEF ProcessTyped
<1>4. ProcessTyped'
  BY <1>1, <1>2 DEF ProcessTyped, Working
<1>5. Alive'
  BY <1>1, <1>2, <1>3 DEF Alive, ProcessTyped
<1>6. Leases'
  BY <1>1, <1>2, <1>3 DEF Leases
<1>7. Owned'
  BY <1>1, <1>2, <1>3 DEF Owned
<1> QED
  BY <1>4, <1>5, <1>6, <1>7

\* The rows and upserts of a well-typed table.
LEMMA StoreTyped ==
  ASSUME Store!TypeOK
  PROVE  /\ \A r \in Runs : row[r].age \in Nat /\ row[r].status \in Store!Statuses
         /\ row \in [Runs -> Store!Row]
         /\ session \in [Runs -> Store!Session \union {NoSession}]
         /\ \A r \in Runs, status \in Store!Statuses, error \in Store!Errors :
              /\ Store!Stamped(r, status, error).status = status
              /\ Store!Stamped(r, status, error).age = 0
         /\ Lease \in Nat /\ HeartbeatEvery \in Nat /\ HeartbeatEvery <= Lease
  BY InProcessAssumption
     DEF Store!TypeOK, Store!Row, Store!Stamped, Store!NewRow

\* A run is accepted, or claimed (submit, claim_run).
LEMMA RunTaken ==
  ASSUME Store!TypeOK, DrainInv, NEW r \in Runs,
         Claim(r) \/ \E key \in Keys \union {NoKey} : Accept(r, key)
  PROVE  ProcessTyped' /\ Alive' /\ Leases' /\ Owned'
<1> USE StoreTyped DEF DrainInv
<1>1. CASE Claim(r)
  <2>1. /\ task' = [task EXCEPT ![r] = "running"] /\ task[r] = "claiming"
        /\ row' = [row EXCEPT ![r] = Store!Stamped(r, "running", row[r].error)]
        /\ UNCHANGED <<session, server, creating, refused, downs>>
    BY <1>1 DEF Claim, Move, Store!ClaimRun
  <2>2. /\ row'[r].status = "running" /\ row'[r].age = 0
        /\ \A q \in Runs \ {r} : row'[q] = row[q]
    BY <2>1 DEF Store!Stamped, Store!NewRow
  <2>3. task'[r] = "running" /\ \A q \in Runs \ {r} : task'[q] = task[q]
    BY <2>1 DEF ProcessTyped
  <2>4. ProcessTyped' /\ Alive'
    BY <2>1, <2>3 DEF ProcessTyped, Alive, Working
  <2>5. Leases'
    BY <2>1, <2>2, <2>3 DEF Leases
  <2>6. Owned'
    BY <2>1, <2>2, <2>3 DEF Owned
  <2> QED
    BY <2>4, <2>5, <2>6
<1>2. ASSUME NEW key \in Keys \union {NoKey}, Accept(r, key)
      PROVE  ProcessTyped' /\ Alive' /\ Leases' /\ Owned'
  <2>1. /\ row' = [row EXCEPT ![r] = Store!NewRow("pending", key, "none")]
        /\ row[r].status = "absent" /\ server = "serving"
        /\ creating' = creating \union {r}
        /\ UNCHANGED <<session, task, server, refused, downs>>
    BY <1>2 DEF Accept, Store!CreateRun
  <2>2. task[r] \notin {"running", "saving"} /\ \A q \in Runs \ {r} : row'[q] = row[q]
    BY <2>1 DEF Leases
  <2>3. ProcessTyped' /\ Alive'
    BY <2>1 DEF ProcessTyped, Alive
  <2>4. Leases'
    BY <2>1, <2>2 DEF Leases
  <2>5. Owned'
    BY <2>1, <2>2 DEF Owned
  <2> QED
    BY <2>3, <2>4, <2>5
<1> QED
  BY <1>1, <1>2

\* A heartbeat, a sweep or time: no lease of a task at work is lost (touch_run,
\* sweep_stuck_runs).
LEMMA RowsAge ==
  ASSUME Store!TypeOK, DrainInv, SweepRuns \/ Passes \/ \E r \in Runs : HeartbeatOf(r)
  PROVE  ProcessTyped' /\ Alive' /\ Leases' /\ Owned'
<1> USE StoreTyped DEF DrainInv
<1>1. UNCHANGED <<session, server, task, creating, refused, downs>>
  BY DEF SweepRuns, Passes, HeartbeatOf, Store!SweepStuckRuns, Store!Tick, Store!TouchRun
<1>2. ASSUME NEW q \in Runs
      PROVE  /\ row'[q].status \in Store!Live => row'[q].status = row[q].status
             /\ task[q] \in {"running", "saving"} =>
                  row'[q].status = "running" /\ row'[q].age <= HeartbeatEvery
  <2>1. CASE SweepRuns
    <3>1. row'[q] = row[q] \/ (row'[q].status = "failed" /\ Store!Expired(q))
      BY <2>1 DEF SweepRuns, Store!SweepStuckRuns, Store!Stamped, Store!NewRow
    <3>2. task[q] \in {"running", "saving"} => ~Store!Expired(q)
      BY DEF Leases, Store!Expired, Store!Stale
    <3> QED
      BY <3>1, <3>2 DEF Leases, Store!Live
  <2>2. CASE Passes
    <3>1. \/ row'[q] = row[q] /\ row[q].status # "running"
          \/ row'[q] = [row[q] EXCEPT !.age = Store!Older(@)]
      BY <2>2 DEF Passes, Store!Tick
    <3>2. row[q] \in Store!Row
      OBVIOUS
    <3>3. row'[q].status = row[q].status
      BY <3>1, <3>2 DEF Store!Row
    <3>4. task[q] \in {"running", "saving"} => row'[q].age = Store!Older(row[q].age)
      BY <3>1, <3>2 DEF Leases, Store!Row
    <3>5. task[q] \in {"running", "saving"} => row'[q].age <= HeartbeatEvery
      BY <2>2, <3>4 DEF Passes, Store!Older
    <3> QED
      BY <3>3, <3>5 DEF Leases
  <2>3. ASSUME NEW r \in Runs, HeartbeatOf(r)
        PROVE  /\ row'[q].status = row[q].status
               /\ row'[q].age = row[q].age \/ row'[q].age = 0
    BY <2>3 DEF HeartbeatOf, Store!TouchRun, Store!Stamped, Store!NewRow
  <2> QED
    BY <2>1, <2>2, <2>3 DEF Leases
<1>3. ProcessTyped' /\ Alive'
  BY <1>1 DEF ProcessTyped, Alive
<1>4. Leases'
  BY <1>1, <1>2 DEF Leases
<1>5. Owned'
  BY <1>1, <1>2 DEF Owned
<1> QED
  BY <1>3, <1>4, <1>5

\* The agent ends, and its outcome is saved: over the "running" that the save has loaded,
\* so that it is written whatever the row says by now (upsert_run).
LEMMA RunSaved ==
  ASSUME Store!TypeOK, DrainInv, NEW r \in Runs,
         SaveOutcome(r) \/ \E outcome \in Store!Outcomes : AgentEnds(r, outcome)
  PROVE  ProcessTyped' /\ Alive' /\ Leases' /\ Owned'
<1> USE StoreTyped DEF DrainInv
<1>1. ASSUME NEW outcome \in Store!Outcomes, AgentEnds(r, outcome)
      PROVE  ProcessTyped' /\ Alive' /\ Leases' /\ Owned'
  <2>1. /\ task' = [task EXCEPT ![r] = "saving"] /\ task[r] = "running"
        /\ session' = [session EXCEPT ![r] =
             [run |-> r, seen |-> [status |-> row[r].status, error |-> row[r].error],
              status |-> outcome]]
        /\ UNCHANGED <<row, server, creating, refused, downs>>
    BY <1>1 DEF AgentEnds, Move, Store!UpsertLoad
  <2>2. task'[r] = "saving" /\ \A q \in Runs \ {r} : task'[q] = task[q]
    BY <2>1 DEF ProcessTyped
  <2>3. /\ session'[r].run = r /\ session'[r].seen.status = row[r].status
        /\ session'[r].status = outcome
        /\ \A q \in Runs \ {r} : session'[q] = session[q]
    BY <2>1
  <2>4. ProcessTyped' /\ Alive'
    BY <2>1, <2>2 DEF ProcessTyped, Alive, Working
  <2>5. Leases'
    BY <2>1, <2>2, <2>3 DEF Leases
  <2>6. Owned'
    BY <2>1, <2>2 DEF Owned
  <2> QED
    BY <2>4, <2>5, <2>6
<1>2. CASE SaveOutcome(r)
  <2> DEFINE s == session[r]
  <2>1. /\ task' = [task EXCEPT ![r] = "none"]
        /\ session' = [session EXCEPT ![r] = NoSession] /\ s # NoSession
        /\ UNCHANGED <<server, creating, refused, downs>>
    BY <1>2 DEF SaveOutcome, Move, Store!UpsertCommit
  <2>2. s.run = r /\ s.seen.status = "running" /\ s.status \in Store!Outcomes
    BY <2>1 DEF Leases
  <2>3. row' = [row EXCEPT ![r] = Store!Flushed(s)]
    BY <1>2, <2>2 DEF SaveOutcome, Store!UpsertCommit
  <2>4. Store!Flushed(s).status = s.status
    BY <2>2 DEF Store!Flushed, Store!Stamped, Store!NewRow, Store!Written, Store!Outcomes
  <2>5. /\ row'[r].status \notin Store!Live
        /\ \A q \in Runs \ {r} : row'[q] = row[q]
    BY <2>2, <2>3, <2>4 DEF Store!Outcomes, Store!Live
  <2>6. task'[r] = "none" /\ \A q \in Runs \ {r} : task'[q] = task[q]
    BY <2>1 DEF ProcessTyped
  <2>7. session'[r] = NoSession /\ \A q \in Runs \ {r} : session'[q] = session[q]
    BY <2>1
  <2>8. ProcessTyped' /\ Alive'
    BY <2>1, <2>6 DEF ProcessTyped, Alive, Working
  <2>9. Leases'
    BY <2>1, <2>5, <2>6, <2>7 DEF Leases
  <2>10. Owned'
    BY <2>1, <2>5, <2>6 DEF Owned
  <2> QED
    BY <2>8, <2>9, <2>10
<1> QED
  BY <1>1, <1>2

\* The process starts, reconciles, is shut down, has drained, or dies (lifespan).
LEMMA ServerMoves ==
  ASSUME Store!TypeOK, DrainInv, Reconcile \/ Shutdown \/ Drained \/ CutShort \/ Restart
  PROVE  ProcessTyped' /\ Alive' /\ Leases' /\ Owned' /\ Holding' \subseteq Holding
<1> USE StoreTyped DEF DrainInv
<1>1. CASE Reconcile
  <2>1. /\ server' = "serving" /\ server = "starting"
        /\ \A r \in Runs : /\ task'[r] \in {"none", "waiting"}
                           /\ row[r].status \in Store!Live => task'[r] # "none"
        /\ UNCHANGED <<row, session, creating, refused, downs>>
    BY <1>1 DEF Reconcile
  <2>2. \A r \in Runs : session[r] = NoSession
    BY <2>1 DEF Alive, Leases
  <2>3. ProcessTyped'
    BY <1>1, <2>1 DEF ProcessTyped, Reconcile
  <2> QED
    BY <2>1, <2>2, <2>3 DEF Alive, Leases, Owned, Holding, Working
<1>2. CASE Shutdown
  BY <1>2 DEF Shutdown, ProcessTyped, Alive, Leases, Owned, Holding
<1>3. CASE Drained
  <2>1. downs' \in 0..MaxDowns
    BY <1>3, InProcessAssumption DEF Drained, ProcessTyped, Alive
  <2> QED
    BY <1>3, <2>1 DEF Drained, ProcessTyped, Alive, Leases, Owned, Holding
<1>4. CASE CutShort
  <2>1. downs' \in 0..MaxDowns
    BY <1>4, InProcessAssumption DEF CutShort, ProcessTyped
  <2>2. \A r \in Runs : task'[r] = "none" /\ session'[r] = NoSession
    BY <1>4 DEF CutShort, Store!UpsertsLost
  <2> QED
    BY <1>4, <2>1, <2>2 DEF CutShort, ProcessTyped, Alive, Leases, Owned, Holding, Working
<1>5. CASE Restart
  BY <1>5 DEF Restart, ProcessTyped, Alive, Leases, Owned, Holding
<1> QED
  BY <1>1, <1>2, <1>3, <1>4, <1>5

\* Every step keeps the invariant.
LEMMA DrainStep == Store!TypeOK /\ DrainInv /\ [InProcessNext]_inprocVars => DrainInv'
<1> SUFFICES ASSUME Store!TypeOK, DrainInv, [InProcessNext]_inprocVars PROVE DrainInv'
  OBVIOUS
<1>1. ASSUME NEW r \in Runs, EnqueueTask(r) \/ TaskStep(r) \/ HeartbeatOf(r) PROVE Slots'
  <2>1. CASE Dispatch(r)
    BY <2>1, SlotTaken DEF DrainInv
  <2>2. CASE ~Dispatch(r)
    <3>1. Holding' \subseteq Holding
      BY <1>1, <2>2 DEF EnqueueTask, TaskStep, Claim, ClaimRefused, SaveOutcome, AgentEnds,
                        HeartbeatOf, Move, Holding, Working, DrainInv, ProcessTyped
    <3> QED
      BY <3>1, SlotsKept DEF DrainInv
  <2> QED
    BY <2>1, <2>2
<1>2. ASSUME NEW r \in Runs, \/ \E key \in Keys \union {NoKey} : Accept(r, key)
                             \/ EnqueueTask(r) \/ TaskStep(r) \/ HeartbeatOf(r)
      PROVE  DrainInv'
  <2>1. Slots'
    BY <1>1, <1>2, SlotsKept DEF Accept, Holding, DrainInv
  <2>2. ProcessTyped' /\ Alive' /\ Leases' /\ Owned'
    BY <1>2, TaskMoves, RunTaken, RowsAge, RunSaved DEF TaskStep, DrainInv
  <2> QED
    BY <2>1, <2>2 DEF DrainInv
<1>3. ASSUME SweepRuns \/ Passes PROVE DrainInv'
  <2>1. Slots'
    BY <1>3, SlotsKept DEF SweepRuns, Passes, Holding, DrainInv
  <2> QED
    BY <1>3, <2>1, RowsAge DEF DrainInv
<1>4. ASSUME Reconcile \/ Shutdown \/ Drained \/ CutShort \/ Restart PROVE DrainInv'
  BY <1>4, ServerMoves, SlotsKept DEF DrainInv
<1>5. CASE UNCHANGED inprocVars
  <2>1. Slots'
    BY <1>5, SlotsKept DEF inprocVars, Holding, DrainInv
  <2>2. ProcessTyped' /\ Alive' /\ Leases' /\ Owned'
    BY <1>5 DEF inprocVars, DrainInv, ProcessTyped, Alive, Leases, Owned
  <2> QED
    BY <2>1, <2>2 DEF DrainInv
<1> QED
  BY <1>2, <1>3, <1>4, <1>5 DEF InProcessNext

\* At first there is no process and no run.
LEMMA DrainStart == InProcessInit => DrainInv
<1> SUFFICES ASSUME InProcessInit PROVE DrainInv
  OBVIOUS
<1>1. /\ server = "new" /\ creating = {} /\ refused = {} /\ downs = 0
      /\ \A r \in Runs : task[r] = "none" /\ session[r] = NoSession
      /\ task \in [Runs -> {"none", "waiting"} \union Working]
  BY DEF InProcessInit, Store!Init
<1>2. Holding = {}
  BY <1>1 DEF Holding, Working
<1>3. Slots
  BY <1>2, FS_EmptySet, InProcessAssumption DEF Slots
<1>4. ProcessTyped /\ Alive /\ Leases /\ Owned
  BY <1>1, InProcessAssumption DEF ProcessTyped, Alive, Leases, Owned, Working
<1> QED
  BY <1>3, <1>4 DEF DrainInv

LEMMA DrainCorrect == InProcessSpec => [](Store!TypeOK /\ DrainInv)
  BY ProcessStore, DrainStart, DrainStep, PTL DEF InProcessSpec

\* The state of the process is well-typed (queue.py, app.py).
THEOREM InProcessTyped == InProcessSpec => []InProcessTypeOK
<1>1. Store!TypeOK /\ DrainInv => InProcessTypeOK
  BY DEF DrainInv, ProcessTyped, InProcessTypeOK
<1> QED
  BY <1>1, DrainCorrect, PTL

\* At most MaxInflight jobs are at work at a time; a drain that was not cut short leaves no
\* run unfinished that it had not turned away; and no run in execution loses its lease,
\* whatever shutdowns, crashes, sweeps and second claims there are (queue.py:82-91).
THEOREM DrainsSettle == InProcessSpec => []DrainSettles
<1>1. Store!TypeOK /\ DrainInv => DrainSettles
  <2> SUFFICES ASSUME Store!TypeOK, DrainInv PROVE DrainSettles
    OBVIOUS
  <2>1. Cardinality(Holding) <= MaxInflight
    BY DEF DrainInv, Slots
  <2>2. server = "draining" /\ (\A r \in Runs : task[r] = "none") =>
          \A r \in Runs : row[r].status \in Store!Live => r \in refused
    BY DEF DrainInv, Alive, Owned
  <2>3. \A r \in Runs : task[r] \in {"running", "saving"} =>
          row[r].status = "running" /\ ~Store!Stale(r)
    BY StoreTyped DEF DrainInv, Leases, Store!Stale
  <2> QED
    BY <2>1, <2>2, <2>3 DEF DrainSettles
<1> QED
  BY <1>1, DrainCorrect, PTL


-----------------------------------------------------------------------------
(* The process implements RunLifecycle                                      *)
Status == [r \in Runs |-> row[r].status]
Owner  == [r \in Runs |-> IF task[r] \in {"running", "saving"} THEN {r} ELSE {}]

\* Steps that change neither what a client reads nor who executes.
LEMMA NothingOwned ==
  ASSUME \A q \in Runs : row'[q].status = row[q].status,
         \A q \in Runs : task'[q] \in {"running", "saving"} <=> task[q] \in {"running", "saving"}
  PROVE  UNCHANGED <<Status, Owner>>
  BY DEF Status, Owner

LEMMA ProcessLifecycleStep ==
  ASSUME Store!TypeOK, DrainInv, [InProcessNext]_inprocVars
  PROVE  [Lifecycle!Next]_(Lifecycle!vars)
<1> DEFINE Goal == Lifecycle!Next \/ UNCHANGED Lifecycle!vars
<1> SUFFICES Goal
  OBVIOUS
<1>v. UNCHANGED <<Status, Owner>> => Goal
  BY DEF Lifecycle!vars, Status, Owner
<1>n. /\ \A r \in Runs : Lifecycle!Accept(r) => Goal
      /\ \A r, e \in Runs : Lifecycle!Begin(r, e) => Goal
      /\ \A E \in SUBSET Runs : Lifecycle!Abandon(E) => Goal
      /\ \A r, e \in Runs, outcome \in Store!Outcomes : Lifecycle!Settle(r, e, outcome) => Goal
      /\ \A S \in SUBSET Runs : Lifecycle!GiveUp(S) => Goal
  BY DEF Lifecycle!Next
<1> HIDE DEF Goal
<1> USE StoreTyped DEF DrainInv
<1>0. /\ row \in [Runs -> Store!Row] /\ task \in [Runs -> {"none", "waiting"} \union Working]
      /\ Status \in [Runs -> Store!Statuses]
      /\ \A q \in Runs : Status[q] = row[q].status
      /\ \A q \in Runs : Owner[q] = IF task[q] \in {"running", "saving"} THEN {q} ELSE {}
  BY DEF ProcessTyped, Status, Owner
<1>1. ASSUME NEW r \in Runs, NEW key \in Keys \union {NoKey}, Accept(r, key) PROVE Goal
  <2>1. /\ row[r].status = "absent" /\ task' = task
        /\ row' = [row EXCEPT ![r] = Store!NewRow("pending", key, "none")]
    BY <1>1 DEF Accept, Store!CreateRun
  <2>2. Status' = [Status EXCEPT ![r] = "pending"] /\ Owner' = Owner
    BY <1>0, <2>1 DEF Status, Owner, Store!NewRow
  <2>3. Lifecycle!Accept(r)
    BY <1>0, <2>1, <2>2 DEF Lifecycle!Accept, Status, Owner
  <2> QED
    BY <1>n, <2>3
<1>2. ASSUME NEW r \in Runs, Claim(r) PROVE Goal
  <2>1. /\ task' = [task EXCEPT ![r] = "running"] /\ task[r] = "claiming" /\ Store!Claimable(r)
        /\ row' = [row EXCEPT ![r] = Store!Stamped(r, "running", row[r].error)]
    BY <1>2 DEF Claim, Move, Store!ClaimRun
  <2>2. Status' = [Status EXCEPT ![r] = "running"] /\ Status[r] \in {"pending", "running"}
    BY <1>0, <2>1 DEF Status, Store!Stamped, Store!NewRow, Store!Claimable
  <2>3. Owner' = [Owner EXCEPT ![r] = {r}] /\ Owner[r] = {}
    BY <1>0, <2>1 DEF Owner
  <2>4. Lifecycle!Begin(r, r)
    BY <2>2, <2>3 DEF Lifecycle!Begin, Status, Owner
  <2> QED
    BY <1>n, <2>4
<1>3. ASSUME NEW r \in Runs, SaveOutcome(r) PROVE Goal
  <2> DEFINE s == session[r]
  <2>1. /\ task' = [task EXCEPT ![r] = "none"] /\ task[r] = "saving" /\ s # NoSession
    BY <1>3 DEF SaveOutcome, Move, Store!UpsertCommit
  <2>2. /\ s.run = r /\ s.seen.status = "running" /\ s.status \in Store!Outcomes
        /\ row[r].status = "running"
    BY <2>1 DEF Leases
  <2>3. row' = [row EXCEPT ![r] = Store!Flushed(s)]
    BY <1>3, <2>2 DEF SaveOutcome, Store!UpsertCommit
  <2>4. Store!Flushed(s).status = s.status
    BY <2>2 DEF Store!Flushed, Store!Stamped, Store!NewRow, Store!Written, Store!Outcomes
  <2>5. Status' = [Status EXCEPT ![r] = s.status] /\ Status[r] = "running"
    BY <1>0, <2>2, <2>3, <2>4 DEF Status
  <2>6. Owner' = [Owner EXCEPT ![r] = {}] /\ Owner[r] = {r}
    BY <1>0, <2>1 DEF Owner
  <2>7. PICK outcome \in Store!Outcomes : outcome = s.status
    BY <2>2
  <2>8. Lifecycle!Settle(r, r, outcome)
    BY <2>5, <2>6, <2>7 DEF Lifecycle!Settle, Status, Owner
  <2> QED
    BY <1>n, <2>8
<1>4. ASSUME NEW r \in Runs, \/ EnqueueTask(r) \/ Dispatch(r) \/ ClaimRefused(r)
                              \/ \E outcome \in Store!Outcomes : AgentEnds(r, outcome)
      PROVE  Goal
  <2>1. /\ row' = row
        /\ \E b \in {"none", "waiting", "claiming", "saving"} : task' = [task EXCEPT ![r] = b]
                /\ (b = "saving" <=> task[r] \in {"running", "saving"})
    BY <1>4 DEF EnqueueTask, Dispatch, ClaimRefused, AgentEnds, Move, Store!UpsertLoad
  <2>2. \A q \in Runs :
          task'[q] \in {"running", "saving"} <=> task[q] \in {"running", "saving"}
    BY <1>0, <2>1
  <2> QED
    BY <1>v, <2>1, <2>2, NothingOwned
<1>5. ASSUME Passes \/ \E r \in Runs : HeartbeatOf(r) PROVE Goal
  <2>1. task' = task /\ \A q \in Runs : row'[q].status = row[q].status
    BY <1>0, <1>5 DEF Passes, HeartbeatOf, Store!Tick, Store!TouchRun, Store!Stamped, Store!NewRow,
                      Store!Row
  <2> QED
    BY <1>v, <2>1, NothingOwned
<1>6. CASE SweepRuns
  <2>s. PICK S \in SUBSET Runs : S = {r \in Runs : Store!Expired(r)}
    OBVIOUS
  <2>1. task' = task /\ row' = [r \in Runs |-> IF Store!Expired(r)
                                               THEN Store!Stamped(r, "failed", "swept")
                                               ELSE row[r]]
    BY <1>6 DEF SweepRuns, Store!SweepStuckRuns
  <2>2. Status' = [r \in Runs |-> IF r \in S THEN "failed" ELSE Status[r]] /\ Owner' = Owner
    BY <2>s, <2>1 DEF Status, Owner, Store!Stamped, Store!NewRow
  <2>3. \A r \in S : r \in Runs /\ Status[r] = "running" /\ Owner[r] = {}
    <3>1. ASSUME NEW r \in Runs, Store!Expired(r)
          PROVE  row[r].status = "running" /\ task[r] \notin {"running", "saving"}
      BY <3>1 DEF Leases, Store!Expired, Store!Stale
    <3> QED
      BY <1>0, <2>s, <3>1
  <2>4. Lifecycle!GiveUp(S)
    BY <2>2, <2>3 DEF Lifecycle!GiveUp, Status, Owner
  <2> QED
    BY <1>n, <2>4
<1>7. CASE CutShort
  <2>1. row' = row /\ \A q \in Runs : task'[q] = "none"
    BY <1>7 DEF CutShort, Store!UpsertsLost
  <2>2. Owner' = [r \in Runs |-> Owner[r] \ Runs] /\ Status' = Status
    BY <1>0, <2>1 DEF Owner, Status
  <2>3. Lifecycle!Abandon(Runs)
    BY <2>2 DEF Lifecycle!Abandon, Status, Owner
  <2> QED
    BY <1>n, <2>3
<1>8. CASE Reconcile \/ Shutdown \/ Drained \/ Restart
  <2>1. row' = row
    BY <1>8 DEF Reconcile, Shutdown, Drained, Restart
  <2>2. \A q \in Runs :
          task'[q] \in {"running", "saving"} <=> task[q] \in {"running", "saving"}
    BY <1>8 DEF Reconcile, Shutdown, Drained, Restart, Alive
  <2> QED
    BY <1>v, <2>1, <2>2, NothingOwned
<1>9. CASE UNCHANGED inprocVars
  BY <1>v, <1>9 DEF inprocVars, Status, Owner
<1> QED
  BY <1>1, <1>2, <1>3, <1>4, <1>5, <1>6, <1>7, <1>8, <1>9 DEF InProcessNext, TaskStep

\* One process with its slots, leases, drains and restarts implements the lifecycle a client
\* may rely on: one executor at a time, and settled once (queue.py, app.py, RunLifecycle).
THEOREM ProcessRefinesLifecycle == InProcessSpec => ProcessImplementsLifecycle
<1>1. InProcessInit => Lifecycle!Init
  BY DEF InProcessInit, Lifecycle!Init, Store!Init, Store!NoRow, Store!NewRow
<1>2. Store!TypeOK /\ DrainInv /\ [InProcessNext]_inprocVars
        => [Lifecycle!Next]_(Lifecycle!vars)
  BY ProcessLifecycleStep
<1> QED
  BY <1>1, <1>2, DrainCorrect, PTL
  DEF InProcessSpec, ProcessImplementsLifecycle, Lifecycle!Spec

-----------------------------------------------------------------------------
(* The figures of the dashboard.                                           *)
Failure == Recorded \ Success

\* What holds after each of the statements, while the table goes on growing.
TotalsRead ==
  summary.at = "kinds" => /\ summary.total <= CountOf(Kinds, Recorded)
                          /\ summary.total - summary.success <= CountOf(Kinds, Failure)
KindsRead ==
  summary.at = "failures" =>
    /\ summary.total <= Added(summary.byKind)
    /\ \A k \in Kinds : summary.byKind[k] <= CountOf({k}, Recorded)
    /\ summary.total - summary.success <= CountOf(Kinds, Failure)

SummaryInv == /\ TraceTypeOK /\ IsFiniteSet(traces)
              /\ TotalsRead /\ KindsRead /\ SummaryGrows

LEMMA CountIsNat ==
  ASSUME IsFiniteSet(traces), NEW kinds, NEW statuses
  PROVE  IsFiniteSet(Selected(kinds, statuses)) /\ CountOf(kinds, statuses) \in Nat
<1>1. Selected(kinds, statuses) \in SUBSET traces
  BY DEF Selected
<1> QED
  BY <1>1, FS_Subset, FS_CardinalityType DEF CountOf

\* A table that grows counts no less.
LEMMA CountGrows ==
  ASSUME IsFiniteSet(traces'), traces \subseteq traces', NEW kinds, NEW statuses
  PROVE  CountOf(kinds, statuses) <= CountOf(kinds, statuses)'
<1> DEFINE new == {trace \in traces' : trace.kind \in kinds /\ trace.status \in statuses}
           old == {trace \in traces : trace.kind \in kinds /\ trace.status \in statuses}
<1>1. IsFiniteSet(new)
  <2>1. new \in SUBSET traces'
    OBVIOUS
  <2> QED
    BY <2>1, FS_Subset
<1>2. old \in SUBSET new
  OBVIOUS
<1>3. Cardinality(old) <= Cardinality(new)
  BY <1>1, <1>2, FS_Subset
<1> QED
  BY <1>3 DEF CountOf, Selected

\* What two selections that have no row in common select together.
LEMMA CountAdds ==
  ASSUME IsFiniteSet(traces), NEW S, NEW T, NEW U,
         S \in SUBSET traces, T \in SUBSET traces, U = S \union T, S \intersect T = {}
  PROVE  Cardinality(U) = Cardinality(S) + Cardinality(T)
<1>1. IsFiniteSet(S) /\ IsFiniteSet(T)
  BY FS_Subset
<1>2. Cardinality(S) \in Nat /\ Cardinality(T) \in Nat /\ Cardinality(S \intersect T) = 0
  BY <1>1, FS_CardinalityType, FS_EmptySet
<1>3. Cardinality(S \union T) = Cardinality(S) + Cardinality(T) - Cardinality(S \intersect T)
  BY <1>1, FS_Union
<1> QED
  BY <1>2, <1>3

LEMMA KindsAddUp ==
  ASSUME IsFiniteSet(traces), traces \subseteq Rows, NEW statuses
  PROVE  CountOf(Kinds, statuses) = CountOf({"agent"}, statuses) + CountOf({"tool"}, statuses)
<1>1. /\ Selected(Kinds, statuses) = Selected({"agent"}, statuses) \union Selected({"tool"}, statuses)
      /\ Selected({"agent"}, statuses) \intersect Selected({"tool"}, statuses) = {}
      /\ Selected({"agent"}, statuses) \in SUBSET traces
      /\ Selected({"tool"}, statuses) \in SUBSET traces
  BY DEF Selected, Kinds, Rows
<1> QED
  BY <1>1, CountAdds DEF CountOf

LEMMA StatusesAddUp ==
  ASSUME IsFiniteSet(traces), traces \subseteq Rows
  PROVE  CountOf(Kinds, Recorded) = CountOf(Kinds, Success) + CountOf(Kinds, Failure)
<1>1. /\ Selected(Kinds, Recorded) = Selected(Kinds, Success) \union Selected(Kinds, Failure)
      /\ Selected(Kinds, Success) \intersect Selected(Kinds, Failure) = {}
      /\ Selected(Kinds, Success) \in SUBSET traces /\ Selected(Kinds, Failure) \in SUBSET traces
  BY DEF Selected, Recorded, Success, Failure
<1> QED
  BY <1>1, CountAdds DEF CountOf

\* A recorded trace is a row more, or nothing.
LEMMA RecordAdds ==
  ASSUME NEW kind \in Kinds, NEW status \in Recorded \union InFlight, Record(kind, status),
         traces \subseteq Rows
  PROVE  \/ UNCHANGED traces
         \/ /\ status \in Recorded
            /\ \E trace \in Rows : /\ trace \notin traces /\ traces' = traces \union {trace}
                                 /\ trace.kind = kind /\ trace.status = status
<1>1. CASE status \in InFlight
  BY <1>1 DEF Record
<1>2. CASE status \notin InFlight /\ traces' # traces
  <2>1. PICK id \in 1..MaxTraces :
          LET trace == [kind |-> kind, status |-> status, id |-> id]
          IN  trace \notin traces /\ traces' = traces \union {trace}
    BY <1>2 DEF Record
  <2> DEFINE trace == [kind |-> kind, status |-> status, id |-> id]
  <2>2. status \in Recorded /\ trace \in Rows /\ trace.kind = kind /\ trace.status = status
    BY <1>2 DEF Rows
  <2> QED
    BY <2>1, <2>2
<1> QED
  BY <1>1, <1>2

LEMMA RecordGrows ==
  ASSUME NEW kind \in Kinds, NEW status \in Recorded \union InFlight, Record(kind, status),
         traces \subseteq Rows, IsFiniteSet(traces)
  PROVE  traces' \subseteq Rows /\ traces \subseteq traces' /\ IsFiniteSet(traces')
<1>1. CASE UNCHANGED traces
  BY <1>1
<1>2. ASSUME NEW trace \in Rows, traces' = traces \union {trace}
      PROVE  traces' \subseteq Rows /\ traces \subseteq traces' /\ IsFiniteSet(traces')
  BY <1>2, FS_AddElement
<1> QED
  BY <1>1, <1>2, RecordAdds

LEMMA SummaryStarts == TraceInit => SummaryInv
<1> SUFFICES ASSUME TraceInit PROVE SummaryInv
  OBVIOUS
<1>1. traces \subseteq Rows /\ IsFiniteSet(traces)
  BY FS_EmptySet DEF TraceInit
<1>2. summary \in [at: {"idle", "kinds", "failures", "done"}, total: Nat, success: Nat,
                   byKind: [Kinds -> Nat], failures: [Kinds -> Nat]] /\ summary.at = "idle"
  BY DEF TraceInit, NoFigures
<1> QED
  BY <1>1, <1>2 DEF SummaryInv, TraceTypeOK, TotalsRead, KindsRead, SummaryGrows

\* What was read is not overtaken by rows that come later.
LEMMA RowsKeepSummary ==
  ASSUME SummaryInv, UNCHANGED summary, traces \subseteq traces', traces' \subseteq Rows,
         IsFiniteSet(traces')
  PROVE  SummaryInv'
<1>1. \A kinds, statuses : /\ CountOf(kinds, statuses) <= CountOf(kinds, statuses)'
                           /\ CountOf(kinds, statuses) \in Nat
                           /\ CountOf(kinds, statuses)' \in Nat
  <2> TAKE kinds, statuses
  <2>1. CountOf(kinds, statuses) <= CountOf(kinds, statuses)'
    BY CountGrows
  <2>2. CountOf(kinds, statuses) \in Nat
    BY CountIsNat DEF SummaryInv
  <2>3. CountOf(kinds, statuses)' \in Nat
    <3> DEFINE new == {trace \in traces' : trace.kind \in kinds /\ trace.status \in statuses}
    <3>1. new \in SUBSET traces'
      OBVIOUS
    <3>2. Cardinality(new) \in Nat
      BY <3>1, FS_Subset, FS_CardinalityType
    <3> QED
      BY <3>2 DEF CountOf, Selected
  <2> QED
    BY <2>1, <2>2, <2>3
<1>2. /\ summary' = summary /\ summary.total \in Nat /\ summary.success \in Nat
      /\ summary.byKind \in [Kinds -> Nat] /\ summary.failures \in [Kinds -> Nat]
  BY DEF SummaryInv, TraceTypeOK
<1>3. TotalsRead'
  <2> SUFFICES ASSUME summary.at = "kinds"
               PROVE  /\ summary.total <= CountOf(Kinds, Recorded)'
                      /\ summary.total - summary.success <= CountOf(Kinds, Failure)'
    BY <1>2 DEF TotalsRead, CountOf, Selected, Failure
  <2> HIDE DEF TotalsRead
  <2>1. /\ summary.total <= CountOf(Kinds, Recorded)
        /\ summary.total - summary.success <= CountOf(Kinds, Failure)
    BY DEF SummaryInv, TotalsRead
  <2> QED
    BY <1>1, <1>2, <2>1
<1>4. KindsRead'
  <2> SUFFICES ASSUME summary.at = "failures"
               PROVE  /\ summary.total <= Added(summary.byKind)
                      /\ \A k \in Kinds : summary.byKind[k] <= CountOf({k}, Recorded)'
                      /\ summary.total - summary.success <= CountOf(Kinds, Failure)'
    BY <1>2 DEF KindsRead, CountOf, Selected, Failure, Added
  <2>1. /\ summary.total <= Added(summary.byKind)
        /\ \A k \in Kinds : summary.byKind[k] <= CountOf({k}, Recorded)
        /\ summary.total - summary.success <= CountOf(Kinds, Failure)
    BY DEF SummaryInv, KindsRead
  <2>2. summary.total - summary.success <= CountOf(Kinds, Failure)'
    BY <1>1, <1>2, <2>1
  <2>3. ASSUME NEW k \in Kinds PROVE summary.byKind[k] <= CountOf({k}, Recorded)'
    BY <1>1, <1>2, <2>1
  <2> QED
    BY <2>1, <2>2, <2>3
<1>5. SummaryGrows'
  <2> SUFFICES ASSUME summary.at = "done"
               PROVE  /\ summary.total <= Added(summary.byKind)
                      /\ summary.total - summary.success <= Added(summary.failures)
                      /\ \A k \in Kinds : /\ summary.byKind[k] <= CountOf({k}, Recorded)'
                                          /\ summary.failures[k] <= CountOf({k}, Recorded \ Success)'
    BY <1>2 DEF SummaryGrows, CountOf, Selected, Added
  <2>1. /\ summary.total <= Added(summary.byKind)
        /\ summary.total - summary.success <= Added(summary.failures)
        /\ \A k \in Kinds : /\ summary.byKind[k] <= CountOf({k}, Recorded)
                            /\ summary.failures[k] <= CountOf({k}, Recorded \ Success)
    BY DEF SummaryInv, SummaryGrows
  <2>2. ASSUME NEW k \in Kinds
        PROVE  /\ summary.byKind[k] <= CountOf({k}, Recorded)'
               /\ summary.failures[k] <= CountOf({k}, Recorded \ Success)'
    BY <1>1, <1>2, <2>1
  <2> QED
    BY <2>1, <2>2
<1>6. TraceTypeOK'
  BY DEF SummaryInv, TraceTypeOK
<1> QED
  BY <1>3, <1>4, <1>5, <1>6 DEF SummaryInv

LEMMA ReadKeepsSummary ==
  ASSUME SummaryInv, ReadSummary
  PROVE  SummaryInv'
<1>1. /\ traces' = traces /\ traces \subseteq Rows /\ IsFiniteSet(traces)
      /\ summary \in [at: {"idle", "kinds", "failures", "done"}, total: Nat, success: Nat,
                      byKind: [Kinds -> Nat], failures: [Kinds -> Nat]]
  BY DEF SummaryInv, TraceTypeOK, ReadSummary
<1>2. \A kinds, statuses : /\ CountOf(kinds, statuses) \in Nat
                           /\ CountOf(kinds, statuses)' = CountOf(kinds, statuses)
  <2>1. \A kinds, statuses : CountOf(kinds, statuses) \in Nat
    BY <1>1, CountIsNat
  <2>2. \A kinds, statuses : CountOf(kinds, statuses)' = CountOf(kinds, statuses)
    BY <1>1 DEF CountOf, Selected
  <2> QED
    BY <2>1, <2>2
<1>3. \A statuses :
        CountOf(Kinds, statuses) = CountOf({"agent"}, statuses) + CountOf({"tool"}, statuses)
  BY <1>1, KindsAddUp
<1>4. CountOf(Kinds, Recorded) = CountOf(Kinds, Success) + CountOf(Kinds, Failure)
  BY <1>1, StatusesAddUp
<1>5. CASE ReadTotals
  <2>1. /\ summary' = [summary EXCEPT !.at = "kinds", !.total = CountOf(Kinds, Recorded),
                                      !.success = CountOf(Kinds, Success)]
    BY <1>5 DEF ReadTotals
  <2>2. /\ summary'.at = "kinds" /\ summary'.total = CountOf(Kinds, Recorded)
        /\ summary'.success = CountOf(Kinds, Success)
        /\ summary' \in [at: {"idle", "kinds", "failures", "done"}, total: Nat, success: Nat,
                         byKind: [Kinds -> Nat], failures: [Kinds -> Nat]]
    BY <1>1, <1>2, <2>1
  <2>3. summary'.total <= CountOf(Kinds, Recorded)
        /\ summary'.total - summary'.success <= CountOf(Kinds, Failure)
    BY <1>2, <1>4, <2>2
  <2>4. TotalsRead'
    BY <1>2, <2>2, <2>3 DEF TotalsRead
  <2> QED
    BY <1>1, <2>2, <2>4 DEF SummaryInv, TraceTypeOK, KindsRead, SummaryGrows
<1>6. CASE ReadKinds
  <2> DEFINE counts == [k \in Kinds |-> CountOf({k}, Recorded)]
  <2>1. summary' = [summary EXCEPT !.at = "failures", !.byKind = counts] /\ summary.at = "kinds"
    BY <1>6 DEF ReadKinds
  <2>2. counts \in [Kinds -> Nat] /\ \A k \in Kinds : counts[k] = CountOf({k}, Recorded)
    BY <1>2
  <2> HIDE DEF counts
  <2>3. /\ summary'.at = "failures" /\ summary'.byKind = counts
        /\ summary'.total = summary.total /\ summary'.success = summary.success
        /\ summary' \in [at: {"idle", "kinds", "failures", "done"}, total: Nat, success: Nat,
                         byKind: [Kinds -> Nat], failures: [Kinds -> Nat]]
    BY <1>1, <2>1, <2>2
  <2>4. /\ summary.total <= CountOf(Kinds, Recorded)
        /\ summary.total - summary.success <= CountOf(Kinds, Failure)
    BY <2>1 DEF SummaryInv, TotalsRead
  <2>5. Added(counts) = CountOf(Kinds, Recorded)
    BY <1>3, <2>2 DEF Added, Kinds
  <2>6. /\ summary'.total <= Added(summary'.byKind)
        /\ \A k \in Kinds : summary'.byKind[k] <= CountOf({k}, Recorded)
        /\ summary'.total - summary'.success <= CountOf(Kinds, Failure)
    BY <1>2, <2>2, <2>3, <2>4, <2>5
  <2>7. KindsRead'
    BY <1>1, <2>6 DEF KindsRead, CountOf, Selected, Failure, Added
  <2> QED
    BY <1>1, <2>3, <2>7 DEF SummaryInv, TraceTypeOK, TotalsRead, SummaryGrows
<1>7. CASE ReadFailures
  <2> DEFINE counts == [k \in Kinds |-> CountOf({k}, Failure)]
  <2>1. summary' = [summary EXCEPT !.at = "done", !.failures = counts]
        /\ summary.at = "failures"
    BY <1>7 DEF ReadFailures, Failure
  <2>2. counts \in [Kinds -> Nat] /\ \A k \in Kinds : counts[k] = CountOf({k}, Failure)
    BY <1>2
  <2> HIDE DEF counts
  <2>3. /\ summary'.at = "done" /\ summary'.failures = counts
        /\ summary'.byKind = summary.byKind
        /\ summary'.total = summary.total /\ summary'.success = summary.success
        /\ summary' \in [at: {"idle", "kinds", "failures", "done"}, total: Nat, success: Nat,
                         byKind: [Kinds -> Nat], failures: [Kinds -> Nat]]
    BY <1>1, <2>1, <2>2
  <2>4. /\ summary.total <= Added(summary.byKind)
        /\ \A k \in Kinds : summary.byKind[k] <= CountOf({k}, Recorded)
        /\ summary.total - summary.success <= CountOf(Kinds, Failure)
    BY <2>1 DEF SummaryInv, KindsRead
  <2>5. Added(counts) = CountOf(Kinds, Failure)
    BY <1>3, <2>2 DEF Added, Kinds
  <2>6. /\ summary'.total <= Added(summary'.byKind)
        /\ summary'.total - summary'.success <= Added(summary'.failures)
    BY <2>3, <2>4, <2>5
  <2>7. ASSUME NEW k \in Kinds
        PROVE  /\ summary'.byKind[k] <= CountOf({k}, Recorded)
               /\ summary'.failures[k] <= CountOf({k}, Recorded \ Success)
    BY <1>2, <2>2, <2>3, <2>4 DEF Failure
  <2>8. SummaryGrows'
    BY <1>1, <2>6, <2>7 DEF SummaryGrows, CountOf, Selected, Added
  <2> QED
    BY <1>1, <2>3, <2>8 DEF SummaryInv, TraceTypeOK, TotalsRead, KindsRead
<1>8. CASE ReadFails
  <2>1. /\ summary'.at = "done" /\ summary'.total = 0 /\ summary'.success = 0
        /\ summary'.byKind = [k \in Kinds |-> 0] /\ summary'.failures = [k \in Kinds |-> 0]
        /\ summary' \in [at: {"idle", "kinds", "failures", "done"}, total: Nat, success: Nat,
                         byKind: [Kinds -> Nat], failures: [Kinds -> Nat]]
    BY <1>8 DEF ReadFails, NoFigures
  <2>2. Added(summary'.byKind) = 0 /\ Added(summary'.failures) = 0
    BY <2>1 DEF Added, Kinds
  <2>3. ASSUME NEW k \in Kinds
        PROVE  /\ summary'.byKind[k] <= CountOf({k}, Recorded)
               /\ summary'.failures[k] <= CountOf({k}, Recorded \ Success)
    BY <1>2, <2>1
  <2>4. SummaryGrows'
    BY <1>1, <2>1, <2>2, <2>3 DEF SummaryGrows, CountOf, Selected, Added
  <2> QED
    BY <1>1, <2>1, <2>4 DEF SummaryInv, TraceTypeOK, TotalsRead, KindsRead
<1> QED
  BY <1>5, <1>6, <1>7, <1>8 DEF ReadSummary

\* For any number of rows that are written between the statements of the dashboard
\* (store.py:170-199): a later figure counts no less than an earlier one did, and none more
\* than the table holds.
THEOREM SummaryIsMonotone == TraceSpec => []SummaryGrows
<1>1. SummaryInv /\ [TraceNext]_traceVars => SummaryInv'
  <2> SUFFICES ASSUME SummaryInv, [TraceNext]_traceVars PROVE SummaryInv'
    OBVIOUS
  <2>1. ASSUME NEW kind \in Kinds, NEW status \in Recorded \union InFlight,
               Record(kind, status), UNCHANGED summary
        PROVE  SummaryInv'
    BY <2>1, RecordGrows, RowsKeepSummary DEF SummaryInv, TraceTypeOK
  <2>2. CASE UNCHANGED traceVars
    <3>1. UNCHANGED <<traces, summary>>
      BY <2>2 DEF traceVars
    <3> QED
      BY <3>1, RowsKeepSummary DEF SummaryInv, TraceTypeOK
  <2> QED
    BY <2>1, <2>2, ReadKeepsSummary DEF TraceNext
<1>2. SummaryInv => SummaryGrows
  BY DEF SummaryInv
<1> QED
  BY <1>1, <1>2, SummaryStarts, PTL DEF TraceSpec

-----------------------------------------------------------------------------
(* The tool gateway of a request.                                          *)
AuditInv == GatewayTypeOK /\ IsFiniteSet(saved) /\ EveryCallAudited

LEMMA StatusRecorded == \A entry \in Entry : AuditStatus(entry) \in Recorded
  BY DEF AuditStatus, Recorded

\* The positions in the audit are finitely many.
LEMMA PositionsFinite ==
  ASSUME audit \in Seq(Entry), NEW S \in SUBSET DOMAIN audit
  PROVE  IsFiniteSet(S) /\ Cardinality(S) \in Nat
<1>1. DOMAIN audit = 1..Len(audit) /\ Len(audit) \in Nat
  OBVIOUS
<1>2. IsFiniteSet(1..Len(audit))
  BY <1>1, FS_Interval
<1> QED
  BY <1>1, <1>2, FS_Subset, FS_CardinalityType

\* The sets that are counted, with one entry more.
LEMMA OneEntryMore ==
  ASSUME audit \in Seq(Entry), NEW entry \in Entry, audit' = Append(audit, entry)
  PROVE  LET n == Len(audit) + 1 IN
         /\ audit' \in Seq(Entry) /\ Len(audit') = n /\ n \in Nat
         /\ DOMAIN audit' = DOMAIN audit \union {n} /\ n \notin DOMAIN audit
         /\ \A i \in DOMAIN audit : audit'[i] = audit[i]
         /\ audit'[n] = entry
         /\ \A t : Allowed(t)' = Allowed(t) \union (IF entry.tool = t /\ entry.allowed THEN {n} ELSE {})
         /\ \A s : Audited(s)' = Audited(s) \union (IF AuditStatus(entry) = s THEN {n} ELSE {})
<1> DEFINE n == Len(audit) + 1
<1>1. /\ audit' \in Seq(Entry) /\ Len(audit') = n /\ n \in Nat
      /\ DOMAIN audit' = DOMAIN audit \union {n} /\ n \notin DOMAIN audit
      /\ \A i \in DOMAIN audit : audit'[i] = audit[i]
      /\ audit'[n] = entry
  OBVIOUS
<1> HIDE DEF n
<1>2. \A t : Allowed(t)' = Allowed(t) \union (IF entry.tool = t /\ entry.allowed THEN {n} ELSE {})
  BY <1>1 DEF Allowed
<1>3. \A s : Audited(s)' = Audited(s) \union (IF AuditStatus(entry) = s THEN {n} ELSE {})
  <2> TAKE s
  <2>1. Audited(s)' = {i \in DOMAIN audit' : AuditStatus(audit'[i]) = s}
    BY DEF Audited, AuditStatus
  <2>2. Audited(s) = {i \in DOMAIN audit : AuditStatus(audit[i]) = s}
    BY DEF Audited
  <2> QED
    BY <1>1, <2>1, <2>2
<1> QED
  BY <1>1, <1>2, <1>3 DEF n

\* What is recorded of a call counts once, as allowed if it was, and is written at most once.
LEMMA CallRecorded ==
  ASSUME AuditInv, NEW tool \in Tools, NEW allowed \in BOOLEAN, NEW error \in Errors,
         RecordCall(tool, allowed, error)
  PROVE  /\ audit' \in Seq(Entry) /\ Len(audit') = Len(audit) + 1
         /\ unsaved' \subseteq DOMAIN audit' /\ saved' = saved
         /\ \A t \in Tools : Cardinality(Allowed(t))'
              = Cardinality(Allowed(t)) + (IF t = tool /\ allowed THEN 1 ELSE 0)
         /\ \A s \in Recorded :
              Cardinality(SavedWith(s))' + Cardinality(unsaved \intersect Audited(s))'
                <= Cardinality(Audited(s))'
<1> DEFINE entry == [tool |-> tool, allowed |-> allowed, error |-> error]
           n     == Len(audit) + 1
<1>1. /\ audit \in Seq(Entry) /\ unsaved \subseteq DOMAIN audit
      /\ audit' = Append(audit, entry) /\ saved' = saved /\ entry \in Entry
      /\ entry.tool = tool /\ entry.allowed = allowed
      /\ unsaved' = unsaved \/ unsaved' = unsaved \union {n}
  BY DEF AuditInv, GatewayTypeOK, RecordCall, Entry
<1> HIDE DEF entry
<1>2. /\ audit' \in Seq(Entry) /\ Len(audit') = n /\ n \in Nat
      /\ DOMAIN audit' = DOMAIN audit \union {n} /\ n \notin DOMAIN audit
      /\ \A t : Allowed(t)' = Allowed(t) \union (IF entry.tool = t /\ entry.allowed THEN {n} ELSE {})
      /\ \A s : Audited(s)' = Audited(s) \union (IF AuditStatus(entry) = s THEN {n} ELSE {})
  BY <1>1, OneEntryMore
<1>3. \A t : /\ Allowed(t) \subseteq DOMAIN audit /\ IsFiniteSet(Allowed(t))
             /\ Cardinality(Allowed(t)) \in Nat
  BY <1>1, PositionsFinite DEF Allowed
<1>4. \A s : /\ Audited(s) \subseteq DOMAIN audit /\ IsFiniteSet(Audited(s))
             /\ Cardinality(Audited(s)) \in Nat
  BY <1>1, PositionsFinite DEF Audited
<1>5. \A s : /\ IsFiniteSet(unsaved \intersect Audited(s))
             /\ Cardinality(unsaved \intersect Audited(s)) \in Nat
  BY <1>1, PositionsFinite
<1>6. ASSUME NEW t \in Tools
      PROVE  Cardinality(Allowed(t))'
               = Cardinality(Allowed(t)) + (IF t = tool /\ allowed THEN 1 ELSE 0)
  <2>1. CASE t = tool /\ allowed
    <3>1. Allowed(t)' = Allowed(t) \union {n} /\ n \notin Allowed(t)
      BY <1>1, <1>2, <1>3, <2>1
    <3>2. Cardinality(Allowed(t) \union {n}) = Cardinality(Allowed(t)) + 1
      BY <1>3, <3>1, FS_AddElement
    <3> QED
      BY <2>1, <3>1, <3>2
  <2>2. CASE ~(t = tool /\ allowed)
    <3>1. Allowed(t)' = Allowed(t)
      BY <1>1, <1>2, <2>2
    <3> QED
      BY <1>3, <2>2, <3>1
  <2> QED
    BY <2>1, <2>2
<1>7. ASSUME NEW s \in Recorded
      PROVE  Cardinality(SavedWith(s))' + Cardinality(unsaved \intersect Audited(s))'
               <= Cardinality(Audited(s))'
  <2> DEFINE kept  == Cardinality(SavedWith(s))
             open  == Cardinality(unsaved \intersect Audited(s))
             shown == Cardinality(Audited(s))
  <2>1. kept + open <= shown /\ SavedWith(s)' = SavedWith(s)
    BY <1>1 DEF AuditInv, EveryCallAudited, SavedWith
  <2>2. kept \in Nat
    <3>1. SavedWith(s) \in SUBSET saved /\ IsFiniteSet(saved)
      BY DEF SavedWith, AuditInv
    <3> QED
      BY <3>1, FS_Subset, FS_CardinalityType
  <2>3. CASE AuditStatus(entry) = s
    <3>1. Audited(s)' = Audited(s) \union {n} /\ n \notin Audited(s)
      BY <1>2, <1>4, <2>3
    <3>2. Cardinality(Audited(s)') = shown + 1
      BY <1>4, <3>1, FS_AddElement
    <3>3. \/ unsaved' \intersect Audited(s)' = unsaved \intersect Audited(s)
          \/ unsaved' \intersect Audited(s)' = (unsaved \intersect Audited(s)) \union {n}
      BY <1>1, <1>2, <3>1
    <3>4. Cardinality((unsaved \intersect Audited(s)) \union {n}) = open + 1
      <4>1. n \notin unsaved \intersect Audited(s)
        BY <3>1
      <4> QED
        BY <1>5, <4>1, FS_AddElement
    <3>5. Cardinality(unsaved' \intersect Audited(s)') \in {open, open + 1}
      BY <3>3, <3>4
    <3> QED
      BY <1>4, <1>5, <2>1, <2>2, <3>2, <3>5
  <2>4. CASE AuditStatus(entry) # s
    <3>1. Audited(s)' = Audited(s)
      BY <1>2, <2>4
    <3>2. unsaved' \intersect Audited(s)' = unsaved \intersect Audited(s)
      BY <1>1, <1>2, <1>4, <3>1
    <3> QED
      BY <2>1, <3>1, <3>2
  <2> QED
    BY <2>3, <2>4
<1>8. unsaved' \subseteq DOMAIN audit'
  BY <1>1, <1>2
<1> QED
  BY <1>1, <1>2, <1>6, <1>7, <1>8

LEMMA AuditStarts ==
  ASSUME NEW registry \in SUBSET Tools, NEW allow \in SUBSET Tools, GatewayInit(registry, allow)
  PROVE  AuditInv
<1>1. /\ gate = [registry |-> registry, allow |-> allow] /\ running = NoTool
      /\ audit = <<>> /\ unsaved = {} /\ saved = {} /\ asked = 0
      /\ handled = [t \in Tools |-> 0] /\ TraceInit
  BY DEF GatewayInit
<1>2. TraceTypeOK
  BY <1>1, SummaryStarts DEF SummaryInv
<1>3. audit \in Seq(Entry) /\ Len(audit) = 0
  BY <1>1
<1>4. GatewayTypeOK
  BY <1>1, <1>2, <1>3 DEF GatewayTypeOK
<1>5. \A t : Allowed(t) = {}
  BY <1>1 DEF Allowed
<1>6. \A s : SavedWith(s) = {} /\ Audited(s) = {} /\ unsaved \intersect Audited(s) = {}
  BY <1>1 DEF SavedWith, Audited
<1>7. EveryCallAudited
  <2>1. Len(audit) + (IF running = NoTool THEN 0 ELSE 1) = asked
    BY <1>1, <1>3
  <2>2. \A t \in Tools : handled[t] = Cardinality(Allowed(t)) + (IF running = t THEN 1 ELSE 0)
    <3>1. \A t : Cardinality(Allowed(t)) = 0
      BY <1>5, FS_EmptySet
    <3>2. \A t \in Tools : handled[t] = 0 /\ running # t
      BY <1>1, ToolsAssumption
    <3> QED
      BY <3>1, <3>2
  <2>3. \A s : Cardinality(SavedWith(s)) + Cardinality(unsaved \intersect Audited(s))
                 <= Cardinality(Audited(s))
    BY <1>6, FS_EmptySet
  <2> QED
    BY <2>1, <2>2, <2>3 DEF EveryCallAudited
<1> QED
  BY <1>1, <1>4, <1>7, FS_EmptySet DEF AuditInv

LEMMA DenyAudited ==
  ASSUME AuditInv, NEW tool \in Tools, Deny(tool), UNCHANGED traceVars
  PROVE  AuditInv'
<1>1. /\ running = NoTool /\ running' = running /\ asked' = asked + 1
      /\ handled' = handled /\ gate' = gate
      /\ RecordCall(tool, FALSE, "message") /\ UNCHANGED <<traces, summary>>
  BY DEF Deny, traceVars
<1>2. "message" \in Errors
  BY DEF Errors
<1>3. /\ audit' \in Seq(Entry) /\ Len(audit') = Len(audit) + 1
      /\ unsaved' \subseteq DOMAIN audit' /\ saved' = saved
      /\ \A t \in Tools : Cardinality(Allowed(t))' = Cardinality(Allowed(t)) + 0
      /\ \A s \in Recorded :
           Cardinality(SavedWith(s))' + Cardinality(unsaved \intersect Audited(s))'
             <= Cardinality(Audited(s))'
  BY <1>1, <1>2, CallRecorded
<1>4. /\ audit \in Seq(Entry) /\ asked \in Nat /\ handled \in [Tools -> Nat]
      /\ Len(audit) \in Nat
      /\ Len(audit) = asked
      /\ \A t \in Tools : handled[t] = Cardinality(Allowed(t)) + 0
  BY <1>1, ToolsAssumption DEF AuditInv, GatewayTypeOK, EveryCallAudited
<1>5. /\ Len(audit') = asked' /\ asked' \in Nat
      /\ \A t \in Tools : handled'[t] = Cardinality(Allowed(t))' + 0
  <2>1. \A t \in Tools : Cardinality(Allowed(t)) \in Nat
    BY <1>4, PositionsFinite DEF Allowed
  <2>2. \A t \in Tools : Cardinality(Allowed(t))' = Cardinality(Allowed(t)) + 0
    BY <1>3
  <2> QED
    BY <1>1, <1>3, <1>4, <2>1, <2>2
<1>6. \A t \in Tools : (IF running' = NoTool THEN 0 ELSE 1) = 0 /\ (IF running' = t THEN 1 ELSE 0) = 0
  BY <1>1, ToolsAssumption
<1>7. EveryCallAudited'
  BY <1>1, <1>3, <1>4, <1>5, <1>6 DEF EveryCallAudited
<1>8. GatewayTypeOK'
  BY <1>1, <1>3, <1>5 DEF AuditInv, GatewayTypeOK, TraceTypeOK
<1> QED
  BY <1>3, <1>7, <1>8 DEF AuditInv

LEMMA InvokeAudited ==
  ASSUME AuditInv, NEW tool \in Tools, Invoke(tool), UNCHANGED traceVars
  PROVE  AuditInv'
<1>1. /\ running = NoTool /\ running' = tool /\ asked' = asked + 1
      /\ handled' = [handled EXCEPT ![tool] = @ + 1]
      /\ UNCHANGED <<gate, audit, unsaved, saved, traces, summary>>
  BY DEF Invoke, traceVars
<1>2. /\ audit \in Seq(Entry) /\ asked \in Nat /\ handled \in [Tools -> Nat]
      /\ Len(audit) \in Nat /\ Len(audit) = asked
      /\ \A t \in Tools : handled[t] = Cardinality(Allowed(t)) + 0
      /\ \A s \in Recorded :
           Cardinality(SavedWith(s)) + Cardinality(unsaved \intersect Audited(s))
             <= Cardinality(Audited(s))
  BY <1>1, ToolsAssumption DEF AuditInv, GatewayTypeOK, EveryCallAudited
<1>3. \A t \in Tools : Cardinality(Allowed(t)) \in Nat
  BY <1>2, PositionsFinite DEF Allowed
<1>4. \A t \in Tools : handled'[t] = Cardinality(Allowed(t)) + (IF tool = t THEN 1 ELSE 0)
  BY <1>1, <1>2, <1>3
<1>5. handled' \in [Tools -> Nat] /\ asked' \in Nat /\ tool # NoTool
  BY <1>1, <1>2, ToolsAssumption
<1>6. EveryCallAudited'
  <2>1. Len(audit') + (IF running' = NoTool THEN 0 ELSE 1) = asked'
    BY <1>1, <1>2, <1>5
  <2>2. \A t \in Tools :
          handled'[t] = Cardinality(Allowed(t)') + (IF running' = t THEN 1 ELSE 0)
    BY <1>1, <1>4 DEF Allowed
  <2>3. \A s \in Recorded :
           Cardinality(SavedWith(s)') + Cardinality(unsaved' \intersect Audited(s)')
             <= Cardinality(Audited(s)')
    <3>1. \A s : SavedWith(s)' = SavedWith(s) /\ Audited(s)' = Audited(s)
      BY <1>1 DEF SavedWith, Audited
    <3> QED
      BY <1>1, <1>2, <3>1
  <2> QED
    BY <2>1, <2>2, <2>3 DEF EveryCallAudited
<1>7. GatewayTypeOK'
  BY <1>1, <1>5 DEF AuditInv, GatewayTypeOK, TraceTypeOK
<1> QED
  BY <1>1, <1>6, <1>7 DEF AuditInv

LEMMA ReturnAudited ==
  ASSUME AuditInv, NEW tool \in Tools, NEW error \in Errors, Return(tool, error),
         UNCHANGED traceVars
  PROVE  AuditInv'
<1>1. /\ running = tool /\ running # NoTool /\ running' = NoTool
      /\ RecordCall(tool, TRUE, error)
      /\ UNCHANGED <<gate, handled, asked, traces, summary>>
  BY DEF Return, traceVars
<1>2. /\ audit' \in Seq(Entry) /\ Len(audit') = Len(audit) + 1
      /\ unsaved' \subseteq DOMAIN audit' /\ saved' = saved
      /\ \A t \in Tools : Cardinality(Allowed(t))'
           = Cardinality(Allowed(t)) + (IF t = tool /\ TRUE THEN 1 ELSE 0)
      /\ \A s \in Recorded :
           Cardinality(SavedWith(s))' + Cardinality(unsaved \intersect Audited(s))'
             <= Cardinality(Audited(s))'
  BY <1>1, CallRecorded
<1>3. /\ audit \in Seq(Entry) /\ Len(audit) \in Nat /\ Len(audit) + 1 = asked
      /\ \A t \in Tools :
           handled[t] = Cardinality(Allowed(t)) + (IF tool = t THEN 1 ELSE 0)
  BY <1>1 DEF AuditInv, GatewayTypeOK, EveryCallAudited
<1>4. \A t \in Tools : Cardinality(Allowed(t)) \in Nat
  BY <1>3, PositionsFinite DEF Allowed
<1>5. \A t \in Tools : handled'[t] = Cardinality(Allowed(t))' + (IF running' = t THEN 1 ELSE 0)
  BY <1>1, <1>2, <1>3, <1>4, ToolsAssumption
<1>6. Len(audit') + (IF running' = NoTool THEN 0 ELSE 1) = asked'
  BY <1>1, <1>2, <1>3
<1>7. EveryCallAudited'
  BY <1>2, <1>5, <1>6 DEF EveryCallAudited
<1>8. GatewayTypeOK'
  BY <1>1, <1>2 DEF AuditInv, GatewayTypeOK, TraceTypeOK
<1> QED
  BY <1>2, <1>7, <1>8 DEF AuditInv

\* A trace for a finished task, or none, and the task is over.
LEMMA SaveAudited ==
  ASSUME AuditInv, SaveAudit
  PROVE  AuditInv'
<1>1. /\ audit \in Seq(Entry) /\ unsaved \subseteq DOMAIN audit /\ saved \subseteq traces
      /\ traces \subseteq Rows /\ IsFiniteSet(saved)
      /\ saved' = saved \union (traces' \ traces)
      /\ UNCHANGED <<gate, running, audit, handled, asked, summary>>
  BY DEF AuditInv, GatewayTypeOK, TraceTypeOK, SaveAudit
<1>2. PICK i \in unsaved : Record("tool", AuditStatus(audit[i])) /\ unsaved' = unsaved \ {i}
  BY DEF SaveAudit
<1> DEFINE status == AuditStatus(audit[i])
<1>3. status \in Recorded
  <2>1. audit[i] \in Entry
    BY <1>1, <1>2
  <2> QED
    BY <2>1, StatusRecorded
<1>4. \/ UNCHANGED traces
      \/ \E trace \in Rows : /\ trace \notin traces /\ traces' = traces \union {trace}
                           /\ trace.status = status
  <2>1. "tool" \in Kinds /\ status \in Recorded \union InFlight
    BY <1>3 DEF Kinds
  <2> HIDE DEF status
  <2>2. Record("tool", status)
    BY <1>2 DEF status
  <2> QED
    BY <1>1, <2>1, <2>2, RecordAdds
<1> HIDE DEF status
<1>5. \/ saved' = saved /\ traces' = traces
      \/ \E trace \in Rows : /\ trace \notin saved /\ saved' = saved \union {trace}
                           /\ traces' = traces \union {trace} /\ trace.status = status
  BY <1>1, <1>4
<1>6. /\ IsFiniteSet(saved') /\ saved' \subseteq traces' /\ traces' \subseteq Rows
      /\ unsaved' \subseteq DOMAIN audit'
  BY <1>1, <1>2, <1>5, FS_AddElement
<1>7. ASSUME NEW s \in Recorded
      PROVE  Cardinality(SavedWith(s)') + Cardinality(unsaved' \intersect Audited(s)')
               <= Cardinality(Audited(s)')
  <2> DEFINE kept  == Cardinality(SavedWith(s))
             open  == Cardinality(unsaved \intersect Audited(s))
             shown == Cardinality(Audited(s))
  <2>1. kept + open <= shown /\ Audited(s)' = Audited(s)
    BY <1>1 DEF AuditInv, EveryCallAudited, Audited
  <2>2. IsFiniteSet(SavedWith(s)) /\ kept \in Nat
    <3>1. SavedWith(s) \in SUBSET saved
      BY DEF SavedWith
    <3> QED
      BY <1>1, <3>1, FS_Subset, FS_CardinalityType
  <2>3. /\ IsFiniteSet(unsaved \intersect Audited(s)) /\ open \in Nat /\ shown \in Nat
        /\ Audited(s) \subseteq DOMAIN audit
    BY <1>1, PositionsFinite DEF Audited
  <2>4. Cardinality((unsaved \intersect Audited(s)) \ {i})
          = IF i \in unsaved \intersect Audited(s) THEN open - 1 ELSE open
    BY <2>3, FS_RemoveElement
  <2>5. unsaved' \intersect Audited(s)' = (unsaved \intersect Audited(s)) \ {i}
    BY <1>2, <2>1
  <2>6. CASE status = s
    <3>1. i \in unsaved \intersect Audited(s)
      BY <1>1, <1>2, <2>6 DEF Audited, status
    <3>2. Cardinality(unsaved' \intersect Audited(s)') = open - 1
      BY <2>4, <2>5, <3>1
    <3>3. Cardinality(SavedWith(s)') \in {kept, kept + 1}
      <4>1. CASE saved' = saved
        BY <4>1 DEF SavedWith
      <4>2. ASSUME NEW trace \in Rows, trace \notin saved, saved' = saved \union {trace},
                   trace.status = status
            PROVE  Cardinality(SavedWith(s)') = kept + 1
        <5>1. SavedWith(s)' = SavedWith(s) \union {trace} /\ trace \notin SavedWith(s)
          BY <2>6, <4>2 DEF SavedWith
        <5>2. Cardinality(SavedWith(s) \union {trace}) = kept + 1
          BY <2>2, <5>1, FS_AddElement
        <5> QED
          BY <5>1, <5>2
      <4> QED
        BY <1>5, <4>1, <4>2
    <3> QED
      BY <2>1, <2>2, <2>3, <3>2, <3>3
  <2>7. CASE status # s
    <3>1. SavedWith(s)' = SavedWith(s)
      BY <1>5, <2>7 DEF SavedWith
    <3>2. Cardinality(unsaved' \intersect Audited(s)') \in {open - 1, open}
      BY <2>4, <2>5
    <3> QED
      BY <2>1, <2>2, <2>3, <3>1, <3>2
  <2> QED
    BY <2>6, <2>7
<1>8. EveryCallAudited'
  <2>1. Len(audit') + (IF running' = NoTool THEN 0 ELSE 1) = asked'
    BY <1>1 DEF AuditInv, EveryCallAudited
  <2>2. \A t \in Tools :
          handled'[t] = Cardinality(Allowed(t)') + (IF running' = t THEN 1 ELSE 0)
    BY <1>1 DEF AuditInv, EveryCallAudited, Allowed
  <2> QED
    BY <1>7, <2>1, <2>2 DEF EveryCallAudited
<1>9. GatewayTypeOK'
  BY <1>1, <1>6 DEF AuditInv, GatewayTypeOK, TraceTypeOK
<1> QED
  BY <1>6, <1>8, <1>9 DEF AuditInv

LEMMA LoseAudited ==
  ASSUME AuditInv, LoseUnsaved
  PROVE  AuditInv'
<1>1. /\ unsaved' = {} /\ audit \in Seq(Entry)
      /\ UNCHANGED <<traces, summary, gate, running, audit, saved, handled, asked>>
  BY DEF AuditInv, GatewayTypeOK, LoseUnsaved, traceVars
<1>2. ASSUME NEW s \in Recorded
      PROVE  Cardinality(SavedWith(s)') + Cardinality(unsaved' \intersect Audited(s)')
               <= Cardinality(Audited(s)')
  <2>1. /\ SavedWith(s)' = SavedWith(s) /\ Audited(s)' = Audited(s)
        /\ unsaved' \intersect Audited(s)' = {}
    BY <1>1 DEF SavedWith, Audited
  <2>2. Cardinality(SavedWith(s)) + Cardinality(unsaved \intersect Audited(s))
          <= Cardinality(Audited(s))
    BY DEF AuditInv, EveryCallAudited
  <2>3. Cardinality(SavedWith(s)) \in Nat
    <3>1. SavedWith(s) \in SUBSET saved /\ IsFiniteSet(saved)
      BY DEF SavedWith, AuditInv
    <3> QED
      BY <3>1, FS_Subset, FS_CardinalityType
  <2>4. Cardinality(unsaved \intersect Audited(s)) \in Nat /\ Cardinality(Audited(s)) \in Nat
    BY <1>1, PositionsFinite DEF Audited
  <2>5. Cardinality({}) = 0
    BY FS_EmptySet
  <2> QED
    BY <2>1, <2>2, <2>3, <2>4, <2>5
<1>3. EveryCallAudited'
  <2>1. /\ Len(audit') + (IF running' = NoTool THEN 0 ELSE 1) = asked'
        /\ \A t \in Tools :
             handled'[t] = Cardinality(Allowed(t)') + (IF running' = t THEN 1 ELSE 0)
    BY <1>1 DEF AuditInv, EveryCallAudited, Allowed
  <2> QED
    BY <1>2, <2>1 DEF EveryCallAudited
<1> QED
  BY <1>1, <1>3 DEF AuditInv, GatewayTypeOK, TraceTypeOK

\* Rows of others change nothing here.
LEMMA OthersAudited ==
  ASSUME AuditInv, traces \subseteq traces', traces' \subseteq Rows,
         UNCHANGED <<summary, gate, running, audit, unsaved, saved, handled, asked>>
  PROVE  AuditInv'
<1>1. /\ \A t : Allowed(t)' = Allowed(t)
      /\ \A s : SavedWith(s)' = SavedWith(s) /\ Audited(s)' = Audited(s)
  BY DEF Allowed, Audited, SavedWith
<1>2. EveryCallAudited'
  BY <1>1 DEF AuditInv, EveryCallAudited
<1> QED
  BY <1>2 DEF AuditInv, GatewayTypeOK, TraceTypeOK

-----------------------------------------------------------------------------
(* The research request that calls the tools.                              *)
Requests == [stage: ResearchStages, odd: BOOLEAN, left: 0..MaxQuestions, hits: HitLists,
             seen: SUBSET Urls, sources: Seq([n: Nat, url: Urls])]

\* The calls that fetched a page.
Found    == {i \in Allowed("fetch") : audit[i].error = "none"}
Cited(r) == {r.sources[i].url : i \in DOMAIN r.sources}

\* What is being fetched is a url that no source has.
Fetching(r)  == r.stage = "fetching" => r.hits # <<>> /\ Head(r.hits) \in Urls \ r.seen
Searching(r) == r.stage = "searching" => r.left > 0

ResearchInv ==
  /\ AuditInv /\ research \in Requests /\ Fetching(research) /\ Searching(research)
  /\ Cited(research) = research.seen /\ SourcesCited

LEMMA FoundFinite ==
  ASSUME AuditInv
  PROVE  IsFiniteSet(Found) /\ Cardinality(Found) \in Nat
<1>1. Found \in SUBSET DOMAIN audit
  BY DEF Found, Allowed
<1> QED
  BY <1>1, PositionsFinite DEF AuditInv, GatewayTypeOK

LEMMA FoundGrows ==
  ASSUME AuditInv, NEW tool \in Tools, NEW allowed \in BOOLEAN, NEW error \in Errors,
         RecordCall(tool, allowed, error)
  PROVE  /\ Cardinality(Found)' >= Cardinality(Found)
         /\ tool = "fetch" /\ allowed /\ error = "none"
              => Cardinality(Found)' = Cardinality(Found) + 1
<1> DEFINE entry == [tool |-> tool, allowed |-> allowed, error |-> error]
           n     == Len(audit) + 1
<1>1. /\ audit \in Seq(Entry) /\ audit' = Append(audit, entry) /\ entry \in Entry
      /\ entry.tool = tool /\ entry.allowed = allowed /\ entry.error = error
  BY DEF AuditInv, GatewayTypeOK, RecordCall, Entry
<1> HIDE DEF entry
<1>2. /\ n \notin DOMAIN audit /\ DOMAIN audit' = DOMAIN audit \union {n}
      /\ audit'[n] = entry /\ \A i \in DOMAIN audit : audit'[i] = audit[i]
      /\ Allowed("fetch")' = Allowed("fetch")
           \union (IF entry.tool = "fetch" /\ entry.allowed THEN {n} ELSE {})
  BY <1>1, OneEntryMore
<1>3. Allowed("fetch") \subseteq DOMAIN audit
  BY DEF Allowed
<1>4. IsFiniteSet(Found) /\ Cardinality(Found) \in Nat /\ n \notin Found
  BY <1>2, <1>3, FoundFinite DEF Found
<1> HIDE DEF n
<1>5. CASE tool = "fetch" /\ allowed /\ error = "none"
  <2>1. Found' = Found \union {n}
    BY <1>1, <1>2, <1>3, <1>5 DEF Found
  <2>2. Cardinality(Found \union {n}) = Cardinality(Found) + 1
    BY <1>4, FS_AddElement
  <2> QED
    BY <1>4, <2>1, <2>2
<1>6. CASE ~(tool = "fetch" /\ allowed /\ error = "none")
  <2>1. Found' = Found
    BY <1>1, <1>2, <1>3, <1>6 DEF Found
  <2> QED
    BY <1>4, <1>6, <2>1
<1> QED
  BY <1>5, <1>6

LEMMA FoundStays ==
  ASSUME AuditInv, audit' = audit
  PROVE  Cardinality(Found)' >= Cardinality(Found)
<1>1. Found' = Found
  BY DEF Found, Allowed
<1> QED
  BY <1>1, FoundFinite

\* The sources stay as they are.
LEMMA SourcesStay ==
  ASSUME ResearchInv, AuditInv', research' \in Requests, Fetching(research'),
         Searching(research'),
         research'.sources = research.sources, research'.seen = research.seen,
         Cardinality(Found)' >= Cardinality(Found)
  PROVE  ResearchInv'
<1>1. Cited(research') = research'.seen
  BY DEF ResearchInv, Cited
<1>2. /\ research.sources \in Seq([n: Nat, url: Urls]) /\ Len(research.sources) \in Nat
      /\ Cardinality(Found) \in Nat
  BY FoundFinite DEF ResearchInv, Requests
<1>3. Cardinality(Found') \in Nat
  <2>1. audit' \in Seq(Entry) /\ IsFiniteSet(1..Len(audit')) /\ Found' \in SUBSET (1..Len(audit'))
    <3>1. audit' \in Seq(Entry)
      BY DEF AuditInv, GatewayTypeOK
    <3>2. Len(audit') \in Nat /\ DOMAIN audit' = 1..Len(audit')
      BY <3>1
    <3>3. Found' \in SUBSET (1..Len(audit'))
      BY <3>2 DEF Found, Allowed
    <3>4. IsFiniteSet(1..Len(audit'))
      BY <3>2, FS_Interval
    <3> QED
      BY <3>1, <3>3, <3>4
  <2> QED
    BY <2>1, FS_Subset, FS_CardinalityType
<1>4. Len(research.sources) <= Cardinality(Found)
  BY DEF ResearchInv, SourcesCited, Found
<1>5. Len(research'.sources) <= Cardinality(Found')
  BY <1>2, <1>3, <1>4
<1>6. SourcesCited'
  BY <1>5 DEF ResearchInv, SourcesCited, Found
<1> QED
  BY <1>1, <1>6 DEF ResearchInv

\* A page that was fetched is one more source, with the next number and a url of its own.
LEMMA SourceAdded ==
  ASSUME ResearchInv, AuditInv', NEW url \in Urls \ research.seen,
         research' \in Requests, Fetching(research'), Searching(research'),
         research'.sources = Append(research.sources, Numbered(url)),
         research'.seen = research.seen \union {url},
         Cardinality(Found)' = Cardinality(Found) + 1
  PROVE  ResearchInv'
<1> DEFINE old == research.sources
           new == research'.sources
           n   == Len(old) + 1
           one == Numbered(url)
<1>1. /\ old \in Seq([n: Nat, url: Urls]) /\ Len(old) \in Nat /\ DOMAIN old = 1..Len(old)
      /\ Cardinality(Found) \in Nat
  BY FoundFinite DEF ResearchInv, Requests
<1>2. one \in [n: Nat, url: Urls] /\ one.n = n /\ one.url = url
  BY <1>1 DEF Numbered
<1> HIDE DEF one
<1>3. new = Append(old, one)
  BY DEF one
<1>4. /\ Len(new) = n /\ DOMAIN new = 1..n /\ new[n] = one /\ n \in Nat
      /\ \A i \in 1..Len(old) : new[i] = old[i]
  BY <1>1, <1>2, <1>3
<1>5. /\ \A i \in DOMAIN old : old[i].n = i
      /\ \A i, j \in DOMAIN old : old[i].url = old[j].url => i = j
      /\ Len(old) <= Cardinality(Found)
      /\ {old[i].url : i \in DOMAIN old} = research.seen
  BY DEF ResearchInv, SourcesCited, Found, Cited
<1>6. \A i \in 1..n : i = n \/ i \in 1..Len(old)
  BY <1>1
<1> HIDE DEF old, new
<1>7. \A i \in 1..n : new[i].n = i
  BY <1>1, <1>2, <1>4, <1>5, <1>6
<1>8. \A i \in 1..Len(old) : new[i].url # url
  <2>1. \A i \in 1..Len(old) : old[i].url \in research.seen
    BY <1>1, <1>5
  <2> QED
    BY <1>4, <2>1
<1>9. \A i, j \in 1..n : new[i].url = new[j].url => i = j
  <2> HIDE DEF n
  <2> QED
    BY <1>1, <1>2, <1>4, <1>5, <1>6, <1>8
<1>10. {new[i].url : i \in 1..n} = research.seen \union {url}
  <2>1. {new[i].url : i \in 1..n} = {new[i].url : i \in 1..Len(old)} \union {new[n].url}
    <3>1. \A i \in 1..Len(old) : i \in 1..n
      BY <1>1
    <3>2. n \in 1..n
      BY <1>1
    <3> HIDE DEF n
    <3> QED
      BY <1>6, <3>1, <3>2
  <2>2. {new[i].url : i \in 1..Len(old)} = {old[i].url : i \in 1..Len(old)}
    BY <1>4
  <2> QED
    BY <1>1, <1>2, <1>4, <1>5, <2>1, <2>2
<1>11. Cited(research') = research'.seen
  BY <1>4, <1>10 DEF Cited, new
<1>12. Len(new) <= Cardinality(Found)'
  BY <1>1, <1>4, <1>5
<1>13. SourcesCited'
  BY <1>4, <1>7, <1>9, <1>12 DEF SourcesCited, Found, new
<1> QED
  BY <1>11, <1>13 DEF ResearchInv

-----------------------------------------------------------------------------
\* The hits that are left of a search are hits.
LEMMA FewerHits ==
  ASSUME NEW h \in HitLists, h # <<>>
  PROVE  Tail(h) \in HitLists /\ Head(h) \in Urls \union {NoUrl}
<1> DEFINE S == Urls \union {NoUrl}
<1>1. PICK m \in 0..MaxHits : h \in [1..m -> S]
  BY DEF HitLists, SeqOf
<1>2. MaxHits \in Nat
  BY DEF MaxHits
<1>3. m \in Nat /\ m # 0
  <2>1. ASSUME m = 0 PROVE FALSE
    <3>1. h \in Seq(S) /\ Len(h) = 0
      BY <1>1, <2>1
    <3> QED
      BY <3>1
  <2> QED
    BY <1>2, <2>1
<1>4. h \in Seq(S) /\ Len(h) = m
  BY <1>1, <1>3
<1> HIDE DEF S
<1>5. m - 1 \in 0..MaxHits
  BY <1>1, <1>2, <1>3
<1>6. Tail(h) \in [1..(m - 1) -> S]
  <2>1. Tail(h) \in Seq(S) /\ Len(Tail(h)) = m - 1
    BY <1>3, <1>4
  <2> DEFINE t == Tail(h)
  <2>2. t \in Seq(S) /\ DOMAIN t = 1..(m - 1)
    BY <1>3, <2>1
  <2> HIDE DEF t
  <2>3. t = [i \in DOMAIN t |-> t[i]] /\ \A i \in DOMAIN t : t[i] \in S
    BY <2>2
  <2>4. t \in [1..(m - 1) -> S]
    BY <2>2, <2>3, Zenon
  <2> QED
    BY <2>4 DEF t
<1>7. Head(h) \in S
  BY <1>3, <1>4
<1> QED
  BY <1>5, <1>6, <1>7 DEF HitLists, SeqOf, S

LEMMA OnwardKeeps ==
  ASSUME NEW r \in Requests
  PROVE  /\ Onward(r) \in Requests /\ Onward(r).stage \in {"reporting", "searching"}
         /\ Onward(r).stage = "searching" => Onward(r).left > 0
         /\ Onward(r).sources = r.sources /\ Onward(r).seen = r.seen
<1> DEFINE stage == IF r.left = 0 THEN "reporting" ELSE "searching"
<1>1. /\ stage \in ResearchStages /\ stage \in {"reporting", "searching"}
      /\ stage = "searching" => r.left > 0
  BY ResearchAssumption DEF Requests, ResearchStages
<1>2. Onward(r) = [r EXCEPT !.stage = stage]
  BY DEF Onward
<1> HIDE DEF stage
<1>3. /\ Onward(r) \in Requests /\ Onward(r).stage = stage /\ Onward(r).left = r.left
      /\ Onward(r).sources = r.sources /\ Onward(r).seen = r.seen
  BY <1>1, <1>2 DEF Requests
<1> QED
  BY <1>1, <1>3

LEMMA DropKeeps ==
  ASSUME NEW r \in Requests, r.hits # <<>>
  PROVE  /\ Drop(r) \in Requests /\ Drop(r).stage \in {"hits", "reporting", "searching"}
         /\ Drop(r).stage = "searching" => Drop(r).left > 0
         /\ Drop(r).sources = r.sources /\ Drop(r).seen = r.seen
<1> DEFINE rest == [r EXCEPT !.stage = "hits", !.hits = Tail(@)]
<1>1. r.hits \in HitLists
  BY DEF Requests
<1>2. Tail(r.hits) \in HitLists
  BY <1>1, FewerHits
<1>3. /\ rest \in Requests /\ rest.stage = "hits" /\ rest.sources = r.sources
      /\ rest.seen = r.seen
  BY <1>2 DEF Requests, ResearchStages
<1>4. Drop(r) = IF rest.hits = <<>> THEN Onward(rest) ELSE rest
  BY DEF Drop
<1> HIDE DEF rest
<1> QED
  BY <1>3, <1>4, OnwardKeeps

\* A request that changes its stage, and one that has a sub-question less.
LEMMA StageMoves ==
  ASSUME NEW r \in Requests, NEW stage \in ResearchStages
  PROVE  LET next == [r EXCEPT !.stage = stage] IN
         /\ next \in Requests /\ next.stage = stage /\ next.hits = r.hits
         /\ next.seen = r.seen /\ next.sources = r.sources
  BY DEF Requests

LEMMA QuestionDone ==
  ASSUME NEW r \in Requests, r.left > 0
  PROVE  LET next == [r EXCEPT !.left = @ - 1] IN
         /\ next \in Requests /\ next.seen = r.seen /\ next.sources = r.sources
  BY ResearchAssumption DEF Requests

LEMMA BuiltinTools == "web_search" \in Tools /\ "fetch" \in Tools
  BY ResearchAssumption DEF Builtin

LEMMA AuditSame ==
  ASSUME AuditInv, UNCHANGED gatewayVars
  PROVE  AuditInv'
<1>1. traces' \subseteq Rows
  BY DEF AuditInv, GatewayTypeOK, TraceTypeOK, gatewayVars, traceVars
<1> QED
  BY <1>1, OthersAudited DEF gatewayVars, traceVars

LEMMA ResearchStarts == ResearchInit => ResearchInv
<1> SUFFICES ASSUME ResearchInit PROVE ResearchInv
  OBVIOUS
<1>1. PICK odd \in BOOLEAN, registry \in SUBSET Tools, allow \in SUBSET Tools :
        /\ GatewayInit(registry, allow)
        /\ research = [stage |-> "idle", odd |-> odd, left |-> 0, hits |-> <<>>, seen |-> {},
                       sources |-> <<>>]
  BY ResearchAssumption DEF ResearchInit, Offered
<1>2. AuditInv
  BY <1>1, AuditStarts
<1>3. <<>> \in HitLists
  <2>1. <<>> \in [1..0 -> Urls \union {NoUrl}] /\ 0 \in 0..MaxHits
    BY DEF MaxHits
  <2> QED
    BY <2>1 DEF HitLists, SeqOf
<1>4. research \in Requests
  BY <1>1, <1>3, ResearchAssumption DEF Requests, ResearchStages
<1>5. Fetching(research) /\ Searching(research) /\ Cited(research) = research.seen
  BY <1>1 DEF Fetching, Searching, Cited
<1>6. SourcesCited
  BY <1>1, <1>2, FoundFinite DEF SourcesCited, Found
<1> QED
  BY <1>2, <1>4, <1>5, <1>6 DEF ResearchInv

\* A call that is answered without a new source.
LEMMA AnswerKeeps ==
  ASSUME ResearchInv, NEW tool \in Tools, UNCHANGED traceVars,
         Deny(tool) \/ \E error \in Errors : Return(tool, error),
         research' \in Requests, Fetching(research'), Searching(research'),
         research'.sources = research.sources, research'.seen = research.seen
  PROVE  ResearchInv'
<1>0. AuditInv
  BY DEF ResearchInv
<1>1. CASE Deny(tool)
  <2>1. AuditInv'
    BY <1>0, <1>1, DenyAudited
  <2>2. RecordCall(tool, FALSE, "message") /\ FALSE \in BOOLEAN /\ "message" \in Errors
    BY <1>1 DEF Deny, Errors
  <2>3. Cardinality(Found)' >= Cardinality(Found)
    BY <1>0, <2>2, FoundGrows
  <2> QED
    BY <2>1, <2>3, SourcesStay
<1>2. CASE \E error \in Errors : Return(tool, error)
  <2>0. PICK error \in Errors : Return(tool, error)
    BY <1>2
  <2>1. AuditInv'
    BY <1>0, <2>0, ReturnAudited
  <2>2. RecordCall(tool, TRUE, error)
    BY <2>0 DEF Return
  <2>3. Cardinality(Found)' >= Cardinality(Found)
    BY <1>0, <2>2, FoundGrows
  <2> QED
    BY <2>1, <2>3, SourcesStay
<1> QED
  BY <1>1, <1>2

\* A step that calls no tool, or starts one.
LEMMA AuditStays ==
  ASSUME ResearchInv, AuditInv', audit' = audit,
         research' \in Requests, Fetching(research'), Searching(research'),
         research'.sources = research.sources, research'.seen = research.seen
  PROVE  ResearchInv'
<1>1. Cardinality(Found)' >= Cardinality(Found)
  BY FoundStays DEF ResearchInv
<1> QED
  BY <1>1, SourcesStay

LEMMA PlanKeeps == ResearchInv /\ (AskResearch \/ PlanResearch \/ ModelGone) => ResearchInv'
<1> SUFFICES ASSUME ResearchInv, AskResearch \/ PlanResearch \/ ModelGone PROVE ResearchInv'
  OBVIOUS
<1>1. AuditInv' /\ audit' = audit
  BY AuditSame DEF ResearchInv, AskResearch, PlanResearch, ModelGone, gatewayVars
<1>2. research \in Requests
  BY DEF ResearchInv
<1>3. CASE AskResearch \/ ModelGone
  <2>1. PICK stage \in {"planning", "failed"} : research' = [research EXCEPT !.stage = stage]
    BY <1>3 DEF AskResearch, ModelGone
  <2>2. /\ research' \in Requests /\ research'.stage \notin {"searching", "fetching"}
        /\ research'.sources = research.sources /\ research'.seen = research.seen
    <3>1. stage \in ResearchStages
      BY DEF ResearchStages
    <3> QED
      BY <1>2, <2>1, <3>1, StageMoves
  <2> QED
    BY <1>1, <2>2, AuditStays DEF Fetching, Searching
<1>4. CASE PlanResearch
  <2>1. PICK n \in 1..MaxQuestions :
          research' = [research EXCEPT !.stage = "searching", !.left = n]
    BY <1>4 DEF PlanResearch
  <2>2. /\ research' \in Requests /\ research'.stage = "searching" /\ research'.left > 0
        /\ research'.sources = research.sources /\ research'.seen = research.seen
    <3>1. n \in 0..MaxQuestions /\ n > 0 /\ "searching" \in ResearchStages
      BY ResearchAssumption DEF ResearchStages
    <3> DEFINE Lefts == 0..MaxQuestions
    <3>2. /\ research \in [stage: ResearchStages, odd: BOOLEAN, left: Lefts, hits: HitLists,
                           seen: SUBSET Urls, sources: Seq([n: Nat, url: Urls])]
          /\ n \in Lefts
      BY <1>2, <3>1 DEF Requests
    <3> HIDE DEF Lefts
    <3>3. /\ research' \in [stage: ResearchStages, odd: BOOLEAN, left: Lefts, hits: HitLists,
                            seen: SUBSET Urls, sources: Seq([n: Nat, url: Urls])]
          /\ research'.stage = "searching" /\ research'.left = n
          /\ research'.sources = research.sources /\ research'.seen = research.seen
      BY <2>1, <3>1, <3>2
    <3> QED
      BY <3>1, <3>3 DEF Requests, Lefts
  <2> QED
    BY <1>1, <2>2, AuditStays DEF Fetching, Searching
<1> QED
  BY <1>3, <1>4

LEMMA SearchKeeps ==
  ResearchInv /\ (SearchDenied \/ Search) => ResearchInv'
<1> SUFFICES ASSUME ResearchInv, SearchDenied \/ Search PROVE ResearchInv'
  OBVIOUS
<1>1. AuditInv /\ research \in Requests /\ "web_search" \in Tools
  BY BuiltinTools DEF ResearchInv
<1>2. CASE SearchDenied
  <2> DEFINE less == [research EXCEPT !.left = @ - 1]
  <2>1. /\ Deny("web_search") /\ research' = Onward(less) /\ UNCHANGED traceVars
        /\ research.left > 0
    BY <1>2 DEF SearchDenied, Here, ResearchInv, Searching
  <2>2. less \in Requests /\ less.seen = research.seen /\ less.sources = research.sources
    BY <1>1, <2>1, QuestionDone
  <2> HIDE DEF less
  <2>3. /\ research' \in Requests /\ Fetching(research') /\ Searching(research')
        /\ research'.sources = research.sources /\ research'.seen = research.seen
    BY <2>1, <2>2, OnwardKeeps DEF Fetching, Searching
  <2> QED
    BY <1>1, <2>1, <2>3, AnswerKeeps
<1>3. CASE Search
  <2>1. Invoke("web_search") /\ UNCHANGED traceVars /\ research' = research
    BY <1>3 DEF Search
  <2>2. AuditInv' /\ audit' = audit
    BY <1>1, <2>1, InvokeAudited DEF Invoke
  <2> QED
    BY <1>1, <2>1, <2>2, AuditStays DEF ResearchInv
<1> QED
  BY <1>2, <1>3

LEMMA SearchReturnKeeps ==
  ASSUME ResearchInv, NEW hits \in HitLists, NEW error \in Errors, SearchReturns(hits, error)
  PROVE  ResearchInv'
<1> DEFINE r == [research EXCEPT !.left = @ - 1, !.hits = hits, !.stage = "hits"]
<1>1. AuditInv /\ research \in Requests /\ "web_search" \in Tools /\ "hits" \in ResearchStages
  BY BuiltinTools DEF ResearchInv, ResearchStages
<1>2. /\ Return("web_search", error) /\ UNCHANGED traceVars /\ research.left > 0
      /\ research' = IF hits = <<>> THEN Onward(r) ELSE r
  BY DEF SearchReturns, Here, ResearchInv, Searching
<1>3. /\ r \in Requests /\ r.stage = "hits" /\ r.seen = research.seen
      /\ r.sources = research.sources
  <2>1. research.left - 1 \in 0..MaxQuestions
    BY <1>1, <1>2, ResearchAssumption DEF Requests
  <2> DEFINE Lefts == 0..MaxQuestions
             left  == research.left - 1
  <2>2. /\ research \in [stage: ResearchStages, odd: BOOLEAN, left: Lefts, hits: HitLists,
                         seen: SUBSET Urls, sources: Seq([n: Nat, url: Urls])]
        /\ left \in Lefts
    BY <1>1, <2>1 DEF Requests
  <2>3. r = [research EXCEPT !.left = left, !.hits = hits, !.stage = "hits"]
    OBVIOUS
  <2> HIDE DEF Lefts, left, r
  <2>4. /\ r \in [stage: ResearchStages, odd: BOOLEAN, left: Lefts, hits: HitLists,
                  seen: SUBSET Urls, sources: Seq([n: Nat, url: Urls])]
        /\ r.stage = "hits" /\ r.seen = research.seen /\ r.sources = research.sources
    BY <1>1, <2>2, <2>3
  <2> QED
    BY <2>4 DEF Requests, Lefts
<1> HIDE DEF r
<1>4. /\ research' \in Requests /\ Fetching(research') /\ Searching(research')
      /\ research'.sources = research.sources /\ research'.seen = research.seen
  BY <1>2, <1>3, OnwardKeeps DEF Fetching, Searching
<1> QED
  BY <1>1, <1>2, <1>4, AnswerKeeps

LEMMA HitKeeps == ResearchInv /\ (SkipHit \/ FetchDenied \/ Fetch) => ResearchInv'
<1> SUFFICES ASSUME ResearchInv, SkipHit \/ FetchDenied \/ Fetch PROVE ResearchInv'
  OBVIOUS
<1>1. /\ AuditInv /\ research \in Requests /\ "fetch" \in Tools /\ research.hits # <<>>
      /\ "fetching" \in ResearchStages
  BY BuiltinTools DEF ResearchInv, ResearchStages, SkipHit, FetchDenied, Fetch, AtHit
<1>2. CASE SkipHit \/ FetchDenied
  <2>1. research' = Drop(research)
    BY <1>2 DEF SkipHit, FetchDenied
  <2>2. /\ research' \in Requests /\ Fetching(research') /\ Searching(research')
        /\ research'.sources = research.sources /\ research'.seen = research.seen
    BY <1>1, <2>1, DropKeeps DEF Fetching, Searching
  <2>3. CASE SkipHit
    BY <1>1, <2>2, <2>3, AuditSame, AuditStays DEF SkipHit, gatewayVars
  <2>4. CASE FetchDenied
    BY <1>1, <2>2, <2>4, AnswerKeeps DEF FetchDenied
  <2> QED
    BY <1>2, <2>3, <2>4
<1>3. CASE Fetch
  <2>1. /\ Invoke("fetch") /\ UNCHANGED traceVars /\ ~Unwanted(Url)
        /\ research' = [research EXCEPT !.stage = "fetching"]
    BY <1>3 DEF Fetch
  <2>2. AuditInv' /\ audit' = audit
    BY <1>1, <2>1, InvokeAudited DEF Invoke
  <2>3. /\ research' \in Requests /\ research'.stage = "fetching"
        /\ research'.hits = research.hits
        /\ research'.sources = research.sources /\ research'.seen = research.seen
    BY <1>1, <2>1, StageMoves
  <2>4. Head(research.hits) \in Urls \ research.seen
    <3>1. research.hits \in HitLists
      BY <1>1 DEF Requests
    <3>2. Head(research.hits) \in Urls \union {NoUrl}
      BY <1>1, <3>1, FewerHits
    <3> QED
      BY <2>1, <3>2 DEF Unwanted, Url
  <2>5. Fetching(research') /\ Searching(research')
    BY <1>1, <2>3, <2>4 DEF Fetching, Searching
  <2> QED
    BY <2>2, <2>3, <2>5, AuditStays
<1> QED
  BY <1>2, <1>3

LEMMA FetchReturnKeeps ==
  ASSUME ResearchInv, NEW error \in Errors, NEW something \in BOOLEAN,
         FetchReturns(error, something)
  PROVE  ResearchInv'
<1> DEFINE url  == Url
           more == [research EXCEPT !.seen = @ \union {url},
                                    !.sources = Append(@, Numbered(url))]
<1>1. /\ AuditInv /\ research \in Requests /\ "fetch" \in Tools
      /\ Return("fetch", error) /\ UNCHANGED traceVars
      /\ research.hits # <<>> /\ url \in Urls \ research.seen
  BY BuiltinTools DEF ResearchInv, FetchReturns, Here, Fetching, Url
<1>2. CASE ~something
  <2>1. research' = Drop(research)
    BY <1>2 DEF FetchReturns
  <2>2. /\ research' \in Requests /\ Fetching(research') /\ Searching(research')
        /\ research'.sources = research.sources /\ research'.seen = research.seen
    BY <1>1, <2>1, DropKeeps DEF Fetching, Searching
  <2> QED
    BY <1>1, <2>2, AnswerKeeps
<1>3. CASE something
  <2>1. research' = Drop(more) /\ error = "none"
    BY <1>3 DEF FetchReturns
  <2>2. Numbered(url) \in [n: Nat, url: Urls]
    BY <1>1 DEF Numbered, Requests
  <2> HIDE DEF url
  <2>3. /\ Append(research.sources, Numbered(url)) \in Seq([n: Nat, url: Urls])
        /\ research.seen \union {url} \in SUBSET Urls
    BY <1>1, <2>2 DEF Requests
  <2>4. /\ more \in Requests /\ more.hits = research.hits
        /\ more.sources = Append(research.sources, Numbered(url))
        /\ more.seen = research.seen \union {url}
    <3> DEFINE seen    == research.seen \union {url}
               sources == Append(research.sources, Numbered(url))
    <3>1. more = [research EXCEPT !.seen = seen, !.sources = sources]
      OBVIOUS
    <3>2. seen \in SUBSET Urls /\ sources \in Seq([n: Nat, url: Urls])
      BY <2>3
    <3> HIDE DEF seen, sources, more
    <3>3. /\ more \in Requests /\ more.hits = research.hits
          /\ more.sources = sources /\ more.seen = seen
      BY <1>1, <3>1, <3>2 DEF Requests
    <3> QED
      BY <3>3 DEF seen, sources
  <2> HIDE DEF more
  <2>5. /\ research' \in Requests /\ Fetching(research') /\ Searching(research')
        /\ research'.sources = Append(research.sources, Numbered(url))
        /\ research'.seen = research.seen \union {url}
    BY <1>1, <2>1, <2>4, DropKeeps DEF Fetching, Searching
  <2>6. RecordCall("fetch", TRUE, error) /\ TRUE \in BOOLEAN
    BY <1>1 DEF Return
  <2>7. Cardinality(Found)' = Cardinality(Found) + 1
    BY <1>1, <2>1, <2>6, FoundGrows
  <2>8. AuditInv'
    BY <1>1, ReturnAudited
  <2> QED
    BY <1>1, <2>5, <2>7, <2>8, SourceAdded
<1> QED
  BY <1>2, <1>3

LEMMA EndKeeps == ResearchInv /\ (Report \/ OddResult) => ResearchInv'
<1> SUFFICES ASSUME ResearchInv, Report \/ OddResult PROVE ResearchInv'
  OBVIOUS
<1>1. AuditInv /\ research \in Requests
  BY DEF ResearchInv
<1>2. PICK stage \in {"done", "failed"} : research' = [research EXCEPT !.stage = stage]
  BY DEF Report, OddResult
<1>3. /\ research' \in Requests /\ Fetching(research') /\ Searching(research')
      /\ research'.sources = research.sources /\ research'.seen = research.seen
  <2>1. stage \in ResearchStages
    BY DEF ResearchStages
  <2>2. /\ research' \in Requests /\ research'.stage = stage
        /\ research'.sources = research.sources /\ research'.seen = research.seen
    BY <1>1, <1>2, <2>1, StageMoves
  <2> QED
    BY <2>2 DEF Fetching, Searching
<1>4. CASE Report
  <2>1. "agent" \in Kinds /\ "completed" \in Recorded \union InFlight /\ traces \subseteq Rows
    BY <1>1 DEF Kinds, Recorded, AuditInv, GatewayTypeOK, TraceTypeOK
  <2>2. traces \subseteq traces' /\ traces' \subseteq Rows
    <3>1. Record("agent", "completed")
      BY <1>4 DEF Report
    <3> QED
      BY <2>1, <3>1, RecordAdds
  <2>3. UNCHANGED <<summary, gate, running, audit, unsaved, saved, handled, asked>>
    BY <1>4 DEF Report
  <2>4. AuditInv'
    BY <1>1, <2>2, <2>3, OthersAudited
  <2> QED
    BY <1>3, <2>3, <2>4, AuditStays
<1>5. CASE OddResult
  <2>1. /\ UNCHANGED traceVars /\ "none" \in Errors
        /\ Return("web_search", "none") \/ Return("fetch", "none")
    BY <1>5 DEF OddResult, Errors
  <2> QED
    BY <1>3, <2>1, BuiltinTools, AnswerKeeps
<1> QED
  BY <1>4, <1>5

LEMMA BackgroundKeeps == ResearchInv /\ Background => ResearchInv'
<1> SUFFICES ASSUME ResearchInv, Background PROVE ResearchInv'
  OBVIOUS
<1>1. AuditInv' /\ audit' = audit /\ research' = research
  BY SaveAudited, LoseAudited DEF ResearchInv, Background, SaveAudit, LoseUnsaved
<1> QED
  BY <1>1, AuditStays DEF ResearchInv

LEMMA ResearchKeeps == ResearchInv /\ [ResearchNext]_researchVars => ResearchInv'
<1> SUFFICES ASSUME ResearchInv, [ResearchNext]_researchVars PROVE ResearchInv'
  OBVIOUS
<1>1. CASE UNCHANGED researchVars
  <2>1. AuditInv' /\ audit' = audit /\ research' = research
    BY <1>1, AuditSame DEF ResearchInv, researchVars, gatewayVars
  <2> QED
    BY <2>1, AuditStays DEF ResearchInv
<1>2. CASE AskResearch
  BY <1>2, PlanKeeps
<1>3. CASE ResearchStep
  BY <1>3, PlanKeeps, SearchKeeps, SearchReturnKeeps, HitKeeps, FetchReturnKeeps, EndKeeps
    DEF ResearchStep
<1>4. CASE Background
  BY <1>4, BackgroundKeeps
<1> QED
  BY <1>1, <1>2, <1>3, <1>4 DEF ResearchNext

LEMMA ResearchCorrect == ResearchSpec => []ResearchInv
  BY ResearchStarts, ResearchKeeps, PTL DEF ResearchSpec

\* gateway.py:6-10: every call of the tool gateway leaves exactly one audit entry, no denied
\* call reaches a handler, and no entry is written to the trace store twice or out of nothing.
THEOREM CallsAreAudited == ResearchSpec => []EveryCallAudited
<1>1. ResearchInv => EveryCallAudited
  BY DEF ResearchInv, AuditInv
<1> QED
  BY <1>1, ResearchCorrect, PTL

\* research.py:87-102: the sources are numbered in order, none twice, and there are no more of
\* them than fetches the audit shows as allowed and without error.
THEOREM SourcesAreCited == ResearchSpec => []SourcesCited
<1>1. ResearchInv => SourcesCited
  BY DEF ResearchInv
<1> QED
  BY <1>1, ResearchCorrect, PTL

\* The type invariant of the request, its tool gateway and the trace store.
THEOREM ResearchTyped == ResearchSpec => []ResearchTypeOK
<1>1. ResearchInv => ResearchTypeOK
  BY DEF ResearchInv, AuditInv, ResearchTypeOK, Requests
<1> QED
  BY <1>1, ResearchCorrect, PTL
=============================================================================
