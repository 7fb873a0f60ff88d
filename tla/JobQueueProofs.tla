--------------------------- MODULE JobQueueProofs ---------------------------
(***************************************************************************)
(* Facts about the lists of the job queue and about each of its            *)
(* operations, for any number of runs, workers and slots.                  *)
(***************************************************************************)
EXTENDS JobQueue, SequenceTheorems, TLAPS

-----------------------------------------------------------------------------
(* What the Redis commands do to the set of entries of a list               *)

\* LPUSH: the entry joins at the head.
LEMMA PushHead ==
  ASSUME NEW S, NEW s \in Seq(S), NEW x \in S
  PROVE  /\ <<x>> \o s \in Seq(S)
         /\ ToSet(<<x>> \o s) = {x} \union ToSet(s)
<1> DEFINE t == <<x>> \o s
<1>1. /\ <<x>> \in Seq(S) /\ t \in Seq(S)
      /\ Len(t) = Len(s) + 1
      /\ t[1] = x
      /\ \A i \in 1..Len(s) : t[i + 1] = s[i]
  OBVIOUS
<1>2. ToSet(t) \subseteq {x} \union ToSet(s)
  <2> SUFFICES ASSUME NEW i \in 1..Len(t) PROVE t[i] \in {x} \union ToSet(s)
    BY <1>1 DEF ToSet
  <2>1. CASE i = 1
    BY <1>1, <2>1
  <2>2. CASE i # 1
    <3> i - 1 \in 1..Len(s) /\ t[(i - 1) + 1] = s[i - 1]
      BY <1>1, <2>2
    <3> QED
      BY <2>2 DEF ToSet
  <2> QED
    BY <2>1, <2>2
<1>3. {x} \union ToSet(s) \subseteq ToSet(t)
  <2>1. x \in ToSet(t)
    BY <1>1 DEF ToSet
  <2>2. ASSUME NEW i \in 1..Len(s) PROVE s[i] \in ToSet(t)
    <3> i + 1 \in DOMAIN t /\ t[i + 1] = s[i]
      BY <1>1
    <3> QED
      BY DEF ToSet
  <2> QED
    BY <2>1, <2>2 DEF ToSet
<1> QED
  BY <1>1, <1>2, <1>3

\* RPUSH: the entry joins at the tail.
LEMMA PushTail ==
  ASSUME NEW S, NEW s \in Seq(S), NEW x \in S
  PROVE  /\ Append(s, x) \in Seq(S)
         /\ ToSet(Append(s, x)) = ToSet(s) \union {x}
<1> DEFINE t == Append(s, x)
<1>1. /\ t \in Seq(S)
      /\ Len(t) = Len(s) + 1
      /\ t[Len(t)] = x
      /\ \A i \in 1..Len(s) : t[i] = s[i]
  OBVIOUS
<1> QED
  BY <1>1 DEF ToSet

\* LPOP: head and rest.
LEMMA PopHead ==
  ASSUME NEW S, NEW s \in Seq(S), s # <<>>
  PROVE  /\ Head(s) \in S
         /\ Tail(s) \in Seq(S)
         /\ ToSet(s) = {Head(s)} \union ToSet(Tail(s))
<1>1. /\ Head(s) = s[1] /\ Head(s) \in S /\ Len(s) >= 1
      /\ Tail(s) \in Seq(S) /\ Len(Tail(s)) = Len(s) - 1
      /\ \A i \in 1..(Len(s) - 1) : Tail(s)[i] = s[i + 1]
  OBVIOUS
<1>2. ASSUME NEW i \in 1..Len(s) PROVE s[i] \in {Head(s)} \union ToSet(Tail(s))
  <2>1. CASE i = 1
    BY <1>1, <2>1
  <2>2. CASE i # 1
    <3> i - 1 \in DOMAIN Tail(s) /\ Tail(s)[i - 1] = s[i]
      BY <1>1, <2>2
    <3> QED
      BY DEF ToSet
  <2> QED
    BY <2>1, <2>2
<1>3. ToSet(Tail(s)) \subseteq ToSet(s) /\ Head(s) \in ToSet(s)
  BY <1>1 DEF ToSet
<1> QED
  BY <1>1, <1>2, <1>3 DEF ToSet

\* What it is to be in a list.
LEMMA InList ==
  ASSUME NEW S, NEW s \in Seq(S)
  PROVE  \A x : x \in ToSet(s) <=> \E i \in 1..Len(s) : s[i] = x
  BY DEF ToSet

\* Concatenation, element by element.
LEMMA Joined ==
  ASSUME NEW S, NEW a \in Seq(S), NEW b \in Seq(S)
  PROVE  /\ a \o b \in Seq(S)
         /\ Len(a \o b) = Len(a) + Len(b)
         /\ \A j \in 1..Len(a) : (a \o b)[j] = a[j]
         /\ \A j \in (Len(a) + 1)..(Len(a) + Len(b)) : (a \o b)[j] = b[j - Len(a)]
  OBVIOUS

\* BLMOVE's RIGHT: last entry and the rest.
LEMMA PopTail ==
  ASSUME NEW S, NEW s \in Seq(S), s # <<>>
  PROVE  /\ Last(s) \in S
         /\ Front(s) \in Seq(S)
         /\ ToSet(s) = ToSet(Front(s)) \union {Last(s)}
<1>1. Len(s) \in Nat /\ Len(s) >= 1 /\ s[Len(s)] \in S
  OBVIOUS
<1>2. Front(s) \in Seq(S)
  BY <1>1 DEF Front
<1>3. Len(Front(s)) = Len(s) - 1
  <2>1. ASSUME NEW n \in Nat, n <= Len(s) PROVE Len(SubSeq(s, 1, n)) = n
    BY <2>1
  <2>2. Len(s) - 1 \in Nat /\ Len(s) - 1 <= Len(s)
    BY <1>1
  <2> QED
    BY <2>1, <2>2 DEF Front
<1>4. ASSUME NEW i \in 1..(Len(s) - 1) PROVE Front(s)[i] = s[i]
  BY <1>1 DEF Front
<1>5. \A x : x \in ToSet(s) <=> x \in ToSet(Front(s)) \/ x = Last(s)
  <2>1. \A x : x \in ToSet(s) <=> \E i \in 1..Len(s) : s[i] = x
    BY InList
  <2>2. \A x : x \in ToSet(Front(s)) <=> \E i \in 1..Len(Front(s)) : Front(s)[i] = x
    BY <1>2, InList
  <2> QED
    BY <1>1, <1>3, <1>4, <2>1, <2>2 DEF Last
<1> QED
  BY <1>1, <1>2, <1>5 DEF Last

\* LREM of one entry: all others stay, and nothing joins.
LEMMA RemoveOne ==
  ASSUME NEW S, NEW s \in Seq(S), NEW i \in 1..Len(s)
  PROVE  /\ RemoveAt(s, i) \in Seq(S)
         /\ ToSet(s) \subseteq ToSet(RemoveAt(s, i)) \union {s[i]}
<1> DEFINE a == SubSeq(s, 1, i - 1)
           b == SubSeq(s, i + 1, Len(s))
<1>1. a \in Seq(S) /\ b \in Seq(S)
  OBVIOUS
<1>2. Len(a) = i - 1 /\ Len(b) = Len(s) - i
  OBVIOUS
<1>3. ASSUME NEW j \in 1..(i - 1) PROVE a[j] = s[j]
  OBVIOUS
<1>4. ASSUME NEW j \in 1..(Len(s) - i) PROVE b[j] = s[i + j]
  OBVIOUS
<1>5. RemoveAt(s, i) = a \o b
  BY DEF RemoveAt
<1> HIDE DEF a, b
<1>6. /\ a \o b \in Seq(S)
      /\ Len(a \o b) = Len(s) - 1
      /\ \A j \in 1..(i - 1) : (a \o b)[j] = a[j]
      /\ \A j \in i..(Len(s) - 1) : (a \o b)[j] = b[j - (i - 1)]
  <2>1. /\ a \o b \in Seq(S)
        /\ Len(a \o b) = Len(a) + Len(b)
        /\ \A j \in 1..Len(a) : (a \o b)[j] = a[j]
        /\ \A j \in (Len(a) + 1)..(Len(a) + Len(b)) : (a \o b)[j] = b[j - Len(a)]
    BY <1>1, Joined
  <2> QED
    BY <1>2, <2>1
<1>7. ASSUME NEW j \in 1..Len(s), j # i PROVE s[j] \in ToSet(a \o b)
  <2>1. CASE j < i
    <3> j \in 1..Len(a \o b) /\ (a \o b)[j] = s[j]
      BY <1>3, <1>6, <2>1
    <3> QED
      BY <1>6, InList
  <2>2. CASE j > i
    <3>1. j - 1 \in i..(Len(s) - 1) /\ j - i \in 1..(Len(s) - i)
      BY <2>2
    <3>2. (a \o b)[j - 1] = b[(j - 1) - (i - 1)]
      BY <1>6, <3>1
    <3>3. b[j - i] = s[i + (j - i)]
      BY <1>4, <3>1
    <3>4. (j - 1) - (i - 1) = j - i /\ i + (j - i) = j /\ j - 1 \in 1..(Len(s) - 1)
      BY <2>2
    <3>5. j - 1 \in 1..Len(a \o b) /\ (a \o b)[j - 1] = s[j]
      BY <1>6, <3>2, <3>3, <3>4
    <3> QED
      BY <1>6, <3>5, InList
  <2> QED
    BY <1>7, <2>1, <2>2
<1>8. \A x \in ToSet(s) : x \in ToSet(a \o b) \/ x = s[i]
  BY <1>7, InList
<1> QED
  BY <1>5, <1>6, <1>8

\* LREM as the queue uses it.
LEMMA LremEffect ==
  ASSUME NEW S, processing \in Seq(S), NEW raw, Lrem(raw)
  PROVE  /\ processing' \in Seq(S)
         /\ ToSet(processing) \subseteq ToSet(processing') \union {raw}
<1>1. CASE raw \notin ToSet(processing) /\ UNCHANGED processing
  BY <1>1
<1>2. CASE \E i \in 1..Len(processing) :
             processing[i] = raw /\ processing' = RemoveAt(processing, i)
  BY <1>2, RemoveOne
<1> QED
  BY <1>1, <1>2 DEF Lrem

-----------------------------------------------------------------------------
(* What the Redis commands do to a list that is in order                    *)

\* Every entry is before, in the order R, the entries behind it.
Sorted(s, R)   == \A i, j \in 1..Len(s) : i < j => <<s[i], s[j]>> \in R
Before(A, B, R) == A \X B \subseteq R

\* LPUSH keeps the order when the new entry is before all others.
LEMMA SortedPushHead ==
  ASSUME NEW S, NEW s \in Seq(S), NEW x \in S, NEW R,
         Sorted(s, R), Before({x}, ToSet(s), R)
  PROVE  Sorted(<<x>> \o s, R)
<1> DEFINE t == <<x>> \o s
<1>1. /\ Len(t) = Len(s) + 1
      /\ t[1] = x
      /\ \A i \in 1..Len(t) : i # 1 => i - 1 \in 1..Len(s) /\ t[i] = s[i - 1]
  OBVIOUS
<1> HIDE DEF t
<1> SUFFICES ASSUME NEW i \in 1..Len(t), NEW j \in 1..Len(t), i < j
             PROVE  <<t[i], t[j]>> \in R
  BY DEF Sorted, t
<1>2. j # 1 /\ j - 1 \in 1..Len(s) /\ t[j] = s[j - 1]
  BY <1>1
<1>3. CASE i = 1
  <2> s[j - 1] \in ToSet(s)
    BY <1>2, InList
  <2> QED
    BY <1>1, <1>2, <1>3 DEF Before
<1>4. CASE i # 1
  <2> i - 1 \in 1..Len(s) /\ t[i] = s[i - 1] /\ i - 1 < j - 1
    BY <1>1, <1>4
  <2> QED
    BY <1>2 DEF Sorted
<1> QED
  BY <1>3, <1>4

\* RPUSH keeps the order when all others are before the new entry.
LEMMA SortedPushTail ==
  ASSUME NEW S, NEW s \in Seq(S), NEW x \in S, NEW R,
         Sorted(s, R), Before(ToSet(s), {x}, R)
  PROVE  Sorted(Append(s, x), R)
<1> DEFINE t == Append(s, x)
<1>1. /\ Len(t) = Len(s) + 1
      /\ t[Len(t)] = x
      /\ \A i \in 1..Len(s) : t[i] = s[i]
  OBVIOUS
<1> HIDE DEF t
<1> SUFFICES ASSUME NEW i \in 1..Len(t), NEW j \in 1..Len(t), i < j
             PROVE  <<t[i], t[j]>> \in R
  BY DEF Sorted, t
<1>2. i \in 1..Len(s) /\ t[i] = s[i] /\ s[i] \in ToSet(s)
  BY <1>1, InList
<1>3. CASE j = Len(t)
  BY <1>1, <1>2, <1>3 DEF Before
<1>4. CASE j # Len(t)
  <2> j \in 1..Len(s) /\ t[j] = s[j]
    BY <1>1, <1>4
  <2> QED
    BY <1>2 DEF Sorted
<1> QED
  BY <1>3, <1>4

\* LPOP: the head was before all that is left, which is in order.
LEMMA SortedPopHead ==
  ASSUME NEW S, NEW s \in Seq(S), s # <<>>, NEW R, Sorted(s, R)
  PROVE  Sorted(Tail(s), R) /\ Before({Head(s)}, ToSet(Tail(s)), R)
<1> DEFINE t == Tail(s)
<1>1. /\ t \in Seq(S) /\ Len(s) \in Nat /\ Len(t) = Len(s) - 1
      /\ Head(s) = s[1]
      /\ \A i \in 1..Len(t) : t[i] = s[i + 1] /\ i + 1 \in 1..Len(s)
  OBVIOUS
<1> HIDE DEF t
<1>2. ASSUME NEW i \in 1..Len(t), NEW j \in 1..Len(t), i < j
      PROVE  <<t[i], t[j]>> \in R
  <2> i + 1 \in 1..Len(s) /\ j + 1 \in 1..Len(s) /\ i + 1 < j + 1
    BY <1>1, <1>2
  <2> QED
    BY <1>1 DEF Sorted
<1>3. ASSUME NEW y \in ToSet(t) PROVE <<Head(s), y>> \in R
  <2>1. PICK j \in 1..Len(t) : t[j] = y
    BY <1>1, <1>3, InList
  <2>2. y = s[j + 1] /\ 1 \in 1..Len(s) /\ j + 1 \in 1..Len(s) /\ 1 < j + 1
    BY <1>1, <2>1
  <2> QED
    BY <1>1, <2>2 DEF Sorted
<1> QED
  BY <1>2, <1>3 DEF Sorted, Before, t

\* BLMOVE's RIGHT: all that is left was before the last, and is in order.
LEMMA SortedPopTail ==
  ASSUME NEW S, NEW s \in Seq(S), s # <<>>, NEW R, Sorted(s, R)
  PROVE  Sorted(Front(s), R) /\ Before(ToSet(Front(s)), {Last(s)}, R)
<1> DEFINE t == Front(s)
<1>1. t \in Seq(S)
  BY PopTail
<1>2. /\ Len(s) \in Nat /\ Len(s) >= 1 /\ Len(t) = Len(s) - 1
      /\ \A i \in 1..Len(t) : t[i] = s[i] /\ i \in 1..Len(s)
  <2>1. Len(s) \in Nat /\ Len(s) >= 1
    OBVIOUS
  <2>2. Len(s) - 1 \in Nat /\ Len(s) - 1 <= Len(s)
    BY <2>1
  <2>3. \A n \in Nat : n <= Len(s) => Len(SubSeq(s, 1, n)) = n
    OBVIOUS
  <2>4. Len(t) = Len(s) - 1
    BY <2>2, <2>3 DEF Front
  <2>5. ASSUME NEW i \in 1..(Len(s) - 1) PROVE t[i] = s[i]
    BY <2>1 DEF Front
  <2> QED
    BY <2>1, <2>4, <2>5
<1> HIDE DEF t
<1>3. \A i, j \in 1..Len(t) : i < j => <<t[i], t[j]>> \in R
  BY <1>2 DEF Sorted
<1>4. ASSUME NEW y \in ToSet(t) PROVE <<y, Last(s)>> \in R
  <2>1. PICK i \in 1..Len(t) : t[i] = y
    BY <1>1, <1>4, InList
  <2>2. y = s[i] /\ i \in 1..Len(s) /\ Len(s) \in 1..Len(s) /\ i < Len(s)
    BY <1>2, <2>1
  <2> QED
    BY <2>2 DEF Sorted, Last
<1> QED
  BY <1>3, <1>4 DEF Sorted, Before, t

\* LREM: what stays was there, and stays in order.
LEMMA SortedRemove ==
  ASSUME NEW S, NEW s \in Seq(S), NEW i \in 1..Len(s), NEW R, Sorted(s, R)
  PROVE  Sorted(RemoveAt(s, i), R) /\ ToSet(RemoveAt(s, i)) \subseteq ToSet(s)
<1> DEFINE a == SubSeq(s, 1, i - 1)
           b == SubSeq(s, i + 1, Len(s))
           t == RemoveAt(s, i)
           From(j) == IF j < i THEN j ELSE j + 1
<1>1. a \in Seq(S) /\ b \in Seq(S) /\ Len(a) = i - 1 /\ Len(b) = Len(s) - i
  OBVIOUS
<1>2. ASSUME NEW j \in 1..(i - 1) PROVE a[j] = s[j]
  OBVIOUS
<1>3. ASSUME NEW j \in 1..(Len(s) - i) PROVE b[j] = s[i + j]
  OBVIOUS
<1>4. t = a \o b
  BY DEF RemoveAt
<1> HIDE DEF a, b, t
<1>5. /\ t \in Seq(S)
      /\ Len(t) = Len(s) - 1
      /\ \A j \in 1..(i - 1) : t[j] = a[j]
      /\ \A j \in i..(Len(s) - 1) : t[j] = b[j - (i - 1)]
  <2>1. /\ a \o b \in Seq(S)
        /\ Len(a \o b) = Len(a) + Len(b)
        /\ \A j \in 1..Len(a) : (a \o b)[j] = a[j]
        /\ \A j \in (Len(a) + 1)..(Len(a) + Len(b)) : (a \o b)[j] = b[j - Len(a)]
    BY <1>1, Joined
  <2> QED
    BY <1>1, <1>4, <2>1
<1>6. ASSUME NEW j \in 1..Len(t) PROVE From(j) \in 1..Len(s) /\ t[j] = s[From(j)]
  <2>1. CASE j < i
    BY <1>2, <1>5, <2>1
  <2>2. CASE j >= i
    <3>1. j \in i..(Len(s) - 1) /\ j - (i - 1) \in 1..(Len(s) - i)
      BY <1>5, <2>2
    <3>2. t[j] = b[j - (i - 1)] /\ b[j - (i - 1)] = s[i + (j - (i - 1))]
      BY <1>3, <1>5, <3>1
    <3>3. i + (j - (i - 1)) = j + 1
      OBVIOUS
    <3> QED
      BY <1>5, <2>2, <3>2, <3>3
  <2> QED
    BY <2>1, <2>2
<1>7. \A j, k \in 1..Len(t) : j < k => From(j) < From(k)
  OBVIOUS
<1>8. \A j, k \in 1..Len(t) : j < k => <<t[j], t[k]>> \in R
  BY <1>6, <1>7 DEF Sorted
<1>9. ASSUME NEW y \in ToSet(t) PROVE y \in ToSet(s)
  <2>1. PICK j \in 1..Len(t) : t[j] = y
    BY <1>5, <1>9, InList
  <2> QED
    BY <1>6, <2>1, InList
<1> QED
  BY <1>8, <1>9 DEF Sorted, t

\* What is in order for R is in order for all that relates its entries as R does.
LEMMA SortedFor ==
  ASSUME NEW S, NEW s \in Seq(S), NEW R, NEW Q, Sorted(s, R),
         R \intersect (ToSet(s) \X ToSet(s)) \subseteq Q
  PROVE  Sorted(s, Q)
<1> SUFFICES ASSUME NEW i \in 1..Len(s), NEW j \in 1..Len(s), i < j
             PROVE  <<s[i], s[j]>> \in Q
  BY DEF Sorted
<1>1. s[i] \in ToSet(s) /\ s[j] \in ToSet(s)
  BY InList
<1>2. <<s[i], s[j]>> \in R
  BY DEF Sorted
<1> QED
  BY <1>1, <1>2

\* LREM as the queue uses it, on a processing list in order.
LEMMA SortedLrem ==
  ASSUME NEW S, processing \in Seq(S), NEW raw, Lrem(raw), NEW R, Sorted(processing, R)
  PROVE  Sorted(processing', R) /\ ToSet(processing') \subseteq ToSet(processing)
<1>1. CASE raw \notin ToSet(processing) /\ UNCHANGED processing
  BY <1>1
<1>2. CASE \E i \in 1..Len(processing) :
             processing[i] = raw /\ processing' = RemoveAt(processing, i)
  <2> PICK i \in 1..Len(processing) : processing' = RemoveAt(processing, i)
    BY <1>2
  <2> QED
    BY SortedRemove
<1> QED
  BY <1>1, <1>2 DEF Lrem

\* LREM brings nothing into the list, in order or not.
LEMMA LremLeaves ==
  ASSUME NEW S, processing \in Seq(S), NEW raw, Lrem(raw)
  PROVE  ToSet(processing') \subseteq ToSet(processing)
<1> Sorted(processing, S \X S)
  BY DEF Sorted
<1> QED
  BY SortedLrem

-----------------------------------------------------------------------------
(* Type correctness of every operation                                      *)

\* Every step of the queue: an operation, or one that leaves it alone.
QueueStep ==
  \/ \E raw \in Retriable : Enqueue(raw)
  \/ \E w \in Workers : \/ Start(w)
                        \/ ReclaimPop(w)
                        \/ ReclaimPush(w)
                        \/ ReclaimDone(w)
                        \/ Serve(w)
                        \/ Crash(w)
  \/ \E w \in Workers, s \in Slots : Fetch(w, s) \/ Ack(w, s)
  \/ UNCHANGED vars

\* No job in hand is not a job (the constants' assumption, restated).
LEMMA NoJobIsNone == NoJob \notin Retriable /\ Retriable \subseteq Raw
  BY QueueAssumption DEF Retriable, Raw, Job

\* Reclaim's bump: a job is re-queued with one attempt more within the bound, or
\* dead-lettered; the run it names is the same.
LEMMA BumpedTyped ==
  ASSUME NEW raw \in Retriable
  PROVE  /\ Bumped(raw) \in Raw
         /\ ~IsPoison(raw) => Bumped(raw) \in Retriable
         /\ raw \notin Junk => Bumped(raw).run = raw.run /\ Bumped(raw) \notin Junk
<1>1. CASE raw \in Junk
  BY <1>1 DEF Bumped, IsPoison, Raw
<1>2. CASE raw \notin Junk
  <2>1. raw \in [run: Runs, attempts: 0..MaxAttempts]
    BY <1>2 DEF Retriable
  <2>2. /\ Bumped(raw) \in Job
        /\ Bumped(raw).run = raw.run
        /\ Bumped(raw).attempts = raw.attempts + 1
    BY <1>2, <2>1, QueueAssumption DEF Bumped, Job
  <2>3. Bumped(raw).attempts <= MaxAttempts => Bumped(raw) \in Retriable
    BY <2>1, <2>2, QueueAssumption DEF Retriable, Job
  <2>4. ~IsPoison(raw) => Bumped(raw).attempts <= MaxAttempts
    BY <1>2, <2>1, <2>2, QueueAssumption DEF IsPoison
  <2> QED
    BY <2>2, <2>3, <2>4, QueueAssumption DEF Raw
<1> QED
  BY <1>1, <1>2

\* Every operation of the queue and of the workers that drive it keeps the types.
LEMMA QueueTyped ==
  ASSUME TypeOK, QueueStep
  PROVE  TypeOK'
<1>1. ASSUME NEW raw \in Retriable, Enqueue(raw) PROVE TypeOK'
  <2> <<raw>> \o main \in Seq(Retriable)
    BY PushHead DEF TypeOK
  <2> QED
    BY <1>1 DEF Enqueue, TypeOK, workers
<1>2. ASSUME NEW w \in Workers, Start(w) PROVE TypeOK'
  BY <1>2 DEF Start, TypeOK, lists, Phases
<1>3. ASSUME NEW w \in Workers, ReclaimPop(w) PROVE TypeOK'
  <2> Head(processing) \in Retriable /\ Tail(processing) \in Seq(Retriable)
    BY <1>3, PopHead DEF ReclaimPop, TypeOK
  <2> QED
    BY <1>3 DEF ReclaimPop, TypeOK
<1>4. ASSUME NEW w \in Workers, ReclaimPush(w) PROVE TypeOK'
  <2>1. hold[w] \in Retriable
    BY <1>4 DEF ReclaimPush, TypeOK
  <2>2. main' \in Seq(Retriable) /\ dead' \in Seq(Raw)
    <3>1. CASE IsPoison(hold[w])
      <4> Append(dead, Bumped(hold[w])) \in Seq(Raw)
        BY <2>1, BumpedTyped, PushTail DEF TypeOK
      <4> QED
        BY <1>4, <3>1 DEF ReclaimPush, TypeOK
    <3>2. CASE ~IsPoison(hold[w])
      <4> Append(main, Bumped(hold[w])) \in Seq(Retriable)
        BY <2>1, <3>2, BumpedTyped, PushTail DEF TypeOK
      <4> QED
        BY <1>4, <3>2 DEF ReclaimPush, TypeOK
    <3> QED
      BY <3>1, <3>2
  <2> QED
    BY <1>4, <2>2 DEF ReclaimPush, TypeOK
<1>5. ASSUME NEW w \in Workers, ReclaimDone(w) PROVE TypeOK'
  BY <1>5 DEF ReclaimDone, TypeOK, lists, Phases
<1>6. ASSUME NEW w \in Workers, Serve(w) PROVE TypeOK'
  BY <1>6 DEF Serve, TypeOK, lists, Phases
<1>7. ASSUME NEW w \in Workers, Crash(w) PROVE TypeOK'
  <2>1. crashes' \in 0..MaxCrashes
    BY <1>7, QueueAssumption DEF Crash, TypeOK
  <2>2. cargo' \in [Flights -> Retriable \union {NoJob}]
    BY <1>7 DEF Crash, TypeOK
  <2> QED
    BY <1>7, <2>1, <2>2 DEF Crash, TypeOK, lists, Phases
<1>8. ASSUME NEW w \in Workers, NEW s \in Slots, Fetch(w, s) PROVE TypeOK'
  <2>1. /\ Last(main) \in Retriable
        /\ Front(main) \in Seq(Retriable)
    BY <1>8, PopTail DEF Fetch, TypeOK
  <2>2. <<Last(main)>> \o processing \in Seq(Retriable)
    BY <2>1, PushHead DEF TypeOK
  <2>3. cargo' \in [Flights -> Retriable \union {NoJob}]
    BY <1>8, <2>1 DEF Fetch, TypeOK
  <2> QED
    BY <1>8, <2>1, <2>2, <2>3 DEF Fetch, TypeOK
<1>9. ASSUME NEW w \in Workers, NEW s \in Slots, Ack(w, s) PROVE TypeOK'
  <2>1. processing' \in Seq(Retriable)
    BY <1>9, LremEffect DEF Ack, TypeOK
  <2>2. cargo' \in [Flights -> Retriable \union {NoJob}]
    BY <1>9 DEF Ack, TypeOK
  <2> QED
    BY <1>9, <2>1, <2>2 DEF Ack, TypeOK
<1>10. CASE UNCHANGED vars
  BY <1>10 DEF vars, TypeOK
<1> QED
  BY <1>1, <1>2, <1>3, <1>4, <1>5, <1>6, <1>7, <1>8, <1>9, <1>10 DEF QueueStep

\* The queue starts well typed.
LEMMA QueueInitTyped == Init => TypeOK
  BY QueueAssumption DEF Init, TypeOK, Phases
=============================================================================
