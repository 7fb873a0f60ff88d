------------------------- MODULE ApplicationsProofs -------------------------
(***************************************************************************)
(* The applications' components, which share no state: live computer use   *)
(* does what its safety policy says for any number of steps, whatever the  *)
(* model picks and the pages do; the sample database is filled once, by    *)
(* any number of processes that make it and die at it; fetches check every *)
(* url they request and keep the body cache bounded, in any number of      *)
(* threads; the two sessions of computer-use QA agree; the index holds the *)
(* text that was ingested last, and a search returns what both of its      *)
(* rankings found first.                                                   *)
(***************************************************************************)
EXTENDS Browse, BiDatabase, WebFetch, LegacyCrm, RagIndex, FiniteSetTheorems, TLAPS

Ending == {"closing", "done", "raised"}
Enters(line) == line.tried /\ line.action.kind = "type" /\ line.action.sensitive

\* What is being tried has passed the policy; what was typed is remembered, or nothing more
\* is done; a note or a finish is the end.
Policy ==
  /\ Now("acting") => /\ browse.action \in Actions
                      /\ browse.action.kind # "finish"
                      /\ ~Unsafe(browse.action, browse.sensitive)
  /\ \A i \in DOMAIN browse.steps :
       Enters(browse.steps[i]) => browse.sensitive \/ browse.stage \in Ending
  /\ \A i \in DOMAIN browse.steps :
       browse.steps[i].note \/ browse.steps[i].action.kind = "finish"
         => browse.stage \in Ending
  /\ Now("start") => chromium = "none" /\ browse.steps = <<>>

BrowseInv == BrowseTypeOK /\ Policy /\ BrowseGuarded

-----------------------------------------------------------------------------
\* A sequence with one more line.
LEMMA OneMore ==
  ASSUME NEW S, NEW s \in Seq(S), NEW x \in S
  PROVE  /\ Append(s, x) \in Seq(S)
         /\ Len(Append(s, x)) = Len(s) + 1
         /\ DOMAIN Append(s, x) = DOMAIN s \union {Len(s) + 1}
         /\ Last(Append(s, x)) = x
         /\ \A i \in DOMAIN s : Append(s, x)[i] = s[i] /\ i < Len(s) + 1 /\ i \in Nat
         /\ Append(s, x)[Len(s) + 1] = x
         /\ Append(s, x) # <<>>
  BY DEF Last

LEMMA LinesAreLines ==
  ASSUME NEW action \in Actions \union {NoAction}, NEW tried \in BOOLEAN, NEW note \in BOOLEAN
  PROVE  /\ Line(action, tried, note) \in Lines
         /\ Line(action, tried, note).action = action
         /\ Line(action, tried, note).tried = tried
         /\ Line(action, tried, note).note = note
  BY DEF Line, Lines

\* The policy on the lines, for a transcript that gets one more.
LEMMA LineAdded ==
  ASSUME BrowseInv, browse.stage \notin Ending,
         NEW action \in Actions \union {NoAction}, NEW tried \in BOOLEAN, NEW note \in BOOLEAN,
         browse'.steps = Append(browse.steps, Line(action, tried, note)),
         browse'.action = NoAction, browse'.stage \notin {"acting", "start"},
         tried => /\ ~Unsafe(action, browse.sensitive)
                  /\ action.kind = "navigate" => action.public,
         browse.sensitive => browse'.sensitive,
         tried /\ action.kind = "type" /\ action.sensitive
           => browse'.sensitive \/ browse'.stage \in Ending,
         note \/ action.kind = "finish" => browse'.stage \in Ending,
         browse'.completed <=> action.kind = "finish",
         browse'.stage \in {"done", "raised"} => chromium' = "none"
  PROVE  Policy' /\ BrowseGuarded'
<1> DEFINE line == Line(action, tried, note)
           s == browse.steps
<1>1. s \in Seq(Lines)
  BY DEF BrowseInv, BrowseTypeOK
<1>2. /\ line \in Lines /\ line.action = action /\ line.tried = tried /\ line.note = note
  BY LinesAreLines, ZenonT(40)
<1>3. /\ DOMAIN browse'.steps = DOMAIN s \union {Len(s) + 1}
      /\ Len(browse'.steps) = Len(s) + 1
      /\ Last(browse'.steps) = line
      /\ \A i \in DOMAIN s : browse'.steps[i] = s[i] /\ i < Len(s) + 1 /\ i \in Nat
      /\ browse'.steps[Len(s) + 1] = line
      /\ browse'.steps # <<>>
  BY <1>1, <1>2, OneMore
<1> HIDE DEF line
<1>4. \A i \in DOMAIN s : ~s[i].note /\ s[i].action.kind # "finish"
  BY DEF BrowseInv, Policy
<1>5. \A i \in DOMAIN s : Enters(s[i]) => browse.sensitive
  BY DEF BrowseInv, Policy
<1>6. Len(s) \in Nat
  BY <1>1
<1>7. Policy'
  <2>1. \A i \in DOMAIN browse'.steps :
          Enters(browse'.steps[i]) => browse'.sensitive \/ browse'.stage \in Ending
    BY <1>2, <1>3, <1>5 DEF Enters
  <2>2. \A i \in DOMAIN browse'.steps :
          browse'.steps[i].note \/ browse'.steps[i].action.kind = "finish"
            => browse'.stage \in Ending
    BY <1>2, <1>3, <1>4
  <2> QED
    BY <2>1, <2>2 DEF Policy, Now, Enters
<1>8. ASSUME NEW i \in DOMAIN browse'.steps, NEW j \in DOMAIN browse'.steps, i < j,
             Enters(browse'.steps[i])
      PROVE  ~(browse'.steps[j].tried /\ browse'.steps[j].action.kind = "click")
  <2>1. i \in DOMAIN s
    BY <1>3, <1>6, <1>8
  <2>2. CASE j \in DOMAIN s
    BY <1>3, <1>8, <2>1, <2>2 DEF BrowseInv, BrowseGuarded, Enters
  <2>3. CASE j = Len(s) + 1
    <3>1. browse.sensitive
      BY <1>3, <1>5, <1>8, <2>1
    <3> QED
      BY <1>2, <1>3, <2>3, <3>1 DEF Unsafe
  <2> QED
    BY <1>3, <2>2, <2>3
<1>9. ASSUME NEW i \in DOMAIN browse'.steps, browse'.steps[i].tried
      PROVE  /\ ~browse'.steps[i].action.unsafe
             /\ browse'.steps[i].action.kind = "navigate" => browse'.steps[i].action.public
  BY <1>2, <1>3, <1>9 DEF BrowseInv, BrowseGuarded, Unsafe
<1>10. \A i \in DOMAIN browse'.steps : browse'.steps[i].note => i = Len(browse'.steps)
  BY <1>3, <1>4
<1>11. browse'.completed <=> Last(browse'.steps).action.kind = "finish"
  BY <1>2, <1>3
<1> QED
  BY <1>3, <1>7, <1>8, <1>9, <1>10, <1>11 DEF BrowseGuarded, Now, Enters

\* ... and for one that stays as it is.
LEMMA LinesStay ==
  ASSUME BrowseInv, browse'.steps = browse.steps, browse'.completed = browse.completed,
         browse'.sensitive = browse.sensitive,
         browse.stage \in Ending => browse'.stage \in Ending,
         browse'.stage # "start",
         browse'.stage = "acting" => /\ browse'.action \in Actions
                                     /\ browse'.action.kind # "finish"
                                     /\ ~Unsafe(browse'.action, browse.sensitive),
         browse'.stage \in {"done", "raised"} => chromium' = "none"
  PROVE  Policy' /\ BrowseGuarded'
<1>1. Policy'
  BY DEF BrowseInv, Policy, Now, Enters
<1>2. BrowseGuarded'
  BY DEF BrowseInv, BrowseGuarded, Now
<1> QED
  BY <1>1, <1>2

\* While the request goes on it has not completed.
LEMMA NotYetCompleted ==
  ASSUME BrowseInv, browse.stage \notin Ending
  PROVE  browse.completed = FALSE
<1>1. browse.steps \in Seq(Lines) /\ browse.completed \in BOOLEAN
  BY DEF BrowseInv, BrowseTypeOK
<1>2. browse.steps # <<>> => Len(browse.steps) \in DOMAIN browse.steps
  BY <1>1
<1>3. ~(browse.steps # <<>> /\ Last(browse.steps).action.kind = "finish")
  BY <1>2 DEF BrowseInv, Policy, Last
<1> QED
  BY <1>1, <1>3 DEF BrowseInv, BrowseGuarded

LEMMA AnotherStage ==
  ASSUME NEW b, "stage" \in DOMAIN b
  PROVE  /\ Another(b).stage \in {"observing", "closing"}
         /\ Another(b) = [b EXCEPT !.stage = Another(b).stage]
  BY DEF Another

LEMMA BrowseStartsGuarded == BrowseInit => BrowseInv
<1> SUFFICES ASSUME BrowseInit PROVE BrowseInv
  OBVIOUS
<1>1. BrowseTypeOK
  BY DEF BrowseInit, BrowseTypeOK, BrowseStages
<1>2. Policy /\ BrowseGuarded
  BY DEF BrowseInit, Policy, BrowseGuarded, Now
<1> QED
  BY <1>1, <1>2 DEF BrowseInv

-----------------------------------------------------------------------------
LEMMA BrowseStepGuarded == BrowseInv /\ [BrowseNext]_browseVars => BrowseInv'
<1> SUFFICES ASSUME BrowseInv, [BrowseNext]_browseVars PROVE BrowseInv'
  OBVIOUS
<1> USE DEF Now
<1>t. /\ browse \in [stage: BrowseStages, action: Actions \union {NoAction}, sensitive: BOOLEAN,
                     completed: BOOLEAN, raises: BOOLEAN, steps: Seq(Lines)]
      /\ chromium \in {"none", "driver", "browser"}
  BY DEF BrowseInv, BrowseTypeOK
<1>1. ASSUME NEW public \in BOOLEAN, OpenBrowse(public) PROVE BrowseInv'
  <2>0. browse.stage = "start" /\ chromium = "none" /\ chromium' = "none"
    BY <1>1 DEF OpenBrowse, BrowseInv, Policy
  <2>1. CASE public
    <3>1. browse' = [browse EXCEPT !.stage = "launching"]
      BY <1>1, <2>1 DEF OpenBrowse
    <3>2. BrowseTypeOK'
      BY <1>t, <2>0, <3>1 DEF BrowseTypeOK, BrowseStages
    <3> QED
      BY <1>t, <2>0, <3>1, <3>2, LinesStay DEF BrowseInv, Ending
  <2>2. CASE ~public
    <3>1. browse' = [browse EXCEPT !.stage = "done", !.action = NoAction,
                       !.steps = Append(browse.steps, Line(NoAction, FALSE, TRUE))]
      BY <1>1, <1>t, <2>2 DEF OpenBrowse, Noted
    <3>2. Line(NoAction, FALSE, TRUE) \in Lines
      BY LinesAreLines
    <3>3. BrowseTypeOK'
      BY <1>t, <2>0, <3>1, <3>2, OneMore DEF BrowseTypeOK, BrowseStages, BrowseOver
    <3>4. browse.completed = FALSE
      BY <2>0, NotYetCompleted DEF Ending
    <3>5. /\ browse'.stage = "done" /\ browse'.action = NoAction
          /\ browse'.sensitive = browse.sensitive /\ browse'.completed = FALSE
          /\ browse'.steps = Append(browse.steps, Line(NoAction, FALSE, TRUE))
      BY <1>t, <3>1, <3>4
    <3>6. NoAction.kind = "none"
      BY DEF NoAction
    <3>7. Policy' /\ BrowseGuarded'
      BY <2>0, <3>5, <3>6, LineAdded DEF Ending
    <3> QED
      BY <3>3, <3>7 DEF BrowseInv
  <2> QED
    BY <2>1, <2>2
<1>2. CASE StartDriver \/ LaunchBrowser \/ LaunchFails
  <2>1. BrowseTypeOK'
    BY <1>2, <1>t DEF StartDriver, LaunchBrowser, LaunchFails, BrowseTypeOK, BrowseStages, BrowseOver
  <2>2. Policy' /\ BrowseGuarded'
    BY <1>2, <1>t, LinesStay DEF StartDriver, LaunchBrowser, LaunchFails, Ending
  <2> QED
    BY <2>1, <2>2 DEF BrowseInv
<1>3. CASE Opened \/ Observed
  <2>1. PICK stage \in {"observing", "asking", "closing"} : browse' = [browse EXCEPT !.stage = stage]
    BY <1>3, <1>t DEF Opened, Observed, Another
  <2>2. BrowseTypeOK'
    BY <1>3, <1>t, <2>1 DEF Opened, Observed, BrowseTypeOK, BrowseStages
  <2>3. Policy' /\ BrowseGuarded'
    BY <1>3, <1>t, <2>1, LinesStay DEF Opened, Observed, Ending
  <2> QED
    BY <2>2, <2>3 DEF BrowseInv
<1>4. CASE PageFails
  <2>1. BrowseTypeOK'
    BY <1>4, <1>t DEF PageFails, Stop, BrowseTypeOK, BrowseStages
  <2>2. Policy' /\ BrowseGuarded'
    BY <1>4, <1>t, LinesStay DEF PageFails, Stop, Ending
  <2> QED
    BY <2>1, <2>2 DEF BrowseInv
<1>5. CASE NoReply
  <2>1. browse' = [browse EXCEPT !.stage = "closing", !.action = NoAction,
                     !.steps = Append(browse.steps, Line(NoAction, FALSE, TRUE))]
    BY <1>5, <1>t DEF NoReply, Noted, Stop
  <2>2. Line(NoAction, FALSE, TRUE) \in Lines
    BY LinesAreLines
  <2>3. browse.stage = "asking" /\ chromium' = chromium
    BY <1>5 DEF NoReply
  <2>4. browse.completed = FALSE
    BY <2>3, NotYetCompleted DEF Ending
  <2>5. Append(browse.steps, Line(NoAction, FALSE, TRUE)) \in Seq(Lines)
    BY <1>t, <2>2, OneMore
  <2>6. BrowseTypeOK'
    BY <1>t, <2>1, <2>3, <2>5 DEF BrowseTypeOK, BrowseStages
  <2>7. /\ browse'.stage = "closing" /\ browse'.action = NoAction
        /\ browse'.sensitive = browse.sensitive /\ browse'.completed = FALSE
        /\ browse'.steps = Append(browse.steps, Line(NoAction, FALSE, TRUE))
    BY <1>t, <2>1, <2>4
  <2>8. NoAction.kind = "none"
    BY DEF NoAction
  <2>9. Policy' /\ BrowseGuarded'
    BY <2>3, <2>7, <2>8, LineAdded DEF Ending
  <2> QED
    BY <2>6, <2>9 DEF BrowseInv
<1>6. ASSUME NEW action \in Actions, Finish(action) \/ Refuse(action) PROVE BrowseInv'
  <2>1. PICK completed \in BOOLEAN, note \in BOOLEAN :
          /\ browse' = [browse EXCEPT !.stage = "closing", !.action = NoAction,
                          !.steps = Append(browse.steps, Line(action, FALSE, note)),
                          !.completed = completed]
          /\ completed <=> action.kind = "finish"
    <3>1. browse.completed = FALSE
      BY <1>6, NotYetCompleted DEF Finish, Refuse, Ending
    <3> QED
      BY <1>6, <1>t, <3>1 DEF Finish, Refuse, Noted, Stop
  <2>2. Line(action, FALSE, note) \in Lines
    BY LinesAreLines
  <2>3. BrowseTypeOK'
    BY <1>6, <1>t, <2>1, <2>2, OneMore DEF Finish, Refuse, BrowseTypeOK, BrowseStages
  <2>4. browse.stage = "asking" /\ chromium' = chromium
    BY <1>6 DEF Finish, Refuse
  <2>5. /\ browse'.stage = "closing" /\ browse'.action = NoAction
        /\ browse'.sensitive = browse.sensitive /\ browse'.completed = completed
        /\ browse'.steps = Append(browse.steps, Line(action, FALSE, note))
    BY <1>t, <2>1
  <2>6. Policy' /\ BrowseGuarded'
    BY <2>1, <2>4, <2>5, LineAdded DEF Ending
  <2> QED
    BY <2>3, <2>6 DEF BrowseInv
<1>7. ASSUME NEW action \in Actions, Choose(action) PROVE BrowseInv'
  <2>1. BrowseTypeOK'
    BY <1>7, <1>t DEF Choose, BrowseTypeOK, BrowseStages
  <2>2. Policy' /\ BrowseGuarded'
    BY <1>7, <1>t, LinesStay DEF Choose, Ending
  <2> QED
    BY <2>1, <2>2 DEF BrowseInv
<1>8. ASSUME browse.stage = "acting", Barred \/ Acted \/ ActFails PROVE BrowseInv'
  <2> DEFINE action == browse.action
  <2>1. action \in Actions /\ action.kind # "finish" /\ ~Unsafe(action, browse.sensitive)
    BY <1>8 DEF BrowseInv, Policy
  <2>2. ASSUME NEW stage \in {"observing", "closing"}, NEW tried \in BOOLEAN, NEW note \in BOOLEAN,
               NEW sensitive \in BOOLEAN, chromium' = chromium,
               browse' = [browse EXCEPT !.stage = stage, !.action = NoAction,
                            !.sensitive = sensitive,
                            !.steps = Append(browse.steps, Line(action, tried, note))],
               tried => ~Bars(action), browse.sensitive => sensitive,
               tried /\ action.kind = "type" /\ action.sensitive => sensitive \/ stage = "closing",
               note => stage = "closing"
        PROVE  BrowseInv'
    <3>1. Append(browse.steps, Line(action, tried, note)) \in Seq(Lines)
      BY <1>t, <2>1, LinesAreLines, OneMore
    <3>2. BrowseTypeOK'
      BY <1>t, <2>2, <3>1 DEF BrowseTypeOK, BrowseStages
    <3>3. browse.completed = FALSE
      BY <1>8, NotYetCompleted DEF Ending
    <3>4. /\ browse'.stage = stage /\ browse'.action = NoAction
          /\ browse'.sensitive = sensitive /\ browse'.completed = FALSE
          /\ browse'.steps = Append(browse.steps, Line(action, tried, note))
      BY <1>t, <2>2, <3>3
    <3>5. tried => (action.kind = "navigate" => action.public)
      BY <2>2 DEF Bars
    <3>6. Policy' /\ BrowseGuarded'
      BY <1>8, <2>1, <2>2, <3>4, <3>5, LineAdded DEF Ending
    <3> QED
      BY <3>2, <3>6 DEF BrowseInv
  <2>3. ASSUME NEW tried \in BOOLEAN, tried => ~Bars(action), chromium' = chromium,
               browse' = Stop(Noted(Line(action, tried, TRUE)))
        PROVE  BrowseInv'
    <3>1. browse' = [browse EXCEPT !.stage = "closing", !.action = NoAction,
                       !.sensitive = browse.sensitive,
                       !.steps = Append(browse.steps, Line(action, tried, TRUE))]
      BY <1>t, <2>3 DEF Noted, Stop
    <3> QED
      BY <1>t, <2>2, <2>3, <3>1
  <2>4. CASE Barred
    BY <2>3, <2>4 DEF Barred
  <2>5. CASE ActFails
    BY <2>3, <2>5 DEF ActFails
  <2>6. CASE Acted
    <3> DEFINE sensitive == browse.sensitive \/ (action.kind = "type" /\ action.sensitive)
               noted == [Noted(Line(action, TRUE, FALSE)) EXCEPT !.sensitive = sensitive]
    <3>1. noted = [browse EXCEPT !.action = NoAction, !.sensitive = sensitive,
                     !.steps = Append(browse.steps, Line(action, TRUE, FALSE))]
      BY <1>t DEF Noted
    <3>2. browse' = Another(noted) /\ ~Bars(action) /\ chromium' = chromium
      BY <1>t, <2>6 DEF Acted, Noted
    <3>3. "stage" \in DOMAIN noted
      BY <1>t, <3>1
    <3>4. PICK stage \in {"observing", "closing"} : browse' = [noted EXCEPT !.stage = stage]
      <4> HIDE DEF noted
      <4> QED
        BY <3>2, <3>3, AnotherStage
    <3>5. browse' = [browse EXCEPT !.stage = stage, !.action = NoAction, !.sensitive = sensitive,
                       !.steps = Append(browse.steps, Line(action, TRUE, FALSE))]
      BY <1>t, <3>1, <3>4
    <3>6. sensitive \in BOOLEAN
      BY <1>t, <2>1 DEF Actions
    <3>7. action.kind = "type" /\ action.sensitive => sensitive
      OBVIOUS
    <3>8. browse.sensitive => sensitive
      OBVIOUS
    <3> HIDE DEF sensitive, noted
    <3> QED
      BY <2>2, <3>2, <3>5, <3>6, <3>7, <3>8
  <2> QED
    BY <1>8, <2>4, <2>5, <2>6
<1>9. ASSUME NEW fails \in BOOLEAN, CloseSession(fails) PROVE BrowseInv'
  <2>1. PICK stage \in {"done", "raised"} : browse' = [browse EXCEPT !.stage = stage]
    BY <1>9, <1>t DEF CloseSession
  <2>2. BrowseTypeOK'
    BY <1>9, <1>t, <2>1 DEF CloseSession, BrowseTypeOK, BrowseStages, BrowseOver
  <2>3. Policy' /\ BrowseGuarded'
    BY <1>9, <1>t, <2>1, LinesStay DEF CloseSession, Ending
  <2> QED
    BY <2>2, <2>3 DEF BrowseInv
<1>10. CASE UNCHANGED browseVars
  BY <1>10 DEF browseVars, BrowseInv, BrowseTypeOK, Policy, BrowseGuarded, Enters
<1>11. Barred \/ Acted \/ ActFails => browse.stage = "acting"
  BY DEF Barred, Acted, ActFails
<1> QED
  BY <1>1, <1>2, <1>3, <1>4, <1>5, <1>6, <1>7, <1>8, <1>9, <1>10, <1>11
  DEF BrowseNext, BrowseStep

\* The policy, for any number of steps: nothing sensitive is followed by a click, no page is
\* asked for anything destructive or for a url that is not public, a note is the end of the
\* transcript, and no browser outlives the request (browse.py:276-295, 398-428).
THEOREM BrowseIsGuarded == BrowseSpec => []BrowseGuarded
<1>1. BrowseInv => BrowseGuarded
  BY DEF BrowseInv
<1> QED
  BY <1>1, BrowseStartsGuarded, BrowseStepGuarded, PTL DEF BrowseSpec

\* The type of the browsing state: the stage, the action in hand, the transcript and its flags
\* (browse.py:318-441).
THEOREM BrowseTyped == BrowseSpec => []BrowseTypeOK
<1>1. BrowseInv => BrowseTypeOK
  BY DEF BrowseInv
<1> QED
  BY <1>1, BrowseStartsGuarded, BrowseStepGuarded, PTL DEF BrowseSpec

-----------------------------------------------------------------------------
(* The sample database.                                                    *)

\* A process that creates tables is never behind the file by more than the table it comes to,
\* so that whoever makes the last one is alone, and the file was not filled before.
Making(p) ==
  /\ opened[p].stage = "creating"
       => opened[p].next \in 1..TableCount /\ opened[p].next <= file.made + 1
  /\ opened[p].stage = "filling" => file.made = TableCount /\ file.filled = 0
  /\ opened[p].stage # "idle" => ~opened[p].engine
  /\ opened[p].allowed # Unread => opened[p].engine
  /\ opened[p].full => file.filled = 1
OneFills ==
  \A p, q \in Processes :
    opened[p].stage = "filling" /\ opened[q].stage = "filling" => p = q

BiInv == BiTypeOK /\ (\A p \in Processes : Making(p)) /\ OneFills /\ BiSound

Files        == [exists: BOOLEAN, made: 0..TableCount, filled: Nat]
OpenedStates == [stage: {"idle", "connecting", "creating", "filling"}, next: Nat, engine: BOOLEAN,
                 full: BOOLEAN, allowed: (SUBSET SampleTables) \union {Unread}]

LEMMA UnreadIsNoList == \A s \in SUBSET SampleTables : s # Unread
  BY BiAssumption DEF SampleTables, Unread

LEMMA BiStarts == BiInit => BiInv
<1> SUFFICES ASSUME BiInit PROVE BiInv
  OBVIOUS
<1>1. Unopened \in OpenedStates
  BY DEF Unopened, OpenedStates
<1>2. BiTypeOK
  <2>1. file \in Files
    BY BiAssumption DEF BiInit, Files
  <2> QED
    BY <1>1, <2>1, BiAssumption DEF BiInit, BiTypeOK, NoResult, OpenedStates, Files
<1> QED
  BY <1>2, BiAssumption DEF BiInit, BiInv, Making, OneFills, BiSound, Unopened, NoResult

LEMMA BiStep == BiInv /\ [BiNext]_biVars => BiInv'
<1> SUFFICES ASSUME BiInv, [BiNext]_biVars PROVE BiInv'
  OBVIOUS
<1>t. BiTypeOK /\ (\A p \in Processes : Making(p)) /\ OneFills /\ BiSound
  BY DEF BiInv
<1>o. opened \in [Processes -> OpenedStates]
  BY <1>t DEF BiTypeOK, OpenedStates
<1>f. file \in Files /\ file.made \in 0..TableCount /\ file.filled \in 0..1
  BY <1>t DEF BiTypeOK, BiSound, Files
\* A step that only changes what p is doing, and perhaps makes the file, empty.
<1>p. ASSUME NEW p \in Processes, NEW o \in OpenedStates, opened' = [opened EXCEPT ![p] = o],
             file' \in Files, file'.made = file.made, file'.filled = file.filled,
             sql' = sql, deaths' \in 0..MaxDeaths,
             o.stage = "creating" => o.next \in 1..TableCount /\ o.next <= file.made + 1,
             o.stage # "filling",
             o.stage # "idle" => ~o.engine, o.allowed # Unread => o.engine,
             o.full => file.filled = 1,
             o.allowed # Unread => /\ o.allowed \subseteq Existing
                                   /\ o.full => o.allowed = SampleTables
      PROVE  BiInv'
  <2>1. opened' \in [Processes -> OpenedStates]
    BY <1>o, <1>p
  <2>2. BiTypeOK'
    BY <2>1, <1>t, <1>p DEF BiTypeOK, OpenedStates, Files
  <2>3. /\ opened'[p] = o
        /\ \A q \in Processes : q # p => opened'[q] = opened[q]
    BY <1>o, <1>p
  <2>4. \A q \in Processes : Making(q)'
    BY <2>3, <1>t, <1>p DEF Making
  <2>5. OneFills'
    BY <2>3, <1>t, <1>p DEF OneFills
  <2>6. BiSound'
    BY <2>3, <1>t, <1>p DEF BiSound, Existing
  <2> QED
    BY <2>2, <2>4, <2>5, <2>6 DEF BiInv
<1>1. ASSUME NEW p \in Processes, GetEngine(p) PROVE BiInv'
  <2>0. PICK full \in BOOLEAN : full = (file.filled > 0)
    <3>1. (file.filled > 0) \in BOOLEAN
      BY SMT
    <3> QED
      BY <3>1, Zenon
  <2> DEFINE same == opened[p]
             cached == [same EXCEPT !.engine = TRUE, !.full = full]
             begun  == [same EXCEPT !.stage = "connecting"]
  <2>1. same \in OpenedStates /\ same.stage = "idle" /\ same.allowed = Unread /\ Making(p)
    BY <1>o, <1>t, <1>1 DEF GetEngine, Making
  <2>u. /\ file' \in Files /\ file'.made = file.made /\ file'.filled = file.filled
        /\ sql' = sql /\ deaths' \in 0..MaxDeaths
    BY <1>1, <1>t, <1>f DEF GetEngine, BiTypeOK
  <2>2. CASE file.exists
    <3>1. opened' = [opened EXCEPT ![p] = cached]
      <4>1. opened' = [opened EXCEPT ![p].engine = TRUE, ![p].full = full]
        BY <1>1, <2>0, <2>2 DEF GetEngine
      <4> QED
        BY <4>1, <1>o, <2>1 DEF OpenedStates
    <3>c. cached \in OpenedStates
      BY <2>1 DEF OpenedStates
    <3>2. /\ cached.stage = "idle" /\ cached.engine = TRUE /\ cached.allowed = Unread
          /\ cached.full => file.filled = 1
      <4>1. full => file.filled = 1
        <5>1. file.filled > 0 => file.filled = 1
          BY <1>f
        <5> QED
          BY <5>1, <2>0, Zenon
      <4>2. /\ cached.stage = "idle" /\ cached.engine = TRUE /\ cached.allowed = Unread
            /\ cached.full = full
        BY <2>1 DEF OpenedStates
      <4> QED
        BY <4>1, <4>2, Zenon
    <3> HIDE DEF cached
    <3> QED
      BY <3>1, <3>c, <3>2, <1>p, <1>1, <1>t, <2>u
  <2>3. CASE ~file.exists
    <3>1. opened' = [opened EXCEPT ![p] = begun] /\ begun \in OpenedStates
      BY <1>o, <1>1, <2>1, <2>3 DEF GetEngine, OpenedStates
    <3>2. /\ begun.stage = "connecting" /\ begun.engine = FALSE
          /\ begun.allowed = Unread
          /\ begun.full => file.filled = 1
      BY <1>1, <2>1 DEF OpenedStates, Making, GetEngine
    <3> HIDE DEF begun
    <3> QED
      BY <3>1, <3>2, <1>p, <1>1, <2>u
  <2> QED
    BY <2>2, <2>3
<1>c. ASSUME NEW p \in Processes, Connect(p) PROVE BiInv'
  <2> DEFINE same  == opened[p]
             begun == [same EXCEPT !.stage = "creating", !.next = 1]
  <2>1. /\ same \in OpenedStates /\ ~same.engine /\ same.allowed = Unread
        /\ same.full => file.filled = 1
    BY <1>o, <1>t, <1>c DEF Connect, Making
  <2>2. /\ file' = [file EXCEPT !.exists = TRUE] /\ sql' = sql /\ deaths' \in 0..MaxDeaths
        /\ opened' = [opened EXCEPT ![p] = begun]
    BY <1>c, <1>t, <1>o, <2>1 DEF Connect, BiTypeOK, OpenedStates
  <2>3. file' \in Files /\ file'.made = file.made /\ file'.filled = file.filled
    BY <2>2, <1>f DEF Files
  <2>4. /\ begun \in OpenedStates /\ begun.stage = "creating" /\ begun.next = 1
        /\ begun.engine = same.engine /\ begun.allowed = same.allowed /\ begun.full = same.full
    BY <2>1 DEF OpenedStates
  <2> HIDE DEF begun
  <2>5. begun.next \in 1..TableCount /\ begun.next <= file.made + 1
    BY <2>4, <1>f, BiAssumption
  <2>6. begun.stage # "filling" /\ ~begun.engine /\ begun.allowed = Unread
    BY <2>1, <2>4
  <2> QED
    BY <2>1, <2>2, <2>3, <2>4, <2>5, <2>6, <1>p
<1>2. ASSUME NEW p \in Processes, CreateTable(p) PROVE BiInv'
  <2> DEFINE same == opened[p]
             k == same.next
             stage == IF k = TableCount THEN "filling" ELSE "creating"
             later == [same EXCEPT !.next = k + 1, !.stage = stage]
  <2>1. /\ same \in OpenedStates /\ same.stage = "creating" /\ ~same.engine
        /\ same.allowed = Unread /\ k \in 1..TableCount /\ k <= file.made + 1
        /\ same.full => file.filled = 1
    BY <1>o, <1>t, <1>2 DEF CreateTable, Making
  <2>2. CASE k <= file.made
    <3>1. /\ opened' = [opened EXCEPT ![p] = Unopened] /\ file' \in Files
          /\ file'.made = file.made /\ file'.filled = file.filled
      BY <1>2, <1>f, <2>2 DEF CreateTable
    <3>2. Unopened \in OpenedStates
      BY DEF Unopened, OpenedStates
    <3> QED
      BY <3>1, <3>2, <1>p, <1>2, <1>t DEF CreateTable, BiTypeOK, Unopened
  <2>3. CASE ~(k <= file.made)
    <3>1. k = file.made + 1 /\ file.made # TableCount
      BY <2>1, <2>3, <1>f, BiAssumption
    <3>2. file.filled = 0 /\ \A q \in Processes : opened[q].stage # "filling"
      BY <3>1, <1>t, <1>f DEF BiSound, Making
    <3>3. file' \in Files /\ file'.made = k /\ file'.filled = 0
      BY <1>2, <2>1, <2>3, <1>f, <3>2 DEF CreateTable, Files
    <3>4. opened' = [opened EXCEPT ![p] = later] /\ sql' = sql /\ deaths' = deaths
      BY <1>2, <2>1, <2>3, <1>o DEF CreateTable, OpenedStates
    <3>5. /\ later \in OpenedStates /\ later.next = k + 1 /\ later.engine = FALSE
          /\ later.allowed = Unread /\ ~later.full
          /\ later.stage = IF k = TableCount THEN "filling" ELSE "creating"
      <4>1. stage \in {"creating", "filling"} /\ k + 1 \in Nat
        BY <2>1, BiAssumption
      <4> HIDE DEF stage
      <4>0. same.full = FALSE /\ same.engine = FALSE
        BY <2>1, <3>2 DEF OpenedStates
      <4>2. later \in OpenedStates
        BY <4>1, <2>1 DEF OpenedStates
      <4>3. /\ later.next = k + 1 /\ later.engine = FALSE
            /\ later.allowed = Unread /\ later.full = FALSE /\ later.stage = stage
        BY <4>0, <2>1 DEF OpenedStates
      <4> QED
        BY <4>2, <4>3 DEF stage
    <3> HIDE DEF later
    <3>6. /\ opened' \in [Processes -> OpenedStates] /\ opened'[p] = later
          /\ \A q \in Processes : q # p => opened'[q] = opened[q]
      BY <3>4, <3>5, <1>o
    <3>7. BiTypeOK'
      BY <3>3, <3>4, <3>6, <1>t DEF BiTypeOK, OpenedStates, Files
    <3>8. \A q \in Processes : Making(q)'
      <4>1. Making(p)'
        BY <3>3, <3>5, <3>6, <2>1, BiAssumption DEF Making
      <4>2. ASSUME NEW q \in Processes, q # p PROVE Making(q)'
        BY <4>2, <3>1, <3>2, <3>3, <3>6, <1>t, <1>o, <1>f DEF Making, OpenedStates
      <4> QED
        BY <4>1, <4>2
    <3>9. OneFills'
      BY <3>2, <3>6 DEF OneFills
    <3>10. BiSound'
      BY <3>3, <3>4, <3>5, <3>6, <3>1, <3>2, <1>t, <1>f DEF BiSound, Existing, Making
    <3> QED
      BY <3>7, <3>8, <3>9, <3>10 DEF BiInv
  <2> QED
    BY <2>2, <2>3
<1>3. ASSUME NEW p \in Processes, FillTables(p) PROVE BiInv'
  <2> DEFINE same == opened[p]
             full == [same EXCEPT !.stage = "idle", !.engine = TRUE, !.full = TRUE]
  <2>1. /\ same \in OpenedStates /\ same.stage = "filling" /\ same.allowed = Unread
        /\ file.made = TableCount /\ file.filled = 0
    BY <1>o, <1>t, <1>3 DEF FillTables, Making
  <2>2. opened' = [opened EXCEPT ![p] = full] /\ sql' = sql /\ deaths' = deaths
    BY <1>3, <1>o DEF FillTables, OpenedStates
  <2>3. file' \in Files /\ file'.made = TableCount /\ file'.filled = 1
    BY <1>3, <1>f, <2>1 DEF FillTables, Files
  <2>4. /\ full \in OpenedStates /\ full.stage = "idle" /\ full.engine = TRUE
        /\ full.allowed = Unread
    BY <2>1 DEF OpenedStates
  <2> HIDE DEF full
  <2>5. /\ opened' \in [Processes -> OpenedStates] /\ opened'[p] = full
        /\ \A q \in Processes : q # p => opened'[q] = opened[q]
    BY <2>2, <2>4, <1>o
  <2>6. \A q \in Processes : q # p => opened[q].stage # "filling"
    BY <1>t, <2>1 DEF OneFills
  <2>7. BiTypeOK'
    BY <2>2, <2>3, <2>5, <1>t DEF BiTypeOK, OpenedStates, Files
  <2>8. \A q \in Processes : Making(q)'
    <3>1. Making(p)'
      BY <2>3, <2>4, <2>5 DEF Making
    <3>2. ASSUME NEW q \in Processes, q # p PROVE Making(q)'
      BY <3>2, <2>1, <2>3, <2>5, <2>6, <1>t DEF Making
    <3> QED
      BY <3>1, <3>2
  <2>9. OneFills'
    BY <2>4, <2>5, <2>6 DEF OneFills
  <2>10. BiSound'
    BY <2>1, <2>2, <2>3, <2>4, <2>5, <1>t DEF BiSound, Existing
  <2> QED
    BY <2>7, <2>8, <2>9, <2>10 DEF BiInv
<1>4. ASSUME NEW p \in Processes, Die(p) PROVE BiInv'
  <2>1. Unopened \in OpenedStates
    BY DEF Unopened, OpenedStates
  <2>2. deaths' \in 0..MaxDeaths
    BY <1>4, <1>t, BiAssumption DEF Die, BiTypeOK
  <2> QED
    BY <2>1, <2>2, <1>p, <1>4, <1>f DEF Die, Unopened
<1>5. ASSUME NEW p \in Processes, BuildSqlTool(p) PROVE BiInv'
  <2> DEFINE same == opened[p]
             built == [same EXCEPT !.allowed = Existing]
  <2>1. same \in OpenedStates /\ same.engine /\ same.stage = "idle" /\ Making(p)
    BY <1>o, <1>t, <1>5 DEF BuildSqlTool, Making, OpenedStates
  <2>2. opened' = [opened EXCEPT ![p] = built]
    BY <1>5, <1>o DEF BuildSqlTool, OpenedStates
  <2>3. Existing \in SUBSET SampleTables
    BY <1>f, BiAssumption DEF Existing, SampleTables
  <2>4. /\ built \in OpenedStates /\ built.stage = "idle" /\ built.engine = TRUE
        /\ built.allowed = Existing /\ built.full = same.full
    BY <2>1, <2>3 DEF OpenedStates
  <2>5. same.full => Existing = SampleTables /\ file.filled = 1
    BY <2>1, <1>t DEF BiSound, Existing, SampleTables, Making
  <2> HIDE DEF built
  <2> QED
    BY <2>2, <2>4, <2>5, <1>5, <1>p, <1>t, <1>f DEF BuildSqlTool, BiTypeOK
<1>6. ASSUME NEW p \in Processes, NEW fresh \in BOOLEAN, NEW q \in Queries,
             NEW found \in Numbers, RunSql(p, fresh, q, found)
      PROVE  BiInv'
  <2>1. Existing \in SUBSET SampleTables
    BY <1>f, BiAssumption DEF Existing, SampleTables
  <2>2. /\ file' = file /\ opened' = opened /\ deaths' = deaths
        /\ LimitOf(q) \in 0..MaxRows
    BY <1>6, BiAssumption DEF RunSql, LimitOf
  <2>3. fresh \/ opened[p].allowed # Unread
    BY <1>6 DEF RunSql
  <2>4. ~fresh => opened[p].allowed \subseteq Existing
    BY <2>3, <1>t DEF BiSound
  <2> DEFINE list == IF fresh THEN Existing ELSE opened[p].allowed
  <2>5. list \subseteq Existing
    BY <2>4
  <2>o. /\ sql'.outcome \in {"rejected", "raised", "missing", "rows"}
        /\ sql'.listed = (q.tables \subseteq list) /\ sql'.listed \in BOOLEAN
    BY <1>6 DEF RunSql
  <2>m. sql'.outcome = "missing" => ~sql'.listed
    <3>1. sql'.outcome = "missing" => ~(q.tables \subseteq Present)
      BY <1>6 DEF RunSql
    <3> QED
      BY <2>5, <2>o, <3>1 DEF Present
  <2>6. sql'.rows \in 0..MaxRows
    BY <1>6, <2>2, BiAssumption DEF RunSql
  <2>s. sql' \in [outcome: {"none", "rejected", "raised", "missing", "rows"}, rows: Nat,
                  listed: BOOLEAN, asked: 0..MaxQueries]
    <3> DEFINE o == sql'.outcome
               l == sql'.listed
               r == sql'.rows
               n == sql.asked + 1
    <3>1. sql' = [outcome |-> o, listed |-> l, asked |-> n, rows |-> r]
      BY <1>6 DEF RunSql
    <3>n. n \in 0..MaxQueries
      BY <1>6, <1>t, BiAssumption DEF RunSql, BiTypeOK
    <3>2. /\ o \in {"none", "rejected", "raised", "missing", "rows"} /\ l \in BOOLEAN
          /\ r \in Nat
      BY <2>o, <2>6, BiAssumption
    <3> HIDE DEF o, l, r, n
    <3> QED
      BY <3>1, <3>2, <3>n
  <2>7. BiTypeOK'
    BY <2>2, <2>s, <1>t DEF BiTypeOK
  <2>8. (\A r \in Processes : Making(r)') /\ OneFills'
    BY <2>2, <1>t DEF Making, OneFills
  <2>9. BiSound'
    BY <2>2, <2>m, <2>6, <1>t, BiAssumption DEF BiSound, Existing
  <2> QED
    BY <2>7, <2>8, <2>9 DEF BiInv
<1>7. CASE UNCHANGED biVars
  BY <1>7 DEF biVars, BiInv, BiTypeOK, Making, OneFills, BiSound, Existing
<1> QED
  BY <1>1, <1>c, <1>2, <1>3, <1>4, <1>5, <1>6, <1>7 DEF BiNext

\* However processes meet over the file, empty or half made, and wherever they die, it is
\* filled at most once and completely, no list allows a table that is not there, however old
\* (so no query of listed tables misses one), the list of a process that opened a full database
\* is complete, and no answer is longer than MAX_ROWS (bi_database.py:73-124).
THEOREM DatabaseIsFilledOnce == BiSpec => []BiSound
<1>1. BiInv => BiSound
  BY DEF BiInv
<1> QED
  BY <1>1, BiStarts, BiStep, PTL DEF BiSpec

\* The type of the database's state: the file, and every process's engine and allowlist
\* (bi_database.py:119-155).
THEOREM BiTyped == BiSpec => []BiTypeOK
<1>1. BiInv => BiTypeOK
  BY DEF BiInv
<1> QED
  BY <1>1, BiStarts, BiStep, PTL DEF BiSpec

-----------------------------------------------------------------------------
(* The fetches.                                                            *)
Fetch == [stage: FetchStages, page: Pages, hop: Nat, checked: Nat, got: 0..(MaxRedirects + 1)]

\* The threads that set a body and have not trimmed the cache since.
Late == {f \in Fetches : In(f, "trimming") \/ In(f, "popping")}

FetchInv == FetchTypeOK /\ FetchesBounded

\* A thread becomes late, stays it, or is done.
LEMMA LateCount ==
  ASSUME FetchTypeOK, NEW f \in Fetches, NEW late \in BOOLEAN,
         \A g \in Fetches \ {f} : g \in Late' <=> g \in Late,
         f \in Late' <=> late
  PROVE  /\ Cardinality(Late) \in Nat /\ Cardinality(Late') \in Nat
         /\ (f \in Late <=> late) => Cardinality(Late') = Cardinality(Late)
         /\ f \notin Late /\ late => Cardinality(Late') = Cardinality(Late) + 1
         /\ f \in Late /\ ~late => Cardinality(Late') = Cardinality(Late) - 1
<1>1. IsFiniteSet(Late) /\ IsFiniteSet(Late')
  <2>1. Late \subseteq Fetches /\ Late' \subseteq Fetches
    BY DEF Late
  <2> QED
    BY <2>1, FetchAssumption, FS_Subset
<1>2. Cardinality(Late) \in Nat /\ Cardinality(Late') \in Nat
  BY <1>1, FS_CardinalityType
<1>3. CASE f \in Late <=> late
  <2> Late' = Late
    BY <1>3 DEF Late
  <2> QED
    BY <1>2, <1>3
<1>4. CASE f \notin Late /\ late
  <2> Late' = Late \union {f}
    BY <1>4 DEF Late
  <2> QED
    BY <1>1, <1>2, <1>4, FS_AddElement
<1>5. CASE f \in Late /\ ~late
  <2> Late' = Late \ {f}
    BY <1>5 DEF Late
  <2> QED
    BY <1>1, <1>2, <1>5, FS_RemoveElement
<1> QED
  BY <1>2, <1>3, <1>4, <1>5

\* What the cache's operations keep: no body twice, and how many.
LEMMA Appended ==
  ASSUME NEW S, NEW s \in Seq(S), IsInjective(s), NEW x \in S, x \notin ToSet(s)
  PROVE  /\ Append(s, x) \in Seq(S) /\ IsInjective(Append(s, x))
         /\ Len(Append(s, x)) = Len(s) + 1
  BY DEF IsInjective, ToSet
LEMMA Spliced ==
  ASSUME NEW S, NEW a \in Seq(S), NEW b \in Seq(S)
  PROVE  /\ a \o b \in Seq(S)
         /\ Len(a \o b) = Len(a) + Len(b)
         /\ \A j \in 1..Len(a) : (a \o b)[j] = a[j]
         /\ \A j \in (Len(a) + 1)..(Len(a) + Len(b)) : (a \o b)[j] = b[j - Len(a)]
  OBVIOUS
LEMMA Moved ==
  ASSUME NEW S, NEW s \in Seq(S), IsInjective(s), NEW i \in 1..Len(s)
  PROVE  /\ Append(RemoveAt(s, i), s[i]) \in Seq(S)
         /\ IsInjective(Append(RemoveAt(s, i), s[i]))
         /\ Len(Append(RemoveAt(s, i), s[i])) = Len(s)
<1> DEFINE t == RemoveAt(s, i)
<1>1. /\ t \in Seq(S) /\ Len(t) = Len(s) - 1
      /\ \A j \in DOMAIN t : t[j] = IF j < i THEN s[j] ELSE s[j + 1]
  <2> DEFINE a == SubSeq(s, 1, i - 1)
             b == SubSeq(s, i + 1, Len(s))
  <2>0. Len(s) \in Nat
    OBVIOUS
  <2>1. a \in Seq(S) /\ b \in Seq(S) /\ Len(a) = i - 1 /\ Len(b) = Len(s) - i
    OBVIOUS
  <2>2. \A j \in 1..(i - 1) : a[j] = s[j]
    OBVIOUS
  <2>3. \A j \in 1..(Len(s) - i) : b[j] = s[i + j]
    OBVIOUS
  <2>4. t = a \o b
    BY DEF RemoveAt
  <2> HIDE DEF a, b, t
  <2>5. /\ t \in Seq(S) /\ Len(t) = (i - 1) + (Len(s) - i)
        /\ \A j \in 1..(i - 1) : t[j] = a[j]
        /\ \A j \in ((i - 1) + 1)..((i - 1) + (Len(s) - i)) : t[j] = b[j - (i - 1)]
    <3> DEFINE n == i - 1
               m == Len(s) - i
    <3>1. n \in Nat /\ m \in Nat /\ Len(a) = n /\ Len(b) = m
      BY <2>0, <2>1
    <3> HIDE DEF n, m
    <3>2. /\ t \in Seq(S) /\ Len(t) = n + m
          /\ \A j \in 1..n : t[j] = a[j]
          /\ \A j \in (n + 1)..(n + m) : t[j] = b[j - n]
      <4>1. /\ a \o b \in Seq(S) /\ Len(a \o b) = n + m
            /\ \A j \in 1..n : (a \o b)[j] = a[j]
            /\ \A j \in (n + 1)..(n + m) : (a \o b)[j] = b[j - n]
        <5>1. /\ a \o b \in Seq(S)
              /\ Len(a \o b) = Len(a) + Len(b)
              /\ \A j \in 1..Len(a) : (a \o b)[j] = a[j]
              /\ \A j \in (Len(a) + 1)..(Len(a) + Len(b)) : (a \o b)[j] = b[j - Len(a)]
          BY <2>1, Spliced
        <5>2. Len(a) = n /\ Len(b) = m
          BY <3>1
        <5> QED
          BY <5>1, <5>2, Zenon
      <4> QED
        BY <4>1, <2>4, Zenon
    <3> QED
      BY <3>2 DEF n, m
  <2>7. /\ Len(t) = Len(s) - 1
        /\ \A j \in 1..(i - 1) : t[j] = a[j]
        /\ \A j \in i..(Len(s) - 1) : t[j] = b[j - (i - 1)]
    BY <2>0, <2>5
  <2>6. ASSUME NEW j \in DOMAIN t PROVE t[j] = IF j < i THEN s[j] ELSE s[j + 1]
    <3>0. j \in 1..(Len(s) - 1)
      BY <2>0, <2>5, <2>7
    <3>1. CASE j < i
      BY <2>0, <2>2, <2>7, <3>0, <3>1
    <3>2. CASE ~(j < i)
      <4> DEFINE k == j - (i - 1)
      <4>1. k \in 1..(Len(s) - i) /\ i + k = j + 1
        BY <2>0, <3>0, <3>2
      <4>2. t[j] = b[k]
        <5>1. j \in i..(Len(s) - 1)
          BY <2>0, <3>0, <3>2
        <5>2. \A x \in i..(Len(s) - 1) : t[x] = b[x - (i - 1)]
          BY <2>7
        <5> QED
          BY <5>1, <5>2, Zenon
      <4> HIDE DEF k
      <4>3. b[k] = s[i + k]
        BY <2>3, <4>1
      <4> QED
        BY <3>2, <4>1, <4>2, <4>3
    <3> QED
      BY <3>1, <3>2
  <2> QED
    BY <2>5, <2>6, <2>7
<1>2. s[i] \in S /\ DOMAIN s = 1..Len(s) /\ DOMAIN t = 1..(Len(s) - 1) /\ Len(s) \in Nat
  BY <1>1
<1> HIDE DEF t
<1>3. IsInjective(t)
  BY <1>1, <1>2 DEF IsInjective
<1>4. s[i] \notin ToSet(t)
  BY <1>1, <1>2 DEF IsInjective, ToSet
<1> QED
  BY <1>1, <1>2, <1>3, <1>4, Appended DEF t
LEMMA Popped ==
  ASSUME NEW S, NEW s \in Seq(S), IsInjective(s), s # <<>>
  PROVE  /\ Tail(s) \in Seq(S) /\ IsInjective(Tail(s)) /\ Len(Tail(s)) = Len(s) - 1
  BY DEF IsInjective

LEMMA FetchStarts == FetchInit => FetchInv
<1> SUFFICES ASSUME FetchInit PROVE FetchInv
  OBVIOUS
<1>1. FetchTypeOK
  BY FetchAssumption DEF FetchInit, FetchTypeOK, FetchStages
<1>2. Late = {}
  BY DEF Late, In, FetchInit
<1>3. Cardinality({f \in Fetches : In(f, "trimming") \/ In(f, "popping")}) = 0
  BY <1>2, FS_EmptySet DEF Late
<1> QED
  BY <1>1, <1>3, FetchAssumption DEF FetchInit, FetchInv, FetchesBounded, IsInjective, In

\* A thread moves on; the cache has at most a body per late thread too many.
LEMMA FetchMoves ==
  ASSUME FetchInv, NEW f \in Fetches, NEW o \in Fetch, fetch' = [fetch EXCEPT ![f] = o],
         o.stage = "getting" => o.checked = o.hop, o.hop <= o.got + 1,
         bodies' \in Seq(Pages), IsInjective(bodies'),
         In(f, "trimming") \/ In(f, "popping") => o.stage \in {"trimming", "popping"},
         \/ Len(bodies') <= Len(bodies)
         \/ /\ o.stage = "trimming" /\ In(f, "setting")
            /\ Len(bodies') <= Len(bodies) + 1
  PROVE  FetchInv'
<1> DEFINE late == o.stage \in {"trimming", "popping"}
<1>1. fetch \in [Fetches -> Fetch] /\ bodies \in Seq(Pages)
  BY DEF FetchInv, FetchTypeOK, Fetch
<1>2. /\ fetch' \in [Fetches -> Fetch] /\ fetch'[f] = o
      /\ \A g \in Fetches \ {f} : fetch'[g] = fetch[g]
  BY <1>1
<1>3. FetchTypeOK'
  BY <1>2 DEF FetchTypeOK, Fetch
<1>4. /\ \A g \in Fetches \ {f} : g \in Late' <=> g \in Late
      /\ f \in Late' <=> late
      /\ f \in Late <=> In(f, "trimming") \/ In(f, "popping")
  BY <1>2 DEF Late, In
<1>5. late \in BOOLEAN
  OBVIOUS
<1>6. /\ Cardinality(Late) \in Nat /\ Cardinality(Late') \in Nat
      /\ Cardinality(Late) <= Cardinality(Late')
      /\ o.stage = "trimming" /\ In(f, "setting") => Cardinality(Late') = Cardinality(Late) + 1
  <2>1. FetchTypeOK
    BY DEF FetchInv
  <2>2. f \in Late => late
    BY <1>4
  <2>3. o.stage = "trimming" /\ In(f, "setting") => late /\ f \notin Late
    BY <1>4 DEF In
  <2> HIDE DEF late
  <2>4. /\ Cardinality(Late) \in Nat /\ Cardinality(Late') \in Nat
        /\ (f \in Late <=> late) => Cardinality(Late') = Cardinality(Late)
        /\ f \notin Late /\ late => Cardinality(Late') = Cardinality(Late) + 1
    BY <2>1, <1>4, <1>5, LateCount
  <2> QED
    BY <2>2, <2>3, <2>4
<1>7. Len(bodies) <= MaxBodies + Cardinality(Late)
  BY DEF FetchInv, FetchesBounded, Late
<1>8. Len(bodies') <= MaxBodies + Cardinality(Late')
  BY <1>1, <1>6, <1>7, FetchAssumption
<1>9. \A g \in Fetches :
        /\ In(g, "getting")' => fetch'[g].checked = fetch'[g].hop
        /\ fetch'[g].hop <= fetch'[g].got + 1
        /\ fetch'[g].got <= MaxRedirects + 1
  BY <1>2, FetchAssumption DEF In, FetchInv, FetchesBounded, Fetch
<1>10. IsInjective(bodies)'
  BY DEF IsInjective, FetchInv, FetchesBounded
<1>11. (Len(bodies) <= MaxBodies
         + Cardinality({g \in Fetches : In(g, "trimming") \/ In(g, "popping")}))'
  BY <1>8 DEF Late
<1>12. FetchesBounded'
  BY <1>9, <1>10, <1>11 DEF FetchesBounded
<1> QED
  BY <1>3, <1>12 DEF FetchInv

\* A late thread that is done leaves a cache of the size that was asked for, or none at all.
LEMMA LastMoves ==
  ASSUME FetchInv, NEW f \in Fetches, NEW o \in Fetch, fetch' = [fetch EXCEPT ![f] = o],
         o.stage \in FetchOver, o.hop <= o.got + 1, bodies' = bodies, Len(bodies) <= MaxBodies
  PROVE  FetchInv'
<1>1. fetch \in [Fetches -> Fetch] /\ bodies \in Seq(Pages)
  BY DEF FetchInv, FetchTypeOK, Fetch
<1>2. /\ fetch' \in [Fetches -> Fetch] /\ fetch'[f] = o
      /\ \A g \in Fetches \ {f} : fetch'[g] = fetch[g]
  BY <1>1
<1>3. FetchTypeOK'
  BY <1>1, <1>2 DEF FetchTypeOK, Fetch
<1>4. \A g \in Fetches \ {f} : g \in Late' <=> g \in Late
  BY <1>2 DEF Late, In
<1>5. f \in Late' <=> FALSE
  BY <1>2 DEF Late, In, FetchOver
<1>6. Cardinality(Late') \in Nat
  BY <1>4, <1>5, LateCount DEF FetchInv
<1>7. Len(bodies') <= MaxBodies + Cardinality(Late')
  BY <1>1, <1>6, FetchAssumption
<1>8. \A g \in Fetches :
        /\ In(g, "getting")' => fetch'[g].checked = fetch'[g].hop
        /\ fetch'[g].hop <= fetch'[g].got + 1
        /\ fetch'[g].got <= MaxRedirects + 1
  BY <1>2, FetchAssumption DEF In, FetchInv, FetchesBounded, Fetch, FetchOver
<1>10. IsInjective(bodies)'
  BY DEF IsInjective, FetchInv, FetchesBounded
<1>11. (Len(bodies) <= MaxBodies
         + Cardinality({g \in Fetches : In(g, "trimming") \/ In(g, "popping")}))'
  BY <1>7 DEF Late
<1>12. FetchesBounded'
  BY <1>8, <1>10, <1>11 DEF FetchesBounded
<1> QED
  BY <1>3, <1>12 DEF FetchInv

LEMMA FetchStepKeeps == FetchInv /\ [FetchNext]_fetchVars => FetchInv'
<1> SUFFICES ASSUME FetchInv, [FetchNext]_fetchVars PROVE FetchInv'
  OBVIOUS
<1>t. fetch \in [Fetches -> Fetch] /\ bodies \in Seq(Pages)
  BY DEF FetchInv, FetchTypeOK, Fetch
<1>b. /\ IsInjective(bodies) /\ Len(bodies) \in Nat
      /\ \A f \in Fetches : fetch[f].hop <= fetch[f].got + 1
  BY <1>t DEF FetchInv, FetchesBounded
\* A step that leaves the cache alone, of a thread that is not late.
<1>s. ASSUME NEW f \in Fetches, NEW o \in Fetch, fetch' = [fetch EXCEPT ![f] = o],
             bodies' = bodies, o.stage = "getting" => o.checked = o.hop, o.hop <= o.got + 1,
             o.stage \notin {"trimming", "popping"},
             fetch[f].stage \notin {"trimming", "popping"}
      PROVE  FetchInv'
  <2>1. bodies' \in Seq(Pages) /\ IsInjective(bodies') /\ Len(bodies') <= Len(bodies)
    BY <1>s, <1>b, <1>t
  <2> QED
    BY <2>1, <1>s, FetchMoves DEF In
\* Only the stage changes.
<1>g. ASSUME NEW f \in Fetches, NEW stage \in FetchStages, Go(f, stage)
      PROVE  \E o \in Fetch : /\ fetch' = [fetch EXCEPT ![f] = o] /\ o.stage = stage
                              /\ o.hop = fetch[f].hop /\ o.got = fetch[f].got
  <2> DEFINE o == [fetch[f] EXCEPT !.stage = stage]
  <2>1. /\ o \in Fetch /\ fetch' = [fetch EXCEPT ![f] = o] /\ o.stage = stage
        /\ o.hop = fetch[f].hop /\ o.got = fetch[f].got
    BY <1>t, <1>g DEF Go, Fetch
  <2> HIDE DEF o
  <2> QED
    BY <2>1
<1>1. ASSUME NEW f \in Fetches, NEW p \in Pages, BeginFetch(f, p) PROVE FetchInv'
  <2> DEFINE o == [fetch[f] EXCEPT !.stage = "checking", !.page = p]
  <2>1. /\ o \in Fetch /\ fetch' = [fetch EXCEPT ![f] = o] /\ o.stage = "checking"
        /\ o.hop = fetch[f].hop /\ o.got = fetch[f].got
    BY <1>1, <1>t DEF BeginFetch, Fetch, FetchStages
  <2> HIDE DEF o
  <2> QED
    BY <2>1, <1>1, <1>b, <1>s DEF BeginFetch, In
<1>2. ASSUME NEW f \in Fetches, RejectUrl(f) PROVE FetchInv'
  <2>1. "rejected" \in FetchStages
    BY DEF FetchStages, FetchOver
  <2>2. PICK o \in Fetch : /\ fetch' = [fetch EXCEPT ![f] = o] /\ o.stage = "rejected"
                           /\ o.hop = fetch[f].hop /\ o.got = fetch[f].got
    BY <2>1, <1>2, <1>g DEF RejectUrl
  <2> QED
    BY <2>2, <1>2, <1>b, <1>s DEF RejectUrl, In
<1>3. ASSUME NEW f \in Fetches, CheckHop(f) PROVE FetchInv'
  <2> DEFINE o == [fetch[f] EXCEPT !.stage = "getting", !.checked = fetch[f].hop]
  <2>1. /\ o \in Fetch /\ fetch' = [fetch EXCEPT ![f] = o] /\ o.stage = "getting"
        /\ o.hop = fetch[f].hop /\ o.got = fetch[f].got /\ o.checked = o.hop
    BY <1>3, <1>t DEF CheckHop, Fetch, FetchStages
  <2> HIDE DEF o
  <2> QED
    BY <2>1, <1>3, <1>b, <1>s DEF CheckHop, In
<1>4. ASSUME NEW f \in Fetches, Redirect(f) PROVE FetchInv'
  <2> DEFINE o == [fetch[f] EXCEPT !.stage = "checking", !.hop = @ + 1, !.got = @ + 1]
  <2>0. fetch[f].got + 1 \in 0..(MaxRedirects + 1) /\ fetch[f].hop + 1 \in Nat
    BY <1>4, <1>t, FetchAssumption DEF Redirect, Fetch
  <2>1. /\ o \in Fetch /\ fetch' = [fetch EXCEPT ![f] = o] /\ o.stage = "checking"
        /\ o.hop = fetch[f].hop + 1 /\ o.got = fetch[f].got + 1
    BY <2>0, <1>4, <1>t DEF Redirect, Fetch, FetchStages
  <2> HIDE DEF o
  <2>2. o.hop <= o.got + 1
    BY <2>0, <2>1, <1>b, <1>t DEF Fetch
  <2> QED
    BY <2>1, <2>2, <1>4, <1>s DEF Redirect, In
<1>5. ASSUME NEW f \in Fetches, GetPage(f) PROVE FetchInv'
  <2> DEFINE o == [fetch[f] EXCEPT !.stage = "storing", !.got = @ + 1]
  <2>0. fetch[f].got + 1 \in 0..(MaxRedirects + 1)
    BY <1>5, <1>t, FetchAssumption DEF GetPage, Fetch
  <2>1. /\ o \in Fetch /\ fetch' = [fetch EXCEPT ![f] = o] /\ o.stage = "storing"
        /\ o.hop = fetch[f].hop /\ o.got = fetch[f].got + 1
    BY <2>0, <1>5, <1>t DEF GetPage, Fetch, FetchStages
  <2> HIDE DEF o
  <2>2. o.hop <= o.got + 1
    BY <2>0, <2>1, <1>b, <1>t DEF Fetch
  <2> QED
    BY <2>1, <2>2, <1>5, <1>s DEF GetPage, In
<1>6. ASSUME NEW f \in Fetches, FetchFails(f) PROVE FetchInv'
  <2>1. "empty" \in FetchStages
    BY DEF FetchStages, FetchOver
  <2>2. PICK o \in Fetch : /\ fetch' = [fetch EXCEPT ![f] = o] /\ o.stage = "empty"
                           /\ o.hop = fetch[f].hop /\ o.got = fetch[f].got
    BY <2>1, <1>6, <1>g DEF FetchFails
  <2> QED
    BY <2>2, <1>6, <1>b, <1>s DEF FetchFails, In
<1>7. ASSUME NEW f \in Fetches, LookUp(f) PROVE FetchInv'
  <2>1. PICK stage \in {"moving", "setting"} : Go(f, stage)
    BY <1>7 DEF LookUp
  <2>2. stage \in FetchStages
    BY DEF FetchStages
  <2>3. PICK o \in Fetch : /\ fetch' = [fetch EXCEPT ![f] = o] /\ o.stage = stage
                           /\ o.hop = fetch[f].hop /\ o.got = fetch[f].got
    BY <2>1, <2>2, <1>g
  <2>4. stage \notin {"getting", "trimming", "popping"}
    OBVIOUS
  <2> QED
    BY <2>3, <2>4, <1>7, <1>b, <1>s DEF LookUp, In
<1>8. ASSUME NEW f \in Fetches, MoveToEnd(f) PROVE FetchInv'
  <2>1. PICK i \in DOMAIN bodies : /\ bodies[i] = Page(f)
                                   /\ bodies' = Append(RemoveAt(bodies, i), Page(f))
    BY <1>8 DEF MoveToEnd
  <2>2. i \in 1..Len(bodies)
    BY <1>t
  <2>3. /\ bodies' \in Seq(Pages) /\ IsInjective(bodies') /\ Len(bodies') = Len(bodies)
    BY <2>1, <2>2, <1>b, <1>t, Moved
  <2>4. "setting" \in FetchStages
    BY DEF FetchStages
  <2>5. Len(bodies') <= Len(bodies)
    BY <2>3, <1>b
  <2>6. PICK o \in Fetch : /\ fetch' = [fetch EXCEPT ![f] = o] /\ o.stage = "setting"
                           /\ o.hop = fetch[f].hop /\ o.got = fetch[f].got
    BY <2>4, <1>8, <1>g DEF MoveToEnd
  <2> QED
    BY <2>3, <2>5, <2>6, <1>8, <1>b, FetchMoves DEF MoveToEnd, In
<1>9. ASSUME NEW f \in Fetches, MoveFails(f) PROVE FetchInv'
  <2>1. "raised" \in FetchStages
    BY DEF FetchStages, FetchOver
  <2>2. PICK o \in Fetch : /\ fetch' = [fetch EXCEPT ![f] = o] /\ o.stage = "raised"
                           /\ o.hop = fetch[f].hop /\ o.got = fetch[f].got
    BY <2>1, <1>9, <1>g DEF MoveFails
  <2> QED
    BY <2>2, <1>9, <1>b, <1>s DEF MoveFails, In
<1>10. ASSUME NEW f \in Fetches, SetBody(f) PROVE FetchInv'
  <2>1. Page(f) \in Pages
    BY <1>t DEF Page, Fetch
  <2>2. /\ bodies' \in Seq(Pages) /\ IsInjective(bodies') /\ Len(bodies') <= Len(bodies) + 1
    <3>1. CASE Cached(Page(f))
      BY <3>1, <1>10, <1>b, <1>t DEF SetBody
    <3>2. CASE ~Cached(Page(f))
      BY <3>2, <2>1, <1>10, <1>b, <1>t, Appended DEF SetBody, Cached
    <3> QED
      BY <3>1, <3>2
  <2>3. "trimming" \in FetchStages
    BY DEF FetchStages
  <2>4. PICK o \in Fetch : /\ fetch' = [fetch EXCEPT ![f] = o] /\ o.stage = "trimming"
                           /\ o.hop = fetch[f].hop /\ o.got = fetch[f].got
    BY <2>3, <1>10, <1>g DEF SetBody
  <2> QED
    BY <2>2, <2>4, <1>10, <1>b, FetchMoves DEF SetBody, In
<1>11. ASSUME NEW f \in Fetches, Trim(f) PROVE FetchInv'
  <2>1. "popping" \in FetchStages /\ "text" \in FetchStages
    BY DEF FetchStages, FetchOver
  <2>2. CASE Len(bodies) > MaxBodies
    <3>1. PICK o \in Fetch : /\ fetch' = [fetch EXCEPT ![f] = o] /\ o.stage = "popping"
                             /\ o.hop = fetch[f].hop /\ o.got = fetch[f].got
      BY <2>1, <2>2, <1>11, <1>g DEF Trim
    <3>2. Len(bodies) <= Len(bodies)
      BY <1>b
    <3> QED
      BY <3>1, <3>2, <1>11, <1>b, <1>t, FetchMoves DEF Trim, In
  <2>3. CASE ~(Len(bodies) > MaxBodies)
    <3>1. PICK o \in Fetch : /\ fetch' = [fetch EXCEPT ![f] = o] /\ o.stage = "text"
                             /\ o.hop = fetch[f].hop /\ o.got = fetch[f].got
      BY <2>1, <2>3, <1>11, <1>g DEF Trim
    <3>2. Len(bodies) <= MaxBodies /\ bodies' = bodies
      BY <2>3, <1>11, <1>b, FetchAssumption DEF Trim
    <3> QED
      BY <3>1, <3>2, <1>b, LastMoves DEF FetchOver
  <2> QED
    BY <2>2, <2>3
<1>12. ASSUME NEW f \in Fetches, PopOldest(f) PROVE FetchInv'
  <2>1. "raised" \in FetchStages /\ "trimming" \in FetchStages
    BY DEF FetchStages, FetchOver
  <2>2. CASE bodies = <<>>
    <3>1. PICK o \in Fetch : /\ fetch' = [fetch EXCEPT ![f] = o] /\ o.stage = "raised"
                             /\ o.hop = fetch[f].hop /\ o.got = fetch[f].got
      BY <2>1, <2>2, <1>12, <1>g DEF PopOldest
    <3>2. Len(bodies) <= MaxBodies /\ bodies' = bodies
      BY <2>2, <1>12, FetchAssumption DEF PopOldest
    <3> QED
      BY <3>1, <3>2, <1>b, LastMoves DEF FetchOver
  <2>3. CASE bodies # <<>>
    <3>1. PICK o \in Fetch : /\ fetch' = [fetch EXCEPT ![f] = o] /\ o.stage = "trimming"
                             /\ o.hop = fetch[f].hop /\ o.got = fetch[f].got
      BY <2>1, <2>3, <1>12, <1>g DEF PopOldest
    <3>2. /\ bodies' \in Seq(Pages) /\ IsInjective(bodies') /\ Len(bodies') = Len(bodies) - 1
      BY <2>3, <1>12, <1>b, <1>t, Popped DEF PopOldest
    <3>3. Len(bodies') <= Len(bodies)
      BY <3>2, <1>b
    <3> QED
      BY <3>1, <3>2, <3>3, <1>12, <1>b, FetchMoves DEF PopOldest, In
  <2> QED
    BY <2>2, <2>3
<1>13. ASSUME NEW f \in Fetches, EndFetch(f) PROVE FetchInv'
  <2> DEFINE o == [fetch[f] EXCEPT !.stage = "idle", !.hop = 1, !.checked = 0, !.got = 0]
  <2>0. 0 \in 0..(MaxRedirects + 1)
    BY FetchAssumption
  <2>1. /\ o \in Fetch /\ fetch' = [fetch EXCEPT ![f] = o] /\ o.stage = "idle"
        /\ o.hop = 1 /\ o.got = 0
    BY <2>0, <1>13, <1>t DEF EndFetch, Fetch, FetchStages
  <2> HIDE DEF o
  <2>2. o.hop <= o.got + 1
    BY <2>1
  <2> QED
    BY <2>1, <2>2, <1>13, <1>s DEF EndFetch, FetchOver
<1>14. CASE UNCHANGED fetchVars
  BY <1>14 DEF fetchVars, FetchInv, FetchTypeOK, FetchesBounded, In, IsInjective
<1> QED
  BY <1>1, <1>2, <1>3, <1>4, <1>5, <1>6, <1>7, <1>8, <1>9, <1>10, <1>11, <1>12, <1>13, <1>14
  DEF FetchNext, FetchStep

\* Every request goes to a url that was checked after the redirect that led to it, none is
\* made beyond the allowed ones, no body is cached twice, and the cache is too long by at most
\* one body per thread between its set and its trim (netguard.py:9-11, 110-115,
\* web.py:29-41).
THEOREM FetchesAreBounded == FetchSpec => []FetchesBounded
<1>1. FetchInv => FetchesBounded
  BY DEF FetchInv
<1> QED
  BY <1>1, FetchStarts, FetchStepKeeps, PTL DEF FetchSpec

\* The type of the fetches and of the cache they share (web.py:23-46, netguard.py).
THEOREM FetchTyped == FetchSpec => []FetchTypeOK
<1>1. FetchInv => FetchTypeOK
  BY DEF FetchInv
<1> QED
  BY <1>1, FetchStarts, FetchStepKeeps, PTL DEF FetchSpec

-----------------------------------------------------------------------------
(* The two sessions of the legacy CRM.                                     *)
Acts   == [kind: {"observe", "type", "click"}, target: Targets \union {""}, value: Typed]
Wanted == {"nothing", "error", "login_error", "welcome", "dashboard", "success"}
QaStep == [act: Acts, expects: Wanted]
Names  == {Scenarios[i].name : i \in DOMAIN Scenarios}
QaRun  == [scripted: BOOLEAN, scenario: 1..6, step: Nat \ {0}, trace: Nat, strayed: BOOLEAN,
           last: {"type", "click"}, bugs: [{"ui", "dom"} -> SUBSET Names]]

\* What the scenarios do are actions.
LEMMA CommandsAreActs ==
  /\ \A t \in Targets, v \in Typed : Command("type", t, v) \in Acts
  /\ \A t \in Targets : Command("click", t, "") \in Acts
  /\ Look \in Acts
<1>1. "" \in Typed
  BY DEF Typed
<1> QED
  BY <1>1 DEF Command, Look, Acts

LEMMA TargetsNamed ==
  /\ Buttons = {"submit", "new_customer", "logout", "save", "cancel", "back"}
  /\ Fields \union Buttons \subseteq Targets
<1>1. States = {"login", "dashboard", "customer_form", "success"}
  BY DEF States, Layout
<1>2. /\ Layout["login"].buttons = {"submit"}
      /\ Layout["dashboard"].buttons = {"new_customer", "logout"}
      /\ Layout["customer_form"].buttons = {"save", "cancel"}
      /\ Layout["success"].buttons = {"back"}
  BY DEF Layout
<1>3. Buttons = Layout["login"].buttons \union Layout["dashboard"].buttons
                \union Layout["customer_form"].buttons \union Layout["success"].buttons
  BY <1>1 DEF Buttons
<1> QED
  BY <1>2, <1>3 DEF Targets

LEMMA ThreeSteps ==
  ASSUME NEW S, NEW x \in S, NEW y \in S, NEW z \in S
  PROVE  <<x, y, z>> \in Seq(S)
  OBVIOUS
LEMMA OneStep ==
  ASSUME NEW S, NEW x \in S PROVE <<x>> \in Seq(S)
  OBVIOUS

LEMMA ScenariosAreSteps ==
  \A i \in DOMAIN Scenarios : Scenarios[i].steps \in Seq(QaStep)
<1>0. \A a \in Acts : /\ \A x \in Wanted : Step(a, x) \in QaStep
                      /\ Do(a) \in QaStep
  BY DEF Step, Do, QaStep, Wanted
<1>1. ASSUME NEW t \in Fields \union Buttons, NEW v \in Typed
      PROVE  Command("type", t, v) \in Acts /\ Command("click", t, "") \in Acts
  BY CommandsAreActs, TargetsNamed
<1>v. {"", "admin", "secret", "wrong", "acme", "valid", "invalid"} \subseteq Typed
  BY DEF Typed
<1>f. {"username", "password", "name", "email", "submit", "new_customer", "save"}
        \subseteq Fields \union Buttons
  BY TargetsNamed DEF Fields
<1>2. ASSUME NEW pass \in Typed PROVE Login(pass) \in Seq(QaStep)
  <2>1. /\ Do(Command("type", "username", "admin")) \in QaStep
        /\ Do(Command("type", "password", pass)) \in QaStep
        /\ Do(Command("click", "submit", "")) \in QaStep
    BY <1>0, <1>1, <1>v, <1>f
  <2> QED
    BY <2>1, ThreeSteps DEF Login
<1>3. ASSUME NEW email \in Typed PROVE NewCustomer(email) \in Seq(QaStep)
  <2> DEFINE more == <<Do(Command("click", "new_customer", "")),
                       Do(Command("type", "name", "acme")), Do(Command("type", "email", email))>>
  <2>1. /\ Do(Command("click", "new_customer", "")) \in QaStep
        /\ Do(Command("type", "name", "acme")) \in QaStep
        /\ Do(Command("type", "email", email)) \in QaStep
    BY <1>0, <1>1, <1>v, <1>f
  <2>2. more \in Seq(QaStep)
    BY <2>1, ThreeSteps
  <2>3. NewCustomer(email) = Login("secret") \o more
    BY DEF NewCustomer
  <2> HIDE DEF more
  <2>4. Login("secret") \in Seq(QaStep)
    BY <1>2, <1>v
  <2> QED
    BY <2>2, <2>3, <2>4, Spliced
<1>4. Save("success") \in QaStep /\ Save("error") \in QaStep
  BY <1>0, <1>1, <1>v, <1>f DEF Save, Step, QaStep, Wanted
<1>5. /\ Step(Look, "dashboard") \in QaStep /\ Step(Look, "login_error") \in QaStep
      /\ Step(Look, "welcome") \in QaStep
  BY <1>0, CommandsAreActs DEF Wanted
<1>6. /\ Login("secret") \in Seq(QaStep) /\ Login("wrong") \in Seq(QaStep)
      /\ NewCustomer("valid") \in Seq(QaStep) /\ NewCustomer("invalid") \in Seq(QaStep)
      /\ <<Step(Look, "login_error")>> \in Seq(QaStep)
  BY <1>2, <1>3, <1>5, <1>v, OneStep
<1>a. ASSUME NEW s \in Seq(QaStep), NEW x \in QaStep PROVE Append(s, x) \in Seq(QaStep)
  BY <1>a
<1>7. /\ Append(Login("secret"), Step(Look, "dashboard")) \in Seq(QaStep)
      /\ Login("wrong") \o <<Step(Look, "login_error")>> \in Seq(QaStep)
      /\ Append(NewCustomer("valid"), Save("success")) \in Seq(QaStep)
      /\ Append(NewCustomer("invalid"), Save("error")) \in Seq(QaStep)
      /\ Append(Login("secret"), Step(Look, "welcome")) \in Seq(QaStep)
  <2>1. Login("wrong") \o <<Step(Look, "login_error")>> \in Seq(QaStep)
    BY <1>6, Spliced
  <2> QED
    BY <2>1, <1>4, <1>5, <1>6, <1>a
<1>8. DOMAIN Scenarios = 1..5
  BY DEF Scenarios
<1>9. /\ Scenarios[1].steps = Append(Login("secret"), Step(Look, "dashboard"))
      /\ Scenarios[2].steps = Login("wrong") \o <<Step(Look, "login_error")>>
      /\ Scenarios[3].steps = Append(NewCustomer("valid"), Save("success"))
      /\ Scenarios[4].steps = Append(NewCustomer("invalid"), Save("error"))
      /\ Scenarios[5].steps = Append(Login("secret"), Step(Look, "welcome"))
  BY DEF Scenarios
<1> SUFFICES ASSUME NEW i \in 1..5 PROVE Scenarios[i].steps \in Seq(QaStep)
  BY <1>8
<1>10. i = 1 \/ i = 2 \/ i = 3 \/ i = 4 \/ i = 5
  OBVIOUS
<1> QED
  BY <1>7, <1>9, <1>10

\* The state of a session, without the greeting.
UiState  == [state: States, fields: [Fields -> Typed], error: Complaints]
DomState == [state: States, fields: [Fields -> Typed], error: Complaints, greeting: Typed]
Same(s, d) ==
  /\ d.state = s.state /\ d.fields = s.fields
  /\ s.state = "dashboard" => d.greeting = s.fields.username

\* Up to the first action off the screen.  After a type the page may still show what the
\* state machine has cleared.
InStep ==
  /\ ui \in UiState /\ dom \in DomState /\ Same(ui, dom)
  /\ ui.error = dom.error \/ (qa.last = "type" /\ ui.error = "none")
CrmInv == qa \in QaRun /\ (~qa.strayed => InStep)

\* What the layout says, screen by screen.
LEMMA Screens ==
  /\ States = {"login", "dashboard", "customer_form", "success"}
  /\ Layout["login"].inputs = {"username", "password"}
  /\ Layout["dashboard"].inputs = {} /\ Layout["success"].inputs = {}
  /\ Layout["customer_form"].inputs = {"name", "email"}
  /\ Layout["login"].buttons = {"submit"}
  /\ Layout["dashboard"].buttons = {"new_customer", "logout"}
  /\ Layout["customer_form"].buttons = {"save", "cancel"}
  /\ Layout["success"].buttons = {"back"}
  BY DEF States, Layout

\* The updates of a session, field by field.
LEMMA UiComplains ==
  ASSUME NEW s \in UiState, NEW error \in Complaints
  PROVE  /\ [s EXCEPT !.error = error] \in UiState
         /\ [s EXCEPT !.error = error].state = s.state
         /\ [s EXCEPT !.error = error].fields = s.fields
         /\ [s EXCEPT !.error = error].error = error
  BY DEF UiState
LEMMA UiMoves ==
  ASSUME NEW s \in UiState, NEW state \in States
  PROVE  /\ [s EXCEPT !.state = state] \in UiState
         /\ [s EXCEPT !.state = state].state = state
         /\ [s EXCEPT !.state = state].fields = s.fields
         /\ [s EXCEPT !.state = state].error = s.error
  BY DEF UiState
LEMMA PageComplains ==
  ASSUME NEW d \in DomState, NEW error \in Complaints
  PROVE  /\ Complain(d, error) \in DomState
         /\ Complain(d, error).state = d.state
         /\ Complain(d, error).fields = d.fields
         /\ Complain(d, error).error = error
         /\ Complain(d, error).greeting = d.greeting
  BY DEF DomState, Complain
LEMMA PageShows ==
  ASSUME NEW d \in DomState, NEW state \in States
  PROVE  /\ Show(d, state) \in DomState
         /\ Show(d, state).state = state
         /\ Show(d, state).fields = d.fields
         /\ Show(d, state).error = "none"
  BY DEF DomState, Show, Complaints
LEMMA DashboardShown ==
  ASSUME NEW d \in DomState
  PROVE  /\ Dashboard(d) \in DomState /\ Dashboard(d).state = "dashboard"
         /\ Dashboard(d).fields = d.fields /\ Dashboard(d).error = "none"
         /\ Dashboard(d).greeting = d.fields.username
<1> DEFINE shown == Show(d, "dashboard")
<1>1. /\ shown \in DomState /\ shown.state = "dashboard" /\ shown.fields = d.fields
      /\ shown.error = "none"
  BY Screens DEF DomState, Show, Complaints
<1>2. Dashboard(d) = [shown EXCEPT !.greeting = d.fields.username]
  BY DEF Dashboard
<1>3. d.fields.username \in Typed
  BY DEF DomState, Fields
<1> HIDE DEF shown
<1> QED
  BY <1>1, <1>2, <1>3 DEF DomState

\* A type into an input of the screen.
LEMMA TypesAgree ==
  ASSUME NEW s \in UiState, NEW d \in DomState, Same(s, d), NEW a \in Acts, a.kind = "type",
         a.target \in Layout[s.state].inputs
  PROVE  /\ UiAct(s, a) \in UiState /\ DomAct(d, a) \in DomState
         /\ Same(UiAct(s, a), DomAct(d, a))
         /\ UiAct(s, a).error = "none"
<1>1. /\ s.state \in {"login", "customer_form"} /\ a.target \in Fields /\ a.target # "unknown"
      /\ a.value \in Typed
  BY Screens DEF UiState, Fields, Acts
<1>2. ~DomRaises(d, a)
  BY <1>1 DEF DomRaises, Same
<1> DEFINE fields == [s.fields EXCEPT ![a.target] = a.value]
           clean  == [s EXCEPT !.error = "none"]
<1>3. DomAct(d, a) = [d EXCEPT !.fields = fields]
  BY <1>1, <1>2 DEF DomAct, Same
<1>5. /\ "none" \in Complaints /\ fields \in [Fields -> Typed]
  BY <1>1 DEF Complaints, UiState
<1>6. /\ clean \in UiState /\ clean.state = s.state /\ clean.fields = s.fields
      /\ clean.error = "none"
  BY <1>5 DEF UiState
<1>4. UiAct(s, a) = [clean EXCEPT !.fields = fields]
  BY <1>1, <1>6 DEF UiAct
<1> HIDE DEF fields, clean
<1>7. /\ UiAct(s, a) \in UiState /\ UiAct(s, a).state = s.state
      /\ UiAct(s, a).fields = fields /\ UiAct(s, a).error = "none"
  BY <1>4, <1>5, <1>6 DEF UiState
<1>8. /\ DomAct(d, a) \in DomState /\ DomAct(d, a).state = d.state
      /\ DomAct(d, a).fields = fields
  BY <1>3, <1>5 DEF DomState
<1> QED
  BY <1>1, <1>7, <1>8 DEF Same

\* A click on a button of the screen.
LEMMA ClicksAgree ==
  ASSUME NEW s \in UiState, NEW d \in DomState, Same(s, d), NEW a \in Acts, a.kind = "click",
         a.target \in Layout[s.state].buttons
  PROVE  /\ UiAct(s, a) \in UiState /\ DomAct(d, a) \in DomState
         /\ Same(UiAct(s, a), DomAct(d, a))
         /\ UiAct(s, a).error = DomAct(d, a).error
<1> DEFINE b == a.target
           clean == [s EXCEPT !.error = "none"]
           u == UiClick(clean, b)
           e == DomHandler(d, b)
           Agreed == /\ u \in UiState /\ e \in DomState /\ u.error = e.error
                     /\ e.state = u.state /\ e.fields = u.fields
                     /\ u.state = "dashboard" => e.greeting = u.fields.username
<1>1. /\ b \in Buttons /\ b # "unknown" /\ b \notin {"greeting", "confirmation"}
      /\ b \in Layout[d.state].buttons
  BY Screens, TargetsNamed DEF UiState, Same
<1>2. ~DomRaises(d, a)
  BY <1>1 DEF DomRaises
<1>3. DomAct(d, a) = e /\ UiAct(s, a) = u
  BY <1>1, <1>2 DEF DomAct, UiAct
<1>4. /\ clean \in UiState /\ clean.state = s.state /\ clean.fields = s.fields
      /\ clean.error = "none"
  BY DEF UiState, Complaints
<1>c. /\ "none" \in Complaints /\ "credentials" \in Complaints /\ "name" \in Complaints
      /\ "login" \in States /\ "dashboard" \in States /\ "customer_form" \in States
      /\ "success" \in States
  BY Screens DEF Complaints
<1>d. d.state = s.state /\ d.fields = clean.fields
  BY <1>4 DEF Same
<1> HIDE DEF clean
<1>5. ASSUME s.state = "login", b = "submit" PROVE Agreed
  <2> DEFINE ok == clean.fields.username = "admin" /\ clean.fields.password = "secret"
  <2>1. /\ u = IF ok THEN [clean EXCEPT !.state = "dashboard"]
               ELSE [clean EXCEPT !.error = "credentials"]
        /\ e = IF ok THEN Dashboard(d) ELSE Complain(d, "credentials")
    BY <1>4, <1>5, <1>d DEF UiClick, DomHandler
  <2> HIDE DEF u, e
  <2>2. CASE ok
    <3>1. u \in UiState /\ u.state = "dashboard" /\ u.fields = clean.fields /\ u.error = "none"
      BY <2>1, <2>2, <1>4, <1>c, UiMoves
    <3> QED
      BY <2>1, <2>2, <3>1, <1>d, DashboardShown
  <2>3. CASE ~ok
    <3>1. u \in UiState /\ u.state = "login" /\ u.fields = clean.fields /\ u.error = "credentials"
      BY <2>1, <2>3, <1>4, <1>5, <1>c, UiComplains
    <3>2. /\ e \in DomState /\ e.state = "login" /\ e.fields = clean.fields
          /\ e.error = "credentials"
      BY <2>1, <2>3, <1>5, <1>c, <1>d, PageComplains
    <3> QED
      BY <3>1, <3>2
  <2> QED
    BY <2>2, <2>3
<1>6. ASSUME s.state = "dashboard", b = "new_customer" PROVE Agreed
  <2> DEFINE fields == [clean.fields EXCEPT !.name = "", !.email = ""]
             shown  == Show(d, "customer_form")
  <2>1. fields \in [Fields -> Typed]
    BY <1>4 DEF UiState, Typed
  <2>2. /\ shown \in DomState /\ shown.state = "customer_form" /\ shown.fields = clean.fields
        /\ shown.error = "none"
    BY <1>c, <1>d, PageShows
  <2> HIDE DEF shown
  <2>3. u = [clean EXCEPT !.state = "customer_form", !.fields = fields]
    BY <1>4, <1>6 DEF UiClick, UiState
  <2>4. e = [shown EXCEPT !.fields = fields]
    BY <1>6, <2>2 DEF DomHandler, DomState, shown
  <2> HIDE DEF u, e, fields
  <2>5. u \in UiState /\ u.state = "customer_form" /\ u.fields = fields /\ u.error = "none"
    BY <2>1, <2>3, <1>4, <1>c DEF UiState
  <2>6. e \in DomState /\ e.state = "customer_form" /\ e.fields = fields /\ e.error = "none"
    BY <2>1, <2>2, <2>4 DEF DomState
  <2> QED
    BY <2>5, <2>6
<1>7. ASSUME s.state = "dashboard", b = "logout" PROVE Agreed
  <2>1. u = [clean EXCEPT !.state = "login"] /\ e = Show(d, "login")
    BY <1>4, <1>7 DEF UiClick, DomHandler
  <2> HIDE DEF u, e
  <2>2. u \in UiState /\ u.state = "login" /\ u.fields = clean.fields /\ u.error = "none"
    BY <2>1, <1>4, <1>c, UiMoves
  <2>3. e \in DomState /\ e.state = "login" /\ e.fields = clean.fields /\ e.error = "none"
    BY <2>1, <1>c, <1>d, PageShows
  <2> QED
    BY <2>2, <2>3
<1>8. ASSUME s.state = "customer_form", b = "save" PROVE Agreed
  <2> DEFINE blank == Blank(clean.fields.name)
  <2>1. /\ u = IF blank THEN [clean EXCEPT !.error = "name"] ELSE [clean EXCEPT !.state = "success"]
        /\ e = IF blank THEN Complain(d, "name") ELSE Show(d, "success")
    BY <1>4, <1>8, <1>d DEF UiClick, DomHandler
  <2> HIDE DEF u, e, blank
  <2>2. CASE blank
    <3>1. /\ u \in UiState /\ u.state = "customer_form" /\ u.fields = clean.fields
          /\ u.error = "name"
      BY <2>1, <2>2, <1>4, <1>8, <1>c, UiComplains
    <3>2. /\ e \in DomState /\ e.state = "customer_form" /\ e.fields = clean.fields
          /\ e.error = "name"
      BY <2>1, <2>2, <1>8, <1>c, <1>d, PageComplains
    <3> QED
      BY <3>1, <3>2
  <2>3. CASE ~blank
    <3>1. u \in UiState /\ u.state = "success" /\ u.fields = clean.fields /\ u.error = "none"
      BY <2>1, <2>3, <1>4, <1>c, UiMoves
    <3>2. e \in DomState /\ e.state = "success" /\ e.fields = clean.fields /\ e.error = "none"
      BY <2>1, <2>3, <1>c, <1>d, PageShows
    <3> QED
      BY <3>1, <3>2
  <2> QED
    BY <2>2, <2>3
<1>9. ASSUME <<s.state, b>> \in {<<"customer_form", "cancel">>, <<"success", "back">>}
      PROVE  Agreed
  <2>1. u = [clean EXCEPT !.state = "dashboard"] /\ e = Dashboard(d)
    BY <1>4, <1>9 DEF UiClick, DomHandler
  <2> HIDE DEF u, e
  <2>2. u \in UiState /\ u.state = "dashboard" /\ u.fields = clean.fields /\ u.error = "none"
    BY <2>1, <1>4, <1>c, UiMoves
  <2> QED
    BY <2>1, <2>2, <1>d, DashboardShown
<1>10. \/ s.state = "login" /\ b = "submit"
       \/ s.state = "dashboard" /\ b \in {"new_customer", "logout"}
       \/ s.state = "customer_form" /\ b \in {"save", "cancel"}
       \/ s.state = "success" /\ b = "back"
  BY Screens DEF UiState
<1>11. Agreed
  BY <1>5, <1>6, <1>7, <1>8, <1>9, <1>10
<1> HIDE DEF u, e
<1> QED
  BY <1>3, <1>11 DEF Same

LEMMA FreshAgree ==
  /\ Fresh \in UiState /\ FreshPage \in DomState /\ Same(Fresh, FreshPage)
  /\ Fresh.error = FreshPage.error
<1>1. "" \in Typed /\ "none" \in Complaints /\ "login" \in States
  BY Screens DEF Typed, Complaints
<1> QED
  BY <1>1 DEF Fresh, FreshPage, UiState, DomState, Same

LEMMA CrmStarts == CrmInit => CrmInv
<1> SUFFICES ASSUME CrmInit PROVE CrmInv
  OBVIOUS
<1>1. Len(Scenarios) = 5
  BY DEF Scenarios
<1>2. PICK scripted \in BOOLEAN :
        qa = [scripted |-> scripted, scenario |-> 1, step |-> 1, trace |-> 0, strayed |-> FALSE,
              last |-> "click", bugs |-> [b \in {"ui", "dom"} |-> {}]]
  BY DEF CrmInit
<1>3. qa \in QaRun
  BY <1>1, <1>2 DEF QaRun
<1>4. /\ Fresh \in UiState /\ FreshPage \in DomState /\ Same(Fresh, FreshPage)
      /\ Fresh.error = FreshPage.error
  BY FreshAgree
<1> QED
  BY <1>3, <1>4 DEF CrmInit, CrmInv, InStep

\* Both sessions get an action.
LEMMA ActsKeepInStep ==
  ASSUME CrmInv, NEW a \in Acts, Apply(a),
         qa'.strayed = (qa.strayed \/ ~OnScreen(a)),
         qa'.last = IF a.kind = "observe" THEN qa.last ELSE a.kind,
         ~qa'.strayed
  PROVE  InStep'
<1>1. ~qa.strayed /\ OnScreen(a)
  OBVIOUS
<1>2. InStep
  BY <1>1 DEF CrmInv
<1>3. ui' = UiAct(ui, a) /\ dom' = DomAct(dom, a)
  BY DEF Apply
<1>4. CASE a.kind = "observe"
  <2>1. UiAct(ui, a) = ui /\ DomAct(dom, a) = dom
    BY <1>4 DEF UiAct, DomAct
  <2> QED
    BY <2>1, <1>2, <1>3, <1>4 DEF InStep
<1>5. CASE a.kind = "type" /\ a.target \in Layout[ui.state].inputs
  BY <1>2, <1>3, <1>5, TypesAgree DEF InStep
<1>6. CASE a.kind = "click" /\ a.target \in Layout[ui.state].buttons
  BY <1>2, <1>3, <1>6, ClicksAgree DEF InStep
<1> QED
  BY <1>1, <1>4, <1>5, <1>6 DEF OnScreen

LEMMA AfterAnAct ==
  ASSUME qa \in QaRun, NEW a \in Acts
  PROVE  /\ After(a) \in QaRun
         /\ After(a).strayed = (qa.strayed \/ ~OnScreen(a))
         /\ After(a).last = IF a.kind = "observe" THEN qa.last ELSE a.kind
<1> DEFINE last    == IF a.kind = "observe" THEN qa.last ELSE a.kind
<1>0. qa.last \in {"type", "click"} /\ qa.trace \in Nat /\ qa.strayed \in BOOLEAN
  BY DEF QaRun
<1>1. last \in {"type", "click"} /\ qa.trace + 1 \in Nat
  <2>1. a.kind \in {"observe", "type", "click"}
    BY DEF Acts
  <2> QED
    BY <1>0, <2>1
<1>2. PICK strayed \in BOOLEAN : strayed = (qa.strayed \/ ~OnScreen(a))
  <2>1. (qa.strayed \/ ~OnScreen(a)) \in BOOLEAN
    BY Zenon DEF QaRun
  <2> QED
    BY <2>1, Zenon
<1>3. After(a) = [qa EXCEPT !.trace = qa.trace + 1, !.strayed = strayed, !.last = last]
  BY <1>2 DEF After, QaRun
<1> HIDE DEF last
<1>4. /\ After(a) \in QaRun /\ After(a).strayed = strayed /\ After(a).last = last
  BY <1>1, <1>3 DEF QaRun
<1> QED
  BY <1>2, <1>4, Zenon DEF last

LEMMA CrmStepKeeps == CrmInv /\ [CrmNext]_crmVars => CrmInv'
<1> SUFFICES ASSUME CrmInv, [CrmNext]_crmVars PROVE CrmInv'
  OBVIOUS
<1>0. Len(Scenarios) = 5 /\ DOMAIN Scenarios = 1..5
  BY DEF Scenarios
<1>t. qa \in QaRun
  BY DEF CrmInv
<1>1. CASE ScenarioStep
  <2> DEFINE scenario == Scenarios[qa.scenario]
             act == scenario.steps[qa.step].act
             expects == scenario.steps[qa.step].expects
             found(ok) == IF ok THEN {} ELSE {scenario.name}
             okUi  == Meets(ui'.state, ui'.error, expects)
             okDom == ~DomRaises(dom, act) /\ Meets(dom'.state, DomError(dom', act), expects)
             after == After(act)
             bugsUi  == after.bugs.ui \union found(okUi)
             bugsDom == after.bugs.dom \union found(okDom)
  <2>0. qa.scripted /\ ~QaOver /\ ~ScenarioOver
    BY <1>1 DEF ScenarioStep
  <2>1. qa.scenario \in DOMAIN Scenarios
    BY <1>0, <2>0, <1>t DEF QaOver, QaRun
  <2>2. scenario.steps \in Seq(QaStep)
    BY <2>1, ScenariosAreSteps
  <2>3. qa.step \in 1..Len(scenario.steps)
    <3>1. qa.step \in Nat \ {0}
      BY <1>t DEF QaRun
    <3> HIDE DEF scenario
    <3>2. ~(qa.step > Len(scenario.steps))
      BY <2>0 DEF ScenarioOver, scenario
    <3> QED
      BY <3>1, <3>2, <2>2
  <2>4. act \in Acts
    <3> HIDE DEF scenario
    <3> QED
      <4>1. scenario.steps[qa.step] \in QaStep
        BY <2>2, <2>3
      <4> QED
        BY <4>1 DEF QaStep
  <2>5. Apply(act)
    BY <1>1 DEF ScenarioStep
  <2>6. qa' = [after EXCEPT !.step = @ + 1, !.bugs.ui = @ \union found(okUi),
                            !.bugs.dom = @ \union found(okDom)]
    BY <1>1, Zenon DEF ScenarioStep
  <2>7. scenario.name \in Names
    BY <2>1 DEF Names
  <2> HIDE DEF act, okUi, okDom
  <2>8. /\ after \in QaRun
        /\ after.strayed = (qa.strayed \/ ~OnScreen(act))
        /\ after.last = IF act.kind = "observe" THEN qa.last ELSE act.kind
    BY <1>t, <2>4, AfterAnAct
  <2>9. /\ qa' \in QaRun /\ qa'.strayed = after.strayed /\ qa'.last = after.last
    <3> HIDE DEF after, scenario
    <3>1. found(okUi) \subseteq Names /\ found(okDom) \subseteq Names
      BY <2>7
    <3> HIDE DEF found
    <3> QED
      <4> DEFINE bugs == [after.bugs EXCEPT !.ui = @ \union found(okUi),
                                            !.dom = @ \union found(okDom)]
      <4>1. bugs \in [{"ui", "dom"} -> SUBSET Names] /\ after.step + 1 \in Nat \ {0}
        <5>1. after.bugs \in [{"ui", "dom"} -> SUBSET Names] /\ after.step \in Nat \ {0}
          BY <2>8 DEF QaRun
        <5> DEFINE more(k) == IF k = "ui" THEN found(okUi) ELSE found(okDom)
        <5>2. bugs = [k \in {"ui", "dom"} |-> after.bugs[k] \union more(k)]
          BY <5>1
        <5>3. \A k \in {"ui", "dom"} : after.bugs[k] \union more(k) \in SUBSET Names
          BY <5>1, <3>1
        <5> HIDE DEF more
        <5> QED
          BY <5>1, <5>2, <5>3
      <4>2. qa' = [after EXCEPT !.step = after.step + 1, !.bugs = bugs]
        BY <2>6, <2>8 DEF QaRun
      <4> HIDE DEF bugs
      <4> QED
        BY <2>8, <4>1, <4>2 DEF QaRun
  <2>10. ~qa'.strayed => InStep'
    BY <2>4, <2>5, <2>8, <2>9, ActsKeepInStep
  <2> QED
    BY <2>9, <2>10 DEF CrmInv
<1>2. CASE NextScenario
  <2>1. /\ ui' = Fresh /\ dom' = FreshPage
        /\ qa' = [qa EXCEPT !.scenario = @ + 1, !.step = 1, !.last = "click"]
        /\ ~QaOver
    BY <1>2 DEF NextScenario
  <2>2. qa' \in QaRun
    <3>1. qa.scenario + 1 \in 1..6 /\ 1 \in Nat \ {0}
      BY <2>1, <1>0, <1>t DEF QaRun, QaOver
    <3> QED
      BY <2>1, <3>1, <1>t DEF QaRun
  <2>3. InStep'
    BY <2>1, FreshAgree DEF InStep
  <2> QED
    BY <2>2, <2>3 DEF CrmInv
<1>3. ASSUME NEW a \in Acts, AnyAct(a) PROVE CrmInv'
  <2> DEFINE after == After(a)
  <2>2. /\ after \in QaRun
        /\ after.strayed = (qa.strayed \/ ~OnScreen(a))
        /\ after.last = IF a.kind = "observe" THEN qa.last ELSE a.kind
    BY <1>t, AfterAnAct
  <2>3. Apply(a) /\ qa' = [after EXCEPT !.trace = 0]
    BY <1>3 DEF AnyAct
  <2>4. qa' \in QaRun /\ qa'.strayed = after.strayed /\ qa'.last = after.last
    <3> HIDE DEF after
    <3> QED
      BY <2>2, <2>3 DEF QaRun
  <2>5. ~qa'.strayed => InStep'
    BY <2>2, <2>3, <2>4, ActsKeepInStep
  <2> QED
    BY <2>4, <2>5 DEF CrmInv
<1>5. /\ Look \in Acts
      /\ \A t \in Targets : /\ Command("click", t, "") \in Acts
                            /\ \A v \in Values : Command("type", t, v) \in Acts
  BY CommandsAreActs DEF Typed
<1>4. CASE UNCHANGED crmVars
  BY <1>4 DEF crmVars, CrmInv, InStep
<1> QED
  BY <1>1, <1>2, <1>3, <1>4, <1>5 DEF CrmNext

\* As long as only controls on the screen were used, the state machine and the page are in the
\* same state with the same fields and greeting, whatever was typed (playwright_sandbox.py:3).
THEOREM PageMirrorsMachine == CrmSpec => []SessionsAgree
<1>1. CrmInv => SessionsAgree
  BY DEF CrmInv, InStep, Same, SessionsAgree
<1> QED
  BY <1>1, CrmStarts, CrmStepKeeps, PTL DEF CrmSpec

\* Off the screen, too, an action leaves both sessions in a state of theirs.
LEMMA StrayClickTyped ==
  ASSUME NEW s \in UiState, NEW target
  PROVE  UiClick(s, target) \in UiState
<1> DEFINE u == UiClick(s, target)
<1>1. /\ {"credentials", "name", "control"} \subseteq Complaints
      /\ {"login", "dashboard", "customer_form", "success"} \subseteq States
  BY Screens DEF Complaints
<1>2. CASE s.state = "login" /\ target = "submit"
  <2>1. u \in {[s EXCEPT !.state = "dashboard"], [s EXCEPT !.error = "credentials"]}
    BY <1>2 DEF UiClick
  <2> QED
    BY <2>1, <1>1, UiMoves, UiComplains
<1>3. CASE s.state = "dashboard" /\ target = "new_customer"
  <2>1. u = [s EXCEPT !.state = "customer_form", !.fields.name = "", !.fields.email = ""]
    BY <1>3 DEF UiClick
  <2> DEFINE fields == [s.fields EXCEPT !.name = "", !.email = ""]
  <2>2. fields \in [Fields -> Typed]
    BY DEF UiState, Typed
  <2>3. u = [s EXCEPT !.state = "customer_form", !.fields = fields]
    BY <2>1 DEF UiState
  <2> HIDE DEF u, fields
  <2>4. u \in UiState
    BY <2>2, <2>3, <1>1 DEF UiState
  <2> QED
    BY <2>4 DEF u
<1>4. CASE s.state = "dashboard" /\ target = "logout"
  <2>1. u = [s EXCEPT !.state = "login"]
    BY <1>4 DEF UiClick
  <2> QED
    BY <2>1, <1>1, UiMoves
<1>5. CASE s.state = "customer_form" /\ target = "save"
  <2>1. u \in {[s EXCEPT !.error = "name"], [s EXCEPT !.state = "success"]}
    BY <1>5 DEF UiClick
  <2> QED
    BY <2>1, <1>1, UiMoves, UiComplains
<1>6. CASE <<s.state, target>> \in {<<"customer_form", "cancel">>, <<"success", "back">>}
  <2>1. u = [s EXCEPT !.state = "dashboard"]
    BY <1>6 DEF UiClick
  <2> QED
    BY <2>1, <1>1, UiMoves
<1>7. CASE /\ ~(s.state = "login" /\ target = "submit")
           /\ ~(s.state = "dashboard" /\ target = "new_customer")
           /\ ~(s.state = "dashboard" /\ target = "logout")
           /\ ~(s.state = "customer_form" /\ target = "save")
           /\ <<s.state, target>> \notin {<<"customer_form", "cancel">>, <<"success", "back">>}
  <2>1. u = [s EXCEPT !.error = "control"]
    BY <1>7 DEF UiClick
  <2> QED
    BY <2>1, <1>1, UiComplains
<1> QED
  BY <1>2, <1>3, <1>4, <1>5, <1>6, <1>7

LEMMA UiActTyped ==
  ASSUME NEW s \in UiState, NEW a \in Acts
  PROVE  UiAct(s, a) \in UiState
<1> DEFINE clean == [s EXCEPT !.error = "none"]
<1>1. {"none", "field"} \subseteq Complaints
  BY DEF Complaints
<1>2. clean \in UiState /\ clean.fields = s.fields
  BY <1>1, UiComplains
<1>3. CASE a.kind = "observe"
  BY <1>3 DEF UiAct
<1>4. CASE a.kind = "type" /\ a.target \in Fields
  <2> DEFINE fields == [s.fields EXCEPT ![a.target] = a.value]
  <2>1. fields \in [Fields -> Typed]
    BY <1>4 DEF UiState, Acts
  <2>2. UiAct(s, a) = [clean EXCEPT !.fields = fields]
    BY <1>2, <1>4 DEF UiAct
  <2> HIDE DEF fields, clean
  <2> QED
    BY <1>2, <2>1, <2>2 DEF UiState
<1>5. CASE a.kind = "type" /\ a.target \notin Fields
  <2>1. UiAct(s, a) = [clean EXCEPT !.error = "field"]
    BY <1>5 DEF UiAct
  <2> HIDE DEF clean
  <2> QED
    BY <1>1, <1>2, <2>1, UiComplains
<1>6. CASE a.kind = "click"
  <2>1. UiAct(s, a) = UiClick(clean, a.target)
    BY <1>6 DEF UiAct
  <2> HIDE DEF clean
  <2> QED
    BY <1>2, <2>1, StrayClickTyped
<1> QED
  BY <1>3, <1>4, <1>5, <1>6 DEF Acts

LEMMA HandlerTyped ==
  ASSUME NEW d \in DomState, NEW button \in Buttons
  PROVE  DomHandler(d, button) \in DomState
<1> DEFINE e == DomHandler(d, button)
<1>1. /\ {"credentials", "name"} \subseteq Complaints
      /\ {"login", "customer_form", "success"} \subseteq States
  BY Screens DEF Complaints
<1>2. button \in {"submit", "new_customer", "logout", "save", "cancel", "back"}
  BY Screens DEF Buttons
<1>3. CASE button = "submit"
  <2>1. e \in {Dashboard(d), Complain(d, "credentials")}
    BY <1>3 DEF DomHandler
  <2> QED
    BY <2>1, <1>1, DashboardShown, PageComplains
<1>4. CASE button = "new_customer"
  <2> DEFINE shown  == Show(d, "customer_form")
             fields == [d.fields EXCEPT !.name = "", !.email = ""]
  <2>1. shown \in DomState /\ shown.fields = d.fields
    BY <1>1, PageShows
  <2>2. fields \in [Fields -> Typed]
    BY DEF DomState, Typed
  <2>3. e = [shown EXCEPT !.fields.name = "", !.fields.email = ""]
    BY <1>4 DEF DomHandler
  <2> HIDE DEF shown, e
  <2>4. e = [shown EXCEPT !.fields = fields]
    BY <2>1, <2>3 DEF DomState
  <2> HIDE DEF fields
  <2>5. e \in DomState
    BY <2>1, <2>2, <2>4 DEF DomState
  <2> QED
    BY <2>5 DEF e
<1>5. CASE button = "logout"
  <2>1. e = Show(d, "login")
    BY <1>5 DEF DomHandler
  <2> QED
    BY <2>1, <1>1, PageShows
<1>6. CASE button = "save"
  <2>1. e \in {Complain(d, "name"), Show(d, "success")}
    BY <1>6 DEF DomHandler
  <2> QED
    BY <2>1, <1>1, PageShows, PageComplains
<1>7. CASE button \in {"cancel", "back"}
  <2>1. e = Dashboard(d)
    BY <1>7 DEF DomHandler
  <2> QED
    BY <2>1, DashboardShown
<1> QED
  BY <1>2, <1>3, <1>4, <1>5, <1>6, <1>7

LEMMA DomActTyped ==
  ASSUME NEW d \in DomState, NEW a \in Acts
  PROVE  DomAct(d, a) \in DomState
<1>1. CASE DomRaises(d, a) \/ a.kind = "observe" \/ a.target = "unknown"
  <2>1. DomAct(d, a) = d
    BY <1>1, Zenon DEF DomAct
  <2> QED
    BY <2>1
<1>2. CASE /\ ~(DomRaises(d, a) \/ a.kind = "observe" \/ a.target = "unknown")
           /\ a.kind = "type"
  <2> DEFINE fields == [d.fields EXCEPT ![a.target] = a.value]
  <2>1. fields \in [Fields -> Typed]
    BY DEF DomState, Acts
  <2>2. DomAct(d, a) = [d EXCEPT !.fields[a.target] = a.value]
    BY <1>2, Zenon DEF DomAct
  <2>3. DomAct(d, a) = [d EXCEPT !.fields = fields]
    BY <2>2 DEF DomState
  <2> HIDE DEF fields
  <2> QED
    BY <2>1, <2>3 DEF DomState
<1>3. CASE /\ ~(DomRaises(d, a) \/ a.kind = "observe" \/ a.target = "unknown")
           /\ a.kind = "click"
  <2>1. DomAct(d, a) = IF a.target \in Buttons THEN DomHandler(d, a.target) ELSE d
    BY <1>3, Zenon DEF DomAct
  <2> QED
    BY <2>1, HandlerTyped
<1> QED
  BY <1>1, <1>2, <1>3 DEF Acts

\* Every step gives both sessions a known action, fresh ones to the next scenario, or nothing.
LEMMA CrmStepActs ==
  ASSUME CrmInv, [CrmNext]_crmVars
  PROVE  \/ \E a \in Acts : Apply(a)
         \/ ui' = Fresh /\ dom' = FreshPage
         \/ UNCHANGED <<ui, dom>>
<1>1. CASE ScenarioStep
  <2> DEFINE steps == Scenarios[qa.scenario].steps
  <2>1. /\ ~QaOver /\ ~(qa.step > Len(steps)) /\ Apply(steps[qa.step].act)
    BY <1>1 DEF ScenarioStep, ScenarioOver
  <2>2. qa.scenario \in DOMAIN Scenarios /\ qa.step \in Nat \ {0}
    <3>1. Len(Scenarios) = 5 /\ DOMAIN Scenarios = 1..5
      BY DEF Scenarios
    <3> QED
      BY <2>1, <3>1 DEF QaOver, CrmInv, QaRun
  <2>3. steps \in Seq(QaStep)
    BY <2>2, ScenariosAreSteps
  <2> HIDE DEF steps
  <2>4. steps[qa.step] \in QaStep
    BY <2>1, <2>2, <2>3
  <2> QED
    BY <2>1, <2>4 DEF QaStep
<1>2. CASE NextScenario
  BY <1>2 DEF NextScenario
<1>3. ASSUME NEW a \in Acts, AnyAct(a) PROVE Apply(a)
  BY <1>3 DEF AnyAct
<1>4. /\ Look \in Acts
      /\ \A t \in Targets : /\ Command("click", t, "") \in Acts
                            /\ \A v \in Values : Command("type", t, v) \in Acts
  BY CommandsAreActs DEF Typed
<1> QED
  BY <1>1, <1>2, <1>3, <1>4 DEF CrmNext, crmVars

\* Both sessions and the runner have their types, whatever was clicked or typed.
THEOREM CrmTyped == CrmSpec => []CrmTypeOK
<1> DEFINE Inv == CrmInv /\ ui \in UiState /\ dom \in DomState
<1>1. CrmInit => Inv
  BY CrmStarts, FreshAgree DEF CrmInit
<1>2. Inv /\ [CrmNext]_crmVars => Inv'
  BY CrmStepKeeps, CrmStepActs, UiActTyped, DomActTyped, FreshAgree DEF Apply
<1>3. Inv => CrmTypeOK
  <2>1. Len(Scenarios) + 1 = 6
    BY DEF Scenarios
  <2> SUFFICES ASSUME qa \in QaRun
               PROVE  qa \in [scripted: BOOLEAN, scenario: 1..(Len(Scenarios) + 1), step: Nat,
                              trace: Nat, strayed: BOOLEAN, last: {"type", "click"},
                              bugs: [{"ui", "dom"} -> SUBSET Names]]
    BY Zenon DEF CrmInv, CrmTypeOK, UiState, DomState, Names
  <2> QED
    BY <2>1 DEF QaRun
<1> QED
  BY <1>1, <1>2, <1>3, PTL DEF CrmSpec

-----------------------------------------------------------------------------
(* The index.  Induction over the members of a set of numbers              *)
LEMMA LeastNat ==
  ASSUME NEW S \in SUBSET Nat, S # {}
  PROVE  \E x \in S : \A y \in S : x <= y
<1>1. PICK m \in S : TRUE
  OBVIOUS
<1> DEFINE below == {x \in S : x <= m}
           T     == {0..x : x \in below}
           R     == StrictSubsetOrdering(0..m)
<1>2. IsFiniteSet(0..m)
  BY <1>1, FS_Interval
<1>3. IsWellFoundedOn(R, SUBSET (0..m))
  BY <1>2, FS_StrictSubsetOrderingWellFounded, FS_FiniteSubsetsOfFinite
<1>4. T \subseteq SUBSET (0..m) /\ T # {}
  OBVIOUS
<1>5. \E t \in T : \A u \in T : ~(<<u, t>> \in R)
  <2> HIDE DEF T, R
  <2> QED
    BY <1>3, <1>4, WFMin
<1>6. PICK t \in T : \A u \in T : ~(<<u, t>> \in R)
  BY <1>5
<1>7. PICK x \in below : t = 0..x
  BY <1>6
<1>8. ASSUME NEW y \in S, y < x PROVE FALSE
  <2>1. y \in below /\ 0..y \in T
    BY <1>7, <1>8
  <2>2. <<0..y, 0..x>> \in R
    BY <2>1, <1>7, <1>8, <1>4 DEF StrictSubsetOrdering
  <2> QED
    BY <2>1, <2>2, <1>6, <1>7
<1> QED
  BY <1>7, <1>8

\* Induction up to a number, over the members of a set.
LEMMA UpTo ==
  ASSUME NEW N \in Nat, NEW S, 0 \in S, \A k \in 0..(N - 1) : k \in S => k + 1 \in S
  PROVE  0..N \subseteq S
<1> SUFFICES ASSUME (0..N) \ S # {} PROVE FALSE
  OBVIOUS
<1>1. PICK x \in (0..N) \ S : \A y \in (0..N) \ S : x <= y
  <2>1. (0..N) \ S \in SUBSET Nat
    OBVIOUS
  <2> QED
    BY <2>1, LeastNat
<1>2. x # 0 /\ x - 1 \in 0..(N - 1)
  BY <1>1
<1>3. x - 1 \in S
  BY <1>1, <1>2
<1> QED
  BY <1>1, <1>2, <1>3

\* As far as a sequence goes.
LEMMA AllTheWay ==
  ASSUME NEW S, NEW s \in Seq(S), NEW T, 0 \in T,
         \A k \in 0..(Len(s) - 1) : k \in T => k + 1 \in T
  PROVE  Len(s) \in T
<1> DEFINE N == Len(s)
<1>1. N \in Nat
  OBVIOUS
<1>2. \A k \in 0..(N - 1) : k \in T => k + 1 \in T
  OBVIOUS
<1> HIDE DEF N
<1>3. 0..N \subseteq T
  BY <1>1, <1>2, UpTo
<1>4. N \in T
  BY <1>1, <1>3
<1> QED
  BY <1>4 DEF N

-----------------------------------------------------------------------------
(* Sequences end to end                                                     *)
\* The first sequences end to end, as far as N.
Joining(f, seqs, N) ==
  f = [i \in 1..N |-> IF i = 1 THEN seqs[i] ELSE f[i - 1] \o seqs[i]]

LEMMA JoiningExists ==
  ASSUME NEW seqs, NEW N \in Nat
  PROVE  \E f : Joining(f, seqs, N)
<1> DEFINE S == {k \in 0..N : \E f : Joining(f, seqs, k)}
<1>1. 0 \in S
  <2>1. Joining([i \in 1..0 |-> <<>>], seqs, 0)
    BY DEF Joining
  <2> QED
    BY <2>1
<1>2. ASSUME NEW k \in 0..(N - 1), k \in S PROVE k + 1 \in S
  <2>1. PICK f : Joining(f, seqs, k)
    BY <1>2
  <2> DEFINE g == [i \in 1..(k + 1) |->
                     IF i = k + 1 THEN IF k = 0 THEN seqs[1] ELSE f[k] \o seqs[k + 1] ELSE f[i]]
  <2>2. \A i \in 1..k : f[i] = IF i = 1 THEN seqs[i] ELSE f[i - 1] \o seqs[i]
    BY <2>1 DEF Joining
  <2>3. \A i \in 1..(k + 1) : g[i] = IF i = 1 THEN seqs[i] ELSE g[i - 1] \o seqs[i]
    BY <2>2
  <2>4. Joining(g, seqs, k + 1)
    BY <2>3 DEF Joining
  <2> QED
    BY <2>4
<1> HIDE DEF S
<1>3. 0..N \subseteq S
  BY <1>1, <1>2, UpTo
<1> QED
  BY <1>3 DEF S

Joins(f, seqs) ==
  /\ f[1] = seqs[1]
  /\ \A i \in 1..Len(seqs) : i # 1 => f[i] = f[i - 1] \o seqs[i]

\* What FlattenSeq computes.
LEMMA Joined ==
  ASSUME NEW S, NEW seqs \in Seq(Seq(S)), seqs # <<>>
  PROVE  \E f : Joins(f, seqs) /\ FlattenSeq(seqs) = f[Len(seqs)]
<1> DEFINE N == Len(seqs)
           f == CHOOSE f : Joining(f, seqs, N)
<1>1. N \in Nat /\ N > 0
  OBVIOUS
<1>2. Joining(f, seqs, N)
  BY <1>1, JoiningExists
<1>3. FlattenSeq(seqs) = f[N]
  BY <1>1 DEF FlattenSeq, Joining
<1> HIDE DEF f
<1>4. \A i \in 1..N : f[i] = IF i = 1 THEN seqs[i] ELSE f[i - 1] \o seqs[i]
  BY <1>2 DEF Joining
<1>5. f[1] = seqs[1]
  <2>1. 1 \in 1..N
    BY <1>1
  <2> QED
    BY <1>4, <2>1
<1>6. \A i \in 1..N : i # 1 => f[i] = f[i - 1] \o seqs[i]
  BY <1>4, Zenon
<1> QED
  BY <1>3, <1>5, <1>6 DEF Joins

LEMMA JoinedOnce ==
  ASSUME NEW S, NEW a \in Seq(Seq(S)), NEW b \in Seq(Seq(S)), NEW f, NEW g,
         a # <<>>, Len(a) <= Len(b), \A i \in 1..Len(a) : b[i] = a[i],
         Joins(f, a), Joins(g, b)
  PROVE  f[Len(a)] = g[Len(a)]
<1> DEFINE N == Len(a)
           T == {k \in 0..(N - 1) : f[k + 1] = g[k + 1]}
<1>0. N \in Nat /\ N > 0 /\ N <= Len(b) /\ Len(b) \in Nat /\ N - 1 \in Nat
  OBVIOUS
<1>a. /\ f[1] = a[1] /\ \A i \in 1..N : i # 1 => f[i] = f[i - 1] \o a[i]
      /\ g[1] = b[1] /\ \A i \in 1..Len(b) : i # 1 => g[i] = g[i - 1] \o b[i]
  BY DEF Joins
<1>1. 0 \in T
  <2>1. f[1] = g[1]
    BY <1>0, <1>a
  <2> QED
    BY <1>0, <2>1
<1> HIDE DEF N
<1>2. ASSUME NEW k \in 0..((N - 1) - 1), k \in T PROVE k + 1 \in T
  <2> DEFINE i == k + 2
  <2>1. /\ i \in 1..N /\ i \in 1..Len(b) /\ i # 1 /\ i - 1 = k + 1
        /\ (k + 1) + 1 = i /\ k + 1 \in 0..(N - 1)
    BY <1>0
  <2>2. f[i] = f[k + 1] \o a[i] /\ g[i] = g[k + 1] \o b[i]
    BY <1>a, <2>1
  <2>3. b[i] = a[i]
    BY <2>1 DEF N
  <2>4. f[k + 1] = g[k + 1]
    BY <1>2
  <2> HIDE DEF i
  <2>5. f[i] = g[i]
    BY <2>2, <2>3, <2>4
  <2>6. f[(k + 1) + 1] = g[(k + 1) + 1]
    BY <2>1, <2>5
  <2> QED
    BY <2>1, <2>6
<1> HIDE DEF T
<1>3. 0..(N - 1) \subseteq T
  BY <1>0, <1>1, <1>2, UpTo
<1>4. N - 1 \in T /\ (N - 1) + 1 = N
  BY <1>0, <1>3
<1>5. f[N] = g[N]
  BY <1>4 DEF T
<1> QED
  BY <1>5 DEF N

LEMMA OneAtTheEnd ==
  ASSUME NEW S, NEW s \in Seq(S), NEW x \in S
  PROVE  /\ Append(s, x) \in Seq(S) /\ Append(s, x) # <<>>
         /\ Len(Append(s, x)) = Len(s) + 1 /\ Len(s) \in Nat
         /\ Append(s, x)[Len(Append(s, x))] = x
         /\ \A i \in 1..Len(s) : Append(s, x)[i] = s[i]
  OBVIOUS

\* One sequence more is its elements more.
LEMMA FlattenAppend ==
  ASSUME NEW S, NEW seqs \in Seq(Seq(S)), NEW s \in Seq(S)
  PROVE  FlattenSeq(Append(seqs, s)) = FlattenSeq(seqs) \o s
<1> DEFINE more == Append(seqs, s)
<1>0. /\ more \in Seq(Seq(S)) /\ more # <<>> /\ Len(more) = Len(seqs) + 1 /\ Len(seqs) \in Nat
      /\ more[Len(more)] = s /\ \A i \in 1..Len(seqs) : more[i] = seqs[i]
  BY OneAtTheEnd
<1>1. PICK g : Joins(g, more) /\ FlattenSeq(more) = g[Len(more)]
  BY <1>0, Joined
<1>2. CASE seqs = <<>>
  <2>1. FlattenSeq(seqs) = <<>>
    BY <1>2 DEF FlattenSeq
  <2>2. FlattenSeq(more) = s
    BY <1>0, <1>1, <1>2 DEF Joins
  <2> QED
    BY <2>1, <2>2
<1>3. CASE seqs # <<>>
  <2>1. PICK f : Joins(f, seqs) /\ FlattenSeq(seqs) = f[Len(seqs)]
    BY <1>3, Joined
  <2>2. Len(seqs) > 0 /\ Len(seqs) <= Len(more)
    BY <1>0, <1>3
  <2> HIDE DEF more
  <2>3. f[Len(seqs)] = g[Len(seqs)]
    BY <1>0, <1>1, <1>3, <2>1, <2>2, JoinedOnce
  <2>4. Len(more) \in 1..Len(more) /\ Len(more) # 1 /\ Len(more) - 1 = Len(seqs)
    BY <1>0, <2>2
  <2>5. g[Len(more)] = g[Len(seqs)] \o s
    BY <1>0, <1>1, <2>4 DEF Joins
  <2> QED
    BY <1>1, <2>1, <2>3, <2>5 DEF more
<1> QED
  BY <1>2, <1>3

\* A prefix one longer.
LEMMA OneFurther ==
  ASSUME NEW S, NEW s \in Seq(S), NEW k \in 0..(Len(s) - 1)
  PROVE  /\ SubSeq(s, 1, k + 1) = Append(SubSeq(s, 1, k), s[k + 1])
         /\ SubSeq(s, 1, k) \in Seq(S) /\ s[k + 1] \in S
         /\ SubSeq(s, 1, Len(s)) = s /\ SubSeq(s, 1, 0) = <<>>
  OBVIOUS

LEMMA FlattenIsSeq ==
  ASSUME NEW S, NEW seqs \in Seq(Seq(S))
  PROVE  FlattenSeq(seqs) \in Seq(S)
<1> DEFINE N == Len(seqs)
           T == {k \in 0..N : FlattenSeq(SubSeq(seqs, 1, k)) \in Seq(S)}
<1>0. N \in Nat /\ SubSeq(seqs, 1, N) = seqs /\ SubSeq(seqs, 1, 0) = <<>>
  OBVIOUS
<1>1. 0 \in T
  BY <1>0 DEF FlattenSeq
<1>2. ASSUME NEW k \in 0..(N - 1), k \in T PROVE k + 1 \in T
  <2> DEFINE p == SubSeq(seqs, 1, k)
             e == seqs[k + 1]
  <2>1. SubSeq(seqs, 1, k + 1) = Append(p, e) /\ p \in Seq(Seq(S)) /\ e \in Seq(S)
    BY OneFurther
  <2>2. FlattenSeq(p) \in Seq(S)
    BY <1>2
  <2> HIDE DEF p, e
  <2>3. FlattenSeq(p) \o e \in Seq(S)
    BY <2>1, <2>2
  <2>4. FlattenSeq(SubSeq(seqs, 1, k + 1)) \in Seq(S)
    BY <2>1, <2>3, FlattenAppend
  <2>5. k + 1 \in 0..N
    BY <1>0
  <2> QED
    BY <2>4, <2>5
<1> HIDE DEF T
<1>3. N \in T
  BY <1>1, <1>2, AllTheWay
<1> QED
  BY <1>0, <1>3 DEF T

LEMMA JoinedAppend ==
  ASSUME NEW S, NEW a \in Seq(S), NEW x \in Seq(S), NEW e \in S
  PROVE  a \o Append(x, e) = Append(a \o x, e) /\ a \o x \in Seq(S)
  OBVIOUS

LEMMA ConcatAt ==
  ASSUME NEW S, NEW a \in Seq(S), NEW b \in Seq(S)
  PROVE  /\ Len(a) \in Nat /\ Len(b) \in Nat /\ a \o b \in Seq(S)
         /\ DOMAIN a = 1..Len(a) /\ DOMAIN b = 1..Len(b)
         /\ Len(a \o b) = Len(a) + Len(b)
         /\ \A i \in 1..(Len(a) + Len(b)) :
              (a \o b)[i] = IF i <= Len(a) THEN a[i] ELSE b[i - Len(a)]
  OBVIOUS

LEMMA SeqIsFunction ==
  ASSUME NEW S, NEW a \in Seq(S)
  PROVE  a = [i \in 1..Len(a) |-> a[i]] /\ DOMAIN a = 1..Len(a)
  OBVIOUS

LEMMA AppendIsConcat ==
  ASSUME NEW S, NEW s \in Seq(S), NEW x \in S
  PROVE  Append(s, x) = s \o <<x>>
  OBVIOUS

LEMMA Regrouped ==
  ASSUME NEW S, NEW x \in Seq(S), NEW y \in Seq(S), NEW z \in Seq(S)
  PROVE  (x \o y) \o z = x \o (y \o z)
  OBVIOUS

\* Two sequences of sequences end to end.
LEMMA ConcatOneMore ==
  ASSUME NEW S, NEW a \in Seq(Seq(S)), NEW p \in Seq(Seq(S)), NEW e \in Seq(S),
         FlattenSeq(a \o p) = FlattenSeq(a) \o FlattenSeq(p)
  PROVE  FlattenSeq(a \o Append(p, e)) = FlattenSeq(a) \o FlattenSeq(Append(p, e))
<1>1. a \o Append(p, e) = Append(a \o p, e) /\ a \o p \in Seq(Seq(S))
  BY JoinedAppend
<1>2. FlattenSeq(Append(a \o p, e)) = FlattenSeq(a \o p) \o e
  BY <1>1, FlattenAppend
<1>3. FlattenSeq(Append(p, e)) = FlattenSeq(p) \o e
  BY FlattenAppend
<1>4. FlattenSeq(p) \in Seq(S) /\ FlattenSeq(a) \in Seq(S)
  BY FlattenIsSeq
<1>5. (FlattenSeq(a) \o FlattenSeq(p)) \o e = FlattenSeq(a) \o (FlattenSeq(p) \o e)
  BY <1>4, Regrouped
<1> QED
  BY <1>1, <1>2, <1>3, <1>5

LEMMA FlattenConcat ==
  ASSUME NEW S, NEW a \in Seq(Seq(S)), NEW b \in Seq(Seq(S))
  PROVE  FlattenSeq(a \o b) = FlattenSeq(a) \o FlattenSeq(b)
<1> DEFINE Splits(x) == FlattenSeq(a \o x) = FlattenSeq(a) \o FlattenSeq(x)
           T == {k \in 0..Len(b) : Splits(SubSeq(b, 1, k))}
<1>0. SubSeq(b, 1, Len(b)) = b /\ SubSeq(b, 1, 0) = <<>> /\ a \o <<>> = a
  OBVIOUS
<1>a. FlattenSeq(a) \in Seq(S)
  BY FlattenIsSeq
<1>b. Splits(<<>>)
  <2>1. FlattenSeq(<<>>) = <<>>
    BY DEF FlattenSeq
  <2>2. FlattenSeq(a) \o <<>> = FlattenSeq(a)
    BY <1>a
  <2> QED
    BY <1>0, <2>1, <2>2
<1>c. \A p \in Seq(Seq(S)), e \in Seq(S) : Splits(p) => Splits(Append(p, e))
  BY ConcatOneMore
<1> HIDE DEF Splits
<1>1. 0 \in T
  <2>1. 0 \in 0..Len(b)
    OBVIOUS
  <2> QED
    BY <1>0, <1>b, <2>1
<1>2. ASSUME NEW k \in 0..(Len(b) - 1), k \in T PROVE k + 1 \in T
  <2>1. SubSeq(b, 1, k + 1) = Append(SubSeq(b, 1, k), b[k + 1])
        /\ SubSeq(b, 1, k) \in Seq(Seq(S)) /\ b[k + 1] \in Seq(S)
    BY OneFurther
  <2>2. Splits(SubSeq(b, 1, k + 1))
    BY <1>2, <1>c, <2>1
  <2> QED
    BY <2>2
<1> HIDE DEF T
<1>3. Len(b) \in T
  BY <1>1, <1>2, AllTheWay
<1> QED
  BY <1>0, <1>3 DEF T, Splits

-----------------------------------------------------------------------------
(* What chunk_document makes of a text                                      *)
Paragraph == Nat \ {0}
Piece == [paragraphs : Seq(Paragraph), size : Nat]
\* A piece with something in it, which is too large only with one paragraph.
Filled(piece) ==
  /\ piece.size > 0
  /\ piece.size > Target + Separator => Len(piece.paragraphs) = 1
\* The paragraphs of pieces, in order.
Parts(pieces) == [i \in DOMAIN pieces |-> pieces[i].paragraphs]
Text(pieces) == FlattenSeq(Parts(pieces))

\* The pieces of the paragraphs so far: the last one is open, and before the first paragraph it
\* is empty.
Packed(pieces, sofar) ==
  /\ pieces \in Seq(Piece) /\ pieces # <<>>
  /\ IF sofar = <<>> THEN pieces = <<EmptyPiece>> ELSE \A i \in DOMAIN pieces : Filled(pieces[i])
  /\ Text(pieces) = sofar

LEMMA SizesAreNat ==
  Target \in Nat /\ Overlap \in Nat /\ Separator \in Nat /\ Separator > 0
  BY RagAssumption DEF Separator

LEMMA PartsAreSeqs ==
  ASSUME NEW pieces \in Seq(Piece)
  PROVE  Parts(pieces) \in Seq(Seq(Paragraph))
<1>1. \A i \in 1..Len(pieces) : pieces[i].paragraphs \in Seq(Paragraph)
  <2>1. \A i \in 1..Len(pieces) : pieces[i] \in Piece
    OBVIOUS
  <2> QED
    BY <2>1 DEF Piece
<1>2. DOMAIN pieces = 1..Len(pieces) /\ Len(pieces) \in Nat
  OBVIOUS
<1>3. \A n \in Nat : [1..n -> Seq(Paragraph)] \subseteq Seq(Seq(Paragraph))
  OBVIOUS
<1>4. Parts(pieces) \in [1..Len(pieces) -> Seq(Paragraph)]
  BY <1>1, <1>2 DEF Parts
<1> QED
  BY <1>2, <1>3, <1>4

LEMMA PartsAppend ==
  ASSUME NEW pieces \in Seq(Piece), NEW piece \in Piece
  PROVE  /\ Parts(Append(pieces, piece)) = Append(Parts(pieces), piece.paragraphs)
         /\ Parts(pieces) \in Seq(Seq(Paragraph)) /\ piece.paragraphs \in Seq(Paragraph)
         /\ Text(Append(pieces, piece)) = Text(pieces) \o piece.paragraphs
<1>1. piece.paragraphs \in Seq(Paragraph)
  BY DEF Piece
<1>2. Parts(pieces) \in Seq(Seq(Paragraph))
  BY PartsAreSeqs
<1>3. Parts(Append(pieces, piece)) = Append(Parts(pieces), piece.paragraphs)
  BY <1>1, <1>2 DEF Parts
<1> QED
  BY <1>1, <1>2, <1>3, FlattenAppend DEF Text

\* A paragraph more in a piece that has room for it.
LEMMA ExtendedPiece ==
  ASSUME NEW piece \in Piece, NEW paragraph \in Paragraph, NEW size \in Nat
  PROVE  LET more == Extended(piece, paragraph, size) IN
         /\ more \in Piece /\ more.size = size + paragraph + Separator
         /\ more.paragraphs = Append(piece.paragraphs, paragraph)
  BY SizesAreNat DEF Extended, Piece, Paragraph

LEMMA OpensPiece ==
  ASSUME NEW piece \in Piece, NEW paragraph \in Paragraph
  PROVE  LET first == Extended(EmptyPiece, paragraph, Carried(piece)) IN
         first \in Piece /\ Filled(first) /\ first.paragraphs = <<paragraph>>
<1> DEFINE first == Extended(EmptyPiece, paragraph, Carried(piece))
<1>1. EmptyPiece \in Piece /\ EmptyPiece.paragraphs = <<>>
  BY DEF EmptyPiece, Piece
<1>2. Carried(piece) \in Nat
  BY SizesAreNat DEF Carried, Piece
<1>3. /\ first \in Piece /\ first.size = Carried(piece) + paragraph + Separator
      /\ first.paragraphs = Append(<<>>, paragraph)
  BY <1>1, <1>2, ExtendedPiece
<1>4. Append(<<>>, paragraph) = <<paragraph>> /\ Len(<<paragraph>>) = 1
  OBVIOUS
<1> QED
  BY <1>2, <1>3, <1>4, SizesAreNat DEF Filled, Paragraph

LEMMA FillsPiece ==
  ASSUME NEW piece \in Piece, NEW paragraph \in Paragraph, ~Overfull(piece, paragraph),
         piece = EmptyPiece \/ Filled(piece)
  PROVE  LET more == Extended(piece, paragraph, piece.size) IN
         more \in Piece /\ Filled(more) /\ more.paragraphs = Append(piece.paragraphs, paragraph)
<1> DEFINE more == Extended(piece, paragraph, piece.size)
<1>1. piece.size \in Nat /\ piece.paragraphs \in Seq(Paragraph)
  BY DEF Piece
<1>2. /\ more \in Piece /\ more.size = piece.size + paragraph + Separator
      /\ more.paragraphs = Append(piece.paragraphs, paragraph)
  BY <1>1, ExtendedPiece
<1>3. more.size > 0
  BY <1>1, <1>2, SizesAreNat DEF Paragraph
<1>4. more.size > Target + Separator => Len(more.paragraphs) = 1
  <2>1. CASE piece = EmptyPiece
    BY <1>2, <2>1 DEF EmptyPiece
  <2>2. CASE Filled(piece)
    BY <1>1, <1>2, <2>2, SizesAreNat DEF Filled, Overfull, Paragraph
  <2> QED
    BY <2>1, <2>2
<1> QED
  BY <1>2, <1>3, <1>4 DEF Filled

\* All but the last, and the last.
LEMMA FrontAndLast ==
  ASSUME NEW S, NEW s \in Seq(S), s # <<>>
  PROVE  /\ Front(s) \in Seq(S) /\ Last(s) \in S /\ s = Append(Front(s), Last(s))
         /\ Len(s) \in DOMAIN s /\ Last(s) = s[Len(s)]
         /\ \A i \in DOMAIN Front(s) : i \in DOMAIN s /\ Front(s)[i] = s[i]
  BY DEF Front, Last

LEMMA PackKeeps ==
  ASSUME NEW pieces, NEW sofar \in Seq(Paragraph), NEW paragraph \in Paragraph,
         Packed(pieces, sofar)
  PROVE  Packed(Pack(pieces, paragraph), Append(sofar, paragraph))
<1> DEFINE open == Last(pieces)
           rest == Front(pieces)
           first == Extended(EmptyPiece, paragraph, Carried(open))
           fuller == Extended(open, paragraph, open.size)
<1>1. pieces \in Seq(Piece) /\ pieces # <<>> /\ Text(pieces) = sofar
  BY DEF Packed
<1>2. /\ rest \in Seq(Piece) /\ open \in Piece /\ pieces = Append(rest, open)
      /\ Len(pieces) \in DOMAIN pieces /\ open = pieces[Len(pieces)]
      /\ \A i \in DOMAIN rest : i \in DOMAIN pieces /\ rest[i] = pieces[i]
  BY <1>1, FrontAndLast
<1>3. Append(sofar, paragraph) # <<>> /\ Append(sofar, paragraph) = sofar \o <<paragraph>>
  BY OneAtTheEnd, AppendIsConcat
<1>4. CASE Overfull(open, paragraph)
  <2>1. first \in Piece /\ Filled(first) /\ first.paragraphs = <<paragraph>>
    BY <1>2, OpensPiece
  <2>2. Pack(pieces, paragraph) = Append(pieces, first)
    BY <1>4 DEF Pack
  <2>3. sofar # <<>>
    <3>1. EmptyPiece.size = 0 /\ open.size > 0
      BY <1>4 DEF Overfull, EmptyPiece
    <3>2. open # EmptyPiece
      BY <3>1
    <3> QED
      BY <1>2, <3>2 DEF Packed
  <2>4. \A i \in DOMAIN pieces : Filled(pieces[i])
    BY <2>3 DEF Packed
  <2> HIDE DEF first
  <2>5. Text(Append(pieces, first)) = Append(sofar, paragraph)
    BY <1>1, <1>3, <2>1, PartsAppend
  <2>6. \A i \in DOMAIN Append(pieces, first) : Filled(Append(pieces, first)[i])
    BY <1>1, <2>1, <2>4
  <2>7. Append(pieces, first) \in Seq(Piece) /\ Append(pieces, first) # <<>>
    BY <1>1, <2>1
  <2> QED
    BY <1>3, <2>2, <2>5, <2>6, <2>7 DEF Packed
<1>5. CASE ~Overfull(open, paragraph)
  <2>0. open = EmptyPiece \/ Filled(open)
    BY <1>2 DEF Packed
  <2>1. fuller \in Piece /\ Filled(fuller)
        /\ fuller.paragraphs = Append(open.paragraphs, paragraph)
    BY <1>2, <1>5, <2>0, FillsPiece
  <2>2. Pack(pieces, paragraph) = Append(rest, fuller)
    BY <1>5 DEF Pack
  <2>3. \A i \in DOMAIN rest : Filled(rest[i])
    BY <1>2 DEF Packed, EmptyPiece, Front
  <2>4. open.paragraphs \in Seq(Paragraph) /\ sofar = Text(rest) \o open.paragraphs
        /\ Parts(rest) \in Seq(Seq(Paragraph))
    BY <1>1, <1>2, PartsAppend
  <2>5. Text(rest) \in Seq(Paragraph)
    BY <2>4, FlattenIsSeq DEF Text
  <2> HIDE DEF fuller, rest, open
  <2>6. Text(Append(rest, fuller)) = Text(rest) \o Append(open.paragraphs, paragraph)
    BY <1>2, <2>1, PartsAppend
  <2>7. Text(rest) \o Append(open.paragraphs, paragraph) = Append(sofar, paragraph)
    BY <2>4, <2>5, JoinedAppend
  <2>8. \A i \in DOMAIN Append(rest, fuller) : Filled(Append(rest, fuller)[i])
    BY <1>2, <2>1, <2>3
  <2>9. Append(rest, fuller) \in Seq(Piece) /\ Append(rest, fuller) # <<>>
    BY <1>2, <2>1
  <2> QED
    BY <1>3, <2>2, <2>6, <2>7, <2>8, <2>9 DEF Packed
<1> QED
  BY <1>4, <1>5

\* The pieces of the first paragraphs of a section, as far as N.
Packing(f, section, N) ==
  f = [n \in 0..N |-> IF n = 0 THEN <<EmptyPiece>> ELSE Pack(f[n - 1], section[n])]

LEMMA PackingExists ==
  ASSUME NEW section, NEW N \in Nat
  PROVE  \E f : Packing(f, section, N)
<1> DEFINE S == {k \in 0..N : \E f : Packing(f, section, k)}
<1>1. 0 \in S
  <2>1. Packing([n \in 0..0 |-> <<EmptyPiece>>], section, 0)
    BY DEF Packing
  <2> QED
    BY <2>1
<1>2. ASSUME NEW k \in 0..(N - 1), k \in S PROVE k + 1 \in S
  <2>1. PICK f : Packing(f, section, k)
    BY <1>2
  <2> DEFINE g == [n \in 0..(k + 1) |->
                     IF n = k + 1 THEN Pack(f[k], section[k + 1]) ELSE f[n]]
  <2>2. \A n \in 0..k : f[n] = IF n = 0 THEN <<EmptyPiece>> ELSE Pack(f[n - 1], section[n])
    BY <2>1 DEF Packing
  <2>3. \A n \in 0..(k + 1) :
          g[n] = IF n = 0 THEN <<EmptyPiece>> ELSE Pack(g[n - 1], section[n])
    BY <2>2
  <2>4. Packing(g, section, k + 1)
    BY <2>3 DEF Packing
  <2> QED
    BY <2>4
<1> HIDE DEF S
<1>3. 0..N \subseteq S
  BY <1>1, <1>2, UpTo
<1> QED
  BY <1>3 DEF S

LEMMA NothingPacked == Packed(<<EmptyPiece>>, <<>>)
<1>1. EmptyPiece \in Piece /\ EmptyPiece.paragraphs = <<>>
  BY DEF EmptyPiece, Piece
<1>2. Parts(<<EmptyPiece>>) = << <<>> >>
  BY <1>1 DEF Parts
<1>3. FlattenSeq(<< <<>> >>) = <<>>
  <2>1. << <<>> >> \in Seq(Seq(Paragraph)) /\ << <<>> >> # <<>> /\ Len(<< <<>> >>) = 1
    OBVIOUS
  <2>2. PICK f : Joins(f, << <<>> >>) /\ FlattenSeq(<< <<>> >>) = f[1]
    BY <2>1, Joined
  <2> QED
    BY <2>2 DEF Joins
<1> QED
  BY <1>1, <1>2, <1>3 DEF Packed, Text

LEMMA SectionPacked ==
  ASSUME NEW section \in Seq(Paragraph), section # <<>>
  PROVE  Packed(PiecesOf(section), section)
<1> DEFINE N == Len(section)
           f == CHOOSE f : Packing(f, section, N)
           T == {k \in 0..N : Packed(f[k], SubSeq(section, 1, k))}
<1>1. N \in Nat /\ N > 0 /\ SubSeq(section, 1, N) = section /\ SubSeq(section, 1, 0) = <<>>
  OBVIOUS
<1>2. Packing(f, section, N)
  BY <1>1, PackingExists
<1>3. PiecesOf(section) = f[N]
  BY DEF PiecesOf, Packing
<1> HIDE DEF f
<1>4. \A n \in 0..N : f[n] = IF n = 0 THEN <<EmptyPiece>> ELSE Pack(f[n - 1], section[n])
  BY <1>2 DEF Packing
<1>5. 0 \in T
  <2>1. 0 \in 0..N /\ f[0] = <<EmptyPiece>>
    BY <1>1, <1>4
  <2> QED
    BY <1>1, <2>1, NothingPacked
<1>6. ASSUME NEW k \in 0..(N - 1), k \in T PROVE k + 1 \in T
  <2>1. /\ SubSeq(section, 1, k + 1) = Append(SubSeq(section, 1, k), section[k + 1])
        /\ SubSeq(section, 1, k) \in Seq(Paragraph) /\ section[k + 1] \in Paragraph
    BY OneFurther
  <2>2. k + 1 \in 0..N /\ k + 1 # 0 /\ (k + 1) - 1 = k
    BY <1>1
  <2>3. f[k + 1] = Pack(f[k], section[k + 1])
    BY <1>4, <2>2
  <2>4. Packed(f[k], SubSeq(section, 1, k))
    BY <1>6
  <2>5. Packed(f[k + 1], SubSeq(section, 1, k + 1))
    BY <2>1, <2>3, <2>4, PackKeeps
  <2> QED
    BY <2>2, <2>5
<1> HIDE DEF T
<1>7. N \in T
  BY <1>5, <1>6, AllTheWay
<1> QED
  BY <1>1, <1>3, <1>7 DEF T

\* What chunk_document promises: the pieces are the text, and none is too large.
Chunked(pieces, text) ==
  /\ pieces \in Seq(Piece)
  /\ \A i \in DOMAIN pieces : Filled(pieces[i])
  /\ Text(pieces) = text

LEMMA NoPieces == Chunked(<<>>, <<>>) /\ FlattenSeq(<<>>) = <<>>
<1>1. Parts(<<>>) = <<>>
  BY DEF Parts
<1> QED
  BY <1>1 DEF Chunked, Text, FlattenSeq

LEMMA SectionChunked ==
  ASSUME NEW section \in Seq(Paragraph)
  PROVE  Chunked(PiecesOf(section), section)
<1>1. CASE section = <<>>
  <2>1. PiecesOf(section) = <<>>
    BY <1>1 DEF PiecesOf
  <2> QED
    BY <1>1, <2>1, NoPieces
<1>2. CASE section # <<>>
  BY <1>2, SectionPacked DEF Packed, Chunked
<1> QED
  BY <1>1, <1>2

LEMMA ChunkedConcat ==
  ASSUME NEW a, NEW b, NEW x \in Seq(Paragraph), NEW y \in Seq(Paragraph),
         Chunked(a, x), Chunked(b, y)
  PROVE  Chunked(a \o b, x \o y)
<1>1. a \in Seq(Piece) /\ b \in Seq(Piece) /\ Text(a) = x /\ Text(b) = y
  BY DEF Chunked
<1>2. a \o b \in Seq(Piece)
  BY <1>1
<1>3. \A i \in DOMAIN (a \o b) : Filled((a \o b)[i])
  BY <1>1 DEF Chunked
<1>4. Parts(a) \in Seq(Seq(Paragraph)) /\ Parts(b) \in Seq(Seq(Paragraph))
  BY <1>1, PartsAreSeqs
<1>5. Parts(a \o b) = Parts(a) \o Parts(b)
  <2> DEFINE p == Parts(a)
             q == Parts(b)
             n == Len(a)
             m == Len(b)
  <2>0. /\ n \in Nat /\ m \in Nat /\ DOMAIN a = 1..n /\ DOMAIN b = 1..m
        /\ Len(a \o b) = n + m
        /\ \A i \in 1..(n + m) : (a \o b)[i] = IF i <= n THEN a[i] ELSE b[i - n]
    BY <1>1, ConcatAt
  <2>a. DOMAIN (a \o b) = 1..(n + m)
    BY <1>2, <2>0, SeqIsFunction
  <2>1. /\ Len(p) = n /\ Len(q) = m
        /\ \A i \in 1..n : p[i] = a[i].paragraphs
        /\ \A i \in 1..m : q[i] = b[i].paragraphs
    BY <2>0 DEF Parts
  <2>2. p \in Seq(Seq(Paragraph)) /\ q \in Seq(Seq(Paragraph))
    BY <1>4
  <2>3. Parts(a \o b) = [i \in 1..(n + m) |-> (a \o b)[i].paragraphs]
    BY <2>a DEF Parts
  <2> HIDE DEF p, q, n, m
  <2>4. /\ p \o q = [i \in 1..(n + m) |-> (p \o q)[i]]
        /\ \A i \in 1..(n + m) : (p \o q)[i] = IF i <= n THEN p[i] ELSE q[i - n]
    <3>1. /\ p \o q \in Seq(Seq(Paragraph)) /\ Len(p \o q) = n + m
          /\ \A i \in 1..(n + m) : (p \o q)[i] = IF i <= n THEN p[i] ELSE q[i - n]
      BY <2>1, <2>2, ConcatAt
    <3>2. p \o q = [i \in 1..(n + m) |-> (p \o q)[i]]
      BY <3>1, SeqIsFunction
    <3> QED
      BY <3>1, <3>2
  <2>5. \A i \in 1..(n + m) :
          (a \o b)[i].paragraphs = IF i <= n THEN p[i] ELSE q[i - n]
    <3>1. \A i \in 1..(n + m) : i <= n => i \in 1..n
      BY <2>0
    <3>2. \A i \in 1..(n + m) : ~(i <= n) => i - n \in 1..m
      BY <2>0
    <3> QED
      BY <2>0, <2>1, <3>1, <3>2
  <2>6. Parts(a \o b) = p \o q
    BY <2>3, <2>4, <2>5
  <2> QED
    BY <2>6 DEF p, q
<1>6. Text(a \o b) = x \o y
  BY <1>1, <1>4, <1>5, FlattenConcat DEF Text
<1> QED
  BY <1>2, <1>3, <1>6 DEF Chunked

LEMMA OneMoreSection ==
  ASSUME NEW text \in Seq(Seq(Paragraph)), NEW section \in Seq(Paragraph),
         Chunked(ChunkDocument(text), FlattenSeq(text))
  PROVE  LET longer == Append(text, section) IN
         Chunked(ChunkDocument(longer), FlattenSeq(longer))
<1> DEFINE longer == Append(text, section)
           Sections(t) == [s \in DOMAIN t |-> PiecesOf(t[s])]
<1>1. \A s \in Seq(Paragraph) : PiecesOf(s) \in Seq(Piece)
  BY SectionChunked DEF Chunked
<1>2. Sections(text) \in Seq(Seq(Piece))
  <2>1. \A i \in 1..Len(text) : text[i] \in Seq(Paragraph)
    OBVIOUS
  <2>2. DOMAIN text = 1..Len(text) /\ Len(text) \in Nat
    OBVIOUS
  <2>3. \A n \in Nat : [1..n -> Seq(Piece)] \subseteq Seq(Seq(Piece))
    OBVIOUS
  <2>4. Sections(text) \in [1..Len(text) -> Seq(Piece)]
    BY <1>1, <2>1, <2>2
  <2> QED
    BY <2>2, <2>3, <2>4
<1>3. Sections(longer) = Append(Sections(text), PiecesOf(section))
  BY <1>1, <1>2
<1>4. ChunkDocument(longer) = ChunkDocument(text) \o PiecesOf(section)
  <2>1. PiecesOf(section) \in Seq(Piece)
    BY <1>1
  <2>2. ChunkDocument(longer) = FlattenSeq(Sections(longer))
        /\ ChunkDocument(text) = FlattenSeq(Sections(text))
    BY DEF ChunkDocument
  <2> HIDE DEF Sections
  <2> QED
    BY <1>2, <1>3, <2>1, <2>2, FlattenAppend
<1>5. FlattenSeq(longer) = FlattenSeq(text) \o section
  BY FlattenAppend
<1>6. FlattenSeq(text) \in Seq(Paragraph)
  BY FlattenIsSeq
<1>7. Chunked(PiecesOf(section), section)
  BY SectionChunked
<1> HIDE DEF longer
<1>8. Chunked(ChunkDocument(longer), FlattenSeq(longer))
  BY <1>4, <1>5, <1>6, <1>7, ChunkedConcat
<1> QED
  BY <1>8 DEF longer

LEMMA DocumentChunked ==
  ASSUME NEW text \in Seq(Seq(Paragraph))
  PROVE  Chunked(ChunkDocument(text), FlattenSeq(text))
<1> DEFINE Good(t) == Chunked(ChunkDocument(t), FlattenSeq(t))
           T == {k \in 0..Len(text) : Good(SubSeq(text, 1, k))}
<1>1. Len(text) \in Nat /\ SubSeq(text, 1, Len(text)) = text /\ SubSeq(text, 1, 0) = <<>>
  OBVIOUS
<1>2. Good(<<>>)
  <2>1. ChunkDocument(<<>>) = FlattenSeq(<<>>)
    BY DEF ChunkDocument
  <2> QED
    BY <2>1, NoPieces
<1>3. \A t \in Seq(Seq(Paragraph)), s \in Seq(Paragraph) : Good(t) => Good(Append(t, s))
  BY OneMoreSection
<1> HIDE DEF Good
<1>4. 0 \in T
  <2>1. Good(SubSeq(text, 1, 0))
    BY <1>1, <1>2, Zenon
  <2>2. 0 \in 0..Len(text)
    BY <1>1
  <2> QED
    BY <2>1, <2>2
<1>5. ASSUME NEW k \in 0..(Len(text) - 1), k \in T PROVE k + 1 \in T
  <2>1. /\ SubSeq(text, 1, k + 1) = Append(SubSeq(text, 1, k), text[k + 1])
        /\ SubSeq(text, 1, k) \in Seq(Seq(Paragraph)) /\ text[k + 1] \in Seq(Paragraph)
    BY OneFurther
  <2>2. Good(SubSeq(text, 1, k + 1))
    BY <1>3, <1>5, <2>1
  <2> QED
    BY <1>1, <2>2
<1> HIDE DEF T
<1>6. Len(text) \in T
  BY <1>4, <1>5, AllTheWay
<1> QED
  BY <1>1, <1>6 DEF T, Good

-----------------------------------------------------------------------------
(* The index and a search of it                                             *)
IngestStage == {"new", "embedding", "ensuring", "creating", "upserting"} \union IngestOver
SearchStage == {"new", "embedding", "dense", "lexical"} \union SearchOver

\* The points of the newest text are its chunks; a search has a ranking from the index as it was,
\* points only come to it, and hits once there is a lexical ranking.
RagInv ==
  /\ collection \in [exists : BOOLEAN, points : [Ordinals -> Piece]]
  /\ ingests \in [Writers -> [stage : IngestStage, text : TextVersions]]
  /\ newest \in Seq(TextVersions) /\ Len(newest) <= 1
  /\ newest # <<>> => \A i \in DOMAIN ChunkDocument(newest[1]) :
                        collection.points[i] = ChunkDocument(newest[1])[i]
  /\ query \in [stage : SearchStage, dense : Seq(Ordinals), lexical : Seq(Ordinals),
                hits : Seq(Ordinals)]
  /\ UNION {ToSet(query.dense), ToSet(query.lexical), ToSet(query.hits)} \subseteq Points
  /\ Len(query.dense) <= 4 * TopK /\ Len(query.lexical) <= 4 * TopK
  /\ query.stage # "answered" => query.lexical = <<>> /\ query.hits = <<>>
  /\ query.lexical # <<>> => RrfFuse(query.dense, query.lexical, query.hits)

LEMMA ChunksOfVersion ==
  ASSUME NEW text \in TextVersions
  PROVE  /\ text \in Seq(Seq(Paragraph))
         /\ ChunkDocument(text) \in Seq(Piece)
         /\ DOMAIN ChunkDocument(text) \subseteq Ordinals
         /\ \A i \in DOMAIN ChunkDocument(text) :
              /\ ChunkDocument(text)[i] \in Piece
              /\ ChunkDocument(text)[i] # NoChunk
              /\ Filled(ChunkDocument(text)[i])
<1>1. text \in Seq(Seq(Paragraph))
  BY RagAssumption DEF Paragraph
<1> DEFINE chunks == ChunkDocument(text)
<1>2. chunks \in Seq(Piece) /\ \A i \in DOMAIN chunks : Filled(chunks[i])
  BY <1>1, DocumentChunked DEF Chunked
<1>3. Len(chunks) <= MaxChunks
  BY ChunksAssumption
<1> HIDE DEF chunks
<1>4. DOMAIN chunks \subseteq Ordinals
  BY <1>2, <1>3, RagAssumption DEF Ordinals
<1>5. \A i \in DOMAIN chunks : chunks[i] # NoChunk /\ chunks[i] \in Piece
  BY <1>2 DEF Filled, NoChunk, EmptyPiece
<1> QED
  BY <1>1, <1>2, <1>4, <1>5 DEF chunks

\* chunking.py:42-48: the chunks of the newest text are that text.
LEMMA NewestIsStored ==
  ASSUME RagInv
  PROVE  NewestStored
<1> SUFFICES ASSUME newest # <<>> PROVE NewestStored
  BY DEF NewestStored
<1> DEFINE text == newest[1]
           chunks == ChunkDocument(text)
           stored == [i \in DOMAIN chunks |-> collection.points[i]]
<1>1. text \in TextVersions
  BY DEF RagInv
<1>2. text \in Seq(Seq(Paragraph)) /\ chunks \in Seq(Piece)
  BY <1>1, ChunksOfVersion
<1>3. \A i \in DOMAIN chunks : collection.points[i] = chunks[i]
  BY DEF RagInv
<1>4. Chunked(chunks, FlattenSeq(text))
  BY <1>2, DocumentChunked
<1> HIDE DEF text, chunks
<1>5. stored = chunks
  <2>1. chunks = [i \in DOMAIN chunks |-> chunks[i]]
    BY <1>2, SeqIsFunction
  <2> QED
    BY <1>3, <2>1
<1>6. FlattenSeq([i \in DOMAIN stored |-> stored[i].paragraphs]) = FlattenSeq(text)
  BY <1>4, <1>5 DEF Chunked, Text, Parts
<1>7. \A i \in DOMAIN stored :
        stored[i].size > Target + Separator => Len(stored[i].paragraphs) = 1
  BY <1>4, <1>5 DEF Chunked, Filled
<1> QED
  BY <1>6, <1>7 DEF NewestStored, text, chunks

\* 1/a + 1/b > 1/c for ranks from 61 to 121.
LEMMA SumOfTwo ==
  ASSUME NEW a \in Nat, NEW b \in Nat, NEW c \in Nat,
         61 <= a, a <= 121, 61 <= b, b <= 121, 61 <= c
  PROVE  (a + b) * c > 1 * (a * b)
<1>1. \A x, y, z \in Nat : x <= y => x * z <= y * z
  OBVIOUS
<1>2. a * b <= 121 * b /\ b * a <= 121 * a /\ a * b = b * a
  BY <1>1
<1>3. (a + b) * c >= (a + b) * 61
  <2>1. 61 * (a + b) <= c * (a + b)
    BY <1>1
  <2> QED
    BY <2>1
<1> QED
  BY <1>2, <1>3

LEMMA RankBounds ==
  ASSUME NEW ranking \in Seq(Ordinals), NEW o \in ToSet(ranking), Len(ranking) <= 4 * TopK,
         4 * TopK <= RrfK + 1
  PROVE  RankIn(ranking, o) \in Nat /\ 61 <= RankIn(ranking, o) /\ RankIn(ranking, o) <= 121
<1> DEFINE i == CHOOSE i \in DOMAIN ranking : ranking[i] = o
<1>1. i \in DOMAIN ranking
  BY DEF ToSet
<1>2. i \in Nat /\ 1 <= i /\ i <= Len(ranking) /\ Len(ranking) \in Nat
  BY <1>1
<1>3. RankIn(ranking, o) = RrfK + i
  BY DEF RankIn
<1> HIDE DEF i
<1> QED
  BY <1>2, <1>3, RagAssumption DEF RrfK

LEMMA BothComeFirst ==
  ASSUME RagInv
  PROVE  BothFirst
<1> DEFINE inBoth(k) == query.hits[k] \in ToSet(query.dense) \intersect ToSet(query.lexical)
<1>1. ToSet(query.hits) \subseteq Points
  BY DEF RagInv
<1>2. ASSUME NEW i \in DOMAIN query.hits, NEW j \in DOMAIN query.hits,
             4 * TopK <= RrfK + 1, query.lexical # <<>>, i < j, inBoth(j), ~inBoth(i)
      PROVE  FALSE
  <2> DEFINE dense == query.dense
             lexical == query.lexical
             o == query.hits[i]
             p == query.hits[j]
             a == RankIn(dense, p)
             b == RankIn(lexical, p)
  <2>1. RrfFuse(dense, lexical, query.hits)
    BY <1>2 DEF RagInv
  <2>2. ~Above(Score(p, dense, lexical), Score(o, dense, lexical))
    BY <1>2, <2>1 DEF RrfFuse
  <2>3. o \in ToSet(dense) \union ToSet(lexical)
    BY <2>1 DEF RrfFuse, ToSet
  <2>4. /\ dense \in Seq(Ordinals) /\ lexical \in Seq(Ordinals)
        /\ Len(dense) <= 4 * TopK /\ Len(lexical) <= 4 * TopK
    BY DEF RagInv
  <2>5. p \in ToSet(dense) /\ p \in ToSet(lexical)
    BY <1>2
  <2>6. ~(o \in ToSet(dense) /\ o \in ToSet(lexical))
    BY <1>2
  <2> HIDE DEF dense, lexical, o, p
  <2>7. a \in Nat /\ 61 <= a /\ a <= 121 /\ b \in Nat /\ 61 <= b /\ b <= 121
    BY <1>2, <2>4, <2>5, RankBounds
  <2>8. Score(p, dense, lexical) = <<a + b, a * b>>
    BY <2>5 DEF Score
  <2>9. PICK c \in Nat : 61 <= c /\ Score(o, dense, lexical) = <<1, c>>
    <3>1. CASE o \notin ToSet(lexical)
      <4>1. o \in ToSet(dense)
        BY <2>3, <3>1
      <4>2. RankIn(dense, o) \in Nat /\ 61 <= RankIn(dense, o)
        BY <1>2, <2>4, <4>1, RankBounds
      <4>3. Score(o, dense, lexical) = <<1, RankIn(dense, o)>>
        BY <3>1, <4>1 DEF Score
      <4> QED
        BY <4>2, <4>3
    <3>2. CASE o \in ToSet(lexical)
      <4>1. o \notin ToSet(dense)
        BY <2>6, <3>2
      <4>2. RankIn(lexical, o) \in Nat /\ 61 <= RankIn(lexical, o)
        BY <1>2, <2>4, <3>2, RankBounds
      <4>3. Score(o, dense, lexical) = <<1, RankIn(lexical, o)>>
        BY <3>2, <4>1 DEF Score
      <4> QED
        BY <4>2, <4>3
    <3> QED
      BY <3>1, <3>2
  <2> HIDE DEF a, b
  <2>10. (a + b) * c > 1 * (a * b)
    BY <2>7, <2>9, SumOfTwo
  <2>11. Above(Score(p, dense, lexical), Score(o, dense, lexical))
    BY <2>8, <2>9, <2>10 DEF Above
  <2> QED
    BY <2>2, <2>11
<1>3. \A i, j \in DOMAIN query.hits :
        4 * TopK <= RrfK + 1 /\ query.lexical # <<>> /\ i < j /\ inBoth(j) => inBoth(i)
  BY <1>2
<1> QED
  BY <1>1, <1>3 DEF BothFirst

-----------------------------------------------------------------------------
LEMMA RagInvInit ==
  ASSUME RagInit
  PROVE  RagInv
<1>1. EmptyPiece \in Piece
  BY DEF EmptyPiece, Piece
<1>2. collection \in [exists : BOOLEAN, points : [Ordinals -> Piece]]
  BY <1>1 DEF RagInit, NoChunk
<1>3. ingests \in [Writers -> [stage : IngestStage, text : TextVersions]]
  BY DEF RagInit, IngestStage
<1>4. newest = <<>> /\ newest \in Seq(TextVersions) /\ Len(newest) <= 1
  BY DEF RagInit
<1>5. /\ query.dense = <<>> /\ query.lexical = <<>> /\ query.hits = <<>> /\ query.stage = "new"
      /\ query \in [stage : SearchStage, dense : Seq(Ordinals), lexical : Seq(Ordinals),
                    hits : Seq(Ordinals)]
  BY DEF RagInit, SearchStage
<1>6. ToSet(<<>>) = {} /\ Len(<<>>) = 0 /\ 0 <= 4 * TopK
  BY RagAssumption DEF ToSet
<1> QED
  BY <1>2, <1>3, <1>4, <1>5, <1>6 DEF RagInv

\* A step of an ingest that stores nothing.
LEMMA Advances ==
  ASSUME RagInv, NEW w \in Writers, NEW from, NEW to \in IngestStage, Advance(w, from, to)
  PROVE  ingests' \in [Writers -> [stage : IngestStage, text : TextVersions]]
  BY DEF RagInv, Advance

LEMMA IngestKeeps ==
  ASSUME RagInv, NEW w \in Writers,
         \/ Ingest(w) \/ EmbedChunks(w) \/ EnsureCollection(w) \/ CreateCollection(w)
  PROVE  RagInv'
<1>1. ingests' \in [Writers -> [stage : IngestStage, text : TextVersions]]
  BY Advances DEF Ingest, EmbedChunks, EnsureCollection, CreateCollection, IngestStage, IngestOver
<1>2. newest' = newest /\ query' = query
  BY DEF Ingest, EmbedChunks, EnsureCollection, CreateCollection
<1>3. /\ collection' \in [exists : BOOLEAN, points : [Ordinals -> Piece]]
      /\ collection'.points = collection.points
  BY DEF RagInv, Ingest, EmbedChunks, EnsureCollection, CreateCollection
<1>4. Points' = Points
  BY <1>3 DEF Points
<1> QED
  BY <1>1, <1>2, <1>3, <1>4 DEF RagInv

LEMMA UpsertKeeps ==
  ASSUME RagInv, NEW w \in Writers, Upsert(w)
  PROVE  RagInv'
<1> DEFINE text == ingests[w].text
           chunks == ChunkDocument(text)
           points == [o \in Ordinals |-> IF o \in DOMAIN chunks THEN chunks[o]
                                        ELSE collection.points[o]]
<1>0. text \in TextVersions
  BY DEF RagInv
<1>1. /\ DOMAIN chunks \subseteq Ordinals
      /\ \A i \in DOMAIN chunks : chunks[i] \in Piece /\ chunks[i] # NoChunk
  BY <1>0, ChunksOfVersion
<1>2. ingests' \in [Writers -> [stage : IngestStage, text : TextVersions]]
  BY Advances DEF Upsert, IngestStage, IngestOver
<1>3. /\ collection \in [exists : BOOLEAN, points : [Ordinals -> Piece]]
      /\ collection' = [collection EXCEPT !.points = points]
      /\ newest' = <<text>> /\ query' = query
  BY DEF RagInv, Upsert
<1> HIDE DEF text, chunks
<1>4. points \in [Ordinals -> Piece]
  BY <1>1, <1>3
<1>5. /\ collection' \in [exists : BOOLEAN, points : [Ordinals -> Piece]]
      /\ collection'.points = points
  BY <1>3, <1>4
<1>6. Points \subseteq Points'
  BY <1>1, <1>5 DEF Points
<1>7. /\ newest' \in Seq(TextVersions) /\ Len(newest') <= 1 /\ newest'[1] = text
  BY <1>0, <1>3
<1>8. \A i \in DOMAIN chunks : collection'.points[i] = chunks[i]
  BY <1>1, <1>5
<1>9. \A i \in DOMAIN ChunkDocument(newest'[1]) :
        collection'.points[i] = ChunkDocument(newest'[1])[i]
  BY <1>7, <1>8 DEF chunks
<1> QED
  BY <1>2, <1>3, <1>5, <1>6, <1>7, <1>9 DEF RagInv

\* A step of the search that finds nothing yet.
LEMMA SearchKeeps ==
  ASSUME RagInv, SearchIndex \/ EmbedQuery
  PROVE  RagInv'
<1>1. PICK stage \in SearchStage \ {"answered"} :
        query.stage # "answered" /\ query' = [query EXCEPT !.stage = stage]
  BY DEF SearchIndex, EmbedQuery, Searching, SearchStage, SearchOver
<1>2. UNCHANGED <<collection, ingests, newest>> /\ Points' = Points
  BY DEF SearchIndex, EmbedQuery, Points
<1> QED
  BY <1>1, <1>2 DEF RagInv

\* The members of Rankings, and the best of one.
LEMMA RankingsAreSeqs ==
  ASSUME NEW ranking \in Rankings
  PROVE  ranking \in Seq(Ordinals)
  BY RagAssumption DEF Rankings

LEMMA TopOf ==
  ASSUME NEW ranking \in Seq(Ordinals)
  PROVE  Top(ranking) \in Seq(Ordinals) /\ ToSet(Top(ranking)) \subseteq ToSet(ranking)
<1> DEFINE n == IF Len(ranking) < TopK THEN Len(ranking) ELSE TopK
<1>1. n \in Nat /\ n <= Len(ranking)
  BY RagAssumption
<1>2. Top(ranking) = SubSeq(ranking, 1, n)
  BY DEF Top
<1> HIDE DEF n
<1>3. SubSeq(ranking, 1, n) \in Seq(Ordinals)
      /\ \A i \in DOMAIN SubSeq(ranking, 1, n) :
           i \in DOMAIN ranking /\ SubSeq(ranking, 1, n)[i] = ranking[i]
  BY <1>1
<1> QED
  BY <1>2, <1>3 DEF ToSet

LEMMA DenseKeeps ==
  ASSUME RagInv, NEW ranking \in Rankings, NEW hybrid \in BOOLEAN, SearchDense(ranking, hybrid)
  PROVE  RagInv'
<1>1. UNCHANGED <<collection, ingests, newest>> /\ Points' = Points
  BY DEF SearchDense, Points
<1>2. ranking \in Seq(Ordinals)
  BY RankingsAreSeqs
<1>3. ToSet(ranking) \subseteq Points
  BY DEF SearchDense, Nearest
<1>4. Len(ranking) <= 4 * TopK
  BY <1>2, RagAssumption DEF SearchDense, Nearest
<1>5. query.stage = "dense" /\ query.lexical = <<>> /\ query.hits = <<>>
  BY DEF SearchDense, Searching, RagInv
<1>6. CASE hybrid
  <2>1. query' = [query EXCEPT !.stage = "lexical", !.dense = ranking]
    BY <1>6 DEF SearchDense
  <2>2. /\ query'.stage = "lexical" /\ query'.dense = ranking /\ query'.lexical = <<>>
        /\ query'.hits = <<>>
        /\ query' \in [stage : SearchStage, dense : Seq(Ordinals), lexical : Seq(Ordinals),
                       hits : Seq(Ordinals)]
    BY <1>2, <1>5, <2>1 DEF RagInv, SearchStage
  <2> QED
    BY <1>1, <1>2, <1>3, <1>4, <1>5, <2>2 DEF RagInv
<1>7. CASE ~hybrid
  <2>0. Top(ranking) \in Seq(Ordinals) /\ ToSet(Top(ranking)) \subseteq Points
    BY <1>2, <1>3, TopOf
  <2>1. query' = [query EXCEPT !.stage = "answered", !.dense = ranking, !.hits = Top(ranking)]
    BY <1>7 DEF SearchDense
  <2>2. /\ query'.stage = "answered" /\ query'.dense = ranking /\ query'.lexical = <<>>
        /\ query'.hits = Top(ranking)
        /\ query' \in [stage : SearchStage, dense : Seq(Ordinals), lexical : Seq(Ordinals),
                       hits : Seq(Ordinals)]
    BY <1>2, <1>5, <2>0, <2>1 DEF RagInv, SearchStage, SearchOver
  <2> QED
    BY <1>1, <1>2, <1>3, <1>4, <1>5, <2>0, <2>2 DEF RagInv
<1> QED
  BY <1>6, <1>7

LEMMA LexicalKeeps ==
  ASSUME RagInv, NEW ranking \in Rankings, SearchLexical(ranking)
  PROVE  RagInv'
<1>1. UNCHANGED <<collection, ingests, newest>> /\ Points' = Points
  BY DEF SearchLexical, Points
<1>2. /\ ranking \in Seq(Ordinals) /\ ToSet(ranking) \subseteq Points /\ Len(ranking) <= 4 * TopK
  BY RankingsAreSeqs DEF SearchLexical
<1>3. PICK hits \in Rankings :
        /\ RrfFuse(query.dense, ranking, hits)
        /\ query' = [query EXCEPT !.stage = "answered", !.lexical = ranking, !.hits = hits]
  BY DEF SearchLexical
<1>4. hits \in Seq(Ordinals)
  BY RankingsAreSeqs
<1>5. ToSet(hits) \subseteq Points
  BY <1>2, <1>3 DEF RrfFuse, RagInv
<1>6. /\ query'.stage = "answered" /\ query'.dense = query.dense /\ query'.lexical = ranking
      /\ query'.hits = hits
      /\ query' \in [stage : SearchStage, dense : Seq(Ordinals), lexical : Seq(Ordinals),
                     hits : Seq(Ordinals)]
  BY <1>2, <1>3, <1>4 DEF RagInv, SearchStage, SearchOver
<1>7. RrfFuse(query'.dense, query'.lexical, query'.hits)
  BY <1>3, <1>6
<1> QED
  BY <1>1, <1>2, <1>4, <1>5, <1>6, <1>7 DEF RagInv

LEMMA RagStepKeeps ==
  ASSUME RagInv, [RagNext]_ragVars
  PROVE  RagInv'
<1>1. CASE RagNext
  BY <1>1, IngestKeeps, UpsertKeeps, SearchKeeps, DenseKeeps, LexicalKeeps DEF RagNext
<1>2. CASE UNCHANGED ragVars
  BY <1>2 DEF ragVars, RagInv, Points
<1> QED
  BY <1>1, <1>2

LEMMA RagInvariant == RagSpec => []RagInv
<1> QED
  BY RagInvInit, RagStepKeeps, PTL DEF RagSpec

LEMMA RagInvTyped ==
  ASSUME RagInv
  PROVE  RagTypeOK
  BY DEF RagInv, RagTypeOK, IngestStage, IngestOver, SearchStage, SearchOver

(* The state of the index, its ingests and its search has its type.        *)
THEOREM RagTyped == RagSpec => []RagTypeOK
  BY RagInvariant, RagInvTyped, PTL

(* pipeline.py:28-38, chunking.py:42-48: whatever ingests overlap and      *)
(* however the rankings turn out, the index holds the newest text whole,   *)
(* and a search returns points of it, those of both rankings first.        *)
THEOREM HitsAreSound == RagSpec => []HitsSound
<1>1. RagInv => HitsSound
  BY NewestIsStored, BothComeFirst DEF HitsSound
<1> QED
  BY <1>1, RagInvariant, PTL
=============================================================================
