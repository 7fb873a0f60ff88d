------------------------------- MODULE Browse -------------------------------
(***************************************************************************)
(* Live computer use: a browser is opened on a url and a model picks one   *)
(* action after another from what the page shows, until it finishes, an    *)
(* action is refused or fails, or the steps are used up.                   *)
(*                                                                         *)
(* An action is its kind and what the code asks about it: whether it names *)
(* a payment or another destructive act, whether it enters sensitive data, *)
(* and whether its url is public.                                          *)
(***************************************************************************)
EXTENDS Naturals, Sequences, SequencesExt

CONSTANTS
  MaxActions      \* run_browse's max_steps

ASSUME BrowseAssumption == MaxActions \in Nat

VARIABLES
  browse,         \* the request and the transcript it builds
  chromium        \* what is running for it

browseVars == <<browse, chromium>>

Actions == {action \in [kind: {"click", "type", "navigate", "finish", "other"},
                        unsafe: BOOLEAN, sensitive: BOOLEAN, public: BOOLEAN] :
              /\ action.sensitive => action.kind = "type"
              /\ action.public => action.kind = "navigate"}
\* A line of the transcript: the action, if the reply held one, whether it was tried on the
\* page, and whether a note says what went wrong.
NoAction    == [kind |-> "none", unsafe |-> FALSE, sensitive |-> FALSE, public |-> FALSE]
Lines       == [action: Actions \union {NoAction}, tried: BOOLEAN, note: BOOLEAN]
BrowseOver  == {"done", "raised"}
BrowseStages == {"start", "launching", "opening", "observing", "asking", "acting", "closing"}
                  \union BrowseOver

BrowseTypeOK ==
  /\ browse \in [stage: BrowseStages, action: Actions \union {NoAction}, sensitive: BOOLEAN,
                 completed: BOOLEAN, raises: BOOLEAN, steps: Seq(Lines)]
  /\ chromium \in {"none", "driver", "browser"}

BrowseInit ==
  /\ browse = [stage |-> "start", action |-> NoAction, sensitive |-> FALSE,
               completed |-> FALSE, raises |-> FALSE, steps |-> <<>>]
  /\ chromium = "none"

-----------------------------------------------------------------------------
Now(stage) == browse.stage = stage

\* One more line of the transcript.
Line(action, tried, note) == [action |-> action, tried |-> tried, note |-> note]
Noted(line)  == [browse EXCEPT !.steps = Append(@, line), !.action = NoAction]
Stop(b)      == [b EXCEPT !.stage = "closing"]
\* The head of the loop.
Another(b)   == [b EXCEPT !.stage = IF Len(b.steps) < MaxActions THEN "observing" ELSE "closing"]

\* The url of the request is checked before anything is started.
OpenBrowse(public) ==
  /\ Now("start")
  /\ browse' = IF public THEN [browse EXCEPT !.stage = "launching"]
               ELSE [Noted(Line(NoAction, FALSE, TRUE)) EXCEPT !.stage = "done"]
  /\ UNCHANGED chromium

\* The driver starts, then the browser; if the browser does not, the driver is stopped.
StartDriver ==
  /\ Now("launching") /\ chromium = "none"
  /\ chromium' = "driver"
  /\ UNCHANGED browse
LaunchBrowser ==
  /\ Now("launching") /\ chromium = "driver"
  /\ chromium' = "browser"
  /\ browse' = [browse EXCEPT !.stage = "opening"]
LaunchFails ==
  /\ Now("launching")
  /\ chromium' = "none"
  /\ browse' = [browse EXCEPT !.stage = "raised", !.raises = TRUE]

\* The page of the request's url; then the first observation.
Opened ==
  /\ Now("opening")
  /\ browse' = Another(browse)
  /\ UNCHANGED chromium
Observed ==
  /\ Now("observing")
  /\ browse' = [browse EXCEPT !.stage = "asking"]
  /\ UNCHANGED chromium
\* Opening or observing the page fails, or a client raises: the session is closed on the way.
PageFails ==
  /\ Now("opening") \/ Now("observing") \/ Now("asking")
  /\ browse' = [Stop(browse) EXCEPT !.raises = TRUE]
  /\ UNCHANGED chromium

\* No provider, or no JSON action in the reply.
NoReply ==
  /\ Now("asking")
  /\ browse' = Stop(Noted(Line(NoAction, FALSE, TRUE)))
  /\ UNCHANGED chromium
Finish(action) ==
  /\ Now("asking") /\ action.kind = "finish"
  /\ browse' = [Stop(Noted(Line(action, FALSE, FALSE))) EXCEPT !.completed = TRUE]
  /\ UNCHANGED chromium

\* Mutant: each action is judged by itself.
UnsafeAlone(action, entered) == action.unsafe

\* Destructive, or a click after sensitive data was entered.
Unsafe(action, entered) == action.unsafe \/ (entered /\ action.kind = "click")
Refuse(action) ==
  /\ Now("asking") /\ action.kind # "finish" /\ Unsafe(action, browse.sensitive)
  /\ browse' = Stop(Noted(Line(action, FALSE, TRUE)))
  /\ UNCHANGED chromium
Choose(action) ==
  /\ Now("asking") /\ action.kind # "finish" /\ ~Unsafe(action, browse.sensitive)
  /\ browse' = [browse EXCEPT !.stage = "acting", !.action = action]
  /\ UNCHANGED chromium

\* An action the page is never asked to do.
Bars(action) == action.kind = "other" \/ (action.kind = "navigate" /\ ~action.public)
Barred ==
  /\ Now("acting") /\ Bars(browse.action)
  /\ browse' = Stop(Noted(Line(browse.action, FALSE, TRUE)))
  /\ UNCHANGED chromium
Acted ==
  LET action == browse.action IN
  /\ Now("acting") /\ ~Bars(action)
  /\ browse' = Another([Noted(Line(action, TRUE, FALSE)) EXCEPT
                          !.sensitive = @ \/ (action.kind = "type" /\ action.sensitive)])
  /\ UNCHANGED chromium
\* Whatever the page raises is noted, and nothing more is done: it may have happened.
ActFails ==
  /\ Now("acting") /\ ~Bars(browse.action)
  /\ browse' = Stop(Noted(Line(browse.action, TRUE, TRUE)))
  /\ UNCHANGED chromium

\* The session's close: the browser, which may fail to close, and in any case the driver.
CloseSession(fails) ==
  /\ Now("closing")
  /\ chromium' = "none"
  /\ browse' = [browse EXCEPT !.stage = IF fails \/ browse.raises THEN "raised" ELSE "done"]

BrowseStep ==
  \/ StartDriver \/ LaunchBrowser \/ LaunchFails \/ Opened \/ Observed \/ PageFails \/ NoReply
  \/ \E action \in Actions : Finish(action) \/ Refuse(action) \/ Choose(action)
  \/ Barred \/ Acted \/ ActFails
  \/ \E fails \in BOOLEAN : CloseSession(fails)

BrowseNext == BrowseStep \/ \E public \in BOOLEAN : OpenBrowse(public)

\* Every call into the browser and every call of a model has a timeout.
BrowseSpec == BrowseInit /\ [][BrowseNext]_browseVars /\ WF_browseVars(BrowseStep)

-----------------------------------------------------------------------------
(* browse.py:275-295: once sensitive data was typed, or may have been by a *)
(* type that failed, nothing is clicked any more; no page is asked for a   *)
(* url that is not public, nor for a destructive act; a note ends the      *)
(* transcript, completion is its last line; and nothing runs on after the  *)
(* request.                                                                *)
BrowseGuarded ==
  LET steps == browse.steps IN
  /\ \A i, j \in DOMAIN steps :
       i < j /\ steps[i].tried /\ steps[i].action.kind = "type" /\ steps[i].action.sensitive
         => ~(steps[j].tried /\ steps[j].action.kind = "click")
  /\ \A i \in DOMAIN steps : steps[i].tried =>
       /\ ~steps[i].action.unsafe
       /\ steps[i].action.kind = "navigate" => steps[i].action.public
  /\ \A i \in DOMAIN steps : steps[i].note => i = Len(steps)
  /\ browse.completed <=> steps # <<>> /\ Last(steps).action.kind = "finish"
  /\ Now("done") \/ Now("raised") => chromium = "none"

(* The request ends whatever the model picks and the pages do.             *)
BrowseEnds == []<>(browse.stage \in {"start", "done", "raised"})
=============================================================================
