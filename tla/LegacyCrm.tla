----------------------------- MODULE LegacyCrm -----------------------------
(***************************************************************************)
(* Computer-use QA: the legacy CRM twice, as the state machine of          *)
(* sandbox.py and as the page legacy_ui.html behind PlaywrightSession, and *)
(* the runner that puts scripted scenarios to a session and reports each   *)
(* failed expectation as a bug.  Here both sessions get every action, so   *)
(* that what they show can be compared.                                    *)
(***************************************************************************)
EXTENDS Naturals, Sequences, FiniteSets, SequencesExt

CONSTANTS
  Values          \* what may be typed when any actions are tried

VARIABLES
  ui,             \* UiSession: state, fields, error
  dom,            \* the page, with the greeting it wrote
  qa              \* is it scripted, where the runner is, what it found, what was done

crmVars == <<ui, dom, qa>>

Fields  == {"username", "password", "name", "email"}
Texts   == {"greeting", "confirmation"}
\* The inputs and the buttons of each state's screen.
Layout  == [login         |-> [inputs |-> {"username", "password"}, buttons |-> {"submit"}],
            dashboard     |-> [inputs |-> {}, buttons |-> {"new_customer", "logout"}],
            customer_form |-> [inputs |-> {"name", "email"}, buttons |-> {"save", "cancel"}],
            success       |-> [inputs |-> {}, buttons |-> {"back"}]]
States  == DOMAIN Layout
Buttons == UNION {Layout[s].buttons : s \in States}
Targets == Fields \union Texts \union Buttons \union {"unknown"}
\* What is ever in a field: the scenarios' values, too.
Typed   == Values \union {"", "admin", "secret", "wrong", "acme", "valid", "invalid"}
Complaints == {"none", "credentials", "name", "field", "control"}

Command(kind, target, value) == [kind |-> kind, target |-> target, value |-> value]
Look == Command("observe", "", "")
Blank(text) == text \in {"", "blank"}            \* .strip() leaves nothing

Fresh == [state |-> "login", fields |-> [f \in Fields |-> ""], error |-> "none"]

-----------------------------------------------------------------------------
(* UiSession                                                                *)
UiClick(s, target) ==
  CASE s.state = "login" /\ target = "submit" ->
         IF s.fields.username = "admin" /\ s.fields.password = "secret"
         THEN [s EXCEPT !.state = "dashboard"] ELSE [s EXCEPT !.error = "credentials"]
    [] s.state = "dashboard" /\ target = "new_customer" ->
         [s EXCEPT !.state = "customer_form", !.fields.name = "", !.fields.email = ""]
    [] s.state = "dashboard" /\ target = "logout" -> [s EXCEPT !.state = "login"]
    [] s.state = "customer_form" /\ target = "save" ->      \* the email is not looked at
         IF Blank(s.fields.name) THEN [s EXCEPT !.error = "name"]
         ELSE [s EXCEPT !.state = "success"]
    [] <<s.state, target>> \in {<<"customer_form", "cancel">>, <<"success", "back">>} ->
         [s EXCEPT !.state = "dashboard"]
    [] OTHER -> [s EXCEPT !.error = "control"]

\* act() clears the error first; observe is not an act and shows it again.
UiAct(s, a) ==
  LET clean == [s EXCEPT !.error = "none"] IN
  CASE a.kind = "observe" -> s
    [] a.kind = "type" -> IF a.target \in Fields THEN [clean EXCEPT !.fields[a.target] = a.value]
                          ELSE [clean EXCEPT !.error = "field"]
    [] a.kind = "click" -> UiClick(clean, a.target)

-----------------------------------------------------------------------------
(* The page: every button has its own handler, which shows a screen and     *)
(* sets the one error element.  A control that is not on the screen cannot  *)
(* be clicked or filled: Playwright gives up and the tool call fails.       *)
\* Mutant: show() leaves the error element alone.
ShowWithError(d, state) == [d EXCEPT !.state = state]

Show(d, state)  == [d EXCEPT !.state = state, !.error = "none"]
Complain(d, why) == [d EXCEPT !.error = why]
Dashboard(d)    == [Show(d, "dashboard") EXCEPT !.greeting = d.fields.username]
DomHandler(d, button) ==
  CASE button = "submit" -> IF d.fields.username = "admin" /\ d.fields.password = "secret"
                            THEN Dashboard(d) ELSE Complain(d, "credentials")
    [] button = "new_customer" ->
         [Show(d, "customer_form") EXCEPT !.fields.name = "", !.fields.email = ""]
    [] button = "logout" -> Show(d, "login")
    [] button = "save" -> IF Blank(d.fields.name) THEN Complain(d, "name") ELSE Show(d, "success")
    [] button \in {"cancel", "back"} -> Dashboard(d)

\* Whether the action raises, and the page after it.  An unknown id is reported with this
\* screen only; a text can be clicked, to no effect.
DomRaises(d, a) ==
  /\ a.target # "unknown"
  /\ \/ a.kind = "type" /\ a.target \notin Layout[d.state].inputs
     \/ a.kind = "click" /\ a.target \in Fields \union Buttons
                         /\ a.target \notin Layout[d.state].buttons \union Layout[d.state].inputs
     \/ a.kind = "click" /\ a.target = "greeting" /\ d.state # "dashboard"
     \/ a.kind = "click" /\ a.target = "confirmation" /\ d.state # "success"
DomAct(d, a) ==
  IF DomRaises(d, a) \/ a.kind = "observe" \/ a.target = "unknown" THEN d
  ELSE IF a.kind = "type" THEN [d EXCEPT !.fields[a.target] = a.value]
  ELSE IF a.target \in Buttons THEN DomHandler(d, a.target) ELSE d
DomError(d, a) == IF a.target # "unknown" THEN d.error
                  ELSE IF a.kind = "type" THEN "field" ELSE "control"

-----------------------------------------------------------------------------
(* The runner                                                               *)
\* An expectation: a state, a greeting spelled right, an error or none of these.
Step(a, expects) == [act |-> a, expects |-> expects]
Do(a)       == Step(a, "nothing")
Login(pass) == <<Do(Command("type", "username", "admin")), Do(Command("type", "password", pass)),
                 Do(Command("click", "submit", ""))>>
NewCustomer(email) == Login("secret") \o <<Do(Command("click", "new_customer", "")),
                        Do(Command("type", "name", "acme")), Do(Command("type", "email", email))>>
Save(expects) == Step(Command("click", "save", ""), expects)
Scenarios == <<
  [name |-> "login_valid",            steps |-> Append(Login("secret"), Step(Look, "dashboard"))],
  [name |-> "login_invalid_recovers", steps |-> Login("wrong") \o <<Step(Look, "login_error")>>],
  [name |-> "create_customer_valid",  steps |-> Append(NewCustomer("valid"), Save("success"))],
  [name |-> "email_validation",       steps |-> Append(NewCustomer("invalid"), Save("error"))],
  [name |-> "dashboard_copy",         steps |-> Append(Login("secret"), Step(Look, "welcome"))] >>

\* Does a screen meet the expectation?  No screen says "Welcome": the greeting has a typo.
Meets(state, error, expects) ==
  CASE expects = "nothing"     -> TRUE
    [] expects = "error"       -> error # "none"
    [] expects = "login_error" -> state = "login" /\ error # "none"
    [] expects = "welcome"     -> FALSE
    [] OTHER                   -> state = expects

CrmTypeOK ==
  /\ ui \in [state: States, fields: [Fields -> Typed], error: Complaints]
  /\ dom \in [state: States, fields: [Fields -> Typed], error: Complaints, greeting: Typed]
  /\ qa \in [scripted: BOOLEAN, scenario: 1..(Len(Scenarios) + 1), step: Nat, trace: Nat,
             strayed: BOOLEAN, last: {"type", "click"},
             bugs: [{"ui", "dom"} -> SUBSET {Scenarios[i].name : i \in DOMAIN Scenarios}]]

FreshPage == [state |-> "login", fields |-> Fresh.fields, error |-> "none", greeting |-> ""]
CrmInit ==
  /\ ui = Fresh /\ dom = FreshPage
  /\ \E scripted \in BOOLEAN :
       qa = [scripted |-> scripted, scenario |-> 1, step |-> 1, trace |-> 0, strayed |-> FALSE,
             last |-> "click", bugs |-> [b \in {"ui", "dom"} |-> {}]]

\* Both sessions get the action.  `strayed`: it named what is not on the screen.
OnScreen(a) == \/ a.kind = "observe"
               \/ a.kind = "type" /\ a.target \in Layout[ui.state].inputs
               \/ a.kind = "click" /\ a.target \in Layout[ui.state].buttons
Apply(a) == ui' = UiAct(ui, a) /\ dom' = DomAct(dom, a)
After(a) == [qa EXCEPT !.trace = @ + 1, !.strayed = @ \/ ~OnScreen(a),
                       !.last = IF a.kind = "observe" THEN @ ELSE a.kind]

ScenarioOver == qa.step > Len(Scenarios[qa.scenario].steps)
QaOver       == qa.scenario > Len(Scenarios)
ScenarioStep ==
  /\ qa.scripted /\ ~QaOver /\ ~ScenarioOver
  /\ LET scenario == Scenarios[qa.scenario]
         step     == scenario.steps[qa.step]
         found(ok) == IF ok THEN {} ELSE {scenario.name}
     IN  /\ Apply(step.act)
         /\ qa' = [After(step.act) EXCEPT
              !.step = @ + 1,
              !.bugs.ui  = @ \union found(Meets(ui'.state, ui'.error, step.expects)),
              !.bugs.dom = @ \union found(/\ ~DomRaises(dom, step.act)
                                          /\ Meets(dom'.state, DomError(dom', step.act),
                                                   step.expects))]
\* Mutant: the next scenario begins where the last one ended.
NextScenarioHere ==
  /\ qa.scripted /\ ~QaOver /\ ScenarioOver
  /\ qa' = [qa EXCEPT !.scenario = @ + 1, !.step = 1, !.last = "click"]
  /\ UNCHANGED <<ui, dom>>

\* A fresh session for the next scenario.
NextScenario ==
  /\ qa.scripted /\ ~QaOver /\ ScenarioOver
  /\ ui' = Fresh /\ dom' = FreshPage
  /\ qa' = [qa EXCEPT !.scenario = @ + 1, !.step = 1, !.last = "click"]

\* Any action at all, up to the first that is not on the screen.
AnyAct(a) ==
  /\ ~qa.scripted /\ ~qa.strayed
  /\ Apply(a)
  /\ qa' = [After(a) EXCEPT !.trace = 0]

CrmNext ==
  \/ ScenarioStep \/ NextScenario
  \/ AnyAct(Look)
  \/ \E t \in Targets : \/ AnyAct(Command("click", t, ""))
                        \/ \E v \in Values : AnyAct(Command("type", t, v))
CrmSpec == CrmInit /\ [][CrmNext]_crmVars

-----------------------------------------------------------------------------
(* playwright_sandbox.py:3: the page mirrors the state machine.  As long as*)
(* only controls on the screen were used, both are in the same state with  *)
(* the same fields, and show the same error right after a click; after a   *)
(* type the page still shows what the state machine has cleared.           *)
SessionsAgree ==
  ~qa.strayed =>
    /\ dom.state = ui.state /\ dom.fields = ui.fields
    /\ ui.error = dom.error \/ (qa.last = "type" /\ ui.error = "none")
    /\ ui.state = "dashboard" => dom.greeting = ui.fields.username

(* scenarios.py:3-4 and playwright_runner.py:6-7: on either session three  *)
(* scenarios pass and the two planted bugs are found, with one entry in    *)
(* the action trace per scripted step.                                     *)
BugsReproduced ==
  qa.scripted /\ QaOver =>
    /\ qa.bugs.ui = {"email_validation", "dashboard_copy"} /\ qa.bugs.dom = qa.bugs.ui
    /\ qa.trace = FoldLeft(LAMBDA n, s : n + Len(s.steps), 0, Scenarios)
=============================================================================
