--------------------------- MODULE MCApplications ---------------------------
(* The components that share no state, on small instances: a behavior is that of one      *)
(* workload, chosen at the start, while the others stay as they are initially.            *)
EXTENDS ModelRouter, AutonomousAgent, DeepResearch, Browse, LegacyCrm, WebFetch,
        GatewayFront, InProcessRuns, BiDatabase, RagIndex

VARIABLE workload
dataVars == <<biVars, ragVars>>
appVars == <<routerVars, autoVars, researchVars, browseVars, crmVars, fetchVars, frontVars,
             inprocVars, dataVars, workload>>

\* A text of no paragraphs, a short one, and a long one with two sections.
SourceTexts == {<<>>, << <<3, 8>> >>, << <<3, 4, 12>>, <<2>> >>}

On(w) == workload = w /\ UNCHANGED workload

AppInit ==
  /\ workload \in {"turns", "agent", "research", "dashboard", "browse", "qa", "fetches",
                   "front", "inprocess", "bi", "rag"}
  /\ RouterInit /\ AutoInit /\ ResearchInit /\ BrowseInit /\ CrmInit /\ FetchInit
  /\ FrontInit /\ InProcessInit /\ BiInit /\ RagInit
  /\ workload # "research" => gate.registry = Tools /\ gate.allow = Tools /\ ~research.odd
  \* With all tools allowed, an MCP server's may do all that the others do, and more.
  /\ workload = "research" => research.odd \/ gate.allow # Tools
  /\ workload # "qa" => qa.scripted
  /\ workload # "rag" => \A w \in Writers : ingests[w].text = <<>>
  /\ conf.key /\ conf.origins
  /\ workload # "front" => conf.prod /\ conf.token /\ conf.proxy /\ conf.limit = 1

NotRouter   == UNCHANGED <<autoVars, researchVars, browseVars, crmVars, fetchVars, frontVars, inprocVars, dataVars>>
NotAuto     == UNCHANGED <<routerVars, researchVars, browseVars, crmVars, fetchVars, frontVars, inprocVars, dataVars>>
NotResearch == UNCHANGED <<routerVars, autoVars, browseVars, crmVars, fetchVars, frontVars, inprocVars, dataVars>>
NotTraces   == UNCHANGED <<gate, running, audit, unsaved, saved, handled, asked,
                          research>>
NotBrowse   == UNCHANGED <<routerVars, autoVars, researchVars, crmVars, fetchVars, frontVars, inprocVars, dataVars>>
NotCrm      == UNCHANGED <<routerVars, autoVars, researchVars, browseVars, fetchVars, frontVars, inprocVars, dataVars>>
NotFetch    == UNCHANGED <<routerVars, autoVars, researchVars, browseVars, crmVars, frontVars, inprocVars, dataVars>>
NotFront    == UNCHANGED <<routerVars, autoVars, researchVars, browseVars, crmVars, fetchVars, inprocVars, dataVars>>
NotInproc   == UNCHANGED <<routerVars, autoVars, researchVars, browseVars, crmVars, fetchVars, frontVars, dataVars>>
NotData     == UNCHANGED <<routerVars, autoVars, researchVars, browseVars, crmVars, fetchVars, frontVars, inprocVars>>

AppNext ==
  \/ On("turns")     /\ RouterNext    /\ NotRouter
  \/ On("agent")     /\ AutoNext      /\ NotAuto
  \/ On("research")  /\ ResearchNext  /\ NotResearch
  \/ On("dashboard") /\ TraceNext     /\ NotTraces /\ NotResearch
  \/ On("browse")    /\ BrowseNext    /\ NotBrowse
  \/ On("qa")        /\ CrmNext       /\ NotCrm
  \/ On("fetches")   /\ FetchNext     /\ NotFetch
  \/ On("front")     /\ FrontNext     /\ NotFront
  \/ On("inprocess") /\ InProcessNext /\ NotInproc
  \/ On("bi")        /\ BiNext        /\ NotData /\ UNCHANGED ragVars
  \/ On("rag")       /\ RagNext       /\ NotData /\ UNCHANGED biVars

\* The fairness of each component; only the active one has steps that it asks for.
AppSpec ==
  /\ AppInit /\ [][AppNext]_appVars
  /\ RouterFairness /\ FetchFairness /\ InProcessFairness
  /\ WF_autoVars(workload = "agent" /\ AutoStep)
  /\ WF_researchVars(workload = "research" /\ ResearchStep)
  /\ WF_browseVars(workload = "browse" /\ BrowseStep)

(* The state of every component has its type.                              *)
AppTypeOK ==
  /\ RouterTypeOK /\ AutoTypeOK /\ ResearchTypeOK /\ BrowseTypeOK /\ CrmTypeOK /\ FetchTypeOK
  /\ FrontTypeOK /\ InProcessTypeOK /\ BiTypeOK /\ RagTypeOK

(* Whatever models, tools, pages and processes do: a router turn, a        *)
(* research request, a browse request and a fetch end, the rounds of an    *)
(* agent end, and runs settle.                                             *)
AllEnd ==
  TurnsEnd /\ AutoEnds /\ ResearchEnds /\ BrowseEnds /\ FetchEnds /\ InProcessSettles
=============================================================================
