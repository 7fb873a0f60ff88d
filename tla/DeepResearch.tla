---------------------------- MODULE DeepResearch ----------------------------
(***************************************************************************)
(* Deep research: a model plans sub-questions, the code searches for each  *)
(* and fetches what the search found, through the tool gateway, and a      *)
(* model writes a report over the numbered sources.  Meanwhile the audit   *)
(* is written to the trace store.                                          *)
(***************************************************************************)
EXTENDS ToolGateway, SequencesExt

CONSTANTS
  Urls, NoUrl,    \* what a hit may name, or no url
  MaxQuestions    \* _MAX_SUBQUESTIONS

\* What the built-in gateways register (and kb_search, which a request never calls).
Builtin == {"web_search", "fetch"}

ASSUME ResearchAssumption ==
  NoUrl \notin Urls /\ MaxQuestions \in Nat \ {0} /\ Builtin \subseteq Tools

VARIABLES
  research        \* the request

researchVars == <<gatewayVars, research>>

ResearchStages == {"idle", "planning", "searching", "hits", "fetching", "reporting", "done",
                   "failed"}
MaxHits        == 2                                 \* the first hits of a search, [:2]
HitLists       == SeqOf(Urls \union {NoUrl}, MaxHits)

\* `odd` says the tools are those of an MCP server, whose results may have any shape.
ResearchTypeOK ==
  /\ GatewayTypeOK
  /\ research \in [stage: ResearchStages, odd: BOOLEAN, left: 0..MaxQuestions, hits: HitLists,
                   seen: SUBSET Urls, sources: Seq([n: Nat, url: Urls])]

\* An MCP server may offer any tools, which are then all allowed.
Offered(odd) == IF odd THEN SUBSET Tools ELSE {Builtin}
\* With the built-in tools a caller may pass an allowlist of its own.
ResearchInit ==
  \E odd \in BOOLEAN : \E registry \in Offered(odd), allow \in SUBSET Tools :
    /\ odd => allow = registry
    /\ GatewayInit(registry, allow)
    /\ research = [stage |-> "idle", odd |-> odd, left |-> 0, hits |-> <<>>, seen |-> {},
                   sources |-> <<>>]

-----------------------------------------------------------------------------
Here(stage) == research.stage = stage
AtHit       == Here("hits") /\ research.hits # <<>>
Url         == Head(research.hits)

\* The next sub-question, or the report.
Onward(r) == [r EXCEPT !.stage = IF r.left = 0 THEN "reporting" ELSE "searching"]
\* The next hit of this search, or onward.
Drop(r)   == LET rest == [r EXCEPT !.stage = "hits", !.hits = Tail(@)]
             IN  IF rest.hits = <<>> THEN Onward(rest) ELSE rest

AskResearch ==
  /\ Here("idle")
  /\ research' = [research EXCEPT !.stage = "planning"]
  /\ UNCHANGED gatewayVars

\* The planner answers; without sub-questions the question itself is the only one.
PlanResearch ==
  /\ Here("planning")
  /\ \E n \in 1..MaxQuestions :
       research' = [research EXCEPT !.stage = "searching", !.left = n]
  /\ UNCHANGED gatewayVars

SearchDenied ==
  /\ Here("searching") /\ Deny("web_search")
  /\ research' = Onward([research EXCEPT !.left = @ - 1])
  /\ UNCHANGED traceVars
Search ==
  /\ Here("searching") /\ Invoke("web_search")
  /\ UNCHANGED <<traceVars, research>>
\* The search returns its hits, or fails and has none.
SearchReturns(hits, error) ==
  /\ Here("searching") /\ Return("web_search", error)
  /\ error # "none" => hits = <<>>
  /\ LET r == [research EXCEPT !.left = @ - 1, !.hits = hits, !.stage = "hits"]
     IN  research' = IF hits = <<>> THEN Onward(r) ELSE r
  /\ UNCHANGED traceVars

\* Mutant: the urls already fetched are not looked up.
UnwantedOnlyEmpty(url) == url = NoUrl

Unwanted(url) == url = NoUrl \/ url \in research.seen
SkipHit ==
  /\ AtHit /\ Unwanted(Url)
  /\ research' = Drop(research)
  /\ UNCHANGED gatewayVars
FetchDenied ==
  /\ AtHit /\ ~Unwanted(Url) /\ Deny("fetch")
  /\ research' = Drop(research)
  /\ UNCHANGED traceVars
Fetch ==
  /\ AtHit /\ ~Unwanted(Url) /\ Invoke("fetch")
  /\ research' = [research EXCEPT !.stage = "fetching"]
  /\ UNCHANGED traceVars

Numbered(url) == [n |-> Len(research.sources) + 1, url |-> url]
\* A page was fetched (the live tool returns one without text when it could not): it is the
\* next source.  An error or nothing leaves the url to be tried again if it is found again.
FetchReturns(error, something) ==
  /\ Here("fetching") /\ Return("fetch", error)
  /\ error # "none" => ~something
  /\ research' = Drop(IF something
                      THEN [research EXCEPT !.seen = @ \union {Url},
                                            !.sources = Append(@, Numbered(Url))]
                      ELSE research)
  /\ UNCHANGED traceVars

\* The report is written and the request recorded.
Report ==
  /\ Here("reporting")
  /\ research' = [research EXCEPT !.stage = "done"]
  /\ Record("agent", "completed")
  /\ UNCHANGED <<gate, running, audit, unsaved, saved, handled, asked, summary>>

\* No model answers, or the plan is JSON of another shape.
ModelGone ==
  /\ Here("planning") \/ Here("reporting")
  /\ research' = [research EXCEPT !.stage = "failed"]
  /\ UNCHANGED gatewayVars
\* A result that is not a list of hits, or not a page: the request fails on it.
OddResult ==
  /\ research.odd
  /\ \/ Here("searching") /\ Return("web_search", "none")
     \/ Here("fetching") /\ Return("fetch", "none")
  /\ research' = [research EXCEPT !.stage = "failed"]
  /\ UNCHANGED traceVars

ResearchStep ==
  \/ PlanResearch \/ SearchDenied \/ Search \/ SkipHit \/ FetchDenied \/ Fetch \/ Report
  \/ \E error \in Errors : \/ \E hits \in HitLists : SearchReturns(hits, error)
                            \/ \E something \in BOOLEAN : FetchReturns(error, something)
  \/ ModelGone \/ OddResult
\* The scheduled writes run at any time; the process may end once the request is answered.
Background ==
  /\ SaveAudit \/ (Here("done") /\ LoseUnsaved)
  /\ UNCHANGED research
ResearchNext == AskResearch \/ ResearchStep \/ Background

\* A tool handler and a model call end; so the request goes on.
ResearchSpec == ResearchInit /\ [][ResearchNext]_researchVars /\ WF_researchVars(ResearchStep)

-----------------------------------------------------------------------------
(* research.py:87-102: the report's sources are numbered from 1 in order,  *)
(* no url twice, each from a fetch the audit shows as allowed and without  *)
(* error, and a denied fetch yields none.                                  *)
SourcesCited ==
  LET sources == research.sources IN
  /\ \A i \in DOMAIN sources : sources[i].n = i
  /\ \A i, j \in DOMAIN sources : sources[i].url = sources[j].url => i = j
  /\ Len(sources) <= Cardinality({i \in Allowed("fetch") : audit[i].error = "none"})

(* A request ends whatever plan, hits and pages come back.                 *)
ResearchEnds == []<>(research.stage \in {"idle", "done", "failed"})
=============================================================================
