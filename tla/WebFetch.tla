------------------------------ MODULE WebFetch ------------------------------
(***************************************************************************)
(* Live fetches: each runs in a worker thread, follows redirects by hand   *)
(* with a check of every hop, and puts the text into the one body cache of *)
(* the process, an OrderedDict bounded by hand.  The threads share the     *)
(* cache without a lock, so they interleave between its operations.        *)
(***************************************************************************)
EXTENDS Naturals, Sequences, SequencesExt

CONSTANTS
  Fetches,        \* concurrent fetches
  Pages,          \* the urls they are asked for
  MaxRedirects,   \* _MAX_REDIRECTS
  MaxBodies       \* _BODY_CACHE_MAX

ASSUME FetchAssumption ==
  /\ MaxRedirects \in Nat /\ MaxBodies \in Nat \ {0}
  /\ IsFiniteSet(Fetches) /\ Pages # {}

VARIABLES
  fetch,          \* the fetches
  bodies          \* BODY_CACHE, its keys in order, the next to be evicted first

fetchVars == <<fetch, bodies>>

\* "text": a readable page; "empty": the result without text that stands for any failure;
\* "rejected": the agent's fetch_url tool says why; "raised": an exception for the caller.
FetchOver   == {"text", "empty", "rejected", "raised"}
FetchStages == {"idle", "checking", "getting", "storing", "moving", "setting", "trimming",
                "popping"} \union FetchOver

\* `hop` is the current url's place in the chain of redirects, `checked` the last one that
\* assert_public_url let pass, `got` the requests made.
FetchTypeOK ==
  /\ fetch \in [Fetches -> [stage: FetchStages, page: Pages, hop: Nat, checked: Nat,
                            got: 0..(MaxRedirects + 1)]]
  /\ bodies \in Seq(Pages)

FetchInit ==
  /\ fetch = [f \in Fetches |-> [stage |-> "idle", page |-> CHOOSE p \in Pages : TRUE,
                                 hop |-> 1, checked |-> 0, got |-> 0]]
  /\ bodies = <<>>

-----------------------------------------------------------------------------
In(f, stage)  == fetch[f].stage = stage
Go(f, stage)  == fetch' = [fetch EXCEPT ![f].stage = stage]
Page(f)       == fetch[f].page
Cached(p)     == p \in ToSet(bodies)

\* A fetch begins; the agent's tool checks the url once more beforehand.
BeginFetch(f, p) ==
  /\ In(f, "idle")
  /\ fetch' = [fetch EXCEPT ![f].stage = "checking", ![f].page = p]
  /\ UNCHANGED bodies
RejectUrl(f) ==
  /\ In(f, "idle")
  /\ Go(f, "rejected")
  /\ UNCHANGED bodies

\* assert_public_url resolves the current url: public, or the fetch ends without text.
CheckHop(f) ==
  /\ In(f, "checking")
  /\ fetch' = [fetch EXCEPT ![f].stage = "getting", ![f].checked = fetch[f].hop]
  /\ UNCHANGED bodies
\* Mutant: only the first url is checked.
RedirectUnchecked(f) ==
  /\ In(f, "getting") /\ fetch[f].got <= MaxRedirects
  /\ fetch' = [fetch EXCEPT ![f].hop = @ + 1, ![f].got = @ + 1]
  /\ UNCHANGED bodies

\* A redirect: its target is the current url from now on.
Redirect(f) ==
  /\ In(f, "getting") /\ fetch[f].got <= MaxRedirects
  /\ fetch' = [fetch EXCEPT ![f].stage = "checking", ![f].hop = @ + 1, ![f].got = @ + 1]
  /\ UNCHANGED bodies
GetPage(f) ==
  /\ In(f, "getting") /\ fetch[f].got <= MaxRedirects
  /\ fetch' = [fetch EXCEPT ![f].stage = "storing", ![f].got = @ + 1]
  /\ UNCHANGED bodies
\* Not public, unreachable, an error status, no readable page, too many redirects: caught.
FetchFails(f) ==
  /\ In(f, "checking") \/ In(f, "getting")
  /\ Go(f, "empty")
  /\ UNCHANGED bodies

\* The cache's __setitem__, in the steps between which another thread may run: is the key
\* there, move it to the end, set it, and pop from the front while there are too many.
LookUp(f) ==
  /\ In(f, "storing")
  /\ Go(f, IF Cached(Page(f)) THEN "moving" ELSE "setting")
  /\ UNCHANGED bodies
MoveToEnd(f) ==
  /\ In(f, "moving")
  /\ \E i \in DOMAIN bodies : /\ bodies[i] = Page(f)
                             /\ bodies' = Append(RemoveAt(bodies, i), Page(f))
  /\ Go(f, "setting")
\* The key went away since it was looked up: KeyError, outside of the try.
MoveFails(f) ==
  /\ In(f, "moving") /\ ~Cached(Page(f))
  /\ Go(f, "raised")
  /\ UNCHANGED bodies
SetBody(f) ==
  /\ In(f, "setting")
  /\ bodies' = IF Cached(Page(f)) THEN bodies ELSE Append(bodies, Page(f))
  /\ Go(f, "trimming")
Trim(f) ==
  /\ In(f, "trimming")
  /\ Go(f, IF Len(bodies) > MaxBodies THEN "popping" ELSE "text")
  /\ UNCHANGED bodies
PopOldest(f) ==
  /\ In(f, "popping")
  /\ IF bodies = <<>> THEN Go(f, "raised") /\ UNCHANGED bodies
     ELSE Go(f, "trimming") /\ bodies' = Tail(bodies)

\* The caller has its result; the same thread takes the next fetch.
EndFetch(f) ==
  /\ fetch[f].stage \in FetchOver
  /\ fetch' = [fetch EXCEPT ![f] = [@ EXCEPT !.stage = "idle", !.hop = 1, !.checked = 0,
                                             !.got = 0]]
  /\ UNCHANGED bodies

FetchStep(f) ==
  \/ CheckHop(f) \/ Redirect(f) \/ GetPage(f) \/ FetchFails(f)
  \/ LookUp(f) \/ MoveToEnd(f) \/ MoveFails(f) \/ SetBody(f) \/ Trim(f) \/ PopOldest(f)
FetchNext == \E f \in Fetches :
  \/ \E p \in Pages : BeginFetch(f, p)
  \/ RejectUrl(f) \/ FetchStep(f) \/ EndFetch(f)

\* Every request has a timeout and threads are scheduled.
FetchFairness == \A f \in Fetches : WF_fetchVars(FetchStep(f))
FetchSpec == FetchInit /\ [][FetchNext]_fetchVars /\ FetchFairness

-----------------------------------------------------------------------------
(* netguard.py:9-11 and 110-115: a request is only made to a url that was  *)
(* checked after the redirect that led to it, and no fetch makes more than *)
(* one request and its allowed redirects.  web.py:29-41: the cache never   *)
(* holds a body twice, and at most one more than it may per thread that is *)
(* still between its set and its trim.                                     *)
FetchesBounded ==
  /\ \A f \in Fetches :
       /\ In(f, "getting") => fetch[f].checked = fetch[f].hop
       /\ fetch[f].hop <= fetch[f].got + 1 /\ fetch[f].got <= MaxRedirects + 1
  /\ IsInjective(bodies)
  /\ Len(bodies) <= MaxBodies
                    + Cardinality({f \in Fetches : In(f, "trimming") \/ In(f, "popping")})

(* web.py:131: "On failure returns the url with empty text rather than     *)
(* raising".                                                               *)
FetchNeverRaises == \A f \in Fetches : ~In(f, "raised")

(* A fetch ends or comes to its trimming, which others that keep filling    *)
(* the cache may prolong: the redirects are bounded.                       *)
FetchEnds ==
  \A f \in Fetches : []<>(fetch[f].stage \in {"idle", "trimming"} \union FetchOver)
=============================================================================
