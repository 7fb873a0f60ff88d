---------------------------- MODULE ModelRouter ----------------------------
(***************************************************************************)
(* The model router and the provider clients under it.  A turn asks the    *)
(* providers of its tier one after another, in the order of the chain;     *)
(* several turns share one router, and with it the cooldowns.  A turn      *)
(* reads the cooldowns once, when it begins, and holds on to the           *)
(* candidates it chose while other turns mark providers and clear them.    *)
(* Time is counted in ticks; a cooldown is the number of ticks it has left.*)
(***************************************************************************)
EXTENDS Naturals, Sequences

CONSTANTS
  Turns,        \* concurrent calls of ModelRouter.step
  Keyed,        \* the providers whose API key is in the environment
  ViaLocal,     \* route_standard_via_local
  Cooldown,     \* _HEALTH_COOLDOWN_S in ticks
  MaxRetries    \* _MAX_RETRIES: extra attempts on 429 and 503

ASSUME RouterAssumption ==
  /\ Keyed \subseteq {"deepseek", "kimi", "anthropic", "openai"}
  /\ ViaLocal \in BOOLEAN
  /\ Cooldown \in Nat /\ MaxRetries \in Nat

VARIABLES
  unhealthy,    \* _unhealthy_until: ticks left of each provider's cooldown
  turn          \* the turns

routerVars == <<unhealthy, turn>>

\* The local box needs no key; every other provider is enabled by its key.
Enabled   == Keyed \union {"local"}
Providers == {"local", "deepseek", "kimi", "anthropic", "openai"}
Tiers     == {"simple", "standard", "complex"}     \* "judge" goes the way of "complex"

\* How a model turn ends for its caller: an answer, NoProviderAvailableError,
\* or another exception, which the router lets through.
Outcomes == {"answered", "unavailable", "raised"}

\* Every chain names its providers in this order: local, then cheap, then frontier.
Preference == <<"local", "deepseek", "kimi", "anthropic", "openai">>
Rank(p)    == CHOOSE i \in DOMAIN Preference : Preference[i] = p

Chain(tier) ==
  LET cheap    == {"deepseek", "kimi"}
      frontier == {"anthropic", "openai"}
  IN  Enabled \intersect
        CASE tier = "simple"   -> {"local"} \union cheap \union {"anthropic"}
          [] tier = "standard" -> (IF ViaLocal THEN {"local"} ELSE {}) \union cheap \union frontier
          [] tier = "complex"  -> frontier

Healthy(p) == unhealthy[p] = 0

\* The healthy providers of the chain, or all of it when none is.
Candidates(tier) ==
  LET fit == {p \in Chain(tier) : Healthy(p)} IN IF fit = {} THEN Chain(tier) ELSE fit

\* `todo` is what is left of the candidates, the first of them is being asked; `attempts` are those
\* that failed; `posts` counts the retries of the current request, `plain` says it is the
\* request without thinking; `fit` (history) are the healthy providers when the turn began.
Turn == [stage: {"idle", "asking"} \union Outcomes, tier: Tiers,
         todo: SUBSET Providers, attempts: SUBSET Providers, fit: SUBSET Providers,
         posts: 0..MaxRetries, plain: BOOLEAN]
Idle == [stage |-> "idle", tier |-> "simple", todo |-> {}, attempts |-> {},
         fit |-> {}, posts |-> 0, plain |-> FALSE]

RouterTypeOK ==
  /\ unhealthy \in [Providers -> 0..Cooldown]
  /\ turn \in [Turns -> Turn]

RouterInit ==
  /\ unhealthy = [p \in Providers |-> 0]
  /\ turn = [t \in Turns |-> Idle]

Asking(t) == turn[t].stage = "asking"
Asked(t)  == CHOOSE p \in turn[t].todo : \A q \in turn[t].todo : Rank(p) <= Rank(q)
ViaSdk(t) == Asked(t) = "anthropic"     \* whose one exception is a ProviderCallError here

-----------------------------------------------------------------------------
\* step() up to the first await; a chain without providers raises at once.
BeginTurn(t, tier) ==
  /\ turn[t].stage = "idle"
  /\ turn' = [turn EXCEPT ![t] =
       [stage |-> IF Chain(tier) = {} THEN "unavailable" ELSE "asking", tier |-> tier,
        todo |-> Candidates(tier), attempts |-> {}, fit |-> {p \in Chain(tier) : Healthy(p)},
        posts |-> 0, plain |-> FALSE]]
  /\ UNCHANGED unhealthy

\* Mutant: one retry too many.
RetryPostLate(t) ==
  /\ Asking(t) /\ ~ViaSdk(t)
  /\ turn[t].posts <= MaxRetries
  /\ turn' = [turn EXCEPT ![t].posts = @ + 1]
  /\ UNCHANGED unhealthy

\* 429 or 503 from an OpenAI-compatible provider: back off and post again, a few times.
\* (The Anthropic SDK retries by itself.)
RetryPost(t) ==
  /\ Asking(t) /\ ~ViaSdk(t)
  /\ turn[t].posts < MaxRetries
  /\ turn' = [turn EXCEPT ![t].posts = @ + 1]
  /\ UNCHANGED unhealthy

\* Mutant: a retry without thinking that may be retried without thinking.
AskPlainlyAgain(t) ==
  /\ Asking(t) /\ Asked(t) = "local"
  /\ turn' = [turn EXCEPT ![t].posts = 0, ![t].plain = TRUE]
  /\ UNCHANGED unhealthy

\* The local model spent its whole budget thinking: ask once more, without thinking,
\* as a new request with retries of its own.
AskPlainly(t) ==
  /\ Asking(t) /\ Asked(t) = "local" /\ ~turn[t].plain
  /\ turn' = [turn EXCEPT ![t].posts = 0, ![t].plain = TRUE]
  /\ UNCHANGED unhealthy

\* Mutant: the loop ends with the first failure.
FailedForGood(t) ==
  [turn[t] EXCEPT !.stage = "unavailable", !.todo = @ \ {Asked(t)},
                  !.attempts = @ \union {Asked(t)}]

\* ProviderCallError: a transport error, a status other than 200 (for 429 and 503, once the
\* retries are used up), a body without a message, nothing but thinking a second time.
\* The provider cools down; the turn goes on with the next one.
Failed(t) ==
  LET left == turn[t].todo \ {Asked(t)} IN
  [turn[t] EXCEPT !.stage = IF left = {} THEN "unavailable" ELSE "asking",
                  !.todo = left, !.attempts = @ \union {Asked(t)},
                  !.posts = 0, !.plain = FALSE]
CallFails(t) ==
  /\ Asking(t)
  /\ turn' = [turn EXCEPT ![t] = Failed(t)]
  /\ unhealthy' = [unhealthy EXCEPT ![Asked(t)] = Cooldown]

\* A 200 answer whose body is not JSON, or with a tool call that has no name: the client
\* raises something else, the router does not catch it and asks nobody else.
CallBreaks(t) ==
  /\ Asking(t) /\ ~ViaSdk(t)
  /\ turn' = [turn EXCEPT ![t].stage = "raised"]
  /\ UNCHANGED unhealthy

\* An answer clears the provider's cooldown, whoever set it.
CallAnswers(t) ==
  /\ Asking(t)
  /\ turn' = [turn EXCEPT ![t].stage = "answered"]
  /\ unhealthy' = [unhealthy EXCEPT ![Asked(t)] = 0]

\* The caller takes the outcome; the next call of step is a turn with the same name.
EndTurn(t) ==
  /\ turn[t].stage \in Outcomes
  /\ turn' = [turn EXCEPT ![t] = Idle]
  /\ UNCHANGED unhealthy

\* Time passes for every cooldown.
Tick ==
  /\ \E p \in Providers : ~Healthy(p)
  /\ unhealthy' = [p \in Providers |-> IF Healthy(p) THEN 0 ELSE unhealthy[p] - 1]
  /\ UNCHANGED turn

CallEnds(t) == CallFails(t) \/ CallBreaks(t) \/ CallAnswers(t)
RouterNext ==
  \/ \E t \in Turns : \/ \E tier \in Tiers : BeginTurn(t, tier)
                      \/ RetryPost(t) \/ AskPlainly(t) \/ CallEnds(t) \/ EndTurn(t)
  \/ Tick

\* Every request has a timeout and every backoff ends, so a request in flight proceeds.
RouterFairness == \A t \in Turns : WF_routerVars(RetryPost(t) \/ AskPlainly(t) \/ CallEnds(t))
RouterSpec == RouterInit /\ [][RouterNext]_routerVars /\ RouterFairness

-----------------------------------------------------------------------------
(* router.py:5-6 and 119-121: a caller is told that no provider is         *)
(* available only when every provider of its tier that was healthy when it *)
(* began, and at least one of a tier that has any, failed this very call:  *)
(* a cooldown alone, set by others meanwhile, never refuses a call.        *)
FailoverExhausts ==
  \A t \in Turns : turn[t].stage = "unavailable" =>
     /\ turn[t].fit \subseteq turn[t].attempts
     /\ Chain(turn[t].tier) # {} => turn[t].attempts # {}

(* An answer comes from the first provider that worked: those before it in *)
(* the chain failed this call or were cooling down when it began, or all   *)
(* were.                                                                   *)
InOrder ==
  \A t \in Turns : turn[t].stage \in {"asking", "answered"} =>
     \A p \in Chain(turn[t].tier) : Rank(p) < Rank(Asked(t)) =>
        \/ p \in turn[t].attempts
        \/ p \notin turn[t].fit /\ turn[t].fit # {}

RouterSound == FailoverExhausts /\ InOrder

(* A call to the router ends whatever the providers answer: retries, the   *)
(* request without thinking and the fallback are all bounded.              *)
TurnsEnd == \A t \in Turns : []<>~Asking(t)
=============================================================================
