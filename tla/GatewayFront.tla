---------------------------- MODULE GatewayFront ----------------------------
(***************************************************************************)
(* The front of the gateway: the configuration check at start, and the     *)
(* middlewares a request passes on its way in, the rate limiter before the *)
(* API key.  The limiter keeps the times of the recent requests per client *)
(* (the address of the peer, or of X-Forwarded-For behind a trusted proxy).*)
(*                                                                         *)
(* The deque of a client is what is left of the log of all its admitted    *)
(* requests: the part from index first on.  Appending to the deque appends *)
(* to the log, popleft moves first.  A dispatch has no await between its   *)
(* look at the deque and its append, so it is one step.                    *)
(***************************************************************************)
EXTENDS Integers, Sequences

CONSTANTS
  Addresses,      \* client addresses
  NoAddress,      \* no X-Forwarded-For header
  Limits,         \* what WB_RATE_LIMIT_PER_MIN may be
  Window,         \* _WINDOW_S, in ticks
  CleanupEvery,   \* _CLEANUP_INTERVAL_S, in ticks
  MaxTime         \* bound on the clock

ASSUME FrontAssumption ==
  /\ NoAddress \notin Addresses
  /\ Limits \subseteq Int
  /\ Window \in Nat /\ CleanupEvery \in Nat /\ MaxTime \in Nat

VARIABLES
  conf,           \* the settings
  gateway,        \* whether create_app has succeeded
  clock,          \* time.monotonic
  log,            \* history: the times of the admitted requests of each client
  first,          \* where the deque of each client begins in its log
  known,          \* the keys of _hits
  cleaned         \* _last_cleanup

frontVars == <<conf, gateway, clock, log, first, known, cleaned>>

Settings == [prod: BOOLEAN, key: BOOLEAN, token: BOOLEAN, origins: BOOLEAN, proxy: BOOLEAN,
             limit: Limits]

FrontTypeOK ==
  /\ conf \in Settings
  /\ gateway \in {"down", "up", "refused"}
  /\ clock \in 0..MaxTime /\ cleaned \in 0..MaxTime
  /\ log \in [Addresses -> Seq(0..MaxTime)]
  /\ first \in [Addresses -> Nat \ {0}]
  /\ known \subseteq Addresses

FrontInit ==
  /\ conf \in Settings
  /\ gateway = "down" /\ clock = 0 /\ cleaned = 0
  /\ log = [a \in Addresses |-> <<>>]
  /\ first = [a \in Addresses |-> 1]
  /\ known = {}

-----------------------------------------------------------------------------
\* validate_production_security: what production must have; elsewhere anything goes.
Hardened(c) == c.prod => c.key /\ c.limit > 0 /\ c.token /\ c.origins
Boot ==
  /\ gateway = "down"
  /\ gateway' = IF Hardened(conf) THEN "up" ELSE "refused"
  /\ UNCHANGED <<conf, clock, log, first, known, cleaned>>

Client(peer, forwarded) == IF conf.proxy /\ forwarded # NoAddress THEN forwarded ELSE peer

Old(a, i)  == clock - log[a][i] > Window
Newest(a)  == Len(log[a])
Empty(a)   == first[a] > Newest(a)

\* _reap_idle: the clients it forgets, along with their deques.
CleanupDue == clock - cleaned >= CleanupEvery
Reaped     == IF CleanupDue THEN {a \in known : Empty(a) \/ Old(a, Newest(a))} ELSE {}

\* Where the deque of `a` begins once the old entries are popped off its left end; a client
\* that is not, or no longer, known starts with an empty one.
Popped(a) ==
  LET from == IF a \in known \ Reaped THEN first[a] ELSE Newest(a) + 1
  IN  CHOOSE i \in from..(Newest(a) + 1) :
        /\ i = Newest(a) + 1 \/ ~Old(a, i)
        /\ \A j \in from..(i - 1) : Old(a, j)
\* Mutant: one request more than the limit.
FullLate(a) == Newest(a) + 1 - Popped(a) > conf.limit

Full(a)   == Newest(a) + 1 - Popped(a) >= conf.limit

\* What a dispatch leaves of the deques: those of forgotten clients go, that of `a` is popped.
Kept(a) == [b \in Addresses |-> IF b = a THEN Popped(a)
                                ELSE IF b \in Reaped THEN Newest(b) + 1 ELSE first[b]]
Swept(a) ==
  /\ first' = Kept(a)
  /\ known' = (known \ Reaped) \union {a}
  /\ cleaned' = IF CleanupDue THEN clock ELSE cleaned
  /\ UNCHANGED <<conf, gateway, clock>>

\* RateLimitMiddleware on a /v1 request (no other path is limited): 429, or on to the next
\* middleware, whatever that and the handler then do.
Limited == gateway = "up" /\ conf.limit # 0
Refuse429(peer, forwarded) ==
  LET a == Client(peer, forwarded) IN
  /\ Limited /\ Full(a)
  /\ Swept(a)
  /\ UNCHANGED log
Admit(peer, forwarded) ==
  LET a == Client(peer, forwarded) IN
  /\ Limited /\ ~Full(a)
  /\ Swept(a)
  /\ log' = [log EXCEPT ![a] = Append(@, clock)]

Elapse ==
  /\ clock < MaxTime
  /\ clock' = clock + 1
  /\ UNCHANGED <<conf, gateway, log, first, known, cleaned>>

FrontNext ==
  \/ Boot
  \/ \E peer \in Addresses, forwarded \in Addresses \union {NoAddress} :
       Refuse429(peer, forwarded) \/ Admit(peer, forwarded)
  \/ Elapse
FrontSpec == FrontInit /\ [][FrontNext]_frontVars

-----------------------------------------------------------------------------
(* security.py:131-139: no client gets more than the limit through in any  *)
(* window, wherever the window begins and whatever was forgotten about     *)
(* idle clients meanwhile: the request after `limit` others comes more     *)
(* than a window after the first of them.                                  *)
WithinLimit ==
  \A a \in Addresses :
    /\ conf.limit < 0 => log[a] = <<>>
    /\ \A i \in 1..(Newest(a) - conf.limit) :
         conf.limit > 0 => log[a][i + conf.limit] - log[a][i] > Window

(* security.py:95-97: a client that has gone silent is forgotten: none is  *)
(* kept whose last request was more than a window before the last cleanup. *)
IdleForgotten ==
  conf.limit > 0 => \A a \in known : ~Empty(a) /\ log[a][Newest(a)] + Window >= cleaned

LimiterSound == WithinLimit /\ IdleForgotten
=============================================================================
