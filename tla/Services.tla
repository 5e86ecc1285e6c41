------------------------------ MODULE Services ------------------------------
(***************************************************************************)
(* What the routes and the engine stand on: the connection pool, the rate  *)
(* limiter and the Exact provider.  They share no state, so each takes its *)
(* steps whatever the others do, and what is said of one is said here of   *)
(* its instance.                                                           *)
(***************************************************************************)
CONSTANTS
    Users, Conns, MaxSize,                                              \* Pool
    Checks, Callers, Hosts, NoCaller, Requests, Limits,                 \* RateLimit
    Second, Window, MaxDelay, MaxTime,
    Payments, Networks, NetworkOf, Terms, MaxConcurrent,                \* ExactProvider
    SignerActive, HasHook, None

VARIABLES
    oneLoop, idle, total, closed, user, closer, open,                   \* Pool
    redis, clock, counters, pending, decision, admitted,                \* RateLimit
    call, slots, work, nonce, mined, answer, late                       \* ExactProvider

D == INSTANCE Pool
L == INSTANCE RateLimit WITH Sellers <- Callers, NoSeller <- NoCaller
E == INSTANCE ExactProvider

poolVars == <<oneLoop, idle, total, closed, user, closer, open>>
limiterVars == <<redis, clock, counters, pending, decision, admitted>>
exactVars == <<call, slots, work, nonce, mined, answer, late>>

-----------------------------------------------------------------------------
\* Pool: each connection is in one place and counted, and none is left behind.
PoolSound == D!PoolSound

\* RateLimit: no bucket lets more through in a window than its limit, nor more
\* than twice the limit with the scripts that come after it.
WindowBound == L!RateLimitTypeOK /\ L!WindowBound

\* RateLimit: a decision counts a request everywhere or nowhere, and a refusal
\* says when to come back, on Redis to half a second.
DecisionsSound == L!DecisionsSound

\* ExactProvider: semaphore and locks lose and make no place, and transactions
\* of one signer do not meet.
OneAtATime == E!OneAtATime

\* ExactProvider: what the provider says for certain is so.
ProviderTruthful == E!ProviderTruthful
=============================================================================
