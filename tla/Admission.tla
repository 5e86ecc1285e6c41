------------------------------ MODULE Admission ------------------------------
(***************************************************************************)
(* What happens to a request of a seller before, and up to, the provider:  *)
(* the routes supported, verify and settle of hosted/app.py, the seller    *)
(* resolution, the rate limits, the control-plane pause and the part of    *)
(* HostedFacilitatorEngine that validates, routes and looks up a payment.  *)
(*                                                                         *)
(* Every access to Postgres or Redis and every await of a provider is a    *)
(* step of its own: other requests, operators and key revocations, of this *)
(* process or of another one, come in between.  The limiter may answer     *)
(* either way (RateLimit says when); the settlement record is present or   *)
(* absent (Settlement says what becomes of it).                            *)
(***************************************************************************)
EXTENDS Integers, FiniteSets

CONSTANTS
    Handlers,   \* requests being handled at the same time
    Keys,       \* API keys of sellers
    NoKey,      \* a request without a bearer token
    Providers,  \* the providers the router knows
    Networks,   \* networks
    Payments,   \* signed payments, see Route
    Route,      \* Route[p]: the provider and the network of a payment
    Profiles,   \* Profiles[k]: the routes that the key's payment profile allows
    Inputs      \* the requests that come in

Routes == [provider: Providers \cup {"delegated_http"}, network: Networks]

Endpoints == {"supported", "verify", "settle"}

\* what is wrong with a body: it is no envelope, it is one of another version,
\* its accepted part contradicts its requirements, or nothing
Forms == {"malformed", "version", "mismatch", "ok"}

ASSUME AdmissionAssumption ==
    /\ NoKey \notin Keys
    /\ Payments # {}
    /\ "delegated_http" \notin Providers
    /\ Route \in [Payments -> Routes]
    /\ Profiles \in [Keys \cup {NoKey} -> SUBSET Routes]
    /\ Inputs \subseteq [endpoint: Endpoints, key: Keys \cup {NoKey}, payment: Payments, form: Forms]
    /\ \A i \in Inputs : i.endpoint = "supported" => i.form = "ok"

\* targets of a pause
Global == "global"
Targets == {Global} \cup Providers \cup Networks

VARIABLES
    req,        \* req[h]: the request handled by h and the locals of its handler
    active,     \* the keys that resolve: not revoked, account and profile active;
                \* NoKey is one of them when there is a default seller account
    paused,     \* the targets that are paused
    recorded,   \* payments that have a settlement record
    sent,       \* payments submitted to the provider
    seen        \* history: seen[h], the routes that were not paused, and the keys
                \* that were active, at some moment since the request arrived

vars == <<req, active, paused, recorded, sent, seen>>

\* The provider that a route belongs to is asked for; exact payments on a
\* network of no provider go to the name delegated_http, which nobody has.
Allows(route) == {Global, route.provider, route.network} \cap paused = {}

AllowedRoutes == {route \in Routes : Allows(route)}

Idle == [pc |-> "idle", endpoint |-> "settle", key |-> NoKey, payment |-> CHOOSE p \in Payments : TRUE,
         form |-> "ok", failure |-> 0, charges |-> {}, kinds |-> {}, status |-> 0]

Init ==
    /\ req = [h \in Handlers |-> Idle]
    /\ active \in {Keys, Keys \cup {NoKey}}
    /\ paused = {}
    /\ recorded = {}
    /\ sent = {}
    /\ seen = [h \in Handlers |-> [routes |-> {}, keys |-> {}]]

-----------------------------------------------------------------------------
At(h, pc) == req[h].pc = pc

Goto(h, pc) == req' = [req EXCEPT ![h].pc = pc]

Answer(h, status) == req' = [req EXCEPT ![h].pc = "done", ![h].status = status]

\* the request is refused with this status once it has paid for it
Fail(h, status) == req' = [req EXCEPT ![h].pc = "penalize", ![h].failure = status]

Shared == <<active, paused, recorded, sent, seen>>

(***************************************************************************)
(* A request comes in.  A body that is no envelope is refused by the       *)
(* validation handler, one of another version by the route itself, both    *)
(* before the key is looked at.  supported has no body.                    *)
(***************************************************************************)
Arrive(h, input) ==
    /\ At(h, "idle")
    /\ LET bad == input.form \in {"malformed", "version"}
       IN  req' = [req EXCEPT ![h] =
             [Idle EXCEPT !.endpoint = input.endpoint, !.key = input.key,
                          !.payment = input.payment, !.form = input.form,
                          !.failure = IF bad THEN 400 ELSE 0,
                          !.pc = IF bad THEN "penalize" ELSE "resolve"]]
    /\ seen' = [seen EXCEPT ![h] = [routes |-> AllowedRoutes, keys |-> active]]
    /\ UNCHANGED <<active, paused, recorded, sent>>

(***************************************************************************)
(* _penalize_invalid_request: the invalid request is charged for, and then *)
(* refused with its own status; it is refused with 429 when the bucket is  *)
(* full, and then charged for nothing.                                     *)
(***************************************************************************)
Penalize(h) ==
    /\ At(h, "penalize")
    /\ \/ req' = [req EXCEPT ![h].pc = "done", ![h].status = req[h].failure,
                             ![h].charges = @ \cup {"invalid"}]
       \/ Answer(h, 429)
    /\ UNCHANGED Shared

\* only supported is answered without a key, for the default seller account
Resolves(h) ==
    /\ req[h].key \in active
    /\ req[h].key = NoKey => req[h].endpoint = "supported"

\* context_from_request: what it reads is not read again.  Without a default
\* account the static resolver has a KeyError for supported, Postgres none.
Resolve(h) ==
    /\ At(h, "resolve")
    /\ \/ /\ Resolves(h)
          /\ Goto(h, IF req[h].endpoint = "settle" THEN "gate" ELSE "limit")
       \/ ~Resolves(h) /\ Fail(h, 401)
       \/ ~Resolves(h) /\ req[h].key = NoKey /\ req[h].endpoint = "supported" /\ Fail(h, 404)
    /\ UNCHANGED Shared

\* _enforce_rate_limit, of supported and of verify
EnforceRateLimit(h) ==
    /\ At(h, "limit")
    /\ \/ req' = [req EXCEPT ![h].charges = @ \cup {req[h].endpoint},
                             ![h].pc = IF req[h].endpoint = "supported" THEN "scan" ELSE "gate"]
       \/ Answer(h, 429)
    /\ UNCHANGED Shared

\* Redis is not reached or does not answer: the request fails with 500, and
\* has been charged for or not
LimiterFails(h) ==
    /\ req[h].pc \in {"penalize", "limit", "charge"}
    /\ \E charged \in SUBSET {IF At(h, "penalize") THEN "invalid" ELSE req[h].endpoint} :
          req' = [req EXCEPT ![h].pc = "done", ![h].status = 500, ![h].charges = @ \cup charged]
    /\ UNCHANGED Shared

-----------------------------------------------------------------------------
(***************************************************************************)
(* supported.  No provider or no network of the profile is left: nothing   *)
(* is supported.  Otherwise the providers that are not paused are asked    *)
(* (awaiting each), and kinds that were paused meanwhile are dropped.      *)
(***************************************************************************)
Profile(h) == Profiles[req[h].key]

BlocksSupported(h) ==
    \/ \A route \in Profile(h) : {Global, route.provider} \cap paused # {}
    \/ \A route \in Profile(h) : {Global, route.network} \cap paused # {}

ScanProviders(h) ==
    /\ At(h, "scan")
    /\ IF BlocksSupported(h)
       THEN Answer(h, 200)
       ELSE req' = [req EXCEPT ![h].pc = "filter", ![h].kinds =
              {route \in Profile(h) : /\ route.provider \in Providers
                                      /\ {Global, route.provider} \cap paused = {}}]
    /\ UNCHANGED Shared

\* kinds are returned as the providers gave them
MutantFilterKinds(h) ==
    /\ At(h, "filter")
    /\ Answer(h, 200)
    /\ UNCHANGED Shared

FilterKinds(h) ==
    /\ At(h, "filter")
    /\ req' = [req EXCEPT ![h].pc = "done", ![h].status = 200,
                          ![h].kinds = {route \in @ : Allows(route)}]
    /\ UNCHANGED Shared

-----------------------------------------------------------------------------
(***************************************************************************)
(* _enforce_control_plane_route, of verify and of settle: the only look at *)
(* the pauses, before the envelope is validated and the record looked up.  *)
(***************************************************************************)
Gate(h) ==
    /\ At(h, "gate")
    /\ IF Allows(Route[req[h].payment]) THEN Goto(h, "validate") ELSE Answer(h, 423)
    /\ UNCHANGED Shared

\* validate_settlement_envelope: what was accepted is what is required
Matches(h) == req[h].form # "mismatch"

\* the router has a provider for the route, under the name it works out
Registered(route) == route.provider \in Providers

\* validated, then routed: an unknown provider before a route that is denied
Validate(h) ==
    /\ At(h, "validate")
    /\ LET route == Route[req[h].payment]
       IN  \/ ~Matches(h) /\ Fail(h, 400)
           \/ Matches(h) /\ ~Registered(route) /\ Fail(h, 400)
           \/ Matches(h) /\ Registered(route) /\ route \notin Profile(h) /\ Fail(h, 403)
           \/ /\ Matches(h) /\ Registered(route) /\ route \in Profile(h)
              /\ Goto(h, IF req[h].endpoint = "verify" THEN "verify" ELSE "preflight")
    /\ UNCHANGED Shared

\* The provider raises: it is not available, or anything else; a
\* ValidationError, LookupError or PermissionError of its own is taken for one
\* of the request.
ProviderRaises(h) == Answer(h, 503) \/ Answer(h, 500) \/ Fail(h, 400) \/ Fail(h, 403)

\* the provider verifies the payment
Verify(h) ==
    /\ At(h, "verify")
    /\ Answer(h, 200) \/ ProviderRaises(h)
    /\ UNCHANGED Shared

\* the provider's preflight_settlement
Preflight(h) ==
    /\ At(h, "preflight")
    /\ Goto(h, "lookup") \/ ProviderRaises(h)
    /\ UNCHANGED Shared

\* _cached_existing_settlement: a payment that has a record is answered from it
Lookup(h) ==
    /\ At(h, "lookup")
    /\ IF req[h].payment \in recorded THEN Answer(h, 200) ELSE Goto(h, "charge")
    /\ UNCHANGED Shared

\* the refusal is final, although another request may have recorded the payment
MutantChargeRefused(h) ==
    /\ At(h, "charge")
    /\ \/ req' = [req EXCEPT ![h].pc = "claim", ![h].charges = @ \cup {"settle"}]
       \/ Answer(h, 429)
    /\ UNCHANGED Shared

\* a refused submission is tried again until it is admitted
MutantChargeRetries(h) ==
    /\ At(h, "charge")
    /\ \/ req' = [req EXCEPT ![h].pc = "claim", ![h].charges = @ \cup {"settle"}]
       \/ Goto(h, "lookup")
    /\ UNCHANGED Shared

\* _enforce_settle_submission_rate_limit
ChargeSubmission(h) ==
    /\ At(h, "charge")
    /\ \/ req' = [req EXCEPT ![h].pc = "claim", ![h].charges = @ \cup {"settle"}]
       \/ Goto(h, "relookup")
    /\ UNCHANGED Shared

\* except HostedRateLimitExceededError
LookupAgain(h) ==
    /\ At(h, "relookup")
    /\ Answer(h, IF req[h].payment \in recorded THEN 200 ELSE 429)
    /\ UNCHANGED Shared

\* claim_and_start_settle_attempt, one transaction
ClaimRecord(h) ==
    /\ At(h, "claim")
    /\ IF req[h].payment \in recorded
       THEN Answer(h, 200) /\ UNCHANGED recorded
       ELSE Goto(h, "submit") /\ recorded' = recorded \cup {req[h].payment}
    /\ UNCHANGED <<active, paused, sent, seen>>

\* provider.settle; whatever it returns or raises, the client gets 200 and a
\* status, see Settlement, or 500 when the final write is refused or fails
Submit(h) ==
    /\ At(h, "submit")
    /\ Answer(h, 200) \/ Answer(h, 500)
    /\ sent' = sent \cup {req[h].payment}
    /\ UNCHANGED <<active, paused, recorded, seen>>

\* Postgres is not reached, or the connection is lost, where the claim may have
\* been committed: the request fails with 500
DatabaseFails(h) ==
    /\ req[h].pc \in {"resolve", "scan", "filter", "gate", "lookup", "relookup", "claim"}
    /\ req' = [req EXCEPT ![h].pc = "done", ![h].status = 500, ![h].kinds = {}]
    /\ \/ UNCHANGED recorded
       \/ At(h, "claim") /\ recorded' = recorded \cup {req[h].payment}
    /\ UNCHANGED <<active, paused, sent, seen>>

\* the client has its answer, the handler is free
Finish(h) ==
    /\ At(h, "done")
    /\ req' = [req EXCEPT ![h] = Idle]
    /\ seen' = [seen EXCEPT ![h] = [routes |-> {}, keys |-> {}]]
    /\ UNCHANGED <<active, paused, recorded, sent>>

-----------------------------------------------------------------------------
\* everything that is now allowed has been seen by the requests under way
SeeAlso(routes, keys) ==
    seen' = [h \in Handlers |->
                IF At(h, "idle") THEN seen[h]
                ELSE [routes |-> seen[h].routes \cup routes, keys |-> seen[h].keys \cup keys]]

\* an operator pauses or resumes a target
SetPause(target, pause) ==
    /\ paused' = IF pause THEN paused \cup {target} ELSE paused \ {target}
    /\ SeeAlso({route \in Routes : {Global, route.provider, route.network} \cap paused' = {}}, {})
    /\ UNCHANGED <<req, active, recorded, sent>>

\* a key is revoked, or its account or profile disabled; bootstrap may restore it
SetKey(key, on) ==
    /\ active' = IF on THEN active \cup {key} ELSE active \ {key}
    /\ SeeAlso({}, active')
    /\ UNCHANGED <<req, paused, recorded, sent>>

Handle(h) ==
    \/ Penalize(h) \/ Resolve(h) \/ EnforceRateLimit(h) \/ LimiterFails(h)
    \/ ScanProviders(h) \/ FilterKinds(h)
    \/ Gate(h) \/ Validate(h) \/ Verify(h) \/ Preflight(h)
    \/ Lookup(h) \/ ChargeSubmission(h) \/ LookupAgain(h) \/ ClaimRecord(h) \/ Submit(h)
    \/ DatabaseFails(h) \/ Finish(h)

Next ==
    \/ \E h \in Handlers :
          \/ \E input \in Inputs : Arrive(h, input)
          \/ Handle(h)
    \/ \E t \in Targets, b \in BOOLEAN : SetPause(t, b)
    \/ \E k \in Keys, b \in BOOLEAN : SetKey(k, b)

\* handlers run on: the event loop schedules them, the limiter and the
\* providers answer or time out
Fairness == \A h \in Handlers : WF_vars(Handle(h))

Spec == Init /\ [][Next]_vars /\ Fairness

-----------------------------------------------------------------------------
Pcs == {"idle", "penalize", "resolve", "limit", "scan", "filter", "gate", "validate", "verify",
        "preflight", "lookup", "charge", "relookup", "claim", "submit", "done"}

\* Domains of the state of the request handlers.
AdmissionTypeOK ==
    /\ req \in [Handlers -> [pc: Pcs, endpoint: Endpoints, key: Keys \cup {NoKey},
                             payment: Payments, form: Forms, failure: {0, 400, 401, 403, 404},
                             charges: SUBSET (Endpoints \cup {"invalid"}), kinds: SUBSET Routes,
                             status: {0, 200, 400, 401, 403, 404, 423, 429, 500, 503}]]
    /\ active \subseteq Keys \cup {NoKey} /\ paused \subseteq Targets
    /\ recorded \subseteq Payments /\ sent \subseteq recorded
    /\ seen \in [Handlers -> [routes: SUBSET Routes, keys: SUBSET (Keys \cup {NoKey})]]

(***************************************************************************)
(* docs/hosted-facilitator-end-to-end-spec.md:241: malformed, unauthorised *)
(* and unroutable requests are charged to the invalid-request bucket.      *)
(* Whatever the handler read in between, 400, 401, 403 and 404 are         *)
(* answered only to a request that has paid as an invalid one; no other    *)
(* one pays, unless the limiter itself fails.                              *)
(***************************************************************************)
InvalidRequestsPay ==
    \A h \in Handlers : At(h, "done") =>
        /\ req[h].status \in {400, 401, 403, 404} => "invalid" \in req[h].charges
        /\ "invalid" \in req[h].charges => req[h].status \in {400, 401, 403, 404, 500}

(***************************************************************************)
(* A route that was paused all the time since the request arrived is       *)
(* neither advertised, verified, submitted nor answered from the cache,    *)
(* and nothing is done for a key that was revoked all that time.           *)
(***************************************************************************)
PausedAndRevokedRefused ==
    \A h \in Handlers :
        /\ At(h, "done") => req[h].kinds \subseteq seen[h].routes
        /\ (At(h, "submit") \/ (At(h, "done") /\ req[h].status = 200)) =>
              /\ req[h].endpoint # "supported" => Route[req[h].payment] \in seen[h].routes
              /\ req[h].key \in seen[h].keys

(***************************************************************************)
(* Two requests never submit one payment, and what is submitted has been   *)
(* charged to the settle bucket of its seller.                             *)
(***************************************************************************)
SubmissionsExclusive ==
    /\ \A h \in Handlers : At(h, "submit") =>
          /\ "settle" \in req[h].charges
          /\ req[h].payment \in recorded \ sent
    /\ \A g, h \in Handlers :
          g # h /\ At(g, "submit") /\ At(h, "submit") => req[g].payment # req[h].payment

(***************************************************************************)
(* A retry is not refused by the settle limit when its payment is already  *)
(* recorded, even if it was recorded while the limiter was asked.          *)
(***************************************************************************)
RecordedNeverLimited ==
    [][\A h \in Handlers :
         req[h].endpoint = "settle" /\ req[h].failure = 0 /\ req[h].status # 429
            /\ req'[h].status = 429 =>
         req[h].payment \notin recorded]_vars

\* the handler is between the pause check and the provider
BeyondGate(h) ==
    req[h].pc \in {"validate", "verify", "preflight", "lookup", "charge", "relookup", "claim", "submit"}

(***************************************************************************)
(* A pause that lasts takes effect: in the end no handler is between the   *)
(* pause check and the provider with a payment of the paused route.        *)
(***************************************************************************)
PauseQuiesces ==
    \A p \in Payments :
        <>[](~Allows(Route[p])) =>
            <>[](\A h \in Handlers : BeyondGate(h) => req[h].payment # p)

(***************************************************************************)
(* What a request gets is justified: refusals are paid for, nothing is     *)
(* done for what stayed paused or revoked, and no payment is submitted by  *)
(* two handlers or uncharged.                                              *)
(***************************************************************************)
AnswersJustified ==
    AdmissionTypeOK /\ InvalidRequestsPay /\ PausedAndRevokedRefused /\ SubmissionsExclusive
=============================================================================
