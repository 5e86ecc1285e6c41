----------------------------- MODULE MCServices -----------------------------
(***************************************************************************)
(* What the routes and the engine stand on, for the model checker:         *)
(* instances of Pool, ExactProvider, RateLimit, Pauses, Sellers and        *)
(* Migrations.  They share no state that the properties are about, so each *)
(* is followed in behaviours of its own: part says which one takes steps,  *)
(* the others stay as they begin.  Sellers is followed under two bounds.   *)
(***************************************************************************)
EXTENDS Integers, Sequences, FiniteSets, Services, ControlPlane, MCMigrations

VARIABLE part

Parts == {"pool", "exact", "limiter", "pauses", "sellers", "bootstrap", "migrations"}

allVars == <<part, poolVars, exactVars, limiterVars, pausesVars, sellersVars, vars>>

-----------------------------------------------------------------------------
\* two payments on one network, of the same terms, and one on another
MCNetworkOf == <<"n1", "n1", "n2">>
MCTerms == <<10, 10, 20>>

\* two endpoints of a seller, and invalid requests with and without a seller
MCRequests ==
    {[endpoint |-> e, seller |-> "s1", host |-> "h1"] : e \in {"verify", "settle", "invalid"}}
    \cup {[endpoint |-> "invalid", seller |-> "nobody", host |-> "h1"]}

\* an endpoint admits less than the seller, and than the address
MCLimits ==
    [k \in {"supported", "verify", "settle", "invalid", "all", "ip_all", "ip_invalid"} |->
        IF k \in {"all", "ip_all"} THEN 2 ELSE 1]

\* On Redis, where a check may wait, requests of the seller come in: one of
\* an endpoint and invalid ones.
LimiterWithin ==
    redis => \A c \in DOMAIN pending : pending[c].waits =>
        pending[c].req.seller = "s1" /\ pending[c].req.endpoint # "verify"

\* two processes configured with the same key for different accounts
Clashing ==
    {[seller |-> "s1", tenant |-> "t1", key |-> "k1"], [seller |-> "s2", tenant |-> "t1", key |-> "k1"]}

\* operators create one account through two tenants, issue two keys and revoke
\* them
OperatorsOnly ==
    /\ key["k1"].status = "absent" /\ key["k2"].status = "absent"
    /\ \A x \in DOMAIN tx :
          /\ tx[x].op \notin {"bootstrap", "upsert"}
          /\ "seller" \in DOMAIN tx[x] => tx[x].seller = "s1"

\* processes start, with the clashing configuration, beside an operator
AmongStarts ==
    /\ lock["t2"] = "nobody"
    /\ key["k3"].status = "absent" /\ key["k4"].status = "absent"
    /\ Len(audit) <= 1

SellersWithin == IF part = "sellers" THEN OperatorsOnly ELSE AmongStarts

ASSUME D!PoolAssumption /\ E!ExactProviderAssumption
ASSUME L!RateLimitAssumption /\ P!PausesAssumption /\ S!SellersAssumption

-----------------------------------------------------------------------------
\* a part that takes no steps begins in one way, Migrations on a database that
\* is refused
MCInit ==
    /\ part \in Parts
    /\ D!Init /\ (part # "pool" => oneLoop)
    /\ E!Init
    /\ L!Init /\ (part # "limiter" => redis)
    /\ P!Init /\ (part # "pauses" => durable)
    /\ S!Init
    /\ Init /\ (part # "migrations" => origin = CHOOSE d \in Refused : TRUE)

PoolStep ==
    /\ part = "pool" /\ D!Next
    /\ UNCHANGED <<part, exactVars, limiterVars, pausesVars, sellersVars, vars>>

ExactStep ==
    /\ part = "exact" /\ E!Next
    /\ UNCHANGED <<part, poolVars, limiterVars, pausesVars, sellersVars, vars>>

LimiterStep ==
    /\ part = "limiter" /\ L!Next /\ LimiterWithin'
    /\ UNCHANGED <<part, poolVars, exactVars, pausesVars, sellersVars, vars>>

PausesStep ==
    /\ part = "pauses" /\ P!Next
    /\ UNCHANGED <<part, poolVars, exactVars, limiterVars, sellersVars, vars>>

SellersStep ==
    /\ part \in {"sellers", "bootstrap"}
    /\ UNCHANGED <<part, poolVars, exactVars, limiterVars, pausesVars, vars>>
    /\ S!Next /\ SellersWithin'

MigrationsStep ==
    /\ part = "migrations" /\ Next
    /\ UNCHANGED <<part, poolVars, exactVars, limiterVars, pausesVars, sellersVars>>

MCNext ==
    PoolStep \/ ExactStep \/ LimiterStep \/ PausesStep \/ SellersStep \/ MigrationsStep

\* the fairness of each part, as long as it is the one that takes steps
MCFairness ==
    /\ WF_poolVars(part = "pool" /\ D!Drain /\ UNCHANGED oneLoop)
    /\ \A u \in Users : WF_poolVars(part = "pool" /\ D!UserGoesOn(u) /\ UNCHANGED oneLoop)
    /\ \A p \in Payments :
          WF_exactVars(part = "exact" /\ E!Begin(p)) /\ WF_exactVars(part = "exact" /\ E!Ends(p))
    /\ \A p \in Procs : WF_vars(part = "migrations" /\ Step(p))

MCSpec == MCInit /\ [][MCNext]_allVars /\ MCFairness

-----------------------------------------------------------------------------
\* Pool and ExactProvider: a checkout ends, with a connection or an error, and
\* a settlement that has entered gets its answer.
NobodyWaitsForEver == D!CheckoutEnds /\ E!EverySettleEnds
=============================================================================
