----------------------------- MODULE MCAdmission -----------------------------
(***************************************************************************)
(* An instance of Admission for the model checker.  A behaviour is bounded *)
(* in one of two ways: one handler gets every request there is, or two     *)
(* handlers settle the same payment at once.                               *)
(***************************************************************************)
EXTENDS Admission

CONSTANTS h1, h2, k1, exact, net1, net2, p1, p2, p3

VARIABLE bound

\* p1 may be settled; the profile does not allow p2's network; p3 is on a
\* network of no provider
MCRoute ==
    [p \in Payments |->
        CASE p = p1 -> [provider |-> exact, network |-> net1]
          [] p = p2 -> [provider |-> exact, network |-> net2]
          [] OTHER  -> [provider |-> "delegated_http", network |-> net1]]

\* the default account, and it alone, allows both networks
MCProfiles ==
    [k \in Keys \cup {NoKey} |->
        {[provider |-> exact, network |-> n] : n \in IF k = NoKey THEN Networks ELSE {net1}}]

\* every kind of request: what is wrong with a body is independent of where its
\* payment would go
AllInputs ==
    {i \in [endpoint: Endpoints, key: Keys \cup {NoKey}, payment: Payments, form: Forms] :
        /\ i.endpoint = "supported" => i.form = "ok"
        /\ i.endpoint = "supported" \/ i.form # "ok" => i.payment = p1}

\* the handler is idle or settles p1 for k1
SettlesP1(r) ==
    r.pc = "idle" \/ (r.endpoint = "settle" /\ r.key = k1 /\ r.payment = p1 /\ r.form = "ok")

Within ==
    CASE bound = "routes" -> At(h2, "idle")
      [] bound = "races"  -> /\ net2 \notin paused /\ active = {k1}
                             /\ \A h \in Handlers : SettlesP1(req[h])

MCInit == Init /\ bound \in {"routes", "races"} /\ Within

MCNext == Next /\ UNCHANGED bound /\ Within'

MCSpec == MCInit /\ [][MCNext]_<<vars, bound>> /\ Fairness
=============================================================================
