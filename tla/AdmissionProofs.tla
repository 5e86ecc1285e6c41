--------------------------- MODULE AdmissionProofs ---------------------------
(***************************************************************************)
(* Proofs about Admission: for any number of requests handled at once, any *)
(* keys, profiles, providers and networks, and whatever operators pause    *)
(* and revoke meanwhile.                                                   *)
(***************************************************************************)
EXTENDS Admission, TLAPS

\* the domains of a handler's record, by name
Failures == {0, 400, 401, 403, 404}
Refusals == {400, 401, 403, 404}
Statuses == {0, 200, 400, 401, 403, 404, 423, 429, 500, 503}
Charges == SUBSET (Endpoints \cup {"invalid"})
Kinds == SUBSET Routes
Record == [pc: Pcs, endpoint: Endpoints, key: Keys \cup {NoKey},
           payment: Payments, form: Forms, failure: Failures,
           charges: Charges, kinds: Kinds, status: Statuses]

\* where a handler is once it has found the seller of its key, and once it
\* has looked at the pauses
Checked == {"validate", "verify", "preflight", "lookup", "charge", "relookup", "claim", "submit"}
Authenticated == Checked \cup {"limit", "scan", "filter", "gate"}

\* Why the statuses are justified: a request carries its failure, and nothing
\* else does, to the place where it pays; it has paid only where it is done.
Priced(r) ==
    /\ r.pc = "penalize" => r.failure \in Refusals
    /\ r.pc \notin {"penalize", "done"} => r.failure = 0
    /\ r.pc # "done" => "invalid" \notin r.charges /\ r.status = 0
    /\ r.pc = "done" =>
          /\ r.status \in Refusals => "invalid" \in r.charges
          /\ "invalid" \in r.charges => r.status \in Refusals \cup {500}

\* Which endpoint a handler at this place serves.
Placed(r) ==
    /\ r.pc = "limit" => r.endpoint # "settle"
    /\ r.pc \in {"gate", "validate"} => r.endpoint # "supported"
    /\ r.pc = "verify" => r.endpoint = "verify"
    /\ r.pc \in {"scan", "filter"} => r.endpoint = "supported"
    /\ r.pc \in {"preflight", "lookup", "charge", "relookup", "claim", "submit"}
          => r.endpoint = "settle"

\* What the handler read of keys and pauses was so at some moment since the
\* request arrived.
Witnessed(r, s) ==
    /\ r.pc \in Authenticated => r.key \in s.keys
    /\ r.pc \in Checked => Route[r.payment] \in s.routes
    /\ r.pc \notin {"filter", "done"} => r.kinds = {}
    /\ r.pc = "done" => r.kinds \subseteq s.routes
    /\ r.pc = "done" /\ r.status = 200 =>
          /\ r.endpoint # "supported" => Route[r.payment] \in s.routes
          /\ r.key \in s.keys

\* The local part of the invariant, of one handler's record and history.
Justified(r, s) ==
    /\ Priced(r)
    /\ Placed(r)
    /\ Witnessed(r, s)
    /\ r.pc \in {"claim", "submit"} => "settle" \in r.charges

\* The history keeps up with the present.
HistoryKept ==
    \A h \in Handlers : ~At(h, "idle") =>
        AllowedRoutes \subseteq seen[h].routes /\ active \subseteq seen[h].keys

\* The inductive invariant.
AdmissionInv ==
    /\ AdmissionTypeOK
    /\ \A h \in Handlers : Justified(req[h], seen[h])
    /\ HistoryKept
    /\ \A h \in Handlers : At(h, "submit") => req[h].payment \in recorded \ sent
    /\ \A g, h \in Handlers :
          g # h /\ At(g, "submit") /\ At(h, "submit") => req[g].payment # req[h].payment
-----------------------------------------------------------------------------
(***************************************************************************)
(* Steps of one handler.  Most change its own record only.                 *)
(***************************************************************************)

\* What the invariant says of one handler.
LEMMA OfHandler ==
    ASSUME AdmissionInv, NEW h \in Handlers
    PROVE  /\ req \in [Handlers -> Record]
           /\ req[h] \in Record
           /\ Justified(req[h], seen[h])
           /\ ~At(h, "idle") => AllowedRoutes \subseteq seen[h].routes /\ active \subseteq seen[h].keys
BY DEF AdmissionInv, AdmissionTypeOK, Record, Failures, Statuses, Charges, Kinds, HistoryKept

\* A handler that moves on to a justified record, short of a submission,
\* keeps the invariant.
LEMMA MoveKeeps ==
    ASSUME AdmissionInv, NEW h \in Handlers, ~At(h, "idle"), UNCHANGED Shared,
           NEW r \in Record, req' = [req EXCEPT ![h] = r],
           r.pc # "submit", Justified(r, seen[h])
    PROVE  AdmissionInv'
<1> USE DEF AdmissionInv, Shared, At
<1>1. req \in [Handlers -> Record]
  BY OfHandler
<1>2. AdmissionTypeOK'
  BY <1>1 DEF AdmissionTypeOK, Record, Failures, Statuses, Charges, Kinds
<1>3. \A g \in Handlers : req'[g] = IF g = h THEN r ELSE req[g]
  BY <1>1
<1>4. \A g \in Handlers : Justified(req'[g], seen'[g])
  BY <1>3
<1>5. HistoryKept'
  BY <1>3 DEF HistoryKept, AllowedRoutes, Allows
<1> QED
  BY <1>2, <1>3, <1>4, <1>5

\* Answer and Fail write one record, whole.
LEMMA WritesRecord ==
    ASSUME req \in [Handlers -> Record], NEW h \in Handlers, NEW s
    PROVE  /\ Answer(h, s) => req' = [req EXCEPT ![h] = [req[h] EXCEPT !.pc = "done", !.status = s]]
           /\ Fail(h, s) => req' = [req EXCEPT ![h] = [req[h] EXCEPT !.pc = "penalize", !.failure = s]]
BY DEF Answer, Fail

\* An answer that is no refusal of an invalid request needs no payment; 200
\* needs a key that resolved and a route that was not paused.
LEMMA AnswerKeeps ==
    ASSUME AdmissionInv, NEW h \in Handlers, NEW s \in Statuses \ Refusals,
           req[h].pc \notin {"idle", "filter", "done"},
           Answer(h, s), UNCHANGED Shared,
           s = 200 => /\ req[h].pc \in Authenticated
                      /\ req[h].endpoint = "supported" \/ req[h].pc \in Checked
    PROVE  AdmissionInv'
<1> DEFINE r == [req[h] EXCEPT !.pc = "done", !.status = s]
<1>1. req[h] \in Record /\ req' = [req EXCEPT ![h] = r] /\ ~At(h, "idle")
  <2>1. req \in [Handlers -> Record] /\ req[h] \in Record
    BY OfHandler
  <2>2. req' = [req EXCEPT ![h] = r]
    BY <2>1, WritesRecord
  <2> QED
    BY <2>1, <2>2 DEF At
<1>2. /\ r \in Record /\ r.pc = "done" /\ r.failure = req[h].failure /\ r.status = s
      /\ r.charges = req[h].charges /\ r.kinds = req[h].kinds
      /\ r.endpoint = req[h].endpoint /\ r.key = req[h].key /\ r.payment = req[h].payment
  <2>1. "done" \in Pcs
    BY DEF Pcs
  <2> QED
    BY <1>1, <2>1 DEF Record
<1>3. Justified(r, seen[h])
  BY <1>2, OfHandler DEF Justified, Priced, Refusals, Placed, Witnessed, Checked, Authenticated
<1> HIDE DEF r
<1> QED
  BY <1>1, <1>2, <1>3, MoveKeeps

\* A handler may move to the next check when it has passed the last one.
LEMMA GotoKeeps ==
    ASSUME AdmissionInv, NEW h \in Handlers, NEW pc \in Authenticated \ {"claim", "submit"},
           req[h].pc \notin {"idle", "penalize", "filter", "done"},
           Goto(h, pc), UNCHANGED Shared,
           req[h].key \in seen[h].keys,
           pc \in Checked => Route[req[h].payment] \in seen[h].routes,
           Placed([req[h] EXCEPT !.pc = pc])
    PROVE  AdmissionInv'
<1> DEFINE r == [req[h] EXCEPT !.pc = pc]
<1>1. req[h] \in Record /\ req' = [req EXCEPT ![h] = r] /\ ~At(h, "idle")
  BY OfHandler DEF Goto, At
<1>2. /\ r \in Record /\ r.pc = pc /\ r.failure = req[h].failure /\ r.status = req[h].status
      /\ r.charges = req[h].charges /\ r.kinds = req[h].kinds
      /\ r.endpoint = req[h].endpoint /\ r.key = req[h].key /\ r.payment = req[h].payment
  <2>1. pc \in Pcs
    BY DEF Pcs, Authenticated, Checked
  <2> QED
    BY <1>1, <2>1 DEF Record
<1>3. Justified(r, seen[h])
  <2>1. Placed(r)
    OBVIOUS
  <2> HIDE DEF r
  <2> QED
    BY <1>2, <2>1, OfHandler DEF Justified, Priced, Refusals, Witnessed, Checked, Authenticated
<1> HIDE DEF r
<1> QED
  BY <1>1, <1>2, <1>3, MoveKeeps DEF Authenticated, Checked

\* A request is refused as invalid only by way of paying for it.
LEMMA FailKeeps ==
    ASSUME AdmissionInv, NEW h \in Handlers, NEW s \in Refusals,
           req[h].pc \notin {"idle", "filter", "done"},
           Fail(h, s), UNCHANGED Shared
    PROVE  AdmissionInv'
<1> DEFINE r == [req[h] EXCEPT !.pc = "penalize", !.failure = s]
<1>1. req[h] \in Record /\ req' = [req EXCEPT ![h] = r] /\ ~At(h, "idle")
  <2>1. req \in [Handlers -> Record] /\ req[h] \in Record
    BY OfHandler
  <2>2. req' = [req EXCEPT ![h] = r]
    BY <2>1, WritesRecord
  <2> QED
    BY <2>1, <2>2 DEF At
<1>2. /\ r \in Record /\ r.pc = "penalize" /\ r.failure = s /\ r.status = req[h].status
      /\ r.charges = req[h].charges /\ r.kinds = req[h].kinds
      /\ r.endpoint = req[h].endpoint /\ r.key = req[h].key /\ r.payment = req[h].payment
  <2>1. "penalize" \in Pcs /\ s \in Failures
    BY DEF Pcs, Failures, Refusals
  <2> QED
    BY <1>1, <2>1 DEF Record
<1>3. Justified(r, seen[h])
  BY <1>2, OfHandler DEF Justified, Priced, Refusals, Placed, Witnessed, Checked, Authenticated
<1> HIDE DEF r
<1> QED
  BY <1>1, <1>2, <1>3, MoveKeeps

-----------------------------------------------------------------------------
(***************************************************************************)
(* One lemma per group of steps of a handler.                              *)
(***************************************************************************)

\* The seller is looked up once; a key that does not resolve is refused for a
\* price.
LEMMA ResolveKeeps ==
    ASSUME AdmissionInv, NEW h \in Handlers, Resolve(h)
    PROVE  AdmissionInv'
<1>1. UNCHANGED Shared /\ req[h].pc = "resolve"
  BY DEF Resolve, At
<1>2. CASE Resolves(h)
  <2> DEFINE pc == IF req[h].endpoint = "settle" THEN "gate" ELSE "limit"
  <2>1. Goto(h, pc) /\ pc \in Authenticated \ {"claim", "submit"} /\ pc \notin Checked
    BY <1>2 DEF Resolve, Authenticated, Checked
  <2>2. req[h].key \in seen[h].keys
    BY <1>1, <1>2, OfHandler DEF Resolves, At
  <2>3. Placed([req[h] EXCEPT !.pc = pc])
    BY OfHandler DEF Placed, Record
  <2> HIDE DEF pc
  <2> QED
    BY <1>1, <2>1, <2>2, <2>3, GotoKeeps
<1>3. CASE ~Resolves(h)
  <2>1. Fail(h, 401) \/ Fail(h, 404)
    BY <1>3 DEF Resolve
  <2> QED
    BY <1>1, <2>1, FailKeeps DEF Refusals
<1> QED
  BY <1>2, <1>3

\* _penalize_invalid_request: the request pays before it hears its status.
LEMMA PenalizeKeeps ==
    ASSUME AdmissionInv, NEW h \in Handlers, Penalize(h)
    PROVE  AdmissionInv'
<1> DEFINE r == [req[h] EXCEPT !.pc = "done", !.status = req[h].failure,
                               !.charges = @ \cup {"invalid"}]
<1>1. UNCHANGED Shared /\ req[h].pc = "penalize" /\ ~At(h, "idle")
  BY DEF Penalize, At
<1>2. CASE Answer(h, 429)
  BY <1>1, <1>2, AnswerKeeps DEF Statuses, Refusals
<1>3. CASE req' = [req EXCEPT ![h].pc = "done", ![h].status = req[h].failure,
                              ![h].charges = @ \cup {"invalid"}]
  <2>1. req \in [Handlers -> Record] /\ req[h] \in Record /\ Justified(req[h], seen[h])
    BY OfHandler
  <2>2. req' = [req EXCEPT ![h] = r]
    BY <1>3, <2>1
  <2>3. "done" \in Pcs /\ req[h].failure \in Refusals /\ req[h].failure \in Statuses
    BY <1>1, <2>1 DEF Pcs, Justified, Priced, Refusals, Statuses
  <2>4. req[h].charges \cup {"invalid"} \in Charges
    BY <2>1 DEF Record, Charges
  <2>5. /\ r \in Record /\ r.pc = "done" /\ r.failure = req[h].failure /\ r.status = req[h].failure
        /\ r.charges = req[h].charges \cup {"invalid"} /\ r.kinds = req[h].kinds
        /\ r.endpoint = req[h].endpoint /\ r.key = req[h].key /\ r.payment = req[h].payment
    BY <2>1, <2>3, <2>4 DEF Record
  <2>6. Justified(r, seen[h])
    <3> HIDE DEF r
    <3> QED
      BY <1>1, <2>1, <2>3, <2>5 DEF Justified, Priced, Refusals, Placed, Witnessed, Checked, Authenticated
  <2> HIDE DEF r
  <2> QED
    BY <1>1, <2>2, <2>5, <2>6, MoveKeeps
<1> QED
  BY <1>2, <1>3 DEF Penalize

\* A limiter that fails answers 500, whether or not the request was charged.
LEMMA LimiterFailsKeeps ==
    ASSUME AdmissionInv, NEW h \in Handlers, LimiterFails(h)
    PROVE  AdmissionInv'
<1>1. UNCHANGED Shared /\ req[h].pc \in {"penalize", "limit", "charge"} /\ ~At(h, "idle")
  BY DEF LimiterFails, At
<1>2. PICK charged :
        /\ charged \in SUBSET {IF At(h, "penalize") THEN "invalid" ELSE req[h].endpoint}
        /\ req' = [req EXCEPT ![h].pc = "done", ![h].status = 500, ![h].charges = @ \cup charged]
  BY DEF LimiterFails
<1> DEFINE c == req[h].charges \cup charged
           st == 500
           r == [req[h] EXCEPT !.pc = "done", !.status = st, !.charges = c]
<1>3. req \in [Handlers -> Record] /\ req[h] \in Record /\ Justified(req[h], seen[h])
  BY OfHandler
<1>4. req' = [req EXCEPT ![h] = r]
  <2>1. req' = [req EXCEPT ![h].pc = "done", ![h].status = 500, ![h].charges = @ \cup charged]
    BY <1>2
  <2>2. ASSUME NEW s PROVE
          [req EXCEPT ![h].pc = "done", ![h].status = s, ![h].charges = @ \cup charged]
            = [req EXCEPT ![h] = [req[h] EXCEPT !.pc = "done", !.status = s, !.charges = c]]
    BY <1>3
  <2> QED
    BY <2>1, <2>2, Zenon
<1>5. "done" \in Pcs /\ st \in Statuses /\ c \in Charges
  BY <1>2, <1>3 DEF Pcs, Statuses, Record, Charges
<1>6. /\ r \in Record /\ r.pc = "done" /\ r.status = st /\ r.failure = req[h].failure
      /\ r.charges = c /\ r.kinds = req[h].kinds
      /\ r.endpoint = req[h].endpoint /\ r.key = req[h].key /\ r.payment = req[h].payment
  <2> HIDE DEF c, st
  <2> QED
    BY <1>3, <1>5 DEF Record
<1> HIDE DEF r
<1>7. Justified(r, seen[h])
  BY <1>1, <1>3, <1>6 DEF Justified, Priced, Refusals, Placed, Witnessed, Checked, Authenticated
<1> QED
  BY <1>1, <1>4, <1>6, <1>7, MoveKeeps

\* _enforce_rate_limit: supported and verify are charged to their own bucket.
LEMMA EnforceKeeps ==
    ASSUME AdmissionInv, NEW h \in Handlers, EnforceRateLimit(h)
    PROVE  AdmissionInv'
<1> DEFINE q == req[h]
           pc == IF q.endpoint = "supported" THEN "scan" ELSE "gate"
           r == [q EXCEPT !.charges = @ \cup {q.endpoint}, !.pc = pc]
<1>1. UNCHANGED Shared /\ q.pc = "limit" /\ ~At(h, "idle")
  BY DEF EnforceRateLimit, At
<1>2. CASE Answer(h, 429)
  BY <1>1, <1>2, AnswerKeeps DEF Statuses, Refusals
<1>3. CASE req' = [req EXCEPT ![h].charges = @ \cup {req[h].endpoint},
                              ![h].pc = IF req[h].endpoint = "supported" THEN "scan" ELSE "gate"]
  <2>1. req \in [Handlers -> Record] /\ q \in Record /\ Justified(q, seen[h])
    BY OfHandler
  <2>2. req' = [req EXCEPT ![h] = r]
    BY <1>3, <2>1
  <2>3. pc \in Pcs /\ q.charges \cup {q.endpoint} \in Charges
    BY <2>1 DEF Pcs, Record, Charges
  <2>4. /\ r \in Record /\ r.pc = pc /\ r.status = q.status /\ r.failure = q.failure
        /\ r.charges = q.charges \cup {q.endpoint} /\ r.kinds = q.kinds
        /\ r.endpoint = q.endpoint /\ r.key = q.key /\ r.payment = q.payment
    <3> HIDE DEF pc
    <3> QED
      BY <2>1, <2>3 DEF Record
  <2> HIDE DEF r
  <2>5. Justified(r, seen[h])
    <3>1. q.endpoint # "invalid"
      BY <2>1 DEF Record, Endpoints
    <3> QED
      BY <1>1, <2>1, <2>4, <3>1 DEF Justified, Priced, Refusals, Placed, Witnessed, Checked, Authenticated
  <2> QED
    BY <1>1, <2>2, <2>4, <2>5, MoveKeeps
<1> QED
  BY <1>2, <1>3 DEF EnforceRateLimit

\* _enforce_settle_submission_rate_limit: a submission is charged before the
\* payment is claimed; a refused one is looked up again.
LEMMA ChargeKeeps ==
    ASSUME AdmissionInv, NEW h \in Handlers, ChargeSubmission(h)
    PROVE  AdmissionInv'
<1> DEFINE q == req[h]
           r == [q EXCEPT !.pc = "claim", !.charges = @ \cup {"settle"}]
<1>1. UNCHANGED Shared /\ q.pc = "charge" /\ ~At(h, "idle")
  BY DEF ChargeSubmission, At
<1>2. req \in [Handlers -> Record] /\ q \in Record /\ Justified(q, seen[h])
  BY OfHandler
<1>3. CASE Goto(h, "relookup")
  <2>1. /\ "relookup" \in Authenticated \ {"claim", "submit"}
        /\ q.key \in seen[h].keys /\ Route[q.payment] \in seen[h].routes
    BY <1>1, <1>2 DEF Authenticated, Checked, Justified, Witnessed
  <2>2. Placed([q EXCEPT !.pc = "relookup"])
    BY <1>1, <1>2 DEF Justified, Placed, Record
  <2> QED
    BY <1>1, <1>3, <2>1, <2>2, GotoKeeps
<1>4. CASE req' = [req EXCEPT ![h].pc = "claim", ![h].charges = @ \cup {"settle"}]
  <2>2. req' = [req EXCEPT ![h] = r]
    BY <1>4, <1>2
  <2>3. "claim" \in Pcs /\ q.charges \cup {"settle"} \in Charges
    BY <1>2 DEF Pcs, Record, Charges, Endpoints
  <2>4. /\ r \in Record /\ r.pc = "claim" /\ r.status = q.status /\ r.failure = q.failure
        /\ r.charges = q.charges \cup {"settle"} /\ r.kinds = q.kinds
        /\ r.endpoint = q.endpoint /\ r.key = q.key /\ r.payment = q.payment
    BY <1>2, <2>3 DEF Record
  <2> HIDE DEF r
  <2>5. Justified(r, seen[h])
    BY <1>1, <1>2, <2>4 DEF Justified, Priced, Refusals, Placed, Witnessed, Checked, Authenticated
  <2> QED
    BY <1>1, <2>2, <2>4, <2>5, MoveKeeps
<1> QED
  BY <1>3, <1>4 DEF ChargeSubmission

\* supported: what was paused while the providers were asked is dropped.
LEMMA SupportedKeeps ==
    ASSUME AdmissionInv, NEW h \in Handlers, ScanProviders(h) \/ FilterKinds(h)
    PROVE  AdmissionInv'
<1> DEFINE q == req[h]
<1>1. req \in [Handlers -> Record] /\ q \in Record /\ Justified(q, seen[h])
  BY OfHandler
<1>2. UNCHANGED Shared /\ ~At(h, "idle")
  BY DEF ScanProviders, FilterKinds, At
<1>3. CASE ScanProviders(h) /\ BlocksSupported(h)
  <2>1. q.pc = "scan" /\ q.endpoint = "supported" /\ Answer(h, 200)
    BY <1>1, <1>3 DEF ScanProviders, At, Justified, Placed
  <2> QED
    BY <1>2, <2>1, AnswerKeeps DEF Statuses, Refusals, Authenticated
<1>4. CASE ScanProviders(h) /\ ~BlocksSupported(h)
  <2> DEFINE k == {route \in Profile(h) : /\ route.provider \in Providers
                                          /\ {Global, route.provider} \cap paused = {}}
             r == [q EXCEPT !.pc = "filter", !.kinds = k]
  <2>1. q.pc = "scan" /\ req' = [req EXCEPT ![h].pc = "filter", ![h].kinds = k]
    BY <1>4 DEF ScanProviders, At
  <2>2. "filter" \in Pcs /\ k \in Kinds
    BY <1>1, AdmissionAssumption DEF Pcs, Kinds, Profile, Record
  <2> HIDE DEF k
  <2>3. req' = [req EXCEPT ![h] = r]
    BY <1>1, <2>1
  <2>4. /\ r \in Record /\ r.pc = "filter" /\ r.status = q.status /\ r.failure = q.failure
        /\ r.charges = q.charges /\ r.kinds = k
        /\ r.endpoint = q.endpoint /\ r.key = q.key /\ r.payment = q.payment
    BY <1>1, <2>2 DEF Record
  <2> HIDE DEF r
  <2>5. Justified(r, seen[h])
    BY <1>1, <2>1, <2>4 DEF Justified, Priced, Refusals, Placed, Witnessed, Checked, Authenticated
  <2> QED
    BY <1>2, <2>3, <2>4, <2>5, MoveKeeps
<1>5. CASE FilterKinds(h)
  <2> DEFINE k == {route \in q.kinds : Allows(route)}
             st == 200
             r == [q EXCEPT !.pc = "done", !.status = st, !.kinds = k]
  <2>1. q.pc = "filter" /\ req' = [req EXCEPT ![h].pc = "done", ![h].status = st, ![h].kinds = k]
    BY <1>5 DEF FilterKinds, At
  <2>2. "done" \in Pcs /\ st \in Statuses /\ k \in Kinds
    BY <1>1 DEF Pcs, Statuses, Kinds, Record
  <2>3. k \subseteq seen[h].routes
    <3>1. k \subseteq AllowedRoutes
      BY <1>1 DEF AllowedRoutes, Record, Kinds
    <3> QED
      BY <1>2, <3>1, OfHandler
  <2>4. req' = [req EXCEPT ![h] = r]
    <3> HIDE DEF k, st
    <3> QED
      BY <1>1, <2>1
  <2>5. /\ r \in Record /\ r.pc = "done" /\ r.status = st /\ r.failure = q.failure
        /\ r.charges = q.charges /\ r.kinds = k
        /\ r.endpoint = q.endpoint /\ r.key = q.key /\ r.payment = q.payment
    <3> HIDE DEF k, st
    <3> QED
      BY <1>1, <2>2 DEF Record
  <2> HIDE DEF r, k
  <2>6. Justified(r, seen[h])
    BY <1>1, <2>1, <2>3, <2>5 DEF Justified, Priced, Refusals, Placed, Witnessed, Checked, Authenticated
  <2> QED
    BY <1>2, <2>4, <2>5, <2>6, MoveKeeps
<1> QED
  BY <1>3, <1>4, <1>5

\* _enforce_control_plane_route, validation and routing: the pauses are looked
\* at once, and what passes there was not paused at that moment.
LEMMA RouteKeeps ==
    ASSUME AdmissionInv, NEW h \in Handlers, Gate(h) \/ Validate(h)
    PROVE  AdmissionInv'
<1> DEFINE q == req[h]
<1>1. q \in Record /\ Justified(q, seen[h]) /\ UNCHANGED Shared /\ q.pc \in {"gate", "validate"}
  BY OfHandler DEF Gate, Validate, At
<1>2. q.key \in seen[h].keys
  BY <1>1 DEF Justified, Witnessed, Authenticated, Checked
<1>3. CASE Gate(h)
  <2>1. CASE Allows(Route[q.payment])
    <3>1. Route[q.payment] \in AllowedRoutes
      BY <1>1, <2>1, AdmissionAssumption DEF AllowedRoutes, Record
    <3>2. Route[q.payment] \in seen[h].routes
      BY <1>1, <3>1, OfHandler DEF At
    <3>3. Goto(h, "validate") /\ "validate" \in Authenticated \ {"claim", "submit"}
      BY <1>3, <2>1 DEF Gate, Authenticated, Checked
    <3>4. Placed([q EXCEPT !.pc = "validate"])
      BY <1>1, <1>3 DEF Gate, At, Justified, Placed, Record
    <3> QED
      BY <1>1, <1>2, <3>2, <3>3, <3>4, GotoKeeps
  <2>2. CASE ~Allows(Route[q.payment])
    BY <1>1, <1>3, <2>2, AnswerKeeps DEF Gate, Statuses, Refusals
  <2> QED
    BY <2>1, <2>2
<1>4. CASE Validate(h)
  <2> DEFINE pc == IF q.endpoint = "verify" THEN "verify" ELSE "preflight"
  <2>1. q.pc = "validate" /\ Route[q.payment] \in seen[h].routes
    BY <1>1, <1>4 DEF Validate, At, Justified, Witnessed, Checked
  <2>2. CASE Goto(h, pc)
    <3>1. pc \in Authenticated \ {"claim", "submit"}
      BY DEF Authenticated, Checked
    <3>2. Placed([q EXCEPT !.pc = pc])
      BY <1>1, <2>1 DEF Justified, Placed, Record, Endpoints
    <3> HIDE DEF pc
    <3> QED
      BY <1>1, <1>2, <2>1, <2>2, <3>1, <3>2, GotoKeeps
  <2>3. CASE Fail(h, 400) \/ Fail(h, 403)
    BY <1>1, <2>3, FailKeeps DEF Refusals
  <2> QED
    BY <1>4, <2>2, <2>3 DEF Validate
<1> QED
  BY <1>3, <1>4

\* verify, preflight and the two lookups of a record: answers from a route
\* that was checked, for a seller that was found.
LEMMA LookupKeeps ==
    ASSUME AdmissionInv, NEW h \in Handlers,
           Verify(h) \/ Preflight(h) \/ Lookup(h) \/ LookupAgain(h)
    PROVE  AdmissionInv'
<1> DEFINE q == req[h]
<1>1. /\ q \in Record /\ Justified(q, seen[h]) /\ UNCHANGED Shared
      /\ q.pc \in {"verify", "preflight", "lookup", "relookup"}
  BY OfHandler DEF Verify, Preflight, Lookup, LookupAgain, At
<1>2. /\ q.pc \in Checked /\ q.pc \in Authenticated
      /\ q.key \in seen[h].keys /\ Route[q.payment] \in seen[h].routes
  BY <1>1 DEF Justified, Witnessed, Authenticated, Checked
<1>3. CASE Answer(h, 200) \/ Answer(h, 429) \/ Answer(h, 500) \/ Answer(h, 503)
  BY <1>1, <1>2, <1>3, AnswerKeeps DEF Statuses, Refusals
<1>9. CASE ProviderRaises(h)
  BY <1>1, <1>3, <1>9, FailKeeps DEF ProviderRaises, Refusals
<1>4. CASE (Goto(h, "lookup") /\ Preflight(h)) \/ (Goto(h, "charge") /\ Lookup(h))
  <2>1. PICK pc : pc \in {"lookup", "charge"} /\ Goto(h, pc)
    BY <1>4
  <2>2. pc \in Authenticated \ {"claim", "submit"}
    BY <2>1 DEF Authenticated, Checked
  <2>3. q.endpoint = "settle"
    BY <1>1, <1>4 DEF Preflight, Lookup, At, Justified, Placed
  <2>4. Placed([q EXCEPT !.pc = pc])
    BY <1>1, <2>1, <2>3 DEF Placed, Record
  <2> QED
    BY <1>1, <1>2, <2>1, <2>2, <2>4, GotoKeeps
<1>5. CASE Verify(h)
  BY <1>3, <1>5, <1>9 DEF Verify
<1>6. CASE Preflight(h)
  <2>1. Goto(h, "lookup") \/ ProviderRaises(h)
    BY <1>6 DEF Preflight
  <2> QED
    BY <1>4, <1>6, <1>9, <2>1
<1>7. CASE Lookup(h)
  BY <1>3, <1>4, <1>7 DEF Lookup
<1>8. CASE LookupAgain(h)
  <2>1. Answer(h, 200) \/ Answer(h, 429)
    BY <1>8 DEF LookupAgain
  <2> QED
    BY <1>3, <2>1
<1> QED
  BY <1>5, <1>6, <1>7, <1>8

\* claim_and_start_settle_attempt and provider.settle: whoever writes the
\* record is the only one that submits.
LEMMA SubmitKeeps ==
    ASSUME AdmissionInv, NEW h \in Handlers, ClaimRecord(h) \/ Submit(h)
    PROVE  AdmissionInv'
<1> DEFINE q == req[h]
<1>1. /\ req \in [Handlers -> Record] /\ q \in Record /\ Justified(q, seen[h])
      /\ q.pc \in {"claim", "submit"}
  BY OfHandler DEF ClaimRecord, Submit, At
<1>2. /\ q.pc \in Checked /\ q.pc \in Authenticated
  BY <1>1 DEF Authenticated, Checked
<1>3. CASE ClaimRecord(h) /\ q.payment \in recorded
  <2>1. Answer(h, 200) /\ UNCHANGED Shared
    BY <1>3 DEF ClaimRecord, Shared
  <2> QED
    BY <1>1, <1>2, <2>1, AnswerKeeps DEF Statuses, Refusals
<1>4. CASE ClaimRecord(h) /\ q.payment \notin recorded
  <2> DEFINE r == [q EXCEPT !.pc = "submit"]
  <2>1. /\ recorded' = recorded \cup {q.payment} /\ UNCHANGED <<active, paused, sent, seen>>
        /\ req' = [req EXCEPT ![h] = r] /\ q.pc = "claim"
    BY <1>1, <1>4 DEF ClaimRecord, Goto, At
  <2>2. "submit" \in Pcs
    BY DEF Pcs
  <2>3. /\ r \in Record /\ r.pc = "submit" /\ r.status = q.status /\ r.failure = q.failure
        /\ r.charges = q.charges /\ r.kinds = q.kinds
        /\ r.endpoint = q.endpoint /\ r.key = q.key /\ r.payment = q.payment
    BY <1>1, <2>2 DEF Record
  <2> HIDE DEF r
  <2>4. Justified(r, seen[h])
    BY <1>1, <2>1, <2>3 DEF Justified, Priced, Refusals, Placed, Witnessed, Checked, Authenticated
  <2>5. req' \in [Handlers -> Record]
    BY <1>1, <2>1, <2>3
  <2>6. AdmissionTypeOK'
    BY <1>1, <2>1, <2>5 DEF AdmissionInv, AdmissionTypeOK, Record, Failures, Statuses, Charges, Kinds
  <2>7. \A g \in Handlers : req'[g] = IF g = h THEN r ELSE req[g]
    BY <1>1, <2>1
  <2>8. \A g \in Handlers : Justified(req'[g], seen'[g])
    BY <2>1, <2>4, <2>7 DEF AdmissionInv
  <2>9. HistoryKept'
    BY <1>1, <2>1, <2>7 DEF AdmissionInv, HistoryKept, AllowedRoutes, Allows, At
  <2>10. \A g \in Handlers : At(g, "submit")' => req'[g].payment \in recorded' \ sent'
    BY <1>1, <1>4, <2>1, <2>3, <2>7 DEF AdmissionInv, AdmissionTypeOK, At
  <2>11. \A g, i \in Handlers :
            g # i /\ At(g, "submit")' /\ At(i, "submit")' => req'[g].payment # req'[i].payment
    BY <1>4, <2>3, <2>7 DEF AdmissionInv, At
  <2> QED
    BY <2>6, <2>8, <2>9, <2>10, <2>11 DEF AdmissionInv
<1>5. CASE Submit(h)
  <2>0. PICK st \in {200, 500} : Answer(h, st)
    BY <1>5 DEF Submit
  <2> DEFINE r == [q EXCEPT !.pc = "done", !.status = st]
  <2>1. /\ sent' = sent \cup {q.payment} /\ UNCHANGED <<active, paused, recorded, seen>>
        /\ q.pc = "submit" /\ Answer(h, st)
    BY <1>5, <2>0 DEF Submit, At
  <2>2. "done" \in Pcs /\ st \in Statuses
    BY DEF Pcs, Statuses
  <2>3. /\ r \in Record /\ r.pc = "done" /\ r.status = st /\ r.failure = q.failure
        /\ r.charges = q.charges /\ r.kinds = q.kinds
        /\ r.endpoint = q.endpoint /\ r.key = q.key /\ r.payment = q.payment
        /\ req' = [req EXCEPT ![h] = r]
    <3>1. req' = [req EXCEPT ![h] = r]
      BY <1>1, <2>1, WritesRecord
    <3> QED
      BY <1>1, <2>2, <3>1 DEF Record
  <2> HIDE DEF r
  <2>4. Justified(r, seen[h])
    BY <1>1, <2>1, <2>3 DEF Justified, Priced, Refusals, Placed, Witnessed, Checked, Authenticated
  <2>5. req' \in [Handlers -> Record]
    BY <1>1, <2>3
  <2>6. AdmissionTypeOK'
    BY <1>1, <2>1, <2>5 DEF AdmissionInv, AdmissionTypeOK, Record, Failures, Statuses, Charges, Kinds, At
  <2>7. \A g \in Handlers : req'[g] = IF g = h THEN r ELSE req[g]
    BY <1>1, <2>3
  <2>8. \A g \in Handlers : Justified(req'[g], seen'[g])
    BY <2>1, <2>4, <2>7 DEF AdmissionInv
  <2>9. HistoryKept'
    BY <1>1, <2>1, <2>7 DEF AdmissionInv, HistoryKept, AllowedRoutes, Allows, At
  <2>10. \A g \in Handlers : At(g, "submit")' => g # h /\ At(g, "submit") /\ req'[g] = req[g]
    BY <2>3, <2>7 DEF At
  <2>11. \A g \in Handlers : At(g, "submit")' => req'[g].payment \in recorded' \ sent'
    BY <2>1, <2>10 DEF AdmissionInv, At
  <2> QED
    BY <2>6, <2>8, <2>9, <2>10, <2>11 DEF AdmissionInv
<1> QED
  BY <1>3, <1>4, <1>5

\* A database that fails answers 500; a claim it may have committed submits
\* nothing.
LEMMA DatabaseFailsKeeps ==
    ASSUME AdmissionInv, NEW h \in Handlers, DatabaseFails(h)
    PROVE  AdmissionInv'
<1> DEFINE q == req[h]
           st == 500
           k == {}
           r == [q EXCEPT !.pc = "done", !.status = st, !.kinds = k]
<1>1. /\ req \in [Handlers -> Record] /\ q \in Record /\ Justified(q, seen[h])
      /\ q.pc \in {"resolve", "scan", "filter", "gate", "lookup", "relookup", "claim"}
      /\ UNCHANGED <<active, paused, sent, seen>>
  BY OfHandler DEF DatabaseFails
<1>2. "done" \in Pcs /\ st \in Statuses /\ k \in Kinds
  BY DEF Pcs, Statuses, Kinds
<1>3. req' = [req EXCEPT ![h] = r]
  <2>1. req' = [req EXCEPT ![h].pc = "done", ![h].status = st, ![h].kinds = k]
    BY DEF DatabaseFails
  <2> HIDE DEF st, k
  <2> QED
    BY <1>1, <2>1
<1>4. /\ r \in Record /\ r.pc = "done" /\ r.status = st /\ r.failure = q.failure
      /\ r.charges = q.charges /\ r.kinds = k
      /\ r.endpoint = q.endpoint /\ r.key = q.key /\ r.payment = q.payment
  <2> HIDE DEF st, k
  <2> QED
    BY <1>1, <1>2 DEF Record
<1> HIDE DEF r
<1>5. Justified(r, seen[h])
  BY <1>1, <1>4 DEF Justified, Priced, Refusals, Placed, Witnessed, Checked, Authenticated
<1>6. recorded \subseteq recorded' /\ recorded' \subseteq Payments
  BY <1>1 DEF DatabaseFails, AdmissionInv, AdmissionTypeOK, Record
<1>7. req' \in [Handlers -> Record] /\ \A g \in Handlers : req'[g] = IF g = h THEN r ELSE req[g]
  BY <1>1, <1>3, <1>4
<1>8. AdmissionTypeOK'
  BY <1>1, <1>6, <1>7 DEF AdmissionInv, AdmissionTypeOK, Record, Failures, Statuses, Charges, Kinds
<1>9. \A g \in Handlers : Justified(req'[g], seen'[g])
  BY <1>1, <1>5, <1>7 DEF AdmissionInv
<1>10. HistoryKept'
  BY <1>1, <1>7 DEF AdmissionInv, HistoryKept, AllowedRoutes, Allows, At
<1>11. \A g \in Handlers : At(g, "submit")' => g # h /\ At(g, "submit") /\ req'[g] = req[g]
  BY <1>4, <1>7 DEF At
<1>12. \A g \in Handlers : At(g, "submit")' => req'[g].payment \in recorded' \ sent'
  BY <1>1, <1>6, <1>11 DEF AdmissionInv, At
<1> QED
  BY <1>8, <1>9, <1>10, <1>11, <1>12 DEF AdmissionInv

\* A handler takes its next request, with nothing of the last one, and the
\* history of a request begins with the keys and pauses of that moment.
LEMMA RestartKeeps ==
    ASSUME AdmissionInv, NEW h \in Handlers,
           Finish(h) \/ \E input \in Inputs : Arrive(h, input)
    PROVE  AdmissionInv'
<1>1. req \in [Handlers -> Record] /\ req[h].pc \in {"idle", "done"}
  BY OfHandler DEF Finish, Arrive, At
<1>2. Idle \in Record
  <2>1. Idle.payment \in Payments
    BY AdmissionAssumption DEF Idle
  <2> QED
    BY <2>1 DEF Idle, Record, Pcs, Endpoints, Forms, Failures, Charges, Kinds, Statuses
<1>3. /\ Idle.pc = "idle" /\ Idle.failure = 0 /\ Idle.charges = {} /\ Idle.kinds = {}
      /\ Idle.status = 0
  BY DEF Idle
<1>4. \E r \in Record, s \in [routes: SUBSET Routes, keys: SUBSET (Keys \cup {NoKey})] :
        /\ req' = [req EXCEPT ![h] = r] /\ seen' = [seen EXCEPT ![h] = s]
        /\ Justified(r, s) /\ r.pc # "submit"
        /\ r.pc # "idle" => AllowedRoutes \subseteq s.routes /\ active \subseteq s.keys
  <2>1. CASE Finish(h)
    <3> DEFINE s == [routes |-> {}, keys |-> {}]
    <3>1. req' = [req EXCEPT ![h] = Idle] /\ seen' = [seen EXCEPT ![h] = s]
      BY <2>1 DEF Finish
    <3>2. Justified(Idle, s)
      BY <1>3 DEF Justified, Priced, Refusals, Placed, Witnessed, Checked, Authenticated
    <3>3. s \in [routes: SUBSET Routes, keys: SUBSET (Keys \cup {NoKey})]
      OBVIOUS
    <3> QED
      BY <1>2, <1>3, <3>1, <3>2, <3>3
  <2>2. CASE \E input \in Inputs : Arrive(h, input)
    <3> PICK input \in Inputs : Arrive(h, input)
      BY <2>2
    <3> DEFINE bad == input.form \in {"malformed", "version"}
               f == IF bad THEN 400 ELSE 0
               pc == IF bad THEN "penalize" ELSE "resolve"
               r == [Idle EXCEPT !.endpoint = input.endpoint, !.key = input.key,
                                 !.payment = input.payment, !.form = input.form,
                                 !.failure = f, !.pc = pc]
               s == [routes |-> AllowedRoutes, keys |-> active]
    <3>1. req' = [req EXCEPT ![h] = r] /\ seen' = [seen EXCEPT ![h] = s]
      BY DEF Arrive
    <3>2. /\ input.endpoint \in Endpoints /\ input.key \in Keys \cup {NoKey}
          /\ input.payment \in Payments /\ input.form \in Forms
      BY AdmissionAssumption
    <3>3. f \in Failures /\ pc \in Pcs /\ (pc = "penalize" <=> f = 400) /\ (pc # "penalize" => f = 0)
          /\ pc \in {"penalize", "resolve"}
      BY DEF Failures, Pcs
    <3>4. r \in Record /\ r.pc = pc /\ r.failure = f /\ r.charges = {} /\ r.kinds = {} /\ r.status = 0
      <4> HIDE DEF f, pc
      <4> QED
        BY <1>2, <1>3, <3>2, <3>3 DEF Record
    <3>5. s \in [routes: SUBSET Routes, keys: SUBSET (Keys \cup {NoKey})]
      BY DEF AdmissionInv, AdmissionTypeOK, AllowedRoutes
    <3>6. AllowedRoutes \subseteq s.routes /\ active \subseteq s.keys
      OBVIOUS
    <3> HIDE DEF r, s, f, pc
    <3>7. Justified(r, s)
      BY <3>3, <3>4 DEF Justified, Priced, Refusals, Placed, Witnessed, Checked, Authenticated
    <3> QED
      BY <3>1, <3>3, <3>4, <3>5, <3>6, <3>7
  <2> QED
    BY <2>1, <2>2
<1>5. PICK r \in Record, s \in [routes: SUBSET Routes, keys: SUBSET (Keys \cup {NoKey})] :
        /\ req' = [req EXCEPT ![h] = r] /\ seen' = [seen EXCEPT ![h] = s]
        /\ Justified(r, s) /\ r.pc # "submit"
        /\ r.pc # "idle" => AllowedRoutes \subseteq s.routes /\ active \subseteq s.keys
  BY <1>4
<1>6. UNCHANGED <<active, paused, recorded, sent>>
  BY DEF Finish, Arrive
<1>7. /\ req' \in [Handlers -> Record]
      /\ seen' \in [Handlers -> [routes: SUBSET Routes, keys: SUBSET (Keys \cup {NoKey})]]
  BY <1>1, <1>5 DEF AdmissionInv, AdmissionTypeOK
<1>8. AdmissionTypeOK'
  BY <1>6, <1>7 DEF AdmissionInv, AdmissionTypeOK, Record, Failures, Statuses, Charges, Kinds
<1>9. \A g \in Handlers : /\ req'[g] = IF g = h THEN r ELSE req[g]
                          /\ seen'[g] = IF g = h THEN s ELSE seen[g]
  BY <1>1, <1>5 DEF AdmissionInv, AdmissionTypeOK
<1>10. \A g \in Handlers : Justified(req'[g], seen'[g])
  BY <1>5, <1>9 DEF AdmissionInv
<1>11. HistoryKept'
  BY <1>5, <1>6, <1>9 DEF AdmissionInv, HistoryKept, AllowedRoutes, Allows, At
<1>12. \A g \in Handlers : At(g, "submit")' => g # h /\ At(g, "submit") /\ req'[g] = req[g]
  BY <1>5, <1>9 DEF At
<1> QED
  BY <1>6, <1>8, <1>10, <1>11, <1>12 DEF AdmissionInv, At

\* What operators do to pauses and keys is seen by every request under way,
\* and takes nothing back that a request was seen to be allowed.
LEMMA OperatorKeeps ==
    ASSUME AdmissionInv,
           \/ \E t \in Targets, b \in BOOLEAN : SetPause(t, b)
           \/ \E k \in Keys, b \in BOOLEAN : SetKey(k, b)
    PROVE  AdmissionInv'
<1> DEFINE S == [routes: SUBSET Routes, keys: SUBSET (Keys \cup {NoKey})]
<1>1. PICK R \in SUBSET Routes, K \in SUBSET (Keys \cup {NoKey}) :
        /\ SeeAlso(R, K) /\ UNCHANGED <<req, recorded, sent>>
        /\ paused' \subseteq Targets /\ active' \subseteq Keys \cup {NoKey}
        /\ \/ R = AllowedRoutes' /\ active' = active
           \/ K = active' /\ paused' = paused
  <2>1. CASE \E t \in Targets, b \in BOOLEAN : SetPause(t, b)
    <3> PICK t \in Targets, b \in BOOLEAN : SetPause(t, b)
      BY <2>1
    <3>1. SeeAlso(AllowedRoutes', {}) /\ AllowedRoutes' \in SUBSET Routes
      BY DEF SetPause, AllowedRoutes, Allows
    <3>2. UNCHANGED <<req, active, recorded, sent>> /\ paused' \subseteq Targets
      BY DEF SetPause, AdmissionInv, AdmissionTypeOK
    <3>3. active' \subseteq Keys \cup {NoKey}
      BY <3>2 DEF AdmissionInv, AdmissionTypeOK
    <3> QED
      BY <3>1, <3>2, <3>3
  <2>2. CASE \E k \in Keys, b \in BOOLEAN : SetKey(k, b)
    <3> PICK k \in Keys, b \in BOOLEAN : SetKey(k, b)
      BY <2>2
    <3>1. SeeAlso({}, active') /\ UNCHANGED <<req, paused, recorded, sent>>
      BY DEF SetKey
    <3>2. active' \subseteq Keys \cup {NoKey} /\ paused' \subseteq Targets
      BY DEF SetKey, AdmissionInv, AdmissionTypeOK
    <3> QED
      BY <3>1, <3>2
  <2> QED
    BY <2>1, <2>2
<1>2. \A h \in Handlers : /\ seen[h] \in S /\ seen'[h] \in S
                          /\ seen[h].routes \subseteq seen'[h].routes
                          /\ seen[h].keys \subseteq seen'[h].keys
                          /\ ~At(h, "idle") => /\ R \subseteq seen'[h].routes
                                               /\ K \subseteq seen'[h].keys
  BY <1>1 DEF SeeAlso, AdmissionInv, AdmissionTypeOK
<1>3. seen' \in [Handlers -> S]
  BY <1>1, <1>2 DEF SeeAlso
<1>4. AdmissionTypeOK'
  BY <1>1, <1>3 DEF AdmissionInv, AdmissionTypeOK
<1>5. \A h \in Handlers : Justified(req'[h], seen'[h])
  BY <1>1, <1>2 DEF AdmissionInv, Justified, Witnessed
<1>6. HistoryKept'
  <2> SUFFICES ASSUME NEW h \in Handlers, ~At(h, "idle")
               PROVE  AllowedRoutes' \subseteq seen'[h].routes /\ active' \subseteq seen'[h].keys
    BY <1>1 DEF HistoryKept, At
  <2>1. CASE R = AllowedRoutes' /\ active' = active
    BY <1>2, <2>1 DEF AdmissionInv, HistoryKept
  <2>2. CASE K = active' /\ paused' = paused
    <3>1. AllowedRoutes' = AllowedRoutes
      BY <2>2 DEF AllowedRoutes, Allows
    <3> QED
      BY <1>2, <2>2, <3>1 DEF AdmissionInv, HistoryKept
  <2> QED
    BY <1>1, <2>1, <2>2
<1> QED
  BY <1>1, <1>4, <1>5, <1>6 DEF AdmissionInv, At

-----------------------------------------------------------------------------
\* Nothing has happened in a handler that has no request yet.
LEMMA InitAdmission == ASSUME Init PROVE AdmissionInv
<1> DEFINE S == [routes: SUBSET Routes, keys: SUBSET (Keys \cup {NoKey})]
<1>1. Idle \in Record
  <2>1. Idle.payment \in Payments
    BY AdmissionAssumption DEF Idle
  <2> QED
    BY <2>1 DEF Idle, Record, Pcs, Endpoints, Forms, Failures, Charges, Kinds, Statuses
<1>2. /\ req \in [Handlers -> Record] /\ seen \in [Handlers -> S]
      /\ \A h \in Handlers : req[h] = Idle
  BY <1>1 DEF Init
<1>3. AdmissionTypeOK
  BY <1>2 DEF Init, AdmissionTypeOK, Record, Failures, Statuses, Charges, Kinds
<1>4. \A s : Justified(Idle, s)
  BY DEF Idle, Justified, Priced, Refusals, Placed, Witnessed, Checked, Authenticated
<1>5. Idle.pc = "idle"
  BY DEF Idle
<1> QED
  BY <1>2, <1>3, <1>4, <1>5 DEF AdmissionInv, HistoryKept, At

\* Every step keeps the invariant.
LEMMA NextAdmission == ASSUME AdmissionInv, [Next]_vars PROVE AdmissionInv'
<1>1. CASE \E h \in Handlers : (\E input \in Inputs : Arrive(h, input)) \/ Handle(h)
  <2> PICK h \in Handlers : (\E input \in Inputs : Arrive(h, input)) \/ Handle(h)
    BY <1>1
  <2>1. CASE Handle(h) /\ ~Finish(h)
    BY <2>1, PenalizeKeeps, ResolveKeeps, EnforceKeeps, LimiterFailsKeeps, SupportedKeeps,
       RouteKeeps, LookupKeeps, ChargeKeeps, SubmitKeeps, DatabaseFailsKeeps DEF Handle
  <2> QED
    BY <2>1, RestartKeeps
<1>2. CASE \/ \E t \in Targets, b \in BOOLEAN : SetPause(t, b)
           \/ \E k \in Keys, b \in BOOLEAN : SetKey(k, b)
  BY <1>2, OperatorKeeps
<1>3. CASE UNCHANGED vars
  <2>1. UNCHANGED <<req, active, paused, recorded, sent, seen>>
    BY <1>3 DEF vars
  <2>2. HistoryKept' /\ AdmissionTypeOK'
    BY <2>1 DEF AdmissionInv, HistoryKept, AllowedRoutes, Allows, At, AdmissionTypeOK
  <2> QED
    BY <2>1, <2>2 DEF AdmissionInv, At
<1> QED
  BY <1>1, <1>2, <1>3 DEF Next

\* The inductive invariant holds.
LEMMA AdmissionInductive == Spec => []AdmissionInv
BY InitAdmission, NextAdmission, PTL DEF Spec

\* The answers of supported, verify and settle are justified: a request is
\* refused as invalid only when it has paid, nothing is done on a route that
\* stayed paused or for a key that stayed revoked, and no payment is submitted
\* by two handlers or uncharged, however many handlers, operators and
\* revocations interleave.
THEOREM AnswersAreJustified == Spec => []AnswersJustified
<1>1. ASSUME AdmissionInv PROVE AnswersJustified
  <2>1. AdmissionTypeOK /\ InvalidRequestsPay
    BY <1>1 DEF AdmissionInv, Justified, Priced, Refusals, InvalidRequestsPay, At
  <2>2. PausedAndRevokedRefused
    BY <1>1 DEF AdmissionInv, Justified, Placed, Witnessed, Checked, Authenticated, At,
                PausedAndRevokedRefused
  <2>3. SubmissionsExclusive
    BY <1>1 DEF AdmissionInv, Justified, At, SubmissionsExclusive
  <2> QED
    BY <2>1, <2>2, <2>3 DEF AnswersJustified
<1> QED
  BY <1>1, AdmissionInductive, PTL

\* Which status a handler has after an answer, and that the others keep theirs.
LEMMA StatusAfter ==
    ASSUME req \in [Handlers -> Record], NEW h \in Handlers, NEW g \in Handlers, NEW x
    PROVE  /\ Answer(h, x) => req'[g].status = IF g = h THEN x ELSE req[g].status
           /\ Goto(h, x) => req'[g].status = req[g].status
           /\ Fail(h, x) => req'[g].status = req[g].status
<1>1. Answer(h, x) => req'[g].status = IF g = h THEN x ELSE req[g].status
  BY DEF Answer, Record
<1>2. Goto(h, x) => req'[g].status = req[g].status
  BY DEF Goto, Record
<1>3. Fail(h, x) => req'[g].status = req[g].status
  BY DEF Fail, Record
<1> QED
  BY <1>1, <1>2, <1>3

\* A handler answers 429 where the limiter is asked for an invalid request or
\* for supported and verify, or where a refused submission is looked up again
\* and not found; and a step of one handler leaves the others alone.
LEMMA LimitedWhere ==
    ASSUME AdmissionInv, NEW h \in Handlers, NEW g \in Handlers, req[g].status # 429,
           (\E input \in Inputs : Arrive(h, input)) \/ Handle(h), req'[g].status = 429
    PROVE  /\ g = h
           /\ \/ req[h].pc \in {"penalize", "limit"}
              \/ req[h].pc = "relookup" /\ req[h].payment \notin recorded
<1>1. req \in [Handlers -> Record]
  BY OfHandler
<1>2. /\ \A x \in Nat \ {429} : ~Answer(h, x)
      /\ \A x : ~Goto(h, x) /\ ~Fail(h, x)
      /\ Answer(h, 429) => g = h
  BY <1>1, StatusAfter
<1>3. CASE \E input \in Inputs : Arrive(h, input)
  <2> PICK input \in Inputs : Arrive(h, input)
    BY <1>3
  <2> DEFINE bad == input.form \in {"malformed", "version"}
             f == IF bad THEN 400 ELSE 0
             pc == IF bad THEN "penalize" ELSE "resolve"
             r == [Idle EXCEPT !.endpoint = input.endpoint, !.key = input.key,
                               !.payment = input.payment, !.form = input.form,
                               !.failure = f, !.pc = pc]
  <2>1. req' = [req EXCEPT ![h] = r]
    BY DEF Arrive
  <2> HIDE DEF f, pc
  <2>2. r.status = 0
    BY DEF Idle
  <2> HIDE DEF r
  <2> QED
    BY <1>1, <2>1, <2>2
<1>4. CASE Finish(h)
  BY <1>1, <1>4 DEF Finish, Idle
<1>5. CASE Penalize(h) \/ EnforceRateLimit(h)
  <2>1. req'[g] # req[g]
    OBVIOUS
  <2> QED
    BY <1>1, <1>2, <1>5, <2>1 DEF Penalize, EnforceRateLimit, At
<1>6. CASE LimiterFails(h) \/ DatabaseFails(h)
  BY <1>1, <1>6 DEF LimiterFails, DatabaseFails, Record
<1>7. CASE ScanProviders(h) \/ FilterKinds(h)
  <2>1. ~Answer(h, 200)
    BY <1>2
  <2>2. CASE ScanProviders(h)
    BY <1>1, <2>1, <2>2 DEF ScanProviders, Record
  <2>3. CASE FilterKinds(h)
    BY <1>1, <2>3 DEF FilterKinds, Record
  <2> QED
    BY <1>7, <2>2, <2>3
<1>8. CASE ChargeSubmission(h)
  BY <1>1, <1>2, <1>8 DEF ChargeSubmission, Record
<1>9. CASE LookupAgain(h)
  BY <1>2, <1>9 DEF LookupAgain, At
<1>10. ~(Resolve(h) \/ Validate(h))
  BY <1>2 DEF Resolve, Validate
<1>11. ~(Gate(h) \/ Verify(h) \/ Preflight(h) \/ Lookup(h))
  BY <1>2 DEF Gate, Verify, Preflight, ProviderRaises, Lookup
<1>12. ~(ClaimRecord(h) \/ Submit(h))
  BY <1>2 DEF ClaimRecord, Submit
<1> QED
  BY <1>3, <1>4, <1>5, <1>6, <1>7, <1>8, <1>9, <1>10, <1>11, <1>12 DEF Handle

\* A settle request whose payment is recorded is never refused by the settle
\* limit: not by the limiter, and not by the penalty, which only an invalid
\* request gets.
THEOREM RecordedPaymentsAnswered == Spec => RecordedNeverLimited
<1> DEFINE A == \A h \in Handlers :
                  req[h].endpoint = "settle" /\ req[h].failure = 0 /\ req[h].status # 429
                     /\ req'[h].status = 429 =>
                  req[h].payment \notin recorded
<1>1. ASSUME AdmissionInv, [Next]_vars PROVE [A]_vars
  <2> SUFFICES ASSUME NEW g \in Handlers, req[g].endpoint = "settle", req[g].failure = 0,
                      req[g].status # 429, req'[g].status = 429
               PROVE  req[g].payment \notin recorded
    OBVIOUS
  <2>1. PICK h \in Handlers : (\E input \in Inputs : Arrive(h, input)) \/ Handle(h)
    BY <1>1 DEF Next, SetPause, SetKey, vars
  <2>2. req[g].pc \notin {"penalize", "limit"}
    BY <1>1, OfHandler DEF Justified, Priced, Refusals, Placed
  <2> QED
    BY <1>1, <2>1, <2>2, LimitedWhere
<1> QED
  BY <1>1, AdmissionInductive, PTL DEF Spec, RecordedNeverLimited
=============================================================================
