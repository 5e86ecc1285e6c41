-------------------------- MODULE OperatorControl --------------------------
(***************************************************************************)
(* The operator's reconciliation actions on one settlement record: claim,  *)
(* release and manual review, as HTTP requests that wait for the row lock  *)
(* with a clock they have read before, write the record and the audit      *)
(* event in one transaction, and read the record back for their answer,    *)
(* while workers claim the record, the engine finishes it, connections are *)
(* lost and processes crash.                                               *)
(*                                                                         *)
(* Settlement takes these actions as atomic; this module is about why it   *)
(* may, and about the audit trail.  Authorisation is OpsAuth's.            *)
(***************************************************************************)
EXTENDS Integers, Sequences, SequencesExt

CONSTANTS
    Requests,       \* HTTP requests, each made once
    Operators,      \* the lease owners of operators
    OpOf,           \* OpOf[r]: who makes request r; one may make several
    Workers,        \* reconcilers, each its own lease owner
    LeaseSeconds,   \* lease_seconds of a request
    OperatorStale,  \* _OPERATOR_ACTIVE_CLAIM_STALE_SECONDS
    WorkerLease,    \* the lease of a worker
    StaleAfter,     \* StaleAfter[s]: how old a worker wants a record in s
    MaxClock,       \* bound on time
    None

Claimable == {"unknown", "manual_review", "submitted", "settle_in_progress"}
Active == {"submitted", "settle_in_progress"}
Scanned == {"settle_in_progress", "submitted", "unknown"}

ASSUME OperatorControlAssumption ==
    /\ {LeaseSeconds, WorkerLease} \subseteq Nat \ {0}
    /\ {OperatorStale, MaxClock} \subseteq Nat
    /\ StaleAfter \in [Scanned -> Nat]
    /\ OpOf \in [Requests -> Operators]
    /\ Operators \cap Workers = {} /\ None \notin Operators \cup Workers \cup Requests

VARIABLES
    clock,
    rec,        \* the committed row; until is 0 for NULL
    lock,       \* the request that has the row locked
    trail,      \* the record's rows of control_plane_audit_events, by id
    req,        \* req[r]: a request between its steps
    work,       \* work[w]: a worker's readings of the clock
    engine      \* whether the engine has still to finish the record

vars == <<clock, rec, lock, trail, req, work, engine>>

Actions == {"claim", "release", "manual_review"}

\* a request that has nothing in hand
At(pc) == [pc |-> pc, action |-> "none", now |-> 0]

IdleWorker == [pc |-> "idle", run |-> 0, now |-> 0, until |-> 0]

Init ==
    /\ clock = 0
    /\ \E s \in Scanned \cup {"absent"} :
          rec = [status |-> s, owner |-> None, until |-> 0, updated |-> 0]
    /\ lock = None
    /\ trail = <<>>
    /\ req = [r \in Requests |-> At("new")]
    /\ work = [w \in Workers |-> IdleWorker]
    /\ engine = (rec.status = "settle_in_progress")

-----------------------------------------------------------------------------
(***************************************************************************)
(* The request.                                                            *)
(***************************************************************************)
\* refused before the store: not authorised, writes disabled, bad payload,
\* or no connection to be had
Deny(r) ==
    /\ req[r].pc = "new"
    /\ \E answer \in {"4xx", "409", "503"} : req' = [req EXCEPT ![r] = At(answer)]
    /\ UNCHANGED <<clock, rec, lock, trail, work, engine>>

\* _apply_reconciliation_action and apply_reconciliation_control_action read
\* the clock, three times with nothing in between, begin a transaction and
\* wait for the row.
Ask(r, action) ==
    /\ req[r].pc = "new"
    /\ req' = [req EXCEPT ![r] = [pc |-> "waiting", action |-> action, now |-> clock]]
    /\ UNCHANGED <<clock, rec, lock, trail, work, engine>>

\* the checks of _claim_..., _release_... and _manual_review_..._locked
MayClaim(q) ==
    /\ rec.status \in Claimable
    /\ rec.status \in Active => rec.updated <= q.now - OperatorStale
    /\ rec.until <= q.now

MayReview(q, o) == rec.status = "unknown" /\ rec.owner = o /\ rec.until > q.now

Allowed(q, o) ==
    \/ q.action = "claim" /\ MayClaim(q)
    \/ q.action = "release" /\ rec.owner = o
    \/ q.action = "manual_review" /\ MayReview(q, o)

\* and their updates
Updated(q, o) ==
    CASE q.action = "claim" ->
            [rec EXCEPT !.owner = o, !.until = q.now + LeaseSeconds, !.updated = q.now]
      [] q.action = "release" -> [rec EXCEPT !.owner = None, !.until = 0, !.updated = q.now]
      [] q.action = "manual_review" ->
            [status |-> "manual_review", owner |-> None, until |-> 0, updated |-> q.now]

\* reads the row without FOR UPDATE
MutantLockRow(r) ==
    /\ req[r].pc = "waiting" /\ Allowed(req[r], OpOf[r])
    /\ lock' = r
    /\ req' = [req EXCEPT ![r].pc = "written"]
    /\ UNCHANGED <<clock, rec, trail, work, engine>>

\* SELECT ... FOR UPDATE, the checks, the UPDATE and the audit row, none of
\* which is seen before the commit
LockRow(r) ==
    /\ req[r].pc = "waiting" /\ lock = None /\ Allowed(req[r], OpOf[r])
    /\ lock' = r
    /\ req' = [req EXCEPT ![r].pc = "written"]
    /\ UNCHANGED <<clock, rec, trail, work, engine>>

\* leaves its transaction open
MutantRefuse(r) ==
    /\ req[r].pc = "waiting" /\ lock = None /\ ~Allowed(req[r], OpOf[r])
    /\ lock' = r
    /\ req' = [req EXCEPT ![r] = At(IF rec.status = "absent" THEN "404" ELSE "409")]
    /\ UNCHANGED <<clock, rec, trail, work, engine>>

\* a check fails, or there is no such record: rolled back
Refuse(r) ==
    /\ req[r].pc = "waiting" /\ lock = None /\ ~Allowed(req[r], OpOf[r])
    /\ req' = [req EXCEPT ![r] = At(IF rec.status = "absent" THEN "404" ELSE "409")]
    /\ UNCHANGED <<clock, rec, lock, trail, work, engine>>

Event(r) == [id |-> r, action |-> req[r].action, op |-> OpOf[r]]

\* the answer of the server is lost, or it comes
Committed(r, pc) ==
    /\ req[r].pc = "written"
    /\ rec' = Updated(req[r], OpOf[r])
    /\ trail' = Append(trail, Event(r))
    /\ lock' = None
    /\ req' = [req EXCEPT ![r] = At(pc)]
    /\ UNCHANGED <<clock, work, engine>>

Commit(r) == Committed(r, "committed")

CommitLost(r) == Committed(r, "503")

\* an update that outlives the failure of the audit row
MutantAbort(r) ==
    /\ req[r].pc = "written"
    /\ rec' = Updated(req[r], OpOf[r])
    /\ lock' = None
    /\ req' = [req EXCEPT ![r] = At("503")]
    /\ UNCHANGED <<clock, trail, work, engine>>

\* the audit row or the connection fails before the commit: rolled back
Abort(r) ==
    /\ req[r].pc = "written"
    /\ lock' = None
    /\ req' = [req EXCEPT ![r] = At("503")]
    /\ UNCHANGED <<clock, rec, trail, work, engine>>

\* _settlement_detail of the record, and the answer; or it fails
Detail(r) ==
    /\ req[r].pc = "committed"
    /\ \E answer \in {"200", "503"} : req' = [req EXCEPT ![r] = At(answer)]
    /\ UNCHANGED <<clock, rec, lock, trail, work, engine>>

\* the process dies: the server rolls back what is open
Crash(r) ==
    /\ req[r].pc \in {"waiting", "written", "committed"}
    /\ lock' = IF lock = r THEN None ELSE lock
    /\ req' = [req EXCEPT ![r] = At("gone")]
    /\ UNCHANGED <<clock, rec, trail, work, engine>>

-----------------------------------------------------------------------------
(***************************************************************************)
(* The others who write the record, each with one statement that waits for *)
(* the row lock.                                                           *)
(***************************************************************************)
\* A run that began some time ago comes to the record: staleness and lease
\* count from its beginning, claim_reconciliation_record reads the clock again.
WorkerReads(w) ==
    /\ work[w].pc = "idle"
    /\ \E begun \in 0..clock :
          work' = [work EXCEPT ![w] =
                     [pc |-> "claiming", run |-> begun, now |-> clock, until |-> begun + WorkerLease]]
    /\ UNCHANGED <<clock, rec, lock, trail, req, engine>>

\* CLAIM_RECONCILIATION_RECORD_SQL
WorkerClaims(w) ==
    /\ work[w].pc = "claiming" /\ lock = None
    /\ LET claimed == /\ rec.status \in Scanned
                      /\ rec.updated <= work[w].run - StaleAfter[rec.status]
                      /\ rec.until <= work[w].now
       IN  /\ rec' = IF claimed THEN [rec EXCEPT !.owner = w, !.until = work[w].until] ELSE rec
           /\ work' = [work EXCEPT ![w] =
                          IF claimed THEN [IdleWorker EXCEPT !.pc = "holds", !.until = work[w].until]
                          ELSE IdleWorker]
    /\ UNCHANGED <<clock, lock, trail, req, engine>>

\* expected_statuses of the mark_reconciled_... methods
ReconcileFrom(s) ==
    CASE s = "settled" -> Scanned
      [] s = "settle_failed" -> {"unknown", "settle_in_progress"}
      [] s = "unknown" -> Active
      [] OTHER -> {"unknown"}

\* the provider has answered, and _update_reconciliation_record reads the clock
WorkerDecides(w) ==
    /\ work[w].pc = "holds"
    /\ work' = [work EXCEPT ![w].pc = "writing", ![w].now = clock]
    /\ UNCHANGED <<clock, rec, lock, trail, req, engine>>

\* its UPDATE, or nothing: the answer is pending, or the lease is no more what
\* it was
WorkerEnds(w) ==
    /\ work[w].pc = "writing" /\ lock = None
    /\ \/ UNCHANGED rec
       \/ /\ rec.owner = w /\ rec.until = work[w].until /\ rec.until > work[w].now
          /\ \E s \in {"settled", "settle_failed", "unknown", "manual_review"} :
                /\ rec.status \in ReconcileFrom(s)
                /\ rec' = [status |-> s, owner |-> None, until |-> 0, updated |-> work[w].now]
    /\ work' = [work EXCEPT ![w] = IdleWorker]
    /\ UNCHANGED <<clock, lock, trail, req, engine>>

FinishFrom(s) ==
    IF s \in {"settled", "unknown"} THEN Active ELSE {"settle_in_progress"}

\* mark_record_and_finish_settle_attempt; it is refused when the record has
\* moved on
EngineFinishes ==
    /\ engine /\ lock = None
    /\ \E s \in {"settled", "submitted", "settle_failed", "unknown"} :
          rec' = IF rec.status \in FinishFrom(s)
                 THEN [status |-> s, owner |-> None, until |-> 0, updated |-> clock]
                 ELSE rec
    /\ engine' = FALSE
    /\ UNCHANGED <<clock, lock, trail, req, work>>

Tick ==
    /\ clock < MaxClock
    /\ clock' = clock + 1
    /\ UNCHANGED <<rec, lock, trail, req, work, engine>>

-----------------------------------------------------------------------------
Next ==
    \/ \E r \in Requests :
          \/ Deny(r) \/ LockRow(r) \/ Refuse(r)
          \/ Commit(r) \/ CommitLost(r) \/ Abort(r) \/ Detail(r) \/ Crash(r)
          \/ \E action \in Actions : Ask(r, action)
    \/ \E w \in Workers : WorkerReads(w) \/ WorkerClaims(w) \/ WorkerDecides(w) \/ WorkerEnds(w)
    \/ EngineFinishes \/ Tick

\* a request is granted its row, or told that there is none; and goes on then
Granted(r) == LockRow(r) \/ Refuse(r)
GoesOn(r) == Commit(r) \/ CommitLost(r) \/ Abort(r) \/ Detail(r)

\* Requests are run, and the server gives a free row to each who waits.
Fairness == \A r \in Requests : SF_vars(Granted(r)) /\ WF_vars(GoesOn(r))

Spec == Init /\ [][Next]_vars /\ Fairness

-----------------------------------------------------------------------------
Refused == {"4xx", "404", "409"}

\* Domains of the state; a record is never dated later than now.
OperatorControlTypeOK ==
    /\ clock \in 0..MaxClock
    /\ rec.status \in Claimable \cup {"absent", "settled", "settle_failed"}
    /\ rec.owner \in Operators \cup Workers \cup {None}
    /\ rec.until \in Nat /\ rec.updated \in 0..clock
    /\ lock \in Requests \cup {None}
    /\ \A r \in Requests :
          req[r].pc \in Refused \cup {"new", "waiting", "written", "committed", "200", "503", "gone"}

EventsOf(r) == {i \in DOMAIN trail : trail[i].id = r}

(***************************************************************************)
(* Every operator write is audited, as the design document has it, and     *)
(* nothing else: an action answered 200 has one event and one that was     *)
(* refused none, an event is of an action that was not refused, and the    *)
(* trail, read in the order of its ids, accounts for the record: an        *)
(* operator who holds it is the one of the last event, a claim, and who    *)
(* released or reviewed it had claimed it in the event before.             *)
(***************************************************************************)
AuditExact ==
    /\ \A r \in Requests :
          /\ req[r].pc \in {"200", "committed"} => EventsOf(r) # {}
          /\ req[r].pc \in Refused => EventsOf(r) = {}
          /\ \A i, j \in EventsOf(r) : i = j
    /\ rec.owner \in Operators =>
          trail # <<>> /\ Last(trail).action = "claim" /\ Last(trail).op = rec.owner
    /\ \A i \in DOMAIN trail :
          trail[i].action # "claim" =>
              i > 1 /\ trail[i - 1].action = "claim" /\ trail[i - 1].op = trail[i].op

(***************************************************************************)
(* What operators did to the record is what the trail says.                *)
(***************************************************************************)
OperatorAudited == OperatorControlTypeOK /\ AuditExact

(***************************************************************************)
(* A lease that runs is respected: it ends early only when its owner       *)
(* releases it or the record moves on, and nobody, deciding by a clock he  *)
(* read before he waited for the row, takes it over.                       *)
(***************************************************************************)
LeaseRespected ==
    [][rec.owner # None /\ rec.until > clock /\ rec'.owner # rec.owner =>
          \/ rec'.status # rec.status
          \/ rec'.owner = None /\ trail' # trail /\ Last(trail').op = rec.owner]_vars

(***************************************************************************)
(* Every action comes to an answer: whoever has the row, on whatever path  *)
(* he leaves, gives it back.                                               *)
(***************************************************************************)
ActionsEnd ==
    \A r \in Requests : []<>(req[r].pc \in {"new"} \cup Refused \cup {"200", "503", "gone"})
=============================================================================
