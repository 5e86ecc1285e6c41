----------------------------- MODULE Settlement -----------------------------
(***************************************************************************)
(* The life of a settlement record in the hosted facilitator: the settle   *)
(* requests of the engine, the reconciler's batches and the operator's     *)
(* control actions, interleaved over the Postgres settlement store, with   *)
(* the payment provider as an external party that may act and answer late. *)
(*                                                                         *)
(* Payments are the keys the store is unique on (seller account, provider, *)
(* scheme, network, fingerprint).  Every action on the store is one        *)
(* database transaction of the code; a request or a worker may be delayed, *)
(* or crash, between any two of them.                                      *)
(*                                                                         *)
(* Time is relative, so that it never has to be bounded: age is the time   *)
(* since updated_at, lease the time left until reconciliation_lease_until  *)
(* (0 when the column is NULL or past: no guard of the code tells these    *)
(* apart), elapsed the time since the run_once that a worker is in read    *)
(* its clock.  age stops counting at AgeBound and elapsed at LeaseTime,    *)
(* past which no guard changes its answer.                                 *)
(***************************************************************************)
EXTENDS Integers, FiniteSets

CONSTANTS
    Payments,          \* identities of payments
    Requests,          \* concurrent POST /settle handlers
    Workers,           \* reconciler processes
    Operators,         \* control-plane operators, each its own lease owner
    OwnerOf,           \* the lease owner each worker is configured with
    NoOwner,           \* reconciliation_owner IS NULL
    NoPayment,         \* an idle request or worker
    StaleInProgress, StaleSubmitted, StaleUnknown,
    ManualAfter, LeaseTime,
    OperatorStale, OperatorLeases,
    BatchLimit,        \* records per run_once
    AgeBound           \* where age stops counting

ASSUME ConstantsAssumption ==
    /\ StaleInProgress \in Nat \ {0}
    /\ StaleSubmitted \in Nat \ {0}
    /\ StaleUnknown \in Nat \ {0}
    /\ ManualAfter \in Nat
    /\ LeaseTime \in Nat \ {0}
    /\ OperatorStale \in Nat
    /\ OperatorLeases \subseteq Nat \ {0}
    /\ BatchLimit \in Nat \ {0}
    /\ AgeBound \in Nat
    /\ AgeBound >= ManualAfter + LeaseTime
    /\ AgeBound >= StaleInProgress + LeaseTime
    /\ AgeBound >= StaleSubmitted + LeaseTime
    /\ AgeBound >= StaleUnknown + LeaseTime
    /\ AgeBound >= OperatorStale

\* An operator's lease owner carries a digest of issuer and subject, so it is
\* never the name of a reconciler; reconcilers may share theirs (one setting
\* for all of them, or the default where HOSTNAME is not set).
ASSUME OwnersAssumption ==
    /\ \A w \in Workers : OwnerOf[w] \notin Operators \cup {NoOwner}
    /\ NoOwner \notin Operators
    /\ NoPayment \notin Payments

VARIABLES
    \* settlement_records, one row per payment
    status, txn, age, lease, owner,
    \* settlement_attempts: the row inserted together with the record
    attempt,
    \* the provider: what became of the payment, and how often it was asked
    chain, calls,
    \* the settle handlers, and what clients were answered so far
    request, told,
    \* the reconcilers
    worker

storeVars == <<status, txn, age, lease, owner, attempt>>
providerVars == <<chain, calls>>
engineVars == <<request, told>>
vars == <<storeVars, providerVars, engineVars, worker>>
-----------------------------------------------------------------------------
Open == {"settle_in_progress", "submitted", "unknown"}
Final == {"settled", "settle_failed", "manual_review"}
Status == {"absent"} \cup Open \cup Final
AttemptStatus == {"none", "started", "settled", "submitted", "failed", "unknown"}

\* What provider.settle and provider.reconcile_settlement may hand back; tx
\* says whether the answer carries a transaction.
SettleAnswer ==
    [status: {"exception", "unknown", "settled", "submitted", "failed_final"}, tx: BOOLEAN]
ReconcileAnswer ==
    [status: {"exception", "unregistered", "pending", "unknown", "manual_review",
              "settled", "failed_final"}, tx: BOOLEAN]
NoAnswer == [status |-> "none", tx |-> FALSE]

Reply == {"settled", "submitted", "failed_final", "unknown"}

IdleRequest == [pc |-> "idle", pay |-> NoPayment, answer |-> NoAnswer]
RequestState ==
    [pc: {"idle", "checked", "claimed", "calling", "answered"},
     pay: Payments \cup {NoPayment},
     answer: SettleAnswer \cup {NoAnswer}]

\* pay, seen, tx and overdue are the row as claim_reconciliation_record
\* returned it: identity, status, whether it has a transaction, and whether
\* it was last updated ManualAfter or more before the run began.
IdleWorker == [pc |-> "idle", elapsed |-> 0, todo |-> {}, pay |-> NoPayment,
               seen |-> "absent", tx |-> FALSE, overdue |-> FALSE, answer |-> NoAnswer]
WorkerState ==
    [pc: {"idle", "batch", "calling", "answered"}, elapsed: 0..LeaseTime,
     todo: SUBSET (Payments \X Open), pay: Payments \cup {NoPayment},
     seen: Status, tx: BOOLEAN, overdue: BOOLEAN, answer: ReconcileAnswer \cup {NoAnswer}]

\* The domains of the table columns and of the handlers' local state; in
\* particular every client answer is one of the four published settlement
\* statuses, whatever status _cached_settlement finds on the record.
TypeOK ==
    /\ status \in [Payments -> Status]
    /\ txn \in [Payments -> BOOLEAN]
    /\ age \in [Payments -> 0..AgeBound]
    /\ lease \in [Payments -> Nat]
    /\ owner \in [Payments -> Operators \cup {OwnerOf[w] : w \in Workers} \cup {NoOwner}]
    /\ attempt \in [Payments -> AttemptStatus]
    /\ chain \in [Payments -> {"none", "called", "moved", "dead"}]
    /\ calls \in [Payments -> 0..2]
    /\ request \in [Requests -> RequestState]
    /\ told \in [Payments -> SUBSET Reply]
    /\ worker \in [Workers -> WorkerState]

Init ==
    /\ status = [p \in Payments |-> "absent"]
    /\ txn = [p \in Payments |-> FALSE]
    /\ age = [p \in Payments |-> 0]
    /\ lease = [p \in Payments |-> 0]
    /\ owner = [p \in Payments |-> NoOwner]
    /\ attempt = [p \in Payments |-> "none"]
    /\ chain = [p \in Payments |-> "none"]
    /\ calls = [p \in Payments |-> 0]
    /\ request = [r \in Requests |-> IdleRequest]
    /\ told = [p \in Payments |-> {}]
    /\ worker = [w \in Workers |-> IdleWorker]
-----------------------------------------------------------------------------
(***************************************************************************)
(* The engine.                                                             *)
(***************************************************************************)

\* Mutant: the stored status is answered as it is.
CachedReplyRaw(s) == s

\* _cached_settlement: the settlementStatus a duplicate is answered with.
CachedReply(s) ==
    CASE s = "settled" -> "settled"
      [] s = "settle_failed" -> "failed_final"
      [] s = "submitted" -> "submitted"
      [] OTHER -> "unknown"

AnswerClient(r, p, reply) ==
    /\ request' = [request EXCEPT ![r] = IdleRequest]
    /\ told' = [told EXCEPT ![p] = @ \cup {reply}]

\* A request for a payment that has a record is answered from it before the
\* rate limit is charged.
ReplayCached(r, p) ==
    /\ request[r].pc = "idle"
    /\ status[p] # "absent"
    /\ AnswerClient(r, p, CachedReply(status[p]))
    /\ UNCHANGED <<storeVars, providerVars, worker>>

\* Validation, routing and the signer preflight passed, no record was found;
\* the handler now awaits the rate limiter.
MissCache(r, p) ==
    /\ request[r].pc = "idle"
    /\ status[p] = "absent"
    /\ request' = [request EXCEPT ![r] = [@ EXCEPT !.pc = "checked", !.pay = p]]
    /\ UNCHANGED <<storeVars, providerVars, told, worker>>

\* The limiter refused: the cache is consulted once more, then 429.
RateLimited(r) ==
    LET p == request[r].pay IN
    /\ request[r].pc = "checked"
    /\ IF status[p] # "absent"
       THEN AnswerClient(r, p, CachedReply(status[p]))
       ELSE request' = [request EXCEPT ![r] = IdleRequest] /\ UNCHANGED told
    /\ UNCHANGED <<storeVars, providerVars, worker>>

\* Mutant: a retry may take over a record in status unknown.
UnclaimedOrUnknown(p) == status[p] \in {"absent", "unknown"}

\* The look-up under the advisory lock: is the payment unclaimed?
Unclaimed(p) == status[p] = "absent"

\* claim_and_start_settle_attempt inserts record and attempt in one
\* transaction ...
Claim(r) ==
    LET p == request[r].pay IN
    /\ request[r].pc = "checked"
    /\ Unclaimed(p)
    /\ status' = [status EXCEPT ![p] = "settle_in_progress"]
    /\ txn' = [txn EXCEPT ![p] = FALSE]
    /\ age' = [age EXCEPT ![p] = 0]
    /\ attempt' = [attempt EXCEPT ![p] = "started"]
    /\ request' = [request EXCEPT ![r] = [@ EXCEPT !.pc = "claimed"]]
    /\ UNCHANGED <<lease, owner, providerVars, told, worker>>

\* ... or finds the record of another request and answers from that.
ClaimDuplicate(r) ==
    LET p == request[r].pay IN
    /\ request[r].pc = "checked"
    /\ ~Unclaimed(p)
    /\ AnswerClient(r, p, CachedReply(status[p]))
    /\ UNCHANGED <<storeVars, providerVars, worker>>

\* The handler enters provider.settle and the provider gets to see the
\* payment, possibly long after the claim (the Exact EVM provider queues on
\* a semaphore and a signer lock).  calls counts up to "more than once".
CallProvider(r) ==
    LET p == request[r].pay IN
    /\ request[r].pc = "claimed"
    /\ calls' = [calls EXCEPT ![p] = IF @ = 0 THEN 1 ELSE 2]
    /\ chain' = [chain EXCEPT ![p] = IF @ = "none" THEN "called" ELSE @]
    /\ request' = [request EXCEPT ![r] = [@ EXCEPT !.pc = "calling"]]
    /\ UNCHANGED <<storeVars, told, worker>>

\* A provider says settled only of money that moved and failed_final only of
\* a payment that never will; it may answer anything else at any time.
SettleAnswers(c) ==
    {a \in SettleAnswer :
        /\ a.status = "settled" => c = "moved"
        /\ a.status = "failed_final" => c = "dead"
        /\ a.status = "exception" => ~a.tx}

ProviderAnswers(r) ==
    /\ request[r].pc = "calling"
    /\ \E a \in SettleAnswers(chain[request[r].pay]) :
          request' = [request EXCEPT ![r] = [@ EXCEPT !.pc = "answered", !.answer = a]]
    /\ UNCHANGED <<storeVars, providerVars, told, worker>>

\* Mutant: an exception of the provider counts as a failure.
OutcomeExceptionFails(a) ==
    CASE a.status = "settled" -> "settled"
      [] a.status = "submitted" -> "submitted"
      [] a.status \in {"failed_final", "exception"} -> "settle_failed"
      [] OTHER -> "unknown"

\* The status settle() asks the store for, given the provider's answer.
Outcome(a) ==
    CASE a.status = "settled" -> "settled"
      [] a.status = "submitted" -> "submitted"
      [] a.status = "failed_final" -> "settle_failed"
      [] OTHER -> "unknown"

\* Mutant: the update does not check the status it starts from.
FinishFromAny(s) == Open \cup Final

\* expected_statuses of mark_record_and_finish_settle_attempt.
FinishFrom(s) ==
    IF s \in {"settled", "unknown"} THEN {"settle_in_progress", "submitted"}
                                    ELSE {"settle_in_progress"}

AttemptFor(s) ==
    CASE s = "settled" -> "settled"
      [] s = "submitted" -> "submitted"
      [] s = "settle_failed" -> "failed"
      [] OTHER -> "unknown"

\* Mutant: a status change leaves the lease of the record alone.
KeepLease(p) == UNCHANGED <<lease, owner>>

\* Every transaction that moves a record on clears its lease columns.
DropLease(p) ==
    /\ lease' = [lease EXCEPT ![p] = 0]
    /\ owner' = [owner EXCEPT ![p] = NoOwner]

\* Record and attempt are closed in one transaction; only a settled or a
\* submitted outcome hands its transaction on, the others write back that of
\* the row as it was inserted, which had none.
FinishSettle(r) ==
    LET p == request[r].pay
        a == request[r].answer
        s == Outcome(a)
    IN /\ request[r].pc = "answered"
       /\ status[p] \in FinishFrom(s)
       /\ status' = [status EXCEPT ![p] = s]
       /\ txn' = [txn EXCEPT ![p] = a.tx /\ s \in {"settled", "submitted"}]
       /\ age' = [age EXCEPT ![p] = 0]
       /\ DropLease(p)
       /\ attempt' = [attempt EXCEPT ![p] = AttemptFor(s)]
       /\ AnswerClient(r, p, CachedReply(s))
       /\ UNCHANGED <<providerVars, worker>>

\* The reconciler was faster: the update matches no row, the transaction is
\* rolled back, and the client gets a 500.
FinishRefused(r) ==
    LET p == request[r].pay IN
    /\ request[r].pc = "answered"
    /\ status[p] \notin FinishFrom(Outcome(request[r].answer))
    /\ request' = [request EXCEPT ![r] = IdleRequest]
    /\ UNCHANGED <<storeVars, providerVars, told, worker>>

\* The process dies, or the task is cancelled, at any await.
CrashRequest(r) ==
    /\ request[r].pc # "idle"
    /\ request' = [request EXCEPT ![r] = IdleRequest]
    /\ UNCHANGED <<storeVars, providerVars, told, worker>>
-----------------------------------------------------------------------------
(***************************************************************************)
(* The provider (external): a payment it was handed moves the money or     *)
(* dies, whether or not anybody still waits for the answer.                *)
(***************************************************************************)
MoneyMoves(p) ==
    /\ chain[p] = "called"
    /\ chain' = [chain EXCEPT ![p] = "moved"]
    /\ UNCHANGED <<storeVars, calls, engineVars, worker>>

PaymentDies(p) ==
    /\ chain[p] = "called"
    /\ chain' = [chain EXCEPT ![p] = "dead"]
    /\ UNCHANGED <<storeVars, calls, engineVars, worker>>
-----------------------------------------------------------------------------
(***************************************************************************)
(* The reconciler.                                                         *)
(***************************************************************************)
StaleAfter(s) ==
    CASE s = "settle_in_progress" -> StaleInProgress
      [] s = "submitted" -> StaleSubmitted
      [] OTHER -> StaleUnknown

LeaseFree(p) == lease[p] = 0

Candidates ==
    {c \in Payments \X Open :
        /\ status[c[1]] = c[2]
        /\ age[c[1]] >= StaleAfter(c[2])
        /\ LeaseFree(c[1])}

\* run_once reads its clock and lists at most BatchLimit candidates.  Which
\* ones, and their order, is left open; claiming checks each of them again.
StartRun(w) ==
    /\ worker[w].pc = "idle"
    /\ \E todo \in SUBSET Candidates :
          /\ todo # {}
          /\ Cardinality(todo) <= BatchLimit
          /\ worker' = [worker EXCEPT ![w] = [@ EXCEPT !.pc = "batch", !.todo = todo]]
    /\ UNCHANGED <<storeVars, providerVars, engineVars>>

\* What is left of the lease a worker takes: it runs from the start of the
\* run, not from the claim.
LeaseLeft(w) == LeaseTime - worker[w].elapsed

\* The worker goes on to the next candidate, or the run is over.
NextRecord(w, todo) ==
    IF todo = {} THEN IdleWorker
    ELSE [IdleWorker EXCEPT !.pc = "batch", !.elapsed = worker[w].elapsed, !.todo = todo]

Claimable(w, p, s) ==
    /\ status[p] = s
    /\ age[p] - worker[w].elapsed >= StaleAfter(s)
    /\ LeaseFree(p)

\* The worker with the row that claim_reconciliation_record returned.
Holds(w, c) ==
    [worker[w] EXCEPT
        !.pc = "calling",
        !.todo = worker[w].todo \ {c},
        !.pay = c[1],
        !.seen = status[c[1]],
        !.tx = txn[c[1]],
        !.overdue = (age[c[1]] - worker[w].elapsed >= ManualAfter)]

\* claim_reconciliation_record, which leaves updated_at alone.
ClaimRecord(w) ==
    /\ worker[w].pc = "batch"
    /\ \E c \in worker[w].todo :
          /\ Claimable(w, c[1], c[2])
          /\ owner' = [owner EXCEPT ![c[1]] = OwnerOf[w]]
          /\ lease' = [lease EXCEPT ![c[1]] = LeaseLeft(w)]
          /\ worker' = [worker EXCEPT ![w] = Holds(w, c)]
    /\ UNCHANGED <<status, txn, age, attempt, providerVars, engineVars>>

\* Taken by someone else, or changed, since the scan.
SkipRecord(w) ==
    /\ worker[w].pc = "batch"
    /\ \E c \in worker[w].todo :
          /\ ~Claimable(w, c[1], c[2])
          /\ worker' = [worker EXCEPT ![w] = NextRecord(w, @.todo \ {c})]
    /\ UNCHANGED <<storeVars, providerVars, engineVars>>

\* As for settle: definite answers are true when they are given.  Only the
\* transaction of a settled answer is ever looked at.
ReconcileAnswers(c) ==
    {a \in ReconcileAnswer :
        /\ a.status = "settled" => c = "moved"
        /\ a.status = "failed_final" => c = "dead"
        /\ a.status # "settled" => ~a.tx}

ProviderReconciles(w) ==
    /\ worker[w].pc = "calling"
    /\ \E a \in ReconcileAnswers(chain[worker[w].pay]) :
          worker' = [worker EXCEPT ![w] = [@ EXCEPT !.pc = "answered", !.answer = a]]
    /\ UNCHANGED <<storeVars, providerVars, engineVars>>

\* Mutant: what is overdue is failed instead of reviewed.
OverdueFails(seen, overdue) ==
    CASE seen = "settle_in_progress" -> "unknown"
      [] seen = "unknown" /\ overdue -> "settle_failed"
      [] OTHER -> "none"

\* Mutant: records in progress are left pending.
InProgressPending(seen, overdue) ==
    IF seen = "unknown" /\ overdue THEN "manual_review" ELSE "none"

\* _mark_manual_or_pending: the status to write, or "none".
ManualOrPending(seen, overdue) ==
    CASE seen = "settle_in_progress" -> "unknown"
      [] seen = "unknown" /\ overdue -> "manual_review"
      [] OTHER -> "none"

\* _apply_outcome and the provider-error path: the status to write, or "none".
Decision(v) ==
    CASE v.answer.status = "settled" ->
            IF v.answer.tx \/ v.tx THEN "settled" ELSE "none"
      [] v.answer.status = "failed_final" ->
            IF v.seen = "settle_in_progress" THEN "unknown" ELSE "settle_failed"
      [] v.answer.status = "unknown" /\ v.seen \in {"submitted", "settle_in_progress"} ->
            "unknown"
      [] v.answer.status = "manual_review" -> ManualOrPending(v.seen, TRUE)
      [] v.answer.status = "exception" ->
            IF v.seen = "settle_in_progress" THEN "unknown" ELSE "none"
      [] OTHER -> ManualOrPending(v.seen, v.overdue)

\* expected_statuses of the mark_reconciled_* methods.
ReconcileFrom(s) ==
    CASE s = "settled" -> {"unknown", "submitted", "settle_in_progress"}
      [] s = "settle_failed" -> {"unknown", "settle_in_progress"}
      [] s = "unknown" -> {"submitted", "settle_in_progress"}
      [] OTHER -> {"unknown"}

\* Mutant: the fence checks the owner's name and that some lease runs.
LeaseHeldByName(w, p) == owner[p] = OwnerOf[w] /\ lease[p] > 0

\* The WHERE clause of _update_reconciliation_record that fences a write.
LeaseHeld(w, p) ==
    /\ owner[p] = OwnerOf[w]
    /\ lease[p] = LeaseLeft(w)
    /\ lease[p] > 0

Writes(w) ==
    /\ Decision(worker[w]) # "none"
    /\ status[worker[w].pay] \in ReconcileFrom(Decision(worker[w]))
    /\ LeaseHeld(w, worker[w].pay)

\* Mutant: only final statuses close the attempt.
CloseAttemptWhenFinal(p, s) ==
    attempt' = [attempt EXCEPT ![p] =
                  IF @ = "started" /\ s \in Final THEN AttemptFor(s) ELSE @]

\* Close the attempt if it is still started.
CloseAttempt(p, s) ==
    attempt' = [attempt EXCEPT ![p] = IF @ = "started" THEN AttemptFor(s) ELSE @]

ApplyOutcome(w) ==
    LET p == worker[w].pay
        s == Decision(worker[w])
    IN /\ worker[w].pc = "answered"
       /\ Writes(w)
       /\ status' = [status EXCEPT ![p] = s]
       /\ txn' = [txn EXCEPT ![p] = s = "settled" \/ worker[w].tx]
       /\ age' = [age EXCEPT ![p] = 0]
       /\ DropLease(p)
       /\ CloseAttempt(p, s)
       /\ worker' = [worker EXCEPT ![w] = NextRecord(w, @.todo)]
       /\ UNCHANGED <<providerVars, engineVars>>

\* Nothing to write, or the store refused; an unregistered provider's refused
\* write escapes run_once and drops the rest of the batch.
ApplyNothing(w) ==
    LET dropped == worker[w].answer.status = "unregistered"
                   /\ Decision(worker[w]) # "none"
    IN /\ worker[w].pc = "answered"
       /\ ~Writes(w)
       /\ worker' = [worker EXCEPT ![w] =
             NextRecord(w, IF dropped THEN {} ELSE @.todo)]
       /\ UNCHANGED <<storeVars, providerVars, engineVars>>

CrashWorker(w) ==
    /\ worker[w].pc # "idle"
    /\ worker' = [worker EXCEPT ![w] = IdleWorker]
    /\ UNCHANGED <<storeVars, providerVars, engineVars>>
-----------------------------------------------------------------------------
(***************************************************************************)
(* The operator's control actions, each one transaction under the row lock.*)
(***************************************************************************)
OperatorClaim(o, p) ==
    /\ status[p] \in Open \cup {"manual_review"}
    /\ status[p] \in {"submitted", "settle_in_progress"} => age[p] >= OperatorStale
    /\ LeaseFree(p)
    /\ \E l \in OperatorLeases : lease' = [lease EXCEPT ![p] = l]
    /\ owner' = [owner EXCEPT ![p] = o]
    /\ age' = [age EXCEPT ![p] = 0]
    /\ UNCHANGED <<status, txn, attempt, providerVars, engineVars, worker>>

OperatorRelease(o, p) ==
    /\ owner[p] = o
    /\ DropLease(p)
    /\ age' = [age EXCEPT ![p] = 0]
    /\ UNCHANGED <<status, txn, attempt, providerVars, engineVars, worker>>

OperatorManualReview(o, p) ==
    /\ status[p] = "unknown"
    /\ owner[p] = o
    /\ lease[p] > 0
    /\ status' = [status EXCEPT ![p] = "manual_review"]
    /\ DropLease(p)
    /\ age' = [age EXCEPT ![p] = 0]
    /\ CloseAttempt(p, "manual_review")
    /\ UNCHANGED <<txn, providerVars, engineVars, worker>>
-----------------------------------------------------------------------------
\* One unit of time passes for everyone.
Tick ==
    /\ age' = [p \in Payments |->
                 IF status[p] # "absent" /\ age[p] < AgeBound THEN age[p] + 1 ELSE age[p]]
    /\ lease' = [p \in Payments |-> IF lease[p] > 0 THEN lease[p] - 1 ELSE 0]
    /\ worker' = [w \in Workers |->
                    IF worker[w].pc # "idle" /\ worker[w].elapsed < LeaseTime
                    THEN [worker[w] EXCEPT !.elapsed = @ + 1] ELSE worker[w]]
    /\ UNCHANGED <<status, txn, owner, attempt, providerVars, engineVars>>

RequestStep(r) ==
    \/ \E p \in Payments : ReplayCached(r, p) \/ MissCache(r, p)
    \/ RateLimited(r) \/ Claim(r) \/ ClaimDuplicate(r)
    \/ CallProvider(r) \/ ProviderAnswers(r)
    \/ FinishSettle(r) \/ FinishRefused(r) \/ CrashRequest(r)

WorkerStep(w) ==
    \/ StartRun(w) \/ ClaimRecord(w) \/ SkipRecord(w) \/ ProviderReconciles(w)
    \/ ApplyOutcome(w) \/ ApplyNothing(w) \/ CrashWorker(w)

OperatorStep(o, p) ==
    OperatorClaim(o, p) \/ OperatorRelease(o, p) \/ OperatorManualReview(o, p)

Next ==
    \/ \E r \in Requests : RequestStep(r)
    \/ \E p \in Payments : MoneyMoves(p) \/ PaymentDies(p)
    \/ \E w \in Workers : WorkerStep(w)
    \/ \E o \in Operators, p \in Payments : OperatorStep(o, p)
    \/ Tick

Spec == Init /\ [][Next]_vars
-----------------------------------------------------------------------------
(***************************************************************************)
(* Safety.                                                                 *)
(***************************************************************************)

\* A payment is handed to the provider at most once, whatever requests race,
\* crash and are retried, and whatever the reconciler does to the record in
\* the meantime (engine.settle, claim_and_start_settle_attempt).
SubmittedOnce == \A p \in Payments : calls[p] <= 1

\* The final statuses are true: a settled record's money moved and a failed
\* record's never will, although both may be written from answers that were
\* read long before (engine.settle, _apply_outcome).
FinalTruth ==
    \A p \in Payments :
        /\ status[p] = "settled" => chain[p] = "moved"
        /\ status[p] = "settle_failed" => chain[p] = "dead"

\* A client that was told settled or failed_final was told what the record
\* says from then on: no retry ever hears something else.
AnswersStand ==
    \A p \in Payments :
        /\ "settled" \in told[p] => status[p] = "settled"
        /\ "failed_final" \in told[p] => status[p] = "settle_failed"

\* The attempt row is open exactly as long as the record is in progress,
\* whoever closes the record and whichever transaction is rolled back.
AttemptFollowsRecord ==
    \A p \in Payments : attempt[p] = "started" <=> status[p] = "settle_in_progress"

\* A worker that passes the fence of _update_reconciliation_record writes
\* over exactly the row it claimed: nobody changed status or transaction
\* since.  (The update writes back the transaction read at the claim.)
FenceProtectsClaim ==
    \A w \in Workers :
        /\ worker[w].pc \in {"calling", "answered"}
        /\ LeaseHeld(w, worker[w].pay)
        => /\ status[worker[w].pay] = worker[w].seen
           /\ txn[worker[w].pay] = worker[w].tx

\* Two workers never pass the fence for the same record, even when all
\* reconcilers run under the same owner name and start at the same instant.
FenceExclusive ==
    \A v, w \in Workers :
        /\ v # w
        /\ worker[v].pc \in {"calling", "answered"}
        /\ worker[w].pc \in {"calling", "answered"}
        /\ worker[v].pay = worker[w].pay
        => ~(LeaseHeld(v, worker[v].pay) /\ LeaseHeld(w, worker[w].pay))

\* A settled, failed or manual-review record keeps its status for ever, and
\* no record loses a transaction it has: late answers of the engine, of a
\* second reconciler or of an operator never overwrite them.
FinalStable ==
    [][\A p \in Payments :
          /\ status[p] \in Final => status'[p] = status[p]
          /\ txn[p] => txn'[p]]_vars

(***************************************************************************)
(* Why these hold: inductive invariants.                                   *)
(***************************************************************************)

\* Between its claim and its last write a handler owns the payment.
Busy(r) == request[r].pc \in {"claimed", "calling", "answered"}

Truthful(a, c) ==
    /\ a.status = "settled" => c = "moved"
    /\ a.status = "failed_final" => c = "dead"

\* A payment has at most one handler between claim and last write, its record
\* is there and not yet submitted, and the provider was asked iff the handler
\* is past the call; an answer in a handler's or a worker's hands is still
\* true, however long ago it was given (settle, run_once).
Consistent ==
    /\ \A r \in Requests : request[r].pc # "idle" => request[r].pay \in Payments
    /\ \A r \in Requests : Busy(r) =>
          /\ status[request[r].pay] \notin {"absent", "submitted"}
          /\ calls[request[r].pay] = (IF request[r].pc = "claimed" THEN 0 ELSE 1)
          /\ \A q \in Requests \ {r} : Busy(q) => request[q].pay # request[r].pay
    /\ \A r \in Requests :
          request[r].pc = "answered" => Truthful(request[r].answer, chain[request[r].pay])
    /\ \A w \in Workers :
          worker[w].pc \in {"calling", "answered"} =>
             worker[w].pay \in Payments /\ status[worker[w].pay] # "absent"
    /\ \A w \in Workers :
          worker[w].pc = "answered" => Truthful(worker[w].answer, chain[worker[w].pay])
    /\ \A p \in Payments :
          /\ status[p] = "absent" => calls[p] = 0
          /\ status[p] \in {"absent", "settle_in_progress"} => ~txn[p]
          /\ calls[p] = 0 <=> chain[p] = "none"

\* As long as the lease a worker took has not run out, either the row is the
\* one it claimed, or the worker can no longer pass the fence and the row was
\* updated after its run began, so that no run of the same age can claim it.
ClaimsFenced ==
    \A w \in Workers :
        worker[w].pc \in {"calling", "answered"} /\ LeaseLeft(w) > 0 =>
            LET p == worker[w].pay IN
            \/ LeaseHeld(w, p) /\ status[p] = worker[w].seen /\ txn[p] = worker[w].tx
            \/ ~LeaseHeld(w, p) /\ age[p] <= worker[w].elapsed

(***************************************************************************)
(* The contract: what Settlement looks like from outside.                  *)
(***************************************************************************)
ContractOutcome(s) ==
    CASE s = "absent" -> "new"
      [] s = "settled" -> "settled"
      [] s = "settle_failed" -> "failed"
      [] s = "manual_review" -> "review"
      [] OTHER -> "open"

Promises(replies) ==
    {o \in {"settled", "failed"} :
        \/ o = "settled" /\ "settled" \in replies
        \/ o = "failed" /\ "failed_final" \in replies}

Contract == INSTANCE SettlementContract WITH
    outcome <- [p \in Payments |-> ContractOutcome(status[p])],
    handed <- calls,
    money <- chain,
    promised <- [p \in Payments |-> Promises(told[p])]

\* Engine, reconciler and operators together keep the contract: every step of
\* theirs hands over, concludes or answers a payment as the contract allows,
\* or does not show.
ImplementsContract == Contract!Spec
-----------------------------------------------------------------------------
(***************************************************************************)
(* Progress.  Time passes; a reconciler that is running keeps going, starts*)
(* run after run, and again and again gets to a stale record while some of *)
(* its lease is left and has the provider answer and the result written    *)
(* before the lease is over (the provider time-out is half the lease).     *)
(* Nothing is assumed of requests, which may crash and never come back, of *)
(* the money, which need not move, or of how long a provider is down.      *)
(***************************************************************************)
Holding(w, p) == worker[w].pay = p /\ LeaseHeld(w, p)

\* An answer that is neither an error nor a settlement without proof.
Conclusive(w) ==
    /\ worker[w].answer.status # "exception"
    /\ worker[w].answer.status = "settled" => worker[w].answer.tx \/ worker[w].tx

Fairness ==
    /\ WF_vars(Tick)
    /\ \A w \in Workers :
        /\ WF_vars(ProviderReconciles(w))
        /\ WF_vars(ApplyOutcome(w) \/ ApplyNothing(w))
        /\ WF_vars(ClaimRecord(w) \/ SkipRecord(w))
        /\ \A p \in Payments :
            /\ SF_vars(StartRun(w) /\ \E c \in worker'[w].todo : c[1] = p)
            /\ SF_vars(ClaimRecord(w) /\ LeaseLeft(w) > 0 /\ worker'[w].pay = p)
            /\ SF_vars(Holding(w, p) /\ ProviderReconciles(w) /\ Conclusive(w)')
            /\ SF_vars(Holding(w, p) /\ ProviderReconciles(w)
                       /\ worker'[w].answer.status = "settled" /\ Conclusive(w)')
            /\ SF_vars(Holding(w, p) /\ ApplyOutcome(w))

FairSpec == Spec /\ Fairness

\* A record whose request crashed, timed out or got no clear answer does not
\* stay in progress or unknown for ever: it is settled, failed, submitted or
\* put before a human (run_once, _mark_manual_or_pending).
UnresolvedEnds ==
    \A p \in Payments :
        status[p] \in {"settle_in_progress", "unknown"} ~> status[p] \in Final \cup {"submitted"}

\* A submitted payment whose money moved reaches a final status, although a
\* submitted record is never given to a human directly.
SubmittedEnds ==
    \A p \in Payments :
        status[p] = "submitted" /\ chain[p] = "moved" ~> status[p] \in Final

\* No record is left open: neither one that nobody answers for, nor one that
\* was submitted and paid.
EveryRecordEnds == UnresolvedEnds /\ SubmittedEnds
-----------------------------------------------------------------------------
(***************************************************************************)
(* Stated by the documentation, and not what the code does.                *)
(***************************************************************************)

\* "Persist transaction hash or Gateway transfer UUID": a transaction the
\* provider returned with a settled or submitted outcome is on the record
\* once the handler is done, even if the reconciler got to the record first
\* (mark_record_and_finish_settle_attempt raises instead).
LateTransactionPersisted ==
    [][\A r \in Requests :
          /\ FinishRefused(r)
          /\ request[r].answer.status \in {"settled", "submitted"}
          /\ request[r].answer.tx
          => txn'[request[r].pay]]_vars
=============================================================================
