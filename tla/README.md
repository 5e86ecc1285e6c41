# Verification of the hosted x402 facilitator

TLA+ models of the hosted facilitator and of the buyer's adapter
(`src/src/hosted_facilitator`), TLC configurations that check them on small
instances, and TLAPS proofs for instances of any size. Paths below are relative
to `src/src/hosted_facilitator` unless they start with `docs/`.

## 1. The system

A seller sends a signed x402 payment to `POST /settle`. The facilitator must
hand it to a payment provider (Exact EVM or Circle Gateway) **at most once**,
record what became of it, and answer every retry from the record. Providers time
out, processes die in the middle of a call, and a background reconciler and human
operators work on the same rows as the request handlers.

| component | state | operations | modules |
|---|---|---|---|
| HTTP application, `hosted/app.py`, `hosted/tenancy.py` | locals of a request across its awaits | `supported`, `verify`, `settle`: key, limits, pauses, validation, routing | `Admission` |
| settlement engine, `hosted/engine.py` | locals of a handler across its awaits | `settle`, `verify`, `supported` | `Settlement`, `Admission` |
| settlement stores, `hosted/postgres.py`, `hosted/storage.py` | `settlement_records`, `settlement_attempts` | claim, final write, list and claim for reconciliation, fenced write, operator actions, views | `Settlement`, `Stores`, `StoreViews` |
| reconciler, `hosted/reconciliation.py`, `hosted/runner.py` | clock reading and batch of a run, the claimed row; the loop | `run_once`, the loop around it | `Settlement`, `Runner` |
| operator control, `hosted/control_plane.py` | leases on records, audit events | claim, release, manual review | `OperatorControl`, `Settlement` |
| operator authorisation, `hosted/auth.py` | cached JWKS | token and relation checks | `OpsAuth` |
| pauses, `hosted/control_plane.py`, `postgres.py` | pause targets, audit events | pause, resume | `Pauses`, `Admission` |
| seller accounts, `hosted/tenancy.py`, `postgres.py` | tenants, accounts, profiles, API keys, audit events | create, issue, revoke, bootstrap, resolve | `Sellers` |
| Exact provider, `hosted/providers/exact_evm.py`, `hosted/signers.py`, `exact.py` | semaphore, signer locks, nonces | `settle`, `reconcile_settlement` | `ExactProvider`, `Settlement` |
| rate limiter, `hosted/limits.py` | fixed-window counters (memory, Redis) | `check` | `RateLimit`, `Admission` |
| connection pool, `hosted/postgres.py` | idle queue, total, closed flag | checkout, release, close | `Pool` |
| migrations, `hosted/migrations.py`, `postgres.py` | schema, applied migrations | apply under an advisory lock | `Schema`, `Migrations` |
| nanopayment adapter, `nanopayments/adapter.py`, `client.py` | circuit breaker, locals of the payments in flight | `execute`: `pay_direct` with retry, `pay_x402_url` | `Nanopay` |

How they interact. A request goes through `Admission`; what it finds at the limiter
is `RateLimit`'s business, what it finds at the pauses `Pauses`', the key `Sellers`'.
It then enters the engine, which claims the payment in a store (`Stores`), through a
connection of the `Pool`, and calls a provider (`ExactProvider`). `Settlement` has
engine, store, provider, reconciler and operators together, which is where payments
can be lost or made twice; the modules around it open up steps that it takes as one
(`OperatorControl`), answers that it takes as given (`ExactProvider`) or choices that
it leaves open (`Runner`). `Settlement` and `Stores` are both shown to implement
`SettlementContract`.

`PROJECT.json` lists the hazards line by line, with the properties that would catch
each of them.

## 2. Modules

| module | what it is |
|---|---|
| `SettlementContract` | the promise to sellers: accept, hand over once, conclude once and truly, tell only what is concluded |
| `Settlement` | engine, Postgres store, reconciler, operator and external provider, interleaved |
| `SettlementProofs` | type, safety and fence theorems; `Settlement` implements `SettlementContract` |
| `Nanopay`, `NanopayProofs` | the buyer's adapter against Gateway and sellers, and its theorems |
| `Admission` | the payment routes, from arrival to the provider |
| `Stores` | the memory, SQLite and Postgres stores under several payment profiles, with crashes between writes |
| `StoreViews` | extends `Stores` by an operator's summary and queue, read query by query |
| `Ranking`, `RankingProofs` | `ORDER BY` and `LIMIT` of a query, for `Runner` and `StoreViews`; lemmas about them |
| `Schema`, `Migrations` | the SQL of every migration as an operator on databases; processes that start on one |
| `Pool`, `ExactProvider`, `RateLimit`, `Pauses`, `Sellers` | one component each |
| `OpsAuth`, `OperatorControl`, `Runner` | one component each |
| `MCSettlement`, `MCNanopay`, `MCAdmission`, `MCStoreViews`, `MCMigrations`, `MCSellers` | instances for TLC |
| `Services` | the components the routes and the engine stand on, `Pool`, `RateLimit` and `ExactProvider`, side by side |
| `ControlPlane`, `Operations` | the same for `Pauses` and `Sellers`, and for `OpsAuth`, `OperatorControl` and `Runner` |
| `MCServices`, `MCOperations` | several components that share no state, for one run each |
| `AdmissionProofs`, `StoresProofs` | theorems about `Admission`, and about `Stores` and `StoreViews`, the refinement of the contract included |
| `OperationsProofs` | theorems about `OpsAuth`, `OperatorControl` and `Runner` |
| `ServicesProofs` | theorems about `Pool`, `RateLimit` and `ExactProvider` |
| `ControlPlaneProofs` | theorems about `Pauses`, `Migrations` and `Sellers` |

### `Settlement`

A *payment* is a key the store is unique on. The state of a payment is its row
(`status`, `txn`: has a transaction, `age`: time since `updated_at`, `lease`: time
left until `reconciliation_lease_until`, `owner`), its attempt row (`attempt`), and
what the provider did (`chain`: `none`, `called`, `moved`, `dead`; `calls`). `told`
keeps the settlement statuses clients were answered with. `request[r]` and
`worker[w]` are the locals of a handler and of a run between two awaits.

Each action is one database transaction or one provider call, with everything the
code does in it:

| action | code |
|---|---|
| `ReplayCached`, `MissCache`, `RateLimited` | `settle` up to the claim |
| `Claim`, `ClaimDuplicate` | `claim_and_start_settle_attempt`: look-up and insert under the advisory lock, record and attempt together |
| `CallProvider`, `ProviderAnswers` | `provider.settle`, which may see the payment late and answer anything true, or raise |
| `FinishSettle`, `FinishRefused` | `mark_record_and_finish_settle_attempt`, and its roll-back |
| `CrashRequest`, `CrashWorker` | death or cancellation at any await |
| `MoneyMoves`, `PaymentDies` | the outside world |
| `StartRun`, `ClaimRecord`, `SkipRecord`, `ProviderReconciles`, `ApplyOutcome`, `ApplyNothing` | `run_once` |
| `OperatorClaim`, `OperatorRelease`, `OperatorManualReview` | `apply_reconciliation_control_action` |
| `Tick` | the clock |

Abstractions: transactions, payers, reasons and trace ids are data (only "has a
transaction" is kept); which stale records a scan returns, and in which order, is
left open, which allows every order the code has; the three queries of a scan are
one step, since a claim tests every condition of the scan again. Time is relative:
`age` stops counting at `AgeBound` and a run's `elapsed` at `LeaseTime`, where no
guard changes its answer any more (`ConstantsAssumption` says how large `AgeBound`
must be), so no clock has to be cut off. `calls` counts to two, "more than once".
A lease that has run out and no lease are the same value, as they are to every
guard of the code.

The provider is external, and one thing is assumed of it: *settled* is answered
only of money that moved and *failed_final* only of a payment that never will.
What it may answer besides is everything the two built-in providers can, and more
(`submitted`, which neither answers now).

### `Nanopay`

Payments are coroutines of one event loop; a step runs from one await to the next.
`pc`, `seen` (the balance it read), `attempt` and `result` are a payment's locals and
its `PaymentResult`; `cb` is the breaker, with `age` the time since the last failure,
which stops at `RecoverySeconds`, where the breaker's answer no longer changes.
`signed` is the set of payments whose authorization has left the process: from then
on the Gateway may execute it at any time (`MoveFunds`), once.

| action | code |
|---|---|
| `Resolve`, `RequestResource`, `CheckBalance`, `SignFails` | `pay_direct` and `pay_x402_url` up to the signature |
| `StartSettle`, `SettleSucceeds`, `SettleTransient`, `SettleFails`, `Retry` | `pay_direct` after it, with `_settle_with_retry` |
| `ShowPayment`, `SellerAnswers`, `SellerLost` | the paid request of `pay_x402_url` |
| `GetState`, `Reset`, `Tick` | operations on the breaker, and its clock |
| `Return`, `Raise`, `Finish` | `execute`: how a result or an exception becomes a `PaymentResult` |

Exceptions are kept by class, since `except` clauses tell them apart; headers, amounts
and texts are not, except whether an error text contains "timeout" or "connection".
Every payment costs one unit. The back-off may last any time. Of the outside world
it is assumed that success and "nonce already used" are answered only of a payment
that was executed, that a seller reports only settlements it has, and that the
Gateway never executes a payment on a network it does not serve. `_check_and_topup` is not modelled: nothing calls it.

### `Admission`

`req[h]` holds a handler's locals: where it is, what it was charged, what it answers.
`active`, `paused` and `recorded` are the tables it reads, `sent` what went to the
provider. Each read of Postgres or Redis and each await of a provider is a step, so
keys are revoked, pauses set and payments recorded between any two of them. `Penalize`,
`Resolve`, `Gate`, `Validate`, `Lookup`, `ChargeSubmission`, `ClaimRecord` and
`Submit` follow the route functions in order. A failing limiter answers 503
(`LimiterFails`), a failing database 500 (`DatabaseFails`, where the claim may have been
committed), a provider that raises 503, 500, or 400 and 403 with their penalty
(`ProviderRaises`), and a final write that is refused 500 after the payment was sent. The
limiter may say either thing at any time. `seen` records, for the properties only, what was paused and
revoked at every moment since the request came.

### `Stores` and `StoreViews`

`Stores` has the claim, attempt, call, mark and finish of a settlement as store
operations of their own. In Postgres claim and attempt are one transaction, as are
mark and finish, under an advisory lock per fingerprint; SQLite locks its file;
the memory store lives in one process. The local stores mark a record whatever status
it has. A process may end, and an operation raise, between any two steps.
`touched` is the order of `updated_at`. `StoreViews` adds the queries of
`get_seller_account` and of the reconciliation queue, one step each, up to the risk
summary (`reconciliationRisk`, `hosted/control_plane.py:2047`), whose further queries are
of the same kind and are left out. A sum of amounts is
the number of their atomic units (`Units`), and a page has the records of lowest rank in
the order of `updated_at` (`Ranking`).

### `Schema` and `Migrations`

`Schema` keeps of a database the columns, unique constraints, indexes and rows that
some migration changes, which of the columns are NOT NULL, and has one operator per
migration; `Inserts` says whether the insert of a claim fills what must be filled.
`Migrations` has the
processes: create the ledger table (where `IF NOT EXISTS` does not help against a
concurrent creator), take the advisory lock, read the ledger and check its checksums,
run what is due, validate, commit; or be killed at any of these. A process of the
release before knows fewer versions. `DatabasesAssumption` says which databases are
meant: those whose tables are what the migrations in their ledger leave (`Agrees`), and of
the ones named wrong in one of their scopes, that they have what the SQL refuses
(`Refusable`). A database with keys of before payment profiles is one that this release
does not get to serve on, although nothing is wrong with it (section 5).

### `RateLimit`, `Pauses`, `Sellers`

`RateLimit` reads the clock, and then tests and charges all buckets of a request in
one step: a lock in memory, a script on Redis, which comes up to `MaxDelay` later
or is lost. Redis counters expire a window after their first charge; the `TTL` that
becomes Retry-After is rounded to the nearest `Second` (`Rounded`). `Pauses` locks the
row of a target, reads the value it will call *before*, writes pause and event, commits
or rolls back. `Sellers` has a step per row lock of its transactions (`Create`,
`IssueLockProfile`, `IssueCommit`, `RevokeLockKey`, `RevokeCommit`,
`Bootstrap...`), since a transaction that waited for a row sees what was committed
meanwhile; accounts, tenants and profiles are disabled by hand in the database.

### `Pool` and `ExactProvider`

`Pool` has the steps between which a thread may switch: the part of `_checkout` under
the lock, connect, the wait, release's reading of `closed` and its put, and close with
its drain. The facilitator uses it from coroutines of one event loop (`oneLoop`), where
a call runs to its end: there a checkout that waits blocks the loop, can only time
out, and no release can race `close`.

`ExactProvider` has the coroutines of one process (the deployment the
documentation allows, `docs/deployment-docker-compose.md:63`): preflight, semaphore and
lock with their queues, the nonce taken from the number of mined transactions, the
answer, time-out or cancellation, and transactions that are sent after their call was
given up. `Reconcile` is `reconcile_settlement` with its check of the receipt.

### `OpsAuth`, `OperatorControl`, `Runner`

`OpsAuth` has the cached JWKS with its time to live, key rotation, and the relations
asked of OpenFGA one after the other. `OperatorControl` opens up the operator's
actions, which `Settlement` takes as atomic: the clock is read before the row lock is
waited for, by workers as well, whose staleness and lease count from the beginning of their
run and whose claim and write each read the clock again; record and audit event are one transaction, whose commit may be lost, and the
answer is read afterwards, with 200 or 503: the 404 and 409 of that read cannot come, since
nothing deletes records. The branch of `control_plane.py` for stores without
`apply_reconciliation_control_action` cannot succeed with a store of the repository and
is left out. `Runner` has the scan (oldest first, statuses in turn: the record of rank k
among the candidates of its status has its slot in round k), the batch, leases
over several runs, and the loop with its sleeps, callbacks, failures, stop and restart. A
run takes time (`Wait`, up to `MaxRun`), while its leases count from its beginning; what
the store refuses, a write after the lease or *failed* for a submitted record, leaves the
record as it is under its lease.

## 3. Properties

A property of several named parts is checked as one; the parts are defined beside it,
each with its own statement.

`Settlement`:

* `SubmittedOnce`: never handed over twice.
* `FinalTruth`: settled and failed are true, though written from old answers.
* `AnswersStand`: settled and failed answers are what the record says ever after.
* `AttemptFollowsRecord`: the attempt is open iff the record is in progress.
* `FinalStable` (action property): final statuses stay; no transaction is lost.
* `FenceProtectsClaim`: who passes the fence finds the row as claimed.
* `ImplementsContract`: refinement of `SettlementContract`.
* `EveryRecordEnds`: progress (`UnresolvedEnds`, `SubmittedEnds`).
* `TypeOK`: domains; also that clients hear only the four published statuses.

`Nanopay`:

* `FallbackIsSafe`: what the router may pay by another method was and will not be paid.
* `SuccessIsPaid`: reported as paid means paid, or, without strict settlement,
  delivered.
* `BreakerAgrees`: a circuit that is not closed has counted as many failures as the
  threshold since the last success, and has a failure time, so that it can recover. That
  errors of the transport do not open it, as the code documents, is `ErrorsDoNotTrip`,
  which does not hold (section 5).
* `FailureReopens` (action property): a failure in an open or half-open circuit opens it.
* `Returns`: every payment ends.

`Admission`:

* `AnswersJustified`: 400, 401 and 403 are answered only to requests charged as invalid,
  and nobody else is (`InvalidRequestsPay`); nothing is done for a route paused, or a
  key revoked, all the time since the request came (`PausedAndRevokedRefused`); no two
  handlers submit one payment and none submits uncharged (`SubmissionsExclusive`).
* `RecordedNeverLimited`: a retry of a recorded payment is not refused by the settle
  limit, even if it was recorded while the limiter was asked.
* `PauseQuiesces`: a pause that lasts takes effect in the end.

`Stores` and `StoreViews`:

* `RecordsSound`: one record per payment across profiles, and after any crash a trail
  of attempts that agrees with the records.
* `StoresKeepContract`: all three stores implement `SettlementContract`, the unguarded
  local ones included. Reconciliation runs on Postgres only, and is in `Settlement`. The
  contract is about payments and not about profiles: `RightProfileTold`, which is, does not
  hold (section 5).
* `ViewsTrue`: totals hold what clients were told and nothing that did not move, parts
  of one summary do not contradict each other, an open payment is on the page of the queue
  or behind a full page of older ones, and a count of zero means that none waits.

`Migrations`:

* `OneRunner`: a migration is run by one process at a time and takes effect once.
* `MigratedWhole`: a serving process finds a healthy schema and all the data: owners,
  audit, sellers; the constraints on claims are those of this release, and claims can be
  inserted unless the database came with a project column beside that of sellers (section
  5); a scope that the SQL refuses stays as it was.
* `EveryoneServes`: on any other database every process comes up.

`Services`, `ControlPlane` and, for progress, `MCServices`:

* `PoolSound`: a connection is in one place, the count is exact, close leaves none open
  (the last for coroutines; with threads the race of release and close is real).
* `OneAtATime`: places of the semaphore are neither lost nor made, one call per network,
  and nonces do not meet unless a call ended before its transaction.
* `ProviderTruthful`: settled and failed_final are so, and reconciliation says settled
  only with a mined transaction that makes the transfer. This is what `Settlement`
  assumes of its provider. Its part about failures covers those whose wording has one of
  the markers; that any other reason is given only when no transaction is out is assumed of
  the x402 library (`ResponsesFor`).
* `WindowBound`: no bucket admits more than its limit while its window is open. On Redis
  scripts that read the clock in a window and come after it may be let through besides,
  but all together never more than twice the limit; in memory there are none.
* `DecisionsSound`: all buckets are charged or none, and who waits for Retry-After comes
  after the window that was full: in memory exactly, on Redis to half a second, the
  rounding of `TTL`.
* `AuditChain`: each pause event starts where the one before it ended, and the last one
  is in force.
* `SellersAudited`: an account is created once; a key has one event of its issue and is
  revoked iff it has one of its revocation.
* `TenancyFixed`: keys and accounts never move (`ScopeFixed`), disabled accounts and tenants
  stay disabled (`DisabledStays`); disabled profiles and revoked keys come back by nothing
  but the start of a process that has them in its configuration (`OnlyStartsRevive`).
* `NobodyWaitsForEver`: checkouts and settlements in the queue end.

`Operations`, `OperatorControl` and `MCOperations`:

* `AdmittedHeld`: who is admitted had a relation that permits it during the check.
* `KeysFollowIssuer`: a withdrawn key lapses with the cache, a published one is known in
  the end.
* `OperatorAudited`: one audit event per action that took effect, and a trail that
  accounts for the record.
* `LeaseRespected`: nobody takes over a running lease, by whatever clock he read.
* `ActionsEnd`: every action comes to an answer.
* `BatchBalanced`: a backlog in one status does not shut out the others: a batch is full
  unless it takes all there are, and takes turns between the statuses.
* `LoopProgress`: no record starves as long as runs end within their leases and have room
  for all (`RoomAssumption`), unknown ones end, a stop ends the loop.

Each is broken by at least one small change to the modelled code (a dropped
guard, a lease not cleared, an exception taken for a failure ...); these variants
stand next to the definitions they vary, named or marked `Mutant`.

## 4. Runs

| run | instance | shows |
|---|---|---|
| `settle_races` | 1 payment, 2 requests, 1 worker | safety of records and handlers, refinement, progress |
| `lease_fence` | 2 payments, 1 request, 2 workers of one name, 1 operator, batches of 2 | the fence, also where the records of one run share its clock: dead-on-arrival leases, dropped batches |
| `nanopay_races` | 2 direct payments (one on a network no longer served), 1 resource, balance for one, threshold 2, 1 retry | safety and progress of the adapter |
| `admission` | 1 key and none, 3 payments, 2 networks | every kind of request at one handler; two handlers that settle one payment |
| `stores` | three stores, 3 requests, 2 processes, 2 profiles; or 2 payments and an operator | the contract, and what operators see |
| `services` | see below | pool, Exact provider, limiter, pauses, sellers, start-up |
| `operations` | see below | operators' tokens, their actions, the reconciliation loop |
| `late_transaction`, `unsupported_no_fallback`, `revoked_key`, `error_trips`, `other_profile` | 1 payment; 1 direct payment; 1 account, 1 key; the instances of `nanopay_races` and `stores` | expected violations, section 5 |

Why the bounds are enough to be interesting. `settle_races`: two requests give a claimer
and a duplicate or retry, which is what the claim tells apart; the theorems of
section 6 hold for any number. Two workers give an overtaken and an overtaking claim;
lease and manual-review time of 2 with stale times of 1 allow a claim with a full, a
shortened and an expired lease, and a record that is stale, overdue or neither. Payments do
not share rows, so one payment shows everything but the batch: `lease_fence` lets everybody
work on one record (`OneRecord`), or one reconciler on a batch of two that the requests have
left (`OneRun`). In `nanopay_races` one payment
alone can trip the breaker and two can overlap on the half-open one; the balance covers
one of the payments that read it. Symmetry is used where no liveness is checked.

`admission` and `stores` follow behaviours under one of two bounds each (`bound`, with
`Within` limiting the next state): either every request there is, one at a time among
pauses and revocations, or two requests that race for one payment; either three requests
for one payment in any store, or two payments while an operator reads.

In `services` and `operations` the components share no variable that a property is
about, so a behaviour follows one of them (`part`) and the others stand still; a product of
their state spaces would show nothing more. The instances of `services`: 3 users of 2
connections, so that one waits; 3 payments on 2 networks with 2 places, so that one waits
for the semaphore and one for the lock, two of the same terms so that a receipt could be
taken for the wrong one; 2 checks against limits of 1 and 2, from one window into the next,
with a script delayed by one unit and a third of a second per unit, so that times to live
are rounded up and down (`LimiterWithin` keeps the requests that wait at Redis to those that
share buckets); 2 operators and 2 targets with 3 events; 2 transactions on accounts, with
operators (`OperatorsOnly`) or with processes of clashing configurations that start beside
one (`AmongStarts`); a process of the release before, one of this and a reconciler, of which
one is killed, on databases of every release, half-moved ones and ones that are refused.

Those of `operations`: 1 operator request with 2 keys and a cache of 2 units, with either
keys or relations changing (`AuthWithin`); 3 requests of 2 operators, a worker and the
engine on one record (`ControlWithin` leaves out a third request at the same time, a second
one while the engine is not done, and releases by one who holds nothing; the theorems of
section 6 leave out none of these); 3 submitted records, one more than a run takes, and one
fault. All three may stay submitted, so that the youngest would starve if the leases of the
others did not keep them out of the next run, or some become unknown, so that a status waits
for its turn. Runs last up to one unit, with leases of three: a run in between is just what
the third record needs (`RoomAssumption`). What the reconciler does with a record in progress
is in `settle_races`. These two runs, bounded as they are, may stop; deadlock is checked in
all the others.

**Fairness.** `Settlement!FairSpec`: time passes; a running reconciler finishes its calls and
writes (weak fairness: `run_once` awaits nothing but the provider, whose calls
time out); and again and again it gets to a stale record with some lease left, has
a conclusive answer and writes it before the lease is over (strong fairness per
record: the runner repeats runs for ever, the scan is oldest first, and the
provider time-out of 30 s is half the lease of 60 s). Nothing is assumed of requests or
money. Without the conclusive answer the property is false of the code: a provider
that always raises keeps an unknown record unknown (`reconciliation.py:93`).

Weak fairness of each coroutine, whose timers and time-outs fire, is all that `Nanopay`,
`Admission`, `Pool` and `ExactProvider` assume, and `OpsAuth` besides that time passes.
`OperatorControl` assumes strong fairness of the row lock: the server hands it to those
who wait. `Migrations` assumes that every process goes on (weak fairness: a start that
finds the advisory lock taken waits for it, and nobody keeps it for ever), and that one that
ended is started again (`restart: unless-stopped` in the compose file). `Runner` assumes
that the process is restarted, that runs do not fail for ever, that a provider asked again
and again answers again and again, and `RoomAssumption`: a run is over before its leases
are, and the runs that start within one lease have room for every open record. Without it
records at the tail of the queue do starve: the leases of the older ones end first, and they
come first again. The defaults do not ensure it. All leases of a run end 60 s after its
start, a call of the provider may take 30 s, and a run takes up to 100 records: two calls
that time out use up the leases of the whole batch, and what is claimed after that is
asked about and not written.

## 5. Where documentation and code disagree

Shown by runs:

* `late_transaction`: when the reconciler has moved the record to unknown before the
  handler writes its outcome, `mark_record_and_finish_settle_attempt` raises and the
  transaction hash is lost, against step 9 of
  `docs/hosted-facilitator-end-to-end-spec.md:146`. The Exact provider then has nothing
  to look up, and the record ends in manual review.
* `unsupported_no_fallback`: `_map_settlement_error` cannot construct
  `UnsupportedNetworkError` or `NetworkMismatchError`; the Gateway's refusal becomes a
  `TypeError`, and the "safe fallback" promised at `nanopayments/adapter.py:1109` is not
  offered.
* `revoked_key`: the start of a process makes a configured key active again that an
  operator has revoked (`hosted/postgres.py:2196`), without an audit event, against
  `docs/hosted-facilitator-seller-domain-design.md:199`, "revoked ... records fail closed".

* `error_trips`: `record_error` opens the circuit when the count reaches the threshold
  (`nanopayments/adapter.py:196`); its docstring says such errors "don't trip the circuit
  but do count toward the threshold" (`adapter.py:192`).
* `other_profile`: a payment that was settled under one profile and is presented under
  another one of the seller is answered from the record, success and transaction
  (`hosted/engine.py:400`), without a word of the profile;
  `docs/hosted-facilitator-seller-domain-design.md:700` says that the response "must not
  silently report a successful settlement for the wrong profile".

Met while modelling, and modelled as the code does it:

* An ambiguous outcome is stored with the record's (empty) transaction, not with the
  outcome's (`hosted/engine.py:206`), against the same step 9.
* The circuit is looked at before the first attempt only, so retries go through a circuit
  that is said to be "failing fast" (`adapter.py:127`).
* `pay_direct` hides `CircuitOpenError` in a `SettlementError`, so the fallback of `execute`
  for an open circuit (`adapter.py:1109`) is dead code.
* On Redis an address has one invalid-request bucket per seller it presents
  (`hosted/limits.py:245`), where
  `docs/hosted-facilitator-seller-domain-design.md:597` has one per address.
* A pause committed after the check of `hosted/app.py:748` does not stop the submission;
  `docs/hosted-facilitator-end-to-end-spec.md:229` says pauses are "enforced before
  provider submission". `PauseQuiesces` and `AnswersJustified` say what does hold.
* On Redis Retry-After may be half a second short, since `TTL` answers whole seconds
  (`hosted/limits.py:151`), and in the last half second it is 0 and the header is not sent
  (`limits.py:71`).
* A start also makes a disabled payment profile active again that its configuration names
  (`hosted/postgres.py:1744`, `2147`), as it does with revoked keys.
* A database with `project_id` beside `seller_account_id` keeps the first, NOT NULL
  (`hosted/postgres.py:61`, `147-241`). It passes the health check, and every claim fails,
  since `CLAIM_RECORD_SQL` (`856-872`) does not fill it. `ClaimsUnhindered` excepts just
  these databases.
* Keys of before payment profiles are to be migrated
  (`docs/hosted-facilitator-seller-domain-design.md:622-632`, `hosted/postgres.py:553-556`);
  the columns are added and not the foreign key that the health check asks for, so that no
  facilitator comes up on such a database (`AlphaSellers` in `MCMigrations`).
* A retry of a payment in progress is answered *unknown* with the reason
  `settlement_in_progress`; the design document has *submitted* there
  (`docs/hosted-facilitator-seller-domain-design.md:689`).

No property is about one authorization presented by two sellers. The design document has
it unique over all of them (`docs/hosted-facilitator-seller-domain-design.md:638`, `724`);
the look-up and the lock of a claim are within a seller's account (`hosted/postgres.py:2680`),
so both would be submitted, and that only one of them pays is left to the provider. A
payment of the models is one account's.

## 6. Proofs

| module | theorems | about |
|---|---|---|
| `SettlementProofs` | `TypeCorrect`, `HandedOverOnce`, `FinalsAreTrue`, `AnswersKeep`, `AttemptsKeepStep`, `FenceHolds`, `FinalsStay`, `KeepsContract` | `Settlement` and `SettlementContract` |
| `NanopayProofs` | `NanopayTypeCorrect`, `BreakerConsistent`, `NoDoublePay`, `PaidWhenReported`, `ReopensOnFailure` | `Nanopay` |
| `AdmissionProofs` | `AnswersAreJustified`, `RecordedPaymentsAnswered` | `Admission` |
| `StoresProofs` | `StoresRecordsSound`, `StoresKeepTheContract`, `OperatorNotMisled` | `Stores`, `SettlementContract` and `StoreViews` |
| `OperationsProofs` | `AdmittedHadTheRole`, `WithdrawnKeysLapse`, `ActionsAudited`, `LeasesRespected`, `BatchesBalanced` | `OpsAuth`, `OperatorControl`, `Runner` |
| `ServicesProofs` | `PoolIsSound`, `WindowsBounded`, `DecisionsAreSound`, `ProviderIsTruthful`, `CallsOneAtATime` | `Pool`, `RateLimit`, `ExactProvider` |
| `ControlPlaneProofs` | `PausesFormAChain`, `MigrationsRunOnce`, `DatabasesMigratedWhole`, `SellersAreAudited`, `TenancyIsFixed` | `Pauses`, `Migrations`, `Sellers` |

A theorem about a module whose assumption is an `ASSUME` rests on it; a theorem about an
instance takes the module's assumption as a hypothesis, and the MC modules assume the
same of their instances, so that TLC evaluates it. `RankingProofs` has lemmas only: ranks
are different and leave no gap, so `Lowest` has as many as asked for or all there are, and
`Ranked` lists a set once and in order.

Every invariant that a run checks is stated by one of these theorems, and so is every
action property.

### `Settlement`

All for arbitrary sets of payments, requests, workers and operators, arbitrary
owner names and times, from two assumptions in `Settlement`: `ConstantsAssumption`
(times are naturals, stale and lease times positive, `AgeBound` large enough) and
`OwnersAssumption` (no reconciler has an operator's name, which the digest in an
operator's lease owner ensures).

* `TypeCorrect`: `TypeOK` is inductive by itself.
* `HandedOverOnce`, `FinalsAreTrue`, `AnswersKeep`, `AttemptsKeepStep`: none of the
  four is inductive. `Consistent` adds what they rest on: a payment has one handler
  between claim and last write, the provider was asked iff that handler is past the
  call, and answers in anybody's hands are still true. `Safe` is the conjunction, one
  lemma per actor.
* `FenceHolds`: `ClaimsFenced` is the argument. While a worker's lease runs, either
  its claim is intact or the row was updated after its run began. A later claim
  needs a free row whose last update lies a stale time before its own run began, so
  that run began later and its lease ends later than the first worker's: the lease
  ends differ, and the fence tells them apart. This needs the stale times to be
  positive, and does not need different owner names.
* `FinalsStay`: from both; that no transaction is lost needs the fence, since the
  reconciler writes back what it read at the claim.
* `KeepsContract`: the mapping takes statuses to contract outcomes and answers to
  promises. The one subtle step is the late hand-over: a handler may call the
  provider when the record is already with a human, but never once it is settled or
  failed, because either would mean that the provider had been asked before.

`Consistent`, `ClaimsFenced`, `FenceExclusive` and, for `Nanopay`, `Accounted` are not
checked by a run of their own: they are conjuncts of the invariants proved here.

### `Nanopay`

For any payments, threshold, recovery time, retries and balance, from
`NanopayAssumption` (naturals, a positive threshold, a payment is of one kind):

* `NanopayTypeCorrect`, `BreakerConsistent`, `NoDoublePay`, `PaidWhenReported`: from one
  inductive invariant. It has two halves. Each operation of the breaker keeps it
  in order, and every step of the system is one of these operations on it
  (`NextBreaker`), whatever the payments do. For the payments `Accounted` is needed:
  an authorization that is out belongs to a payment past its signature, whose errors
  are none of the three that offer a fallback.
* `ReopensOnFailure`: from the first half.

### `Admission`

For any handlers, keys, payments and routes. `AnswersJustified` speaks of answers, so the
invariant (`AdmissionInv`) has to say of every place on the way what the answer will rest
on. `Priced`: who will be refused as invalid is on the way to the place where it pays, and
has not paid before. `Witnessed`: who is past the key has seen it in force since it came,
who is past the pauses has seen its route open; this is about `seen`, which
`HistoryKept` ties to the present. Who submits has a payment that is recorded and not
sent, and no two have the same: `ClaimRecord` inserts, and finds what another one
inserted. `RecordedNeverLimited` is an action property and follows from the second look
at the record that a limited request takes.

### `Stores` and `StoreViews`

For any requests, processes, payments and profiles, in each of the three stores.
`StoresInv` has besides the conjuncts of `RecordsSound` what a request in the middle of a
claim knows (`Knows`): if it found no record there is none, and if it found one its answer
is the record's, because the lock it has excludes every other claim of the payment
(`Exclusive`). `HandedTraced` and `OutcomeTrue` carry the refinement: `Outcome` and
`ToldOf` map to the contract, and a step of a request is one of the contract's or a
stutter (`ContractStep`), one lemma per action. The unguarded writes of the local stores
are harmless because one request only writes a payment's record.

`OperatorNotMisled` holds for any sellers, amounts and page size too. The queries of a
view are of different moments, so `ViewInv` relates what has been read to what the queries
still to come will find; it survives the steps of others because the tables only grow
(`Grows`): records and attempts stay, as do final statuses, promises and money that moved.
A promise is of a settled record and that is of money that moved, which puts the total
between the two (`Units` of a set and of a subset), and the page is a `Lowest` of the
queue, so what is not on it has a full page before it.

### `OpsAuth`, `OperatorControl`, `Runner`

`AuthInv`: a withdrawn key that the cached copy still holds has been withdrawn for no
longer than the copy is old (`CopyAge`); who is being checked remembers a relation that
grants the permission whenever there was one (`HeldNoted`). `ControlInv`: the row lock is
had by exactly the request that has written (`LockHeld`), so what it read is still there
when it commits; an event belongs to a request that committed, one each (`TrailOfDone`);
an operator who owns the record has the last event, a claim (`OwnerClaimed`).
`LeaseRespected` needs `NotAhead`: a clock that was read before the wait for the lock, by an
operator or by a worker, is never ahead, so a lease that has run out by it has run out.

`RunnerInv` is domains and `InOrder`: the order of `updated_at` has every record once,
which a record that is touched keeps by moving to the end (`MovedToEnd`), and times within
their bounds while runs take time (`LaterRows`). From this, ranks
are places in the buckets of the scan, a candidate's slot tells its round and its status
and is had by no other, and the batch is the lowest `Limit` of the slots. A status that is
left behind in some round had its turn in every round before, which is the balance.

### `Pool`, `RateLimit`, `ExactProvider`

`PoolInv`: one place per connection (`OnePlace`) and a count of the open ones and of those
being opened (`Counted`); with coroutines nobody is inside when the pool closes
(`NoneInside`).

`LimiterInv` follows a counter through its life (`Good`): either all that was let through
is in the count, or the counter has expired once, what was let through in time fits the
limit, and the new counter outlives the last script that may still charge it. Looking for
this invariant showed that `WindowBound` had been stated too strongly: with a delay of
two units and a window of three, scripts that come late are admitted partly by the old
counter and partly by the new one, and those alone may exceed the limit. The property now
bounds what is admitted in time, and all of it together.

`DecisionsAreSound`: a full bucket's key was made in the window that is full, or later, so it
lives to the end of it; rounding takes off half a second at most (`Rounded`), which is the
`Slack` of the property.

`ProviderIsTruthful` needs only that an answer ends its call. `CallsOneAtATime` needs
`SlotsInv`, that the free places and the places held, in locks and in their queues, add up
to `MaxConcurrent`, that the queues have no one twice, and that those who wait or hold are
the calls that have entered and not ended: `Fit` says so of a semaphore with some places
in the hands of a coroutine that is about to pass them on, and each operation on the
slots has a lemma about it. `NoncesInv`: the count of a
network is the number of its mined transactions, and as long as no call of it ended
before its transaction, an open transaction belongs to the call that has the lock and has
the next nonce (`InTurn`).

### `Pauses`, `Migrations`, `Sellers`

`PausesInv`: who has the row lock read its *before* from the row as it is, and the row is
what the events have left (`LeftBy`).

`LedgerInv`: of a scope at most one process is past the advisory lock; the migrations it
is to run are not in the ledger, and those it has run have taken no effect before
(`NotYet`); what has taken effect, once, is in the ledger (`Recorded`).

`DatabasesMigratedWhole` rests on one lemma for the SQL of each migration: on tables that
agree with a ledger it leaves tables that agree with the ledger and it, with every owner,
claim, event and seller of the ones before (`SettlementMade`, `ControlMade`,
`SellersMade`). `MigratedInv` carries this through the processes. The committed tables
agree with the ledger and are made of those the first process found (`TablesSound`); what an
open transaction sees is the committed tables, changed by what it ran (`TxSound`); and a
scope that a process of this release has left stays healthy (`Ready`), since its ledger is
complete and nothing is due to anybody any more. A refused scope is left alone because
whoever runs a migration there is `Hopeless`: the one that fails is still to come. It is
assumed that the databases agree with their ledgers, and that a release without the first
of the two migrations of the settlement tables of this one lacks the second too.

`SellersInv`: what a transaction has locked, and what it has found there (`Held`): a
creator has its tenant and its account, which is absent; who revokes has a key that is
active; who bootstraps has tenant and account. Other transactions leave this alone
(`Undisturbed`) because they write locked rows only if the lock is theirs (`OwnRows`), and
a new key is one that nobody has. `KeyTrue` relates a key's row to its events, `Created`
the accounts to theirs. Only keys that no configuration names are audited so; the others
come back with every start (section 5). `TenancyIsFixed` is the action property of the
same steps, `Steady`.

### What the model had to say for this

Where a definition could not be reasoned about it was rewritten, to the same steps:
`Touch` of `Stores` and `LeaveSlot` of `ExactProvider` remove the one occurrence that there
is (`RemoveAt`) instead of filtering a sequence; `due` of `Migrations` is the set of versions
and `First` takes the next one of the release's list; `AuditChain` says what the events
before one have left (`Left`) instead of selecting them; alternatives of a `CASE` exclude
each other. The scan and the pages take records by rank (`Ranking`) where they filtered
and cut sequences, and totals count atomic units where they folded a sum: what a filter or
a fold computes for every input takes induction over data. `QueueShowsOpen`, which had
been stated for pages with room, now says what a full page may leave out. Some assumptions were made explicit: payments are not empty in `Admission` and
finite in `ExactProvider`, a permission is granted by some relation in `OpsAuth`, and the
ledgers of `Migrations` have versions of their scope and agree with the tables.

### What stays with TLC

Liveness, which is out of the prover's reach: `EveryRecordEnds`, `Returns`, `PauseQuiesces`,
`EveryoneServes`, `NobodyWaitsForEver`, `ActionsEnd`, `LoopProgress`, and the second half of
`KeysFollowIssuer` (`RotationSettles`). That the five `violation` runs violate what the
documents say is shown by a behaviour, which TLC finds.

## 7. Not modelled

Not modelled: the HTTP client of the Circle provider (pure I/O; its answers are among the
provider's in `Settlement`), nanopayment signing, types and exceptions (data and EIP-712
encoding), telemetry, the operations console (cookie cryptography and a proxy), the
read-only routes other than the two views, the building of the application from its
environment, and `_check_and_topup` of the adapter, which nothing calls. None of them
keeps state that settlement depends on.
