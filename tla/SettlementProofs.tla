-------------------------- MODULE SettlementProofs --------------------------
(***************************************************************************)
(* Proofs about Settlement, for any number of payments, requests, workers  *)
(* and operators and any time-outs.                                        *)
(***************************************************************************)
EXTENDS Settlement, TLAPS

-----------------------------------------------------------------------------
(***************************************************************************)
(* Types.                                                                  *)
(***************************************************************************)

\* Overwriting one entry of a function with a value of its range.
LEMMA ExceptType ==
  ASSUME NEW S, NEW T, NEW f \in [S -> T], NEW x, NEW v \in T
  PROVE  [f EXCEPT ![x] = v] \in [S -> T]
  OBVIOUS

\* Whatever status it is given, _cached_settlement answers with one of the
\* four published settlement statuses.
LEMMA CachedReplyType == \A s : CachedReply(s) \in Reply
  BY DEF CachedReply, Reply

\* The statuses engine.settle asks for, and what they do to the attempt.
LEMMA OutcomeType ==
  ASSUME NEW a
  PROVE  /\ Outcome(a) \in {"settled", "submitted", "settle_failed", "unknown"}
         /\ Outcome(a) = "settled" => a.status = "settled"
         /\ Outcome(a) = "settle_failed" => a.status = "failed_final"
         /\ AttemptFor(Outcome(a)) \in AttemptStatus \ {"none", "started"}
  BY DEF Outcome, AttemptFor, AttemptStatus

\* The statuses the reconciler writes, and when.
LEMMA DecisionType ==
  ASSUME NEW v
  PROVE  /\ Decision(v) \in {"none", "settled", "settle_failed", "unknown", "manual_review"}
         /\ Decision(v) = "settled" => v.answer.status = "settled"
         /\ Decision(v) = "settle_failed" => v.answer.status = "failed_final"
         /\ AttemptFor(Decision(v)) \in AttemptStatus \ {"none", "started"}
  BY DEF Decision, ManualOrPending, AttemptFor, AttemptStatus

\* The initial state is well typed.
LEMMA InitType == Init => TypeOK
  BY ConstantsAssumption
  DEF Init, TypeOK, Status, AttemptStatus, RequestState, IdleRequest, NoAnswer,
      WorkerState, IdleWorker

\* What a worker or a request turns into between two steps is well typed.
LEMMA NextRecordType ==
  ASSUME TypeOK, NEW w \in Workers, NEW todo \in SUBSET (Payments \X Open)
  PROVE  NextRecord(w, todo) \in WorkerState
<1>1. IdleWorker \in WorkerState
  BY ConstantsAssumption DEF IdleWorker, WorkerState, NoAnswer, Status
<1>2. worker[w].elapsed \in 0..LeaseTime
  BY DEF TypeOK, WorkerState
<1> QED
  BY <1>1, <1>2 DEF NextRecord, WorkerState, IdleWorker

LEMMA HoldsType ==
  ASSUME TypeOK, NEW w \in Workers, NEW c \in Payments \X Open
  PROVE  Holds(w, c) \in WorkerState
<1> DEFINE late == age[c[1]] - worker[w].elapsed >= ManualAfter
<1>1. late \in BOOLEAN
  OBVIOUS
<1>2. status[c[1]] \in Status /\ txn[c[1]] \in BOOLEAN /\ worker[w] \in WorkerState
  BY DEF TypeOK
<1> HIDE DEF late
<1>3. PICK d \in BOOLEAN : d = late
  BY <1>1, Zenon
<1>4. [worker[w] EXCEPT !.pc = "calling", !.todo = worker[w].todo \ {c}, !.pay = c[1],
                        !.seen = status[c[1]], !.tx = txn[c[1]], !.overdue = d] \in WorkerState
  BY <1>2 DEF WorkerState
<1> QED
  BY <1>3, <1>4, Zenon DEF Holds, late

LEMMA RequestStepType ==
  ASSUME TypeOK, NEW r \in Requests, RequestStep(r)
  PROVE  TypeOK'
<1> USE DEF TypeOK, storeVars, providerVars
<1>0. IdleRequest \in RequestState /\ request[r] \in RequestState
  BY DEF IdleRequest, RequestState, NoAnswer
<1>1. ASSUME NEW p \in Payments, ReplayCached(r, p) PROVE TypeOK'
  BY <1>0, <1>1, CachedReplyType DEF ReplayCached, AnswerClient
<1>2. ASSUME NEW p \in Payments, MissCache(r, p) PROVE TypeOK'
  BY <1>0, <1>2 DEF MissCache, RequestState
<1>3. CASE RateLimited(r)
  BY <1>0, <1>3, CachedReplyType DEF RateLimited, AnswerClient
<1>4. CASE Claim(r)
  <2>1. [request[r] EXCEPT !.pc = "claimed"] \in RequestState
    BY <1>0 DEF RequestState
  <2>2. request' \in [Requests -> RequestState]
    BY <1>4, <2>1 DEF Claim
  <2>3. status' \in [Payments -> Status] /\ attempt' \in [Payments -> AttemptStatus]
    BY <1>4 DEF Claim, Status, Open, AttemptStatus
  <2> QED
    BY <1>4, <2>2, <2>3, ConstantsAssumption DEF Claim
<1>5. CASE ClaimDuplicate(r)
  BY <1>0, <1>5, CachedReplyType DEF ClaimDuplicate, AnswerClient
<1>6. CASE CallProvider(r)
  <2>1. [request[r] EXCEPT !.pc = "calling"] \in RequestState
    BY <1>0 DEF RequestState
  <2>2. request' \in [Requests -> RequestState]
    BY <1>6, <2>1 DEF CallProvider
  <2>3. calls' \in [Payments -> 0..2]
    <3>1. (IF calls[request[r].pay] = 0 THEN 1 ELSE 2) \in 0..2
      OBVIOUS
    <3> QED BY <1>6, <3>1, ExceptType, Zenon DEF CallProvider
  <2>4. chain' \in [Payments -> {"none", "called", "moved", "dead"}]
    BY <1>6 DEF CallProvider
  <2> QED
    BY <1>6, <2>2, <2>3, <2>4 DEF CallProvider
<1>7. CASE ProviderAnswers(r)
  <2>1. PICK a \in SettleAnswer :
           request' = [request EXCEPT ![r] = [@ EXCEPT !.pc = "answered", !.answer = a]]
    BY <1>7 DEF ProviderAnswers, SettleAnswers
  <2>2. [request[r] EXCEPT !.pc = "answered", !.answer = a] \in RequestState
    BY <1>0 DEF RequestState
  <2>3. request' \in [Requests -> RequestState]
    BY <2>1, <2>2
  <2> QED
    BY <1>7, <2>3 DEF ProviderAnswers
<1>8. CASE FinishSettle(r)
  <2>1. /\ Outcome(request[r].answer) \in Status
        /\ AttemptFor(Outcome(request[r].answer)) \in AttemptStatus
    BY OutcomeType DEF Status, Open, Final
  <2>2. request' \in [Requests -> RequestState] /\ told' \in [Payments -> SUBSET Reply]
    BY <1>0, <1>8, CachedReplyType DEF FinishSettle, AnswerClient
  <2>3. status' \in [Payments -> Status] /\ attempt' \in [Payments -> AttemptStatus]
    BY <1>8, <2>1 DEF FinishSettle
  <2>4. txn' \in [Payments -> BOOLEAN]
    BY <1>8, Zenon DEF FinishSettle
  <2>5. age' \in [Payments -> 0..AgeBound]
    <3>1. 0 \in 0..AgeBound
      BY ConstantsAssumption
    <3> QED BY <1>8, <3>1, ExceptType, Zenon DEF FinishSettle
  <2> QED
    BY <1>8, <2>2, <2>3, <2>4, <2>5 DEF FinishSettle, DropLease
<1>9. CASE FinishRefused(r)
  BY <1>0, <1>9 DEF FinishRefused
<1>10. CASE CrashRequest(r)
  BY <1>0, <1>10 DEF CrashRequest
<1> QED
  BY <1>1, <1>2, <1>3, <1>4, <1>5, <1>6, <1>7, <1>8, <1>9, <1>10 DEF RequestStep

LEMMA WorkerStepType ==
  ASSUME TypeOK, NEW w \in Workers, WorkerStep(w)
  PROVE  TypeOK'
<1> USE DEF TypeOK, storeVars, providerVars, engineVars
<1>0. worker[w] \in WorkerState /\ LeaseLeft(w) \in Nat
  BY ConstantsAssumption DEF WorkerState, LeaseLeft
<1>1. CASE StartRun(w)
  <2>1. PICK todo \in SUBSET (Payments \X Open) :
           worker' = [worker EXCEPT ![w] = [@ EXCEPT !.pc = "batch", !.todo = todo]]
    BY <1>1 DEF StartRun, Candidates
  <2>2. [worker[w] EXCEPT !.pc = "batch", !.todo = todo] \in WorkerState
    BY <1>0 DEF WorkerState
  <2>3. worker' \in [Workers -> WorkerState]
    BY <2>1, <2>2
  <2> QED
    BY <1>1, <2>3 DEF StartRun
<1>2. CASE ClaimRecord(w)
  <2>1. PICK c \in worker[w].todo :
           /\ owner' = [owner EXCEPT ![c[1]] = OwnerOf[w]]
           /\ lease' = [lease EXCEPT ![c[1]] = LeaseLeft(w)]
           /\ worker' = [worker EXCEPT ![w] = Holds(w, c)]
    BY <1>2 DEF ClaimRecord
  <2>2. c \in Payments \X Open /\ c[1] \in Payments
    BY <1>0, <2>1 DEF WorkerState
  <2>3. Holds(w, c) \in WorkerState
    BY <2>2, HoldsType
  <2>4. worker' \in [Workers -> WorkerState]
    BY <2>1, <2>3
  <2> QED
    BY <1>0, <1>2, <2>1, <2>2, <2>4 DEF ClaimRecord
<1>3. CASE SkipRecord(w)
  <2>1. worker[w].todo \in SUBSET (Payments \X Open)
    BY <1>0 DEF WorkerState
  <2> QED BY <2>1, <1>3, NextRecordType DEF SkipRecord
<1>4. CASE ProviderReconciles(w)
  <2>1. PICK a \in ReconcileAnswer :
           worker' = [worker EXCEPT ![w] = [@ EXCEPT !.pc = "answered", !.answer = a]]
    BY <1>4 DEF ProviderReconciles, ReconcileAnswers
  <2>2. [worker[w] EXCEPT !.pc = "answered", !.answer = a] \in WorkerState
    BY <1>0 DEF WorkerState
  <2>3. worker' \in [Workers -> WorkerState]
    BY <2>1, <2>2
  <2> QED
    BY <1>4, <2>3 DEF ProviderReconciles
<1>5. CASE ApplyOutcome(w)
  <2>1. NextRecord(w, worker[w].todo) \in WorkerState
    BY <1>0, NextRecordType DEF WorkerState
  <2>2. Decision(worker[w]) \in Status
    BY <1>5, DecisionType DEF ApplyOutcome, Writes, Status, Open, Final
  <2>3. attempt' \in [Payments -> AttemptStatus]
    BY <1>5, DecisionType DEF ApplyOutcome, CloseAttempt
  <2>4. worker' \in [Workers -> WorkerState] /\ status' \in [Payments -> Status]
    BY <1>5, <2>1, <2>2 DEF ApplyOutcome
  <2>5. txn' \in [Payments -> BOOLEAN]
    BY <1>5, Zenon DEF ApplyOutcome
  <2>6. age' \in [Payments -> 0..AgeBound]
    <3>1. 0 \in 0..AgeBound
      BY ConstantsAssumption
    <3> QED BY <1>5, <3>1, ExceptType, Zenon DEF ApplyOutcome
  <2> QED
    BY <1>5, <2>3, <2>4, <2>5, <2>6 DEF ApplyOutcome, DropLease
<1>6. CASE ApplyNothing(w)
  <2>1. \A t \in {{}, worker[w].todo} : NextRecord(w, t) \in WorkerState
    BY <1>0, NextRecordType DEF WorkerState
  <2> QED BY <1>6, <2>1 DEF ApplyNothing
<1>7. CASE CrashWorker(w)
  <2>1. IdleWorker \in WorkerState
    BY ConstantsAssumption DEF IdleWorker, WorkerState, NoAnswer, Status
  <2> QED BY <1>7, <2>1 DEF CrashWorker
<1> QED
  BY <1>1, <1>2, <1>3, <1>4, <1>5, <1>6, <1>7 DEF WorkerStep

LEMMA OperatorStepType ==
  ASSUME TypeOK, NEW o \in Operators, NEW p \in Payments, OperatorStep(o, p)
  PROVE  TypeOK'
<1> USE ConstantsAssumption DEF TypeOK, providerVars, engineVars
<1>1. CASE OperatorClaim(o, p)
  BY <1>1 DEF OperatorClaim
<1>2. CASE OperatorRelease(o, p)
  BY <1>2 DEF OperatorRelease, DropLease
<1>3. CASE OperatorManualReview(o, p)
  <2>1. AttemptFor("manual_review") \in AttemptStatus
    BY DEF AttemptFor, AttemptStatus
  <2> QED
    BY <1>3, <2>1 DEF OperatorManualReview, DropLease, CloseAttempt, Status, Final
<1> QED
  BY <1>1, <1>2, <1>3 DEF OperatorStep

LEMMA TickType == TypeOK /\ Tick => TypeOK'
<1> SUFFICES ASSUME TypeOK, Tick PROVE TypeOK'
  OBVIOUS
<1> USE ConstantsAssumption DEF TypeOK, providerVars, engineVars
<1>1. age' \in [Payments -> 0..AgeBound] /\ lease' \in [Payments -> Nat]
  BY DEF Tick
<1>2. ASSUME NEW w \in Workers, worker[w].elapsed < LeaseTime
      PROVE  [worker[w] EXCEPT !.elapsed = @ + 1] \in WorkerState
  BY <1>2 DEF WorkerState
<1>3. worker' \in [Workers -> WorkerState]
  BY <1>2 DEF Tick
<1> QED
  BY <1>1, <1>3 DEF Tick

\* Every step of engine, provider, reconciler, operator and clock keeps the
\* types.
LEMMA NextType == TypeOK /\ [Next]_vars => TypeOK'
<1> SUFFICES ASSUME TypeOK, [Next]_vars PROVE TypeOK'
  OBVIOUS
<1>1. ASSUME NEW p \in Payments, MoneyMoves(p) \/ PaymentDies(p) PROVE TypeOK'
  BY <1>1 DEF MoneyMoves, PaymentDies, TypeOK, storeVars, engineVars
<1>2. CASE UNCHANGED vars
  BY <1>2 DEF vars, storeVars, providerVars, engineVars, TypeOK
<1> QED
  BY <1>1, <1>2, RequestStepType, WorkerStepType, OperatorStepType, TickType DEF Next

\* Columns and handler state keep their domains, and clients only ever hear
\* one of the four published settlement statuses.
THEOREM TypeCorrect == Spec => []TypeOK
  BY InitType, NextType, PTL DEF Spec
-----------------------------------------------------------------------------
(***************************************************************************)
(* Records, handlers and the provider.                                     *)
(***************************************************************************)

\* The properties of records and handlers, which are inductive together.
Safe ==
    /\ Consistent
    /\ SubmittedOnce
    /\ FinalTruth
    /\ AnswersStand
    /\ AttemptFollowsRecord

\* A duplicate is told settled or failed_final only of a record that is.
LEMMA CachedReplyFinal ==
  \A s : /\ CachedReply(s) = "settled" => s = "settled"
         /\ CachedReply(s) = "failed_final" => s = "settle_failed"
  BY DEF CachedReply

\* The last write of a handler and the write of a worker start from an open
\* status.
LEMMA FinishFromOpen == \A s : FinishFrom(s) \subseteq {"settle_in_progress", "submitted"}
  BY DEF FinishFrom

LEMMA ReconcileFromOpen == \A s : ReconcileFrom(s) \subseteq Open
  BY DEF ReconcileFrom, Open

LEMMA InitSafe == Init => Safe
  BY OwnersAssumption
  DEF Init, Safe, Consistent, Busy, SubmittedOnce, FinalTruth, AnswersStand,
      AttemptFollowsRecord, IdleRequest, IdleWorker

\* Steps that only answer from the record, or give up.
LEMMA AnswerSafe ==
  ASSUME TypeOK, Safe, NEW r \in Requests, NEW p \in Payments,
         UNCHANGED <<storeVars, providerVars, worker>>,
         request' = [request EXCEPT ![r] = IdleRequest],
         \/ UNCHANGED told
         \/ told' = [told EXCEPT ![p] = @ \cup {CachedReply(status[p])}]
  PROVE  Safe'
<1> USE DEF storeVars, providerVars
<1>1. \A q \in Requests : q # r => request'[q] = request[q]
  BY DEF TypeOK
<1>2. request'[r].pc = "idle"
  BY DEF TypeOK, IdleRequest
<1>3. Consistent'
  BY <1>1, <1>2 DEF Safe, Consistent, Busy, Truthful
<1>4. AnswersStand'
  BY CachedReplyFinal DEF Safe, AnswersStand, TypeOK
<1> QED
  BY <1>3, <1>4 DEF Safe, SubmittedOnce, FinalTruth, AttemptFollowsRecord

LEMMA RequestStepSafe ==
  ASSUME TypeOK, Safe, NEW r \in Requests, RequestStep(r)
  PROVE  Safe'
<1> DEFINE p == request[r].pay
<1>0. /\ request[r] \in RequestState
      /\ request[r].pc # "idle" => p \in Payments
  BY DEF TypeOK, Safe, Consistent
<1>1. ASSUME NEW x \in Payments, ReplayCached(r, x) PROVE Safe'
  BY <1>1, AnswerSafe DEF ReplayCached, AnswerClient
<1>2. ASSUME NEW x \in Payments, MissCache(r, x) PROVE Safe'
  <2>1. \A q \in Requests : q # r => request'[q] = request[q]
    BY <1>2 DEF MissCache, TypeOK
  <2>2. request'[r].pc = "checked" /\ request'[r].pay = x
    BY <1>0, <1>2 DEF MissCache, TypeOK, RequestState
  <2> QED
    BY <1>2, <2>1, <2>2
    DEF MissCache, storeVars, providerVars, Safe, Consistent, Busy, Truthful,
        SubmittedOnce, FinalTruth, AnswersStand, AttemptFollowsRecord
<1>3. CASE RateLimited(r)
  BY <1>0, <1>3, AnswerSafe DEF RateLimited, AnswerClient
<1>4. CASE Claim(r)
  <2>1. /\ p \in Payments /\ status[p] = "absent"
        /\ status' = [status EXCEPT ![p] = "settle_in_progress"]
        /\ attempt' = [attempt EXCEPT ![p] = "started"]
        /\ UNCHANGED <<chain, calls, told, worker>>
    BY <1>0, <1>4 DEF Claim, Unclaimed, providerVars
  <2>2. \A q \in Requests : q # r => request'[q] = request[q]
    BY <1>4 DEF Claim, TypeOK
  <2>3. request'[r].pc = "claimed" /\ request'[r].pay = p
    BY <1>0, <1>4 DEF Claim, TypeOK, RequestState
  <2>4. /\ \A x \in Payments : x # p => status'[x] = status[x] /\ attempt'[x] = attempt[x]
        /\ status'[p] = "settle_in_progress" /\ attempt'[p] = "started"
    BY <2>1 DEF TypeOK
  <2>5. ~txn'[p] /\ \A x \in Payments : x # p => txn'[x] = txn[x]
    BY <1>4, <2>1, Zenon DEF Claim, TypeOK
  <2>6. \A q \in Requests : Busy(q) => request[q].pay # p
    BY <2>1 DEF Safe, Consistent
  <2>7. Consistent'
    BY <2>1, <2>2, <2>3, <2>4, <2>5, <2>6 DEF Safe, Consistent, Busy, Truthful
  <2> QED
    BY <2>1, <2>4, <2>7
    DEF Safe, SubmittedOnce, FinalTruth, AnswersStand, AttemptFollowsRecord
<1>5. CASE ClaimDuplicate(r)
  BY <1>0, <1>5, AnswerSafe DEF ClaimDuplicate, AnswerClient
<1>6. CASE CallProvider(r)
  <2>1. /\ p \in Payments /\ Busy(r) /\ calls[p] = 0 /\ chain[p] = "none"
        /\ status[p] # "absent"
    BY <1>0, <1>6 DEF CallProvider, Safe, Consistent, Busy
  <2>2. \A q \in Requests : q # r => request'[q] = request[q]
    BY <1>6 DEF CallProvider, TypeOK
  <2>3. request'[r].pc = "calling" /\ request'[r].pay = p
    BY <1>0, <1>6 DEF CallProvider, TypeOK, RequestState
  <2>4. /\ calls'[p] = 1 /\ chain'[p] = "called"
        /\ \A x \in Payments : x # p => calls'[x] = calls[x] /\ chain'[x] = chain[x]
        /\ UNCHANGED <<status, txn, attempt, told, worker>>
    BY <1>6, <2>1 DEF CallProvider, TypeOK, storeVars
  <2>5. Consistent'
    BY <2>1, <2>2, <2>3, <2>4 DEF Safe, Consistent, Busy, Truthful
  <2> QED
    BY <2>1, <2>4, <2>5
    DEF Safe, SubmittedOnce, FinalTruth, AnswersStand, AttemptFollowsRecord
<1>7. CASE ProviderAnswers(r)
  <2>1. PICK a \in SettleAnswers(chain[p]) :
           request' = [request EXCEPT ![r] = [@ EXCEPT !.pc = "answered", !.answer = a]]
    BY <1>7 DEF ProviderAnswers
  <2>2. Truthful(a, chain[p])
    BY <2>1 DEF SettleAnswers, Truthful
  <2>3. \A q \in Requests : q # r => request'[q] = request[q]
    BY <2>1 DEF TypeOK
  <2>4. request'[r].pc = "answered" /\ request'[r].pay = p /\ request'[r].answer = a
    BY <1>0, <2>1 DEF TypeOK, RequestState
  <2>5. UNCHANGED <<status, txn, attempt, chain, calls, told, worker>>
    BY <1>7 DEF ProviderAnswers, storeVars, providerVars
  <2>6. request[r].pc = "calling"
    BY <1>7 DEF ProviderAnswers
  <2>7. Consistent'
    BY <2>2, <2>3, <2>4, <2>5, <2>6 DEF Safe, Consistent, Busy, Truthful
  <2> QED
    BY <2>5, <2>7
    DEF Safe, SubmittedOnce, FinalTruth, AnswersStand, AttemptFollowsRecord
<1>8. CASE FinishSettle(r)
  <2> DEFINE s == Outcome(request[r].answer)
  <2>1. /\ p \in Payments /\ Busy(r)
        /\ status[p] \in {"settle_in_progress", "submitted"}
        /\ UNCHANGED <<chain, calls, worker>>
    BY <1>0, <1>8, FinishFromOpen DEF FinishSettle, Busy, providerVars
  <2>2. /\ \A q \in Requests : q # r => request'[q] = request[q]
        /\ request'[r].pc = "idle"
    BY <1>8 DEF FinishSettle, AnswerClient, TypeOK, IdleRequest
  <2>3. /\ status'[p] = s /\ attempt'[p] = AttemptFor(s)
        /\ \A x \in Payments : x # p => status'[x] = status[x] /\ attempt'[x] = attempt[x]
    BY <1>8, <2>1 DEF FinishSettle, TypeOK
  <2>4. \A x \in Payments : x # p => txn'[x] = txn[x]
    BY <1>8, <2>1, Zenon DEF FinishSettle, TypeOK
  <2>5. /\ s \in {"settled", "submitted", "settle_failed", "unknown"}
        /\ s = "settled" => chain[p] = "moved"
        /\ s = "settle_failed" => chain[p] = "dead"
        /\ AttemptFor(s) # "started"
    BY <1>8, OutcomeType DEF FinishSettle, Safe, Consistent, Truthful
  <2>6. /\ told'[p] = told[p] \cup {CachedReply(s)}
        /\ \A x \in Payments : x # p => told'[x] = told[x]
    BY <1>8, <2>1 DEF FinishSettle, AnswerClient, TypeOK
  <2> HIDE DEF s
  <2>7. Consistent'
    BY <2>1, <2>2, <2>3, <2>4, <2>5 DEF Safe, Consistent, Busy, Truthful
  <2>8. AnswersStand'
    BY <2>1, <2>3, <2>6, CachedReplyFinal DEF Safe, AnswersStand
  <2>9. FinalTruth' /\ AttemptFollowsRecord' /\ SubmittedOnce'
    BY <2>1, <2>3, <2>5 DEF Safe, FinalTruth, AttemptFollowsRecord, SubmittedOnce
  <2> QED
    BY <2>7, <2>8, <2>9 DEF Safe
<1>9. CASE FinishRefused(r)
  BY <1>0, <1>9, AnswerSafe DEF FinishRefused
<1>10. CASE CrashRequest(r)
  BY <1>0, <1>10, AnswerSafe DEF CrashRequest
<1> QED
  BY <1>1, <1>2, <1>3, <1>4, <1>5, <1>6, <1>7, <1>8, <1>9, <1>10 DEF RequestStep

\* Steps of a worker that touch no record and end without an answer.
LEMMA ScanSafe ==
  ASSUME TypeOK, Safe, NEW w \in Workers,
         UNCHANGED <<status, txn, attempt, chain, calls, request, told>>,
         NEW v, worker' = [worker EXCEPT ![w] = v],
         v.pc # "answered",
         v.pc = "calling" => v.pay \in Payments /\ status[v.pay] # "absent"
  PROVE  Safe'
<1>1. worker'[w] = v /\ \A u \in Workers : u # w => worker'[u] = worker[u]
  BY DEF TypeOK
<1> QED
  BY <1>1
  DEF Safe, Consistent, Busy, Truthful, SubmittedOnce, FinalTruth, AnswersStand,
      AttemptFollowsRecord

LEMMA NextRecordPc ==
  ASSUME NEW w, NEW todo
  PROVE  NextRecord(w, todo).pc \in {"idle", "batch"}
  BY DEF NextRecord, IdleWorker

LEMMA WorkerStepSafe ==
  ASSUME TypeOK, Safe, NEW w \in Workers, WorkerStep(w)
  PROVE  Safe'
<1> USE DEF storeVars, providerVars, engineVars
<1> DEFINE p == worker[w].pay
<1>0. /\ worker[w] \in WorkerState
      /\ worker[w].pc \in {"calling", "answered"} => p \in Payments
  BY DEF TypeOK, Safe, Consistent
<1>1. CASE StartRun(w)
  <2>1. PICK todo : worker' = [worker EXCEPT ![w] = [worker[w] EXCEPT !.pc = "batch", !.todo = todo]]
    BY <1>1 DEF StartRun
  <2>2. [worker[w] EXCEPT !.pc = "batch", !.todo = todo].pc = "batch"
    BY <1>0 DEF WorkerState
  <2> QED
    BY <1>1, <2>1, <2>2, ScanSafe DEF StartRun
<1>2. CASE ClaimRecord(w)
  <2>1. PICK c \in worker[w].todo : /\ Claimable(w, c[1], c[2])
                                    /\ worker' = [worker EXCEPT ![w] = Holds(w, c)]
    BY <1>2 DEF ClaimRecord
  <2>2. Holds(w, c).pc = "calling" /\ Holds(w, c).pay = c[1] /\ c \in Payments \X Open
    BY <1>0 DEF Holds, WorkerState
  <2>3. c[1] \in Payments /\ status[c[1]] # "absent"
    BY <2>1, <2>2 DEF Claimable, Open
  <2> QED
    BY <1>2, <2>1, <2>2, <2>3, ScanSafe DEF ClaimRecord
<1>3. CASE SkipRecord(w)
  BY <1>3, ScanSafe, NextRecordPc DEF SkipRecord
<1>4. CASE ProviderReconciles(w)
  <2>1. PICK a \in ReconcileAnswers(chain[p]) :
           worker' = [worker EXCEPT ![w] = [@ EXCEPT !.pc = "answered", !.answer = a]]
    BY <1>4 DEF ProviderReconciles
  <2>2. Truthful(a, chain[p])
    BY <2>1 DEF ReconcileAnswers, Truthful
  <2>3. \A u \in Workers : u # w => worker'[u] = worker[u]
    BY <2>1 DEF TypeOK
  <2>4. worker'[w].pc = "answered" /\ worker'[w].pay = p /\ worker'[w].answer = a
    BY <1>0, <2>1 DEF TypeOK, WorkerState
  <2>5. p \in Payments /\ status[p] # "absent"
    BY <1>4 DEF ProviderReconciles, Safe, Consistent
  <2>6. UNCHANGED <<status, txn, attempt, chain, calls, request, told>>
    BY <1>4 DEF ProviderReconciles
  <2> QED
    BY <2>2, <2>3, <2>4, <2>5, <2>6
    DEF Safe, Consistent, Busy, Truthful, SubmittedOnce, FinalTruth, AnswersStand,
        AttemptFollowsRecord
<1>5. CASE ApplyOutcome(w)
  <2> DEFINE s == Decision(worker[w])
  <2>1. /\ p \in Payments /\ status[p] \in Open /\ s # "none"
        /\ UNCHANGED <<chain, calls, request, told>>
    BY <1>0, <1>5, ReconcileFromOpen DEF ApplyOutcome, Writes
  <2>2. /\ \A u \in Workers : u # w => worker'[u] = worker[u]
        /\ worker'[w].pc \in {"idle", "batch"}
    BY <1>5, NextRecordPc DEF ApplyOutcome, TypeOK
  <2>3. /\ status'[p] = s
        /\ \A x \in Payments : x # p => status'[x] = status[x]
    BY <1>5, <2>1, Zenon DEF ApplyOutcome, TypeOK
  <2>4. \A x \in Payments : x # p => txn'[x] = txn[x]
    BY <1>5, <2>1, Zenon DEF ApplyOutcome, TypeOK
  <2>5. /\ s \in {"settled", "settle_failed", "unknown", "manual_review"}
        /\ s = "settled" => chain[p] = "moved"
        /\ s = "settle_failed" => chain[p] = "dead"
        /\ AttemptFor(s) # "started"
    BY <1>5, <2>1, DecisionType DEF ApplyOutcome, Safe, Consistent, Truthful
  <2>6. /\ attempt'[p] # "started"
        /\ \A x \in Payments : x # p => attempt'[x] = attempt[x]
    BY <1>5, <2>1, <2>5 DEF ApplyOutcome, CloseAttempt, TypeOK
  <2> HIDE DEF s
  <2>7. Consistent'
    BY <2>1, <2>2, <2>3, <2>4, <2>5 DEF Safe, Consistent, Busy, Truthful, Open
  <2>8. AnswersStand'
    BY <2>1, <2>3 DEF Safe, AnswersStand, Open
  <2>9. FinalTruth' /\ AttemptFollowsRecord' /\ SubmittedOnce'
    BY <2>1, <2>3, <2>5, <2>6 DEF Safe, FinalTruth, AttemptFollowsRecord, SubmittedOnce
  <2> QED
    BY <2>7, <2>8, <2>9 DEF Safe
<1>6. CASE ApplyNothing(w)
  BY <1>6, ScanSafe, NextRecordPc DEF ApplyNothing
<1>7. CASE CrashWorker(w)
  <2>1. IdleWorker.pc = "idle"
    BY DEF IdleWorker
  <2> QED BY <1>7, <2>1, ScanSafe DEF CrashWorker
<1> QED
  BY <1>1, <1>2, <1>3, <1>4, <1>5, <1>6, <1>7 DEF WorkerStep

LEMMA NextSafe == TypeOK /\ Safe /\ [Next]_vars => Safe'
<1> SUFFICES ASSUME TypeOK, Safe, [Next]_vars PROVE Safe'
  OBVIOUS
<1> USE DEF storeVars, providerVars, engineVars
<1>1. ASSUME NEW p \in Payments, MoneyMoves(p) \/ PaymentDies(p) PROVE Safe'
  <2>1. /\ chain[p] = "called" /\ chain'[p] \in {"moved", "dead"}
        /\ \A x \in Payments : x # p => chain'[x] = chain[x]
        /\ UNCHANGED <<status, txn, attempt, calls, request, told, worker>>
    BY <1>1 DEF MoneyMoves, PaymentDies, TypeOK
  <2> QED
    BY <2>1
    DEF Safe, Consistent, Busy, Truthful, SubmittedOnce, FinalTruth, AnswersStand,
        AttemptFollowsRecord
<1>2. ASSUME NEW o \in Operators, NEW p \in Payments, OperatorStep(o, p) PROVE Safe'
  <2>1. CASE OperatorClaim(o, p) \/ OperatorRelease(o, p)
    BY <2>1
    DEF OperatorClaim, OperatorRelease, Safe, Consistent, Busy, Truthful, SubmittedOnce,
        FinalTruth, AnswersStand, AttemptFollowsRecord
  <2>2. CASE OperatorManualReview(o, p)
    <3>1. /\ status[p] = "unknown" /\ status'[p] = "manual_review"
          /\ \A x \in Payments : x # p => status'[x] = status[x]
          /\ UNCHANGED <<txn, chain, calls, request, told, worker>>
      BY <2>2 DEF OperatorManualReview, TypeOK
    <3>2. UNCHANGED attempt
      BY <2>2, <3>1 DEF OperatorManualReview, CloseAttempt, TypeOK, Safe, AttemptFollowsRecord
    <3> QED
      BY <3>1, <3>2
      DEF Safe, Consistent, Busy, Truthful, SubmittedOnce, FinalTruth, AnswersStand,
          AttemptFollowsRecord
  <2> QED
    BY <1>2, <2>1, <2>2 DEF OperatorStep
<1>3. CASE Tick
  <2>1. \A w \in Workers : /\ worker'[w].pc = worker[w].pc
                           /\ worker'[w].pay = worker[w].pay
                           /\ worker'[w].answer = worker[w].answer
    BY <1>3 DEF Tick, TypeOK, WorkerState
  <2>2. UNCHANGED <<status, txn, attempt, chain, calls, request, told>>
    BY <1>3 DEF Tick
  <2> QED
    BY <2>1, <2>2
    DEF Safe, Consistent, Busy, Truthful, SubmittedOnce, FinalTruth, AnswersStand,
        AttemptFollowsRecord
<1>4. CASE UNCHANGED vars
  BY <1>4
  DEF vars, Safe, Consistent, Busy, Truthful, SubmittedOnce, FinalTruth, AnswersStand,
      AttemptFollowsRecord
<1> QED
  BY <1>1, <1>2, <1>3, <1>4, RequestStepSafe, WorkerStepSafe DEF Next

LEMMA SafeHolds == Spec => [](TypeOK /\ Safe)
<1>1. Init => TypeOK /\ Safe
  BY InitType, InitSafe
<1>2. (TypeOK /\ Safe) /\ [Next]_vars => (TypeOK /\ Safe)'
  BY NextType, NextSafe
<1> QED
  BY <1>1, <1>2, PTL DEF Spec

\* Whatever requests race, crash and are retried, and however late a handler
\* gets to provider.settle: a payment is handed to the provider at most once.
THEOREM HandedOverOnce == Spec => []SubmittedOnce
  BY SafeHolds, PTL DEF Safe

\* A record the engine or the reconciler made settled is of money that moved,
\* and one they made settle_failed of money that never will.
THEOREM FinalsAreTrue == Spec => []FinalTruth
  BY SafeHolds, PTL DEF Safe

\* What a client was told about a settled or failed payment stays what the
\* record says.
THEOREM AnswersKeep == Spec => []AnswersStand
  BY SafeHolds, PTL DEF Safe

\* Record and attempt rows stay in step through every transaction of the
\* engine, the reconciler and the operators.
THEOREM AttemptsKeepStep == Spec => []AttemptFollowsRecord
  BY SafeHolds, PTL DEF Safe
-----------------------------------------------------------------------------
(***************************************************************************)
(* The fence of the reconciler.                                            *)
(***************************************************************************)
Inv == TypeOK /\ Safe /\ ClaimsFenced /\ FenceExclusive

Calls(w) == worker[w].pc \in {"calling", "answered"}

\* The two sides of ClaimsFenced.
Intact(w) ==
    LET p == worker[w].pay IN
    LeaseHeld(w, p) /\ status[p] = worker[w].seen /\ txn[p] = worker[w].tx

Lost(w) == ~LeaseHeld(w, worker[w].pay) /\ age[worker[w].pay] <= worker[w].elapsed

LEMMA StaleAfterPositive == \A s : StaleAfter(s) \in Nat \ {0}
  BY ConstantsAssumption DEF StaleAfter

\* What the fence is about, per worker.
LEMMA FenceTypes ==
  ASSUME TypeOK, Safe
  PROVE  \A w \in Workers :
            /\ worker[w] \in WorkerState
            /\ worker[w].elapsed \in 0..LeaseTime
            /\ LeaseLeft(w) = LeaseTime - worker[w].elapsed
            /\ OwnerOf[w] \notin Operators \cup {NoOwner}
            /\ Calls(w) => worker[w].pay \in Payments /\ status[worker[w].pay] # "absent"
  BY OwnersAssumption DEF TypeOK, WorkerState, LeaseLeft, Safe, Consistent, Calls

\* Steps that change no row: workers may only go on to an answer or give up.
LEMMA NoRowFenced ==
  ASSUME Inv, UNCHANGED <<status, txn, age, lease, owner>>,
         \A u \in Workers :
            \/ worker'[u].pc \in {"idle", "batch"}
            \/ /\ Calls(u)
               /\ worker'[u].pay = worker[u].pay
               /\ worker'[u].seen = worker[u].seen
               /\ worker'[u].tx = worker[u].tx
               /\ worker'[u].elapsed = worker[u].elapsed
  PROVE  ClaimsFenced' /\ FenceExclusive'
  BY DEF Inv, ClaimsFenced, FenceExclusive, LeaseHeld, LeaseLeft, Calls

\* Steps that write one row, touch its updated_at and leave it without an
\* owner or with an operator.
LEMMA RowFenced ==
  ASSUME Inv, NEW p \in Payments,
         age'[p] = 0, owner'[p] \in Operators \cup {NoOwner},
         \A x \in Payments : x # p =>
            /\ status'[x] = status[x] /\ txn'[x] = txn[x] /\ age'[x] = age[x]
            /\ lease'[x] = lease[x] /\ owner'[x] = owner[x],
         \A u \in Workers : worker'[u].pc \in {"idle", "batch"} \/ worker'[u] = worker[u]
  PROVE  ClaimsFenced' /\ FenceExclusive'
<1>1. \A u \in Workers : Calls(u)' =>
         /\ worker'[u] = worker[u] /\ Calls(u) /\ worker[u].pay \in Payments
         /\ LeaseLeft(u)' = LeaseLeft(u) /\ worker[u].elapsed >= 0
         /\ (worker[u].pay = p => ~LeaseHeld(u, p)')
         /\ (worker[u].pay # p => LeaseHeld(u, worker[u].pay)' = LeaseHeld(u, worker[u].pay))
  BY FenceTypes DEF Inv, Calls, LeaseHeld, LeaseLeft
<1>2. ClaimsFenced'
  BY <1>1 DEF Inv, ClaimsFenced, Calls
<1>3. FenceExclusive'
  BY <1>1 DEF Inv, FenceExclusive, Calls
<1> QED BY <1>2, <1>3

LEMMA RequestStepFenced ==
  ASSUME Inv, NEW r \in Requests, RequestStep(r)
  PROVE  ClaimsFenced' /\ FenceExclusive'
<1> USE DEF storeVars
<1> DEFINE p == request[r].pay
<1>1. CASE Claim(r)
  <2>1. p \in Payments /\ status[p] = "absent"
    BY <1>1 DEF Claim, Unclaimed, Inv, Safe, Consistent
  <2>2. \A u \in Workers : Calls(u) => worker[u].pay # p
    BY <2>1, FenceTypes DEF Inv
  <2>3. /\ UNCHANGED <<lease, owner, worker>>
        /\ \A x \in Payments : x # p => status'[x] = status[x] /\ age'[x] = age[x]
    BY <1>1 DEF Claim, Inv, TypeOK
  <2>4. \A x \in Payments : x # p => txn'[x] = txn[x]
    BY <1>1, Zenon DEF Claim, Inv, TypeOK
  <2>5. \A u \in Workers : Calls(u) => worker[u].pay \in Payments
    BY FenceTypes DEF Inv
  <2> QED
    BY <2>2, <2>3, <2>4, <2>5 DEF Inv, ClaimsFenced, FenceExclusive, LeaseHeld, LeaseLeft, Calls
<1>2. CASE FinishSettle(r)
  <2>1. p \in Payments
    BY <1>2 DEF FinishSettle, Inv, Safe, Consistent
  <2>2. /\ age'[p] = 0 /\ owner'[p] = NoOwner /\ UNCHANGED worker
        /\ \A x \in Payments : x # p =>
              status'[x] = status[x] /\ txn'[x] = txn[x] /\ age'[x] = age[x]
              /\ lease'[x] = lease[x] /\ owner'[x] = owner[x]
    BY <1>2, <2>1, Zenon DEF FinishSettle, DropLease, Inv, TypeOK
  <2> QED
    BY <2>1, <2>2, RowFenced
<1>3. CASE UNCHANGED <<status, txn, age, lease, owner, worker>>
  BY <1>3, NoRowFenced DEF Inv, TypeOK, WorkerState, Calls
<1> QED
  BY <1>1, <1>2, <1>3
  DEF RequestStep, ReplayCached, MissCache, RateLimited, ClaimDuplicate, CallProvider,
      ProviderAnswers, FinishRefused, CrashRequest

LEMMA OperatorStepFenced ==
  ASSUME Inv, NEW o \in Operators, NEW p \in Payments, OperatorStep(o, p)
  PROVE  ClaimsFenced' /\ FenceExclusive'
<1>1. /\ age'[p] = 0 /\ owner'[p] \in {o, NoOwner} /\ UNCHANGED worker
      /\ \A x \in Payments : x # p =>
            status'[x] = status[x] /\ txn'[x] = txn[x] /\ age'[x] = age[x]
            /\ lease'[x] = lease[x] /\ owner'[x] = owner[x]
  BY DEF OperatorStep, OperatorClaim, OperatorRelease, OperatorManualReview, DropLease,
         Inv, TypeOK
<1> QED
  BY <1>1, RowFenced

\* The step the fence is for: a worker takes a row another one claimed before.
\* The row was free, so the other's claim was dropped early, by an update made
\* after the other's run began; the new run began later than that update, so
\* the new lease ends later than the other's.
LEMMA ClaimFenced ==
  ASSUME Inv, NEW w \in Workers, ClaimRecord(w)
  PROVE  ClaimsFenced' /\ FenceExclusive'
<1>1. PICK c \in worker[w].todo :
         /\ Claimable(w, c[1], c[2])
         /\ owner' = [owner EXCEPT ![c[1]] = OwnerOf[w]]
         /\ lease' = [lease EXCEPT ![c[1]] = LeaseLeft(w)]
         /\ worker' = [worker EXCEPT ![w] = Holds(w, c)]
  BY DEF ClaimRecord
<1> DEFINE p == c[1]
<1>2. c \in Payments \X Open /\ p \in Payments
  BY <1>1, FenceTypes DEF Inv, WorkerState
<1>3. UNCHANGED <<status, txn, age>>
  BY DEF ClaimRecord
<1>4. \A u \in Workers : u # w => worker'[u] = worker[u]
  BY <1>1 DEF Inv, TypeOK
<1>5. /\ worker'[w].pc = "calling" /\ worker'[w].pay = p
      /\ worker'[w].seen = status[p] /\ worker'[w].elapsed = worker[w].elapsed
  BY <1>1, FenceTypes DEF Inv, TypeOK, WorkerState, Holds
<1>6. worker'[w].tx = txn[p]
  BY <1>1, FenceTypes, Zenon DEF Inv, TypeOK, WorkerState, Holds
<1>7. /\ lease[p] = 0 /\ age[p] - worker[w].elapsed >= 1
      /\ age[p] \in Nat /\ worker[w].elapsed \in 0..LeaseTime
  <2>1. age[p] \in Nat /\ worker[w].elapsed \in 0..LeaseTime /\ StaleAfter(c[2]) \in Nat \ {0}
    BY <1>2, StaleAfterPositive, FenceTypes, ConstantsAssumption DEF Inv, TypeOK
  <2>2. lease[p] = 0 /\ age[p] - worker[w].elapsed >= StaleAfter(c[2])
    BY <1>1 DEF Claimable, LeaseFree
  <2> QED
    BY <2>1, <2>2, ConstantsAssumption
<1>8. /\ owner'[p] = OwnerOf[w] /\ lease'[p] = LeaseLeft(w)
      /\ \A x \in Payments : x # p => owner'[x] = owner[x] /\ lease'[x] = lease[x]
  BY <1>1, <1>2 DEF Inv, TypeOK
<1>9. \A u \in Workers : LeaseLeft(u)' = LeaseLeft(u)
  BY <1>4, <1>5 DEF LeaseLeft
<1>10. \A u \in Workers \ {w} :
          Calls(u) /\ worker[u].pay = p /\ LeaseLeft(u) > 0 =>
             age[p] <= worker[u].elapsed /\ LeaseLeft(u) # LeaseLeft(w)
  <2> SUFFICES ASSUME NEW u \in Workers \ {w}, Calls(u), worker[u].pay = p, LeaseLeft(u) > 0
               PROVE  age[p] <= worker[u].elapsed /\ LeaseLeft(u) # LeaseLeft(w)
    OBVIOUS
  <2>1. ~LeaseHeld(u, p)
    BY <1>7 DEF LeaseHeld
  <2>2. age[p] <= worker[u].elapsed
    BY <2>1 DEF Inv, ClaimsFenced, Calls
  <2>3. worker[u].elapsed \in 0..LeaseTime
    BY FenceTypes DEF Inv
  <2> QED
    BY <2>2, <2>3, <1>7, ConstantsAssumption DEF LeaseLeft
<1>11. \A u \in Workers \ {w} :
          Calls(u) /\ worker[u].pay = p => ~LeaseHeld(u, p)'
  BY <1>4, <1>8, <1>9, <1>10 DEF LeaseHeld
<1>12. ClaimsFenced'
  <2> SUFFICES ASSUME NEW u \in Workers, Calls(u)', LeaseLeft(u)' > 0
               PROVE  Intact(u)' \/ Lost(u)'
    BY DEF ClaimsFenced, Calls, Intact, Lost
  <2>1. CASE u = w
    BY <2>1, <1>3, <1>5, <1>6, <1>8, <1>9 DEF Intact, LeaseHeld
  <2>2. CASE u # w /\ worker[u].pay = p
    BY <2>2, <1>3, <1>4, <1>9, <1>10, <1>11 DEF Calls, Lost, LeaseHeld
  <2>3. CASE u # w /\ worker[u].pay # p
    <3>1. worker[u].pay \in Payments /\ worker'[u] = worker[u] /\ Calls(u)
      BY <2>3, <1>4, FenceTypes DEF Inv, Calls
    <3>2. Intact(u) \/ Lost(u)
      BY <3>1, <1>9 DEF Inv, ClaimsFenced, Calls, Intact, Lost
    <3> QED
      BY <3>1, <3>2, <2>3, <1>3, <1>8, <1>9 DEF Intact, Lost, LeaseHeld
  <2> QED BY <2>1, <2>2, <2>3
<1>13. FenceExclusive'
  <2> SUFFICES ASSUME NEW v \in Workers, NEW u \in Workers, v # u, Calls(v)', Calls(u)',
                      worker'[v].pay = worker'[u].pay,
                      LeaseHeld(v, worker[v].pay)', LeaseHeld(u, worker[u].pay)'
               PROVE  FALSE
    BY DEF FenceExclusive, Calls
  <2>1. CASE worker'[v].pay = p
    <3>1. PICK x \in {u, v} : x # w
      OBVIOUS
    <3>2. Calls(x) /\ worker[x].pay = p
      BY <2>1, <3>1, <1>4 DEF Calls
    <3>3. LeaseHeld(x, p)'
      BY <2>1, <3>1 DEF LeaseHeld
    <3> QED
      BY <3>1, <3>2, <3>3, <1>11
  <2>2. CASE worker'[v].pay # p
    <3>1. /\ v # w /\ u # w /\ worker'[v] = worker[v] /\ worker'[u] = worker[u]
          /\ Calls(u) /\ Calls(v) /\ worker[v].pay \in Payments
      BY <2>2, <1>4, <1>5, FenceTypes DEF Inv, Calls
    <3>2. LeaseHeld(v, worker[v].pay) /\ LeaseHeld(u, worker[u].pay)
      BY <3>1, <2>2, <1>8, <1>9 DEF LeaseHeld
    <3> QED
      BY <3>1, <3>2 DEF Inv, FenceExclusive, Calls
  <2> QED BY <2>1, <2>2
<1> QED BY <1>12, <1>13

LEMMA WorkerStepFenced ==
  ASSUME Inv, NEW w \in Workers, WorkerStep(w)
  PROVE  ClaimsFenced' /\ FenceExclusive'
<1> USE DEF storeVars
<1>0. /\ worker \in [Workers -> WorkerState]
      /\ \A u \in Workers : Calls(u) \/ worker[u].pc \in {"idle", "batch"}
  BY DEF Inv, TypeOK, WorkerState, Calls
<1>1. CASE StartRun(w)
  <2>1. PICK todo : worker' = [worker EXCEPT ![w] = [worker[w] EXCEPT !.pc = "batch", !.todo = todo]]
    BY <1>1 DEF StartRun
  <2>2. worker'[w].pc = "batch" /\ \A u \in Workers : u # w => worker'[u] = worker[u]
    BY <1>0, <2>1 DEF WorkerState
  <2> QED
    BY <1>0, <1>1, <2>2, NoRowFenced DEF StartRun
<1>2. CASE ClaimRecord(w)
  BY <1>2, ClaimFenced
<1>3. CASE SkipRecord(w) \/ ApplyNothing(w) \/ CrashWorker(w)
  <2>1. worker'[w].pc \in {"idle", "batch"} /\ \A u \in Workers : u # w => worker'[u] = worker[u]
    <3>1. CASE SkipRecord(w)
      <4>1. PICK todo : worker' = [worker EXCEPT ![w] = NextRecord(w, todo)]
        BY <3>1 DEF SkipRecord
      <4> QED BY <1>0, <4>1, NextRecordPc
    <3>2. CASE ApplyNothing(w)
      <4>1. PICK todo : worker' = [worker EXCEPT ![w] = NextRecord(w, todo)]
        BY <3>2, Zenon DEF ApplyNothing
      <4> QED BY <1>0, <4>1, NextRecordPc
    <3>3. CASE CrashWorker(w)
      BY <1>0, <3>3 DEF CrashWorker, IdleWorker
    <3> QED BY <1>3, <3>1, <3>2, <3>3
  <2> QED
    BY <1>0, <1>3, <2>1, NoRowFenced DEF SkipRecord, ApplyNothing, CrashWorker
<1>4. CASE ProviderReconciles(w)
  <2>1. PICK a : worker' = [worker EXCEPT ![w] = [worker[w] EXCEPT !.pc = "answered", !.answer = a]]
    BY <1>4 DEF ProviderReconciles
  <2>2. /\ worker'[w].pay = worker[w].pay /\ worker'[w].seen = worker[w].seen
        /\ worker'[w].elapsed = worker[w].elapsed
        /\ \A u \in Workers : u # w => worker'[u] = worker[u]
    BY <1>0, <2>1 DEF WorkerState
  <2>3. worker'[w].tx = worker[w].tx
    BY <1>0, <2>1 DEF WorkerState
  <2>4. Calls(w) /\ UNCHANGED <<status, txn, age, lease, owner>>
    BY <1>4 DEF ProviderReconciles, Calls
  <2> QED
    BY <1>0, <2>2, <2>3, <2>4, NoRowFenced
<1>5. CASE ApplyOutcome(w)
  <2> DEFINE p == worker[w].pay
  <2>1. p \in Payments
    BY <1>5, FenceTypes DEF ApplyOutcome, Inv, Calls
  <2>2. /\ age'[p] = 0 /\ owner'[p] = NoOwner
        /\ \A x \in Payments : x # p =>
              status'[x] = status[x] /\ txn'[x] = txn[x] /\ age'[x] = age[x]
              /\ lease'[x] = lease[x] /\ owner'[x] = owner[x]
    BY <1>5, <2>1, Zenon DEF ApplyOutcome, DropLease, Inv, TypeOK
  <2>3. worker'[w].pc \in {"idle", "batch"} /\ \A u \in Workers : u # w => worker'[u] = worker[u]
    BY <1>0, <1>5, NextRecordPc DEF ApplyOutcome
  <2> QED
    BY <2>1, <2>2, <2>3, RowFenced
<1> QED
  BY <1>1, <1>2, <1>3, <1>4, <1>5 DEF WorkerStep

\* Lease and run age together, so time neither lends nor takes away a lease
\* before it has run out.
LEMMA TickFenced ==
  ASSUME Inv, Tick
  PROVE  ClaimsFenced' /\ FenceExclusive'
<1>1. UNCHANGED <<status, txn, owner>>
  BY DEF Tick
<1>2. \A x \in Payments : /\ age[x] \in Nat /\ age'[x] \in Nat /\ age'[x] <= age[x] + 1
                          /\ lease[x] \in Nat
                          /\ lease'[x] = IF lease[x] > 0 THEN lease[x] - 1 ELSE 0
  BY ConstantsAssumption DEF Tick, Inv, TypeOK
<1>3. \A u \in Workers :
         /\ worker'[u].pc = worker[u].pc /\ worker'[u].pay = worker[u].pay
         /\ worker'[u].seen = worker[u].seen
         /\ worker[u].elapsed \in 0..LeaseTime
         /\ Calls(u) => worker'[u].elapsed = IF worker[u].elapsed < LeaseTime
                                             THEN worker[u].elapsed + 1 ELSE LeaseTime
  <2> TAKE u \in Workers
  <2>1. worker[u] \in WorkerState
    BY DEF Inv, TypeOK
  <2>2. worker'[u] = IF worker[u].pc # "idle" /\ worker[u].elapsed < LeaseTime
                     THEN [worker[u] EXCEPT !.elapsed = @ + 1] ELSE worker[u]
    BY DEF Tick
  <2> QED
    BY <2>1, <2>2, ConstantsAssumption DEF WorkerState, Calls
<1>4. \A u \in Workers : worker'[u].tx = worker[u].tx
  BY DEF Tick, Inv, TypeOK, WorkerState
<1>5. \A u \in Workers : Calls(u) => worker[u].pay \in Payments
  BY FenceTypes DEF Inv
<1>6. ASSUME NEW u \in Workers, Calls(u), LeaseLeft(u)' > 0
      PROVE  /\ LeaseLeft(u) > 0
             /\ LeaseHeld(u, worker[u].pay)' = LeaseHeld(u, worker[u].pay)
             /\ worker'[u].elapsed = worker[u].elapsed + 1
  BY <1>1, <1>2, <1>3, <1>5, <1>6, ConstantsAssumption DEF LeaseHeld, LeaseLeft
<1>7. ClaimsFenced'
  <2> SUFFICES ASSUME NEW u \in Workers, Calls(u)', LeaseLeft(u)' > 0
               PROVE  Intact(u)' \/ Lost(u)'
    BY DEF ClaimsFenced, Calls, Intact, Lost
  <2>1. Calls(u)
    BY <1>3 DEF Calls
  <2>2. Intact(u) \/ Lost(u)
    BY <2>1, <1>6 DEF Inv, ClaimsFenced, Calls, Intact, Lost
  <2> QED
    BY <2>1, <2>2, <1>1, <1>2, <1>3, <1>4, <1>5, <1>6 DEF Intact, Lost
<1>8. FenceExclusive'
  <2> SUFFICES ASSUME NEW v \in Workers, NEW u \in Workers, v # u, Calls(v)', Calls(u)',
                      worker'[v].pay = worker'[u].pay,
                      LeaseHeld(v, worker[v].pay)', LeaseHeld(u, worker[u].pay)'
               PROVE  FALSE
    BY DEF FenceExclusive, Calls
  <2>1. Calls(v) /\ Calls(u) /\ LeaseLeft(v)' > 0 /\ LeaseLeft(u)' > 0
    BY <1>3 DEF Calls, LeaseHeld
  <2>2. LeaseHeld(v, worker[v].pay) /\ LeaseHeld(u, worker[u].pay)
    BY <2>1, <1>6
  <2> QED
    BY <2>1, <2>2, <1>3 DEF Inv, FenceExclusive, Calls
<1> QED BY <1>7, <1>8

LEMMA InvHolds == Spec => []Inv
<1>1. Init => Inv
  <2>1. Init => ClaimsFenced /\ FenceExclusive
    <3>1. Init => \A u \in Workers : worker[u].pc = "idle"
      BY DEF Init, IdleWorker
    <3> QED
      BY <3>1 DEF ClaimsFenced, FenceExclusive
  <2> QED
    BY <2>1, InitType, InitSafe DEF Inv
<1>2. Inv /\ [Next]_vars => Inv'
  <2> SUFFICES ASSUME Inv, [Next]_vars PROVE Inv'
    OBVIOUS
  <2>1. TypeOK' /\ Safe'
    BY NextType, NextSafe DEF Inv
  <2>2. ASSUME UNCHANGED <<status, txn, age, lease, owner, worker>>
        PROVE  ClaimsFenced' /\ FenceExclusive'
    BY <2>2, NoRowFenced DEF Inv, TypeOK, WorkerState, Calls
  <2>3. ASSUME NEW p \in Payments, MoneyMoves(p) \/ PaymentDies(p)
        PROVE  ClaimsFenced' /\ FenceExclusive'
    BY <2>2, <2>3 DEF MoneyMoves, PaymentDies, storeVars
  <2>4. ASSUME UNCHANGED vars PROVE ClaimsFenced' /\ FenceExclusive'
    BY <2>2, <2>4 DEF vars, storeVars
  <2> QED
    BY <2>1, <2>3, <2>4, RequestStepFenced, WorkerStepFenced, OperatorStepFenced, TickFenced
    DEF Next, Inv
<1> QED
  BY <1>1, <1>2, PTL DEF Spec

\* Only the latest claim of a record passes the fence, even when reconcilers
\* share a name, and it finds the row as it was claimed.
THEOREM FenceHolds == Spec => [](FenceProtectsClaim /\ FenceExclusive)
<1>1. Inv => FenceProtectsClaim /\ FenceExclusive
  BY DEF Inv, ClaimsFenced, FenceProtectsClaim, LeaseHeld
<1> QED
  BY <1>1, InvHolds, PTL
-----------------------------------------------------------------------------
(***************************************************************************)
(* Final records stay, and transactions are kept.                          *)
(***************************************************************************)
KeepsFinal ==
    \A p \in Payments :
        /\ status[p] \in Final => status'[p] = status[p]
        /\ txn[p] => txn'[p]

LEMMA RequestKeepsFinal ==
  ASSUME Inv, NEW r \in Requests, RequestStep(r)
  PROVE  KeepsFinal
<1> DEFINE p == request[r].pay
<1>1. CASE Claim(r)
  <2>1. p \in Payments /\ status[p] = "absent" /\ ~txn[p]
    BY <1>1 DEF Claim, Unclaimed, Inv, Safe, Consistent
  <2>2. \A x \in Payments : x # p => status'[x] = status[x]
    BY <1>1 DEF Claim, Inv, TypeOK
  <2>3. \A x \in Payments : x # p => txn'[x] = txn[x]
    BY <1>1, Zenon DEF Claim, Inv, TypeOK
  <2> QED
    BY <2>1, <2>2, <2>3 DEF KeepsFinal, Final
<1>2. CASE FinishSettle(r)
  <2>1. p \in Payments /\ status[p] = "settle_in_progress" /\ ~txn[p]
    BY <1>2, FinishFromOpen DEF FinishSettle, Inv, Safe, Consistent, Busy
  <2>2. \A x \in Payments : x # p => status'[x] = status[x]
    BY <1>2 DEF FinishSettle, Inv, TypeOK
  <2>3. \A x \in Payments : x # p => txn'[x] = txn[x]
    BY <1>2, Zenon DEF FinishSettle, Inv, TypeOK
  <2> QED
    BY <2>1, <2>2, <2>3 DEF KeepsFinal, Final
<1>3. CASE UNCHANGED <<status, txn>>
  BY <1>3 DEF KeepsFinal
<1> QED
  BY <1>1, <1>2, <1>3
  DEF RequestStep, ReplayCached, MissCache, RateLimited, ClaimDuplicate, CallProvider,
      ProviderAnswers, FinishRefused, CrashRequest, storeVars

LEMMA WorkerKeepsFinal ==
  ASSUME Inv, NEW w \in Workers, WorkerStep(w)
  PROVE  KeepsFinal
<1> DEFINE p == worker[w].pay
<1>1. CASE ApplyOutcome(w)
  <2>1. p \in Payments /\ status[p] \in Open
    BY <1>1, FenceTypes, ReconcileFromOpen DEF ApplyOutcome, Writes, Inv, Calls
  <2>2. txn[p] = worker[w].tx
    BY <1>1 DEF ApplyOutcome, Writes, Inv, ClaimsFenced, LeaseHeld
  <2>3. \A x \in Payments : x # p => status'[x] = status[x]
    BY <1>1, Zenon DEF ApplyOutcome, Inv, TypeOK
  <2>4. \A x \in Payments : x # p => txn'[x] = txn[x]
    BY <1>1, Zenon DEF ApplyOutcome, Inv, TypeOK
  <2>5. txn'[p] = (Decision(worker[w]) = "settled" \/ worker[w].tx)
    BY <1>1, <2>1, Zenon DEF ApplyOutcome, Inv, TypeOK
  <2>6. txn[p] => txn'[p]
    BY <2>2, <2>5, Zenon
  <2> QED
    BY <2>1, <2>3, <2>4, <2>6 DEF KeepsFinal, Final, Open
<1>2. CASE UNCHANGED <<status, txn>>
  BY <1>2 DEF KeepsFinal
<1> QED
  BY <1>1, <1>2
  DEF WorkerStep, StartRun, ClaimRecord, SkipRecord, ProviderReconciles, ApplyNothing,
      CrashWorker, storeVars

\* A record that is settled, failed or given to a human never changes its
\* status again, and no late write of a handler, a worker or an operator takes
\* a transaction away.
THEOREM FinalsStay == Spec => FinalStable
<1>1. Inv /\ [Next]_vars => [KeepsFinal]_vars
  <2> SUFFICES ASSUME Inv, Next PROVE KeepsFinal
    OBVIOUS
  <2>1. ASSUME NEW p \in Payments, MoneyMoves(p) \/ PaymentDies(p) PROVE KeepsFinal
    BY <2>1 DEF MoneyMoves, PaymentDies, storeVars, KeepsFinal
  <2>2. ASSUME NEW o \in Operators, NEW p \in Payments, OperatorStep(o, p) PROVE KeepsFinal
    BY <2>2
    DEF OperatorStep, OperatorClaim, OperatorRelease, OperatorManualReview, KeepsFinal,
        Final, Inv, TypeOK
  <2>3. CASE Tick
    BY <2>3 DEF Tick, KeepsFinal
  <2> QED
    BY <2>1, <2>2, <2>3, RequestKeepsFinal, WorkerKeepsFinal DEF Next
<1> QED
  BY <1>1, InvHolds, PTL DEF Spec, FinalStable, KeepsFinal
-----------------------------------------------------------------------------
(***************************************************************************)
(* Settlement implements SettlementContract: every step of the engine, the *)
(* reconciler, the operators and the provider is a step of the contract or *)
(* does not change what the contract speaks of.                            *)
(***************************************************************************)

\* The refinement mapping, by name.
BarOutcome == [p \in Payments |-> ContractOutcome(status[p])]
BarPromised == [p \in Payments |-> Promises(told[p])]

\* What one more answer promises.
NewPromise(reply) ==
    IF reply = "settled" THEN {"settled"}
    ELSE IF reply = "failed_final" THEN {"failed"} ELSE {}

LEMMA ContractOutcomes ==
  /\ ContractOutcome("absent") = "new"
  /\ \A s \in Open : ContractOutcome(s) = "open"
  /\ ContractOutcome("settled") = "settled"
  /\ ContractOutcome("settle_failed") = "failed"
  /\ ContractOutcome("manual_review") = "review"
  BY DEF ContractOutcome, Open

LEMMA PromisesGrow ==
  \A replies, reply : Promises(replies \cup {reply}) = Promises(replies) \cup NewPromise(reply)
  BY DEF Promises, NewPromise

\* Writing one status, and giving one answer, seen through the mapping.
LEMMA BarOutcomeStep ==
  ASSUME TypeOK, NEW p \in Payments, NEW s, status' = [status EXCEPT ![p] = s]
  PROVE  BarOutcome' = [BarOutcome EXCEPT ![p] = ContractOutcome(s)]
  BY DEF TypeOK, BarOutcome

LEMMA BarPromisedStep ==
  ASSUME TypeOK, NEW p \in Payments, NEW x, told' = [told EXCEPT ![p] = @ \cup {x}]
  PROVE  BarPromised' = [BarPromised EXCEPT ![p] = @ \cup NewPromise(x)]
<1>1. BarPromised'[p] = BarPromised[p] \cup NewPromise(x)
  BY PromisesGrow DEF TypeOK, BarPromised
<1>2. \A y \in Payments : y # p => BarPromised'[y] = BarPromised[y]
  BY DEF TypeOK, BarPromised
<1> QED
  BY <1>1, <1>2 DEF BarPromised

\* A step of the contract, or nothing it speaks of.
ContractStep == [Contract!Next]_(Contract!vars)

LEMMA Stutters ==
  ASSUME BarOutcome' = BarOutcome, BarPromised' = BarPromised, UNCHANGED <<chain, calls>>
  PROVE  ContractStep
  BY DEF ContractStep, Contract!vars, BarOutcome, BarPromised

\* Answering a duplicate keeps or renews a promise.
LEMMA AnswerRefines ==
  ASSUME TypeOK, NEW p \in Payments, UNCHANGED <<status, chain, calls>>,
         told' = [told EXCEPT ![p] = @ \cup {CachedReply(status[p])}]
  PROVE  ContractStep
<1>1. BarOutcome' = BarOutcome
  BY DEF BarOutcome
<1>2. BarPromised' = [BarPromised EXCEPT ![p] = @ \cup NewPromise(CachedReply(status[p]))]
  BY BarPromisedStep
<1>3. CASE status[p] \in {"settled", "settle_failed"}
  <2>1. /\ BarOutcome[p] \in {"settled", "failed"}
        /\ NewPromise(CachedReply(status[p])) = {BarOutcome[p]}
    BY <1>3, ContractOutcomes DEF BarOutcome, CachedReply, NewPromise
  <2>2. Contract!Promise(p)
    BY <1>1, <1>2, <2>1 DEF Contract!Promise, BarOutcome, BarPromised
  <2> QED
    BY <2>2 DEF ContractStep, Contract!Next
<1>4. CASE status[p] \notin {"settled", "settle_failed"}
  <2>1. NewPromise(CachedReply(status[p])) = {}
    BY <1>4, CachedReplyFinal DEF NewPromise
  <2>2. BarPromised' = BarPromised
    BY <1>2, <2>1 DEF BarPromised
  <2> QED
    BY <1>1, <2>2, Stutters
<1> QED BY <1>3, <1>4

\* Concluding a payment as its provider's state permits, with or without
\* telling the client; or moving it between two open statuses.
LEMMA WriteRefines ==
  ASSUME Inv, NEW p \in Payments, NEW s \in Status \ {"absent"},
         status[p] \in Open, status' = [status EXCEPT ![p] = s],
         s = "settled" => chain[p] = "moved", s = "settle_failed" => chain[p] = "dead",
         UNCHANGED <<chain, calls>>,
         \/ UNCHANGED told
         \/ /\ s # "manual_review"
            /\ told' = [told EXCEPT ![p] = @ \cup {CachedReply(s)}]
  PROVE  ContractStep
<1>1. BarOutcome' = [BarOutcome EXCEPT ![p] = ContractOutcome(s)]
  BY BarOutcomeStep DEF Inv
<1>2. \/ BarPromised' = BarPromised
      \/ /\ s # "manual_review"
         /\ BarPromised' = [BarPromised EXCEPT ![p] = @ \cup NewPromise(CachedReply(s))]
  BY BarPromisedStep DEF Inv, BarPromised
<1>3. BarOutcome[p] = "open"
  BY ContractOutcomes DEF BarOutcome
<1>4. CASE s \in Open
  <2>1. BarOutcome' = BarOutcome
    BY <1>1, <1>3, <1>4, ContractOutcomes DEF BarOutcome
  <2>2. NewPromise(CachedReply(s)) = {}
    BY <1>4, CachedReplyFinal DEF NewPromise, Open
  <2>3. BarPromised' = BarPromised
    BY <1>2, <2>2 DEF BarPromised
  <2> QED
    BY <2>1, <2>3, Stutters
<1>5. CASE s \in Final
  <2> DEFINE o == ContractOutcome(s)
  <2>1. o \in Contract!Permitted(chain[p])
    BY <1>5, ContractOutcomes DEF Contract!Permitted, Final
  <2>2. s # "manual_review" => o # "review" /\ NewPromise(CachedReply(s)) = {o}
    BY <1>5, ContractOutcomes DEF Final, CachedReply, NewPromise
  <2> HIDE DEF o
  <2>3. Contract!Conclude(p)
    <3>1. BarOutcome' = [BarOutcome EXCEPT ![p] = o]
      BY <1>1 DEF o
    <3>2. \/ BarPromised' = BarPromised
          \/ o # "review" /\ BarPromised' = [BarPromised EXCEPT ![p] = @ \cup {o}]
      BY <1>2, <2>2
    <3> QED
      BY <1>3, <2>1, <3>1, <3>2 DEF Contract!Conclude, BarOutcome, BarPromised
  <2> QED
    BY <2>3 DEF ContractStep, Contract!Next
<1> QED
  BY <1>4, <1>5 DEF Status

LEMMA RequestRefines ==
  ASSUME Inv, NEW r \in Requests, RequestStep(r)
  PROVE  ContractStep
<1> USE DEF storeVars, providerVars
<1> DEFINE p == request[r].pay
<1>0. request[r].pc # "idle" => p \in Payments
  BY DEF Inv, Safe, Consistent
<1>1. ASSUME NEW x \in Payments, ReplayCached(r, x) PROVE ContractStep
  BY <1>1, AnswerRefines DEF ReplayCached, AnswerClient, Inv
<1>2. CASE RateLimited(r)
  <2>1. CASE status[p] # "absent"
    BY <1>0, <1>2, <2>1, AnswerRefines DEF RateLimited, AnswerClient, Inv
  <2>2. CASE status[p] = "absent"
    BY <1>2, <2>2, Stutters DEF RateLimited, BarOutcome, BarPromised
  <2> QED BY <2>1, <2>2
<1>3. CASE Claim(r)
  <2>1. p \in Payments /\ status[p] = "absent"
    BY <1>0, <1>3 DEF Claim, Unclaimed
  <2>2. BarOutcome' = [BarOutcome EXCEPT ![p] = "open"] /\ BarOutcome[p] = "new"
    <3>1. status' = [status EXCEPT ![p] = "settle_in_progress"] /\ TypeOK
      BY <1>3 DEF Claim, Inv
    <3>2. BarOutcome' = [BarOutcome EXCEPT ![p] = ContractOutcome("settle_in_progress")]
      BY <2>1, <3>1, BarOutcomeStep
    <3> QED
      BY <2>1, <3>2, ContractOutcomes DEF Open, BarOutcome
  <2>3. Contract!Accept(p)
    BY <1>3, <2>2 DEF Claim, Contract!Accept, BarOutcome
  <2> QED
    BY <2>1, <2>3 DEF ContractStep, Contract!Next
<1>4. CASE ClaimDuplicate(r)
  BY <1>0, <1>4, AnswerRefines DEF ClaimDuplicate, AnswerClient, Inv
<1>5. CASE CallProvider(r)
  <2>1. /\ p \in Payments /\ calls[p] = 0 /\ chain[p] = "none"
        /\ status[p] \in Status \ {"absent"}
    BY <1>0, <1>5 DEF CallProvider, Inv, TypeOK, Safe, Consistent, Busy
  <2>2. status[p] \in Open \cup {"manual_review"}
    BY <2>1 DEF Inv, Safe, FinalTruth, Status, Final
  <2>3. BarOutcome[p] \in {"open", "review"}
    BY <2>1, <2>2, ContractOutcomes DEF BarOutcome
  <2>4. /\ calls' = [calls EXCEPT ![p] = 1] /\ chain' = [chain EXCEPT ![p] = "called"]
        /\ UNCHANGED <<status, told>>
    BY <1>5, <2>1 DEF CallProvider
  <2>5. Contract!HandOver(p)
    BY <2>1, <2>3, <2>4 DEF Contract!HandOver, BarOutcome
  <2> QED
    BY <2>1, <2>5 DEF ContractStep, Contract!Next
<1>6. CASE FinishSettle(r)
  <2> DEFINE s == Outcome(request[r].answer)
  <2>1. /\ p \in Payments /\ status[p] \in Open
        /\ status' = [status EXCEPT ![p] = s]
        /\ UNCHANGED <<chain, calls>>
        /\ told' = [told EXCEPT ![p] = @ \cup {CachedReply(s)}]
    BY <1>0, <1>6, FinishFromOpen DEF FinishSettle, AnswerClient, Open
  <2>2. /\ s \in Status \ {"absent", "manual_review"}
        /\ s = "settled" => chain[p] = "moved"
        /\ s = "settle_failed" => chain[p] = "dead"
    BY <1>6, OutcomeType DEF FinishSettle, Inv, Safe, Consistent, Truthful, Status, Open, Final
  <2> HIDE DEF s
  <2> QED
    BY <2>1, <2>2, WriteRefines
<1>7. CASE UNCHANGED <<status, told, chain, calls>>
  BY <1>7, Stutters DEF BarOutcome, BarPromised
<1> QED
  BY <1>1, <1>2, <1>3, <1>4, <1>5, <1>6, <1>7
  DEF RequestStep, MissCache, ProviderAnswers, FinishRefused, CrashRequest

LEMMA WorkerRefines ==
  ASSUME Inv, NEW w \in Workers, WorkerStep(w)
  PROVE  ContractStep
<1> USE DEF storeVars, providerVars, engineVars
<1>1. CASE ApplyOutcome(w)
  <2> DEFINE p == worker[w].pay
             s == Decision(worker[w])
  <2>1. /\ p \in Payments /\ status[p] \in Open
        /\ UNCHANGED <<chain, calls, told>>
    BY <1>1, FenceTypes, ReconcileFromOpen DEF ApplyOutcome, Writes, Inv, Calls
  <2>2. status' = [status EXCEPT ![p] = s]
    BY <1>1 DEF ApplyOutcome
  <2>3. /\ s \in Status \ {"absent"}
        /\ s = "settled" => chain[p] = "moved"
        /\ s = "settle_failed" => chain[p] = "dead"
    BY <1>1, DecisionType
    DEF ApplyOutcome, Writes, Inv, Safe, Consistent, Truthful, Status, Open, Final
  <2> HIDE DEF s
  <2> QED
    BY <2>1, <2>2, <2>3, WriteRefines
<1>2. CASE UNCHANGED <<status, told, chain, calls>>
  BY <1>2, Stutters DEF BarOutcome, BarPromised
<1> QED
  BY <1>1, <1>2
  DEF WorkerStep, StartRun, ClaimRecord, SkipRecord, ProviderReconciles, ApplyNothing,
      CrashWorker

LEMMA NextRefines == Inv /\ [Next]_vars => ContractStep
<1> SUFFICES ASSUME Inv, [Next]_vars PROVE ContractStep
  OBVIOUS
<1>1. ASSUME NEW p \in Payments, MoneyMoves(p) \/ PaymentDies(p) PROVE ContractStep
  <2>1. Contract!MoneyDecided(p)
    BY <1>1
    DEF MoneyMoves, PaymentDies, Contract!MoneyDecided, storeVars, engineVars
  <2> QED
    BY <2>1 DEF ContractStep, Contract!Next
<1>2. ASSUME NEW o \in Operators, NEW p \in Payments, OperatorStep(o, p) PROVE ContractStep
  <2>1. CASE OperatorManualReview(o, p)
    BY <2>1, WriteRefines
    DEF OperatorManualReview, Status, Open, Final, providerVars, engineVars
  <2>2. CASE OperatorClaim(o, p) \/ OperatorRelease(o, p)
    BY <2>2, Stutters
    DEF OperatorClaim, OperatorRelease, providerVars, engineVars, BarOutcome, BarPromised
  <2> QED BY <1>2, <2>1, <2>2 DEF OperatorStep
<1>3. CASE Tick \/ UNCHANGED vars
  BY <1>3, Stutters
  DEF Tick, vars, storeVars, providerVars, engineVars, BarOutcome, BarPromised
<1> QED
  BY <1>1, <1>2, <1>3, RequestRefines, WorkerRefines DEF Next

\* The engine, the reconciler and the operators together implement the
\* settlement contract: at most one hand-over, at most one conclusion, true
\* and never taken back, and no client told otherwise.
THEOREM KeepsContract == Spec => ImplementsContract
<1>1. Init => Contract!Init
  <2> SUFFICES ASSUME Init PROVE Contract!Init
    OBVIOUS
  <2>1. BarOutcome = [p \in Payments |-> "new"]
    BY ContractOutcomes DEF Init, BarOutcome
  <2>2. BarPromised = [p \in Payments |-> {}]
    BY DEF Init, BarPromised, Promises
  <2> QED
    BY <2>1, <2>2 DEF Init, Contract!Init, BarOutcome, BarPromised
<1> QED
  BY <1>1, NextRefines, InvHolds, PTL DEF Spec, ImplementsContract, Contract!Spec, ContractStep
=============================================================================
