---------------------------- MODULE NanopayProofs ---------------------------
(***************************************************************************)
(* Proofs about Nanopay, for any number of payments, any threshold, any    *)
(* number of retries and any balance.                                      *)
(***************************************************************************)
EXTENDS Nanopay, TLAPS

\* A breaker that is not closed has a reason, and a time: what every operation
\* of NanopaymentCircuitBreaker (adapter.py) keeps.
Agree(b) == b.state # "closed" => b.fails >= FailureThreshold /\ b.age # None

\* The state property keeps a consistent breaker consistent, and the count.
LEMMA PolledAgrees ==
    ASSUME NEW b \in Breaker, Agree(b)
    PROVE  Polled(b) \in Breaker /\ Agree(Polled(b)) /\ Polled(b).fails = b.fails
BY NanopayAssumption DEF Polled, Breaker, Agree, None

\* record_failure keeps a consistent breaker consistent, counts one failure,
\* and opens a circuit that was not closed.
LEMMA FailureAgrees ==
    ASSUME NEW b \in Breaker, Agree(b)
    PROVE  /\ RecordFailure(b) \in Breaker
           /\ Agree(RecordFailure(b))
           /\ b.state # "closed" => RecordFailure(b).state = "open"
BY NanopayAssumption DEF RecordFailure, Breaker, Agree, None

\* The same of record_error.
LEMMA ErrorAgrees ==
    ASSUME NEW b \in Breaker, Agree(b)
    PROVE  /\ RecordError(b) \in Breaker
           /\ Agree(RecordError(b))
           /\ b.state # "closed" => RecordError(b).state = "open"
BY NanopayAssumption DEF RecordError, Breaker, Agree, None

\* A new or reset breaker, and one after record_success, is consistent.
LEMMA ClosedAgrees == Closed \in Breaker /\ Agree(Closed)
BY NanopayAssumption DEF Closed, Breaker, Agree, None

\* One step changes the breaker in one of the ways its operations allow, and
\* none of the steps that return a result or advance a coroutine does so
\* otherwise.
BreakerStep ==
    \/ cb' \in {cb, Polled(cb), RecordFailure(cb), RecordError(cb),
                RecordFailure(RecordError(cb)), Closed}
    \/ cb.age # None /\ cb.age < RecoverySeconds /\ cb' = [cb EXCEPT !.age = @ + 1]

\* Every action leaves the breaker to the operations above.
LEMMA NextBreaker ==
    ASSUME [Next]_vars PROVE BreakerStep
<1>1. CASE UNCHANGED vars
  BY <1>1 DEF vars, BreakerStep
<1>2. CASE \E c \in Calls : Pay(c) \/ MoveFunds(c)
  <2> PICK c \in Calls : Pay(c) \/ MoveFunds(c)
    BY <1>2
  <2>1. CASE Settle(c)
    BY <2>1 DEF Settle, StartSettle, SettleSucceeds, Retry, SettleTransient,
                SettleFails, RecordSuccess, BreakerStep
  <2>2. CASE Show(c)
    BY <2>2 DEF Show, ShowPayment, SellerLost, SellerAnswers, BreakerStep
  <2>3. CASE Resolve(c) \/ RequestResource(c) \/ CheckBalance(c) \/ SignFails(c) \/ MoveFunds(c)
    BY <2>3 DEF Resolve, RequestResource, CheckBalance, SignFails, MoveFunds, BreakerStep
  <2> QED
    BY <2>1, <2>2, <2>3 DEF Pay
<1>3. CASE Tick \/ GetState \/ Reset
  BY <1>3 DEF Tick, GetState, Reset, BreakerStep
<1> QED
  BY <1>1, <1>2, <1>3 DEF Next

\* The breaker stays a breaker and stays consistent.
LEMMA BreakerKept ==
    ASSUME cb \in Breaker, Agree(cb), BreakerStep
    PROVE  cb' \in Breaker /\ Agree(cb')
<1>1. CASE cb' \in {cb, Polled(cb), RecordFailure(cb), RecordError(cb), Closed}
  BY <1>1, PolledAgrees, FailureAgrees, ErrorAgrees, ClosedAgrees
<1>2. CASE cb' = RecordFailure(RecordError(cb))
  BY <1>2, FailureAgrees, ErrorAgrees
<1>3. CASE cb.age # None /\ cb.age < RecoverySeconds /\ cb' = [cb EXCEPT !.age = @ + 1]
  BY <1>3, NanopayAssumption DEF Breaker, Agree, None
<1> QED
  BY <1>1, <1>2, <1>3 DEF BreakerStep
-----------------------------------------------------------------------------
(***************************************************************************)
(* The payments.                                                           *)
(***************************************************************************)

\* The part of the inductive invariant that is not about the breaker.
CallInv ==
    /\ strict \in BOOLEAN
    /\ pc \in [Calls -> {"start", "resolved", "balance", "posted", "sleeping",
                         "shown", "done"}]
    /\ seen \in [Calls -> Nat]
    /\ attempt \in [Calls -> 0..RetryAttempts]
    /\ result \in [Calls -> Result]
    /\ signed \in SUBSET Calls
    /\ moved \in SUBSET Calls
    /\ funds \in Nat
    /\ Accounted
    /\ SuccessIsPaid

\* A result is sound for payment c if it offers a fallback only for what was
\* never signed and reports success only for what was paid.
Sound(c, r) ==
    /\ r \in Result
    /\ r.fallback => c \notin signed
    /\ r.status \in {"settled", "completed"} /\ r.nano
          => c \in moved \/ (~strict /\ c \in Urls /\ r.content)

\* Returning a sound result from execute keeps the invariant.
LEMMA ReturnKeeps ==
    ASSUME CallInv, NEW c \in Calls, NEW r, Sound(c, r), Return(c, r), signed' = signed
    PROVE  CallInv'
<1> USE DEF CallInv, Return, gatewayVars
<1>1. /\ result' = [result EXCEPT ![c] = r] /\ pc' = [pc EXCEPT ![c] = "done"]
      /\ strict' = strict /\ seen' = seen /\ attempt' = attempt
      /\ moved' = moved /\ funds' = funds /\ signed' = signed
  OBVIOUS
<1>2. /\ strict' \in BOOLEAN /\ seen' \in [Calls -> Nat]
      /\ pc' \in [Calls -> {"start", "resolved", "balance", "posted", "sleeping",
                            "shown", "done"}]
      /\ attempt' \in [Calls -> 0..RetryAttempts]
      /\ result' \in [Calls -> Result]
      /\ signed' \in SUBSET Calls /\ moved' \in SUBSET Calls /\ funds' \in Nat
  BY <1>1 DEF Sound
<1>3. Accounted'
  BY <1>1 DEF Accounted, Unsigned, Sound
<1>4. SuccessIsPaid'
  BY <1>1 DEF SuccessIsPaid, Sound
<1> QED
  BY <1>2, <1>3, <1>4

\* An exception ends a payment soundly unless it offers a fallback for a
\* payment whose authorization is out.
LEMMA RaiseKeeps ==
    ASSUME CallInv, NEW c \in Calls, NEW e \in Exceptions, Raise(c, e), signed' = signed,
           e \in FallbackErrors => c \notin signed
    PROVE  CallInv'
<1> DEFINE r == [status |-> "failed", fallback |-> e \in FallbackErrors, error |-> e,
                 nano |-> FALSE, content |-> FALSE]
<1>1. Sound(c, r)
  <2>1. (e \in FallbackErrors) \in BOOLEAN
    OBVIOUS
  <2>2. PICK f \in BOOLEAN : f = (e \in FallbackErrors)
    BY <2>1
  <2>3. r = [status |-> "failed", fallback |-> f, error |-> e,
             nano |-> FALSE, content |-> FALSE]
    BY <2>2
  <2>4. f => c \notin signed
    BY <2>2
  <2> QED
    BY <2>3, <2>4 DEF Sound, Result
<1>2. Return(c, r)
  BY DEF Raise
<1> HIDE DEF r
<1> QED
  BY <1>1, <1>2, ReturnKeeps

\* A result of pay_direct or pay_x402_url ends a payment soundly if its success
\* is paid for.
LEMMA FinishKeeps ==
    ASSUME CallInv, NEW c \in Calls, NEW success \in BOOLEAN, NEW nano \in BOOLEAN,
           NEW content \in BOOLEAN, Finish(c, success, nano, content), signed' = signed,
           success /\ nano => c \in moved \/ (~strict /\ c \in Urls /\ content)
    PROVE  CallInv'
<1> DEFINE r == [status |-> IF success THEN IF strict THEN "settled" ELSE "completed"
                                       ELSE IF strict THEN "failed_final" ELSE "failed",
                 fallback |-> FALSE, error |-> "none", nano |-> nano, content |-> content]
<1>1. Sound(c, r)
  BY DEF Sound, Result, CallInv
<1>2. Return(c, r)
  BY DEF Finish
<1> HIDE DEF r
<1> QED
  BY <1>1, <1>2, ReturnKeeps

\* Moving a coroutine on keeps the invariant when the payment is neither
\* signed nor over, has not got further than its signature allows, and counts
\* its attempts within the bound.
LEMMA AdvanceKeeps ==
    ASSUME CallInv, NEW c \in Calls, NEW label \in {"resolved", "balance", "posted",
                                                    "sleeping", "shown"},
           pc[c] # "done", Advance(c, label),
           seen' \in [Calls -> Nat], attempt' \in [Calls -> 0..RetryAttempts],
           \A d \in Calls : d # c => attempt'[d] = attempt[d],
           label = "sleeping" => attempt'[c] < RetryAttempts,
           label = "shown" => c \in Urls,
           \/ label \in {"resolved", "balance"} /\ c \notin signed /\ signed' = signed
           \/ label \notin {"resolved", "balance"} /\ signed' \in {signed, signed \cup {c}}
    PROVE  CallInv'
<1> USE DEF CallInv, Advance, gatewayVars
<1>1. /\ pc' \in [Calls -> {"start", "resolved", "balance", "posted", "sleeping",
                            "shown", "done"}]
      /\ strict' \in BOOLEAN /\ result' \in [Calls -> Result]
      /\ signed' \in SUBSET Calls /\ moved' \in SUBSET Calls /\ funds' \in Nat
  OBVIOUS
<1>2. ~result[c].fallback
  BY DEF Accounted
<1>3. Accounted'
  <2>1. signed' \cap Unsigned' = {}
    BY <1>2 DEF Accounted, Unsigned
  <2>2. moved' \subseteq signed'
    BY DEF Accounted
  <2>3. \A d \in Calls : result'[d].fallback => pc'[d] = "done"
    BY <1>2 DEF Accounted
  <2>4. \A d \in Calls : pc'[d] = "sleeping" => attempt'[d] < RetryAttempts
    BY DEF Accounted
  <2>5. \A d \in Calls : pc'[d] = "shown" => d \in Urls
    BY DEF Accounted
  <2> QED
    BY <2>1, <2>2, <2>3, <2>4, <2>5 DEF Accounted
<1>4. SuccessIsPaid'
  BY DEF SuccessIsPaid
<1> QED
  BY <1>1, <1>3, <1>4
-----------------------------------------------------------------------------
\* A payment that is not signed yet has its authorization with the buyer.
LEMMA NotSigned ==
    ASSUME CallInv, NEW c \in Calls, pc[c] \in {"start", "resolved", "balance"}
    PROVE  c \notin signed
BY DEF CallInv, Accounted, Unsigned

\* What happens before the signature: Resolve, RequestResource, CheckBalance
\* and SignFails (pay_direct and pay_x402_url up to _sign).
LEMMA PreludeKeeps ==
    ASSUME CallInv, NEW c \in Calls,
           Resolve(c) \/ RequestResource(c) \/ CheckBalance(c) \/ SignFails(c)
    PROVE  CallInv'
<1>1. c \notin signed /\ signed' = signed /\ pc[c] # "done"
  BY NotSigned DEF Resolve, RequestResource, CheckBalance, SignFails
<1>2. CASE \E e \in Exceptions : Raise(c, e)
  BY <1>1, <1>2, RaiseKeeps
<1>3. CASE \E ok \in BOOLEAN : Finish(c, ok, FALSE, ok)
  BY <1>1, <1>3, FinishKeeps
<1>4. CASE Advance(c, "resolved") /\ UNCHANGED <<seen, attempt>>
  BY <1>1, <1>4, AdvanceKeeps DEF CallInv
<1>5. CASE Advance(c, "balance") /\ seen' = [seen EXCEPT ![c] = funds] /\ UNCHANGED attempt
  BY <1>1, <1>5, AdvanceKeeps DEF CallInv
<1> QED
  BY <1>2, <1>3, <1>4, <1>5
     DEF Resolve, RequestResource, CheckBalance, SignFails, HttpErrors, Exceptions

\* The retry loop of _settle_with_retry.
LEMMA SettleKeeps ==
    ASSUME CallInv, NEW c \in Calls, Settle(c)
    PROVE  CallInv'
<1>1. CASE StartSettle(c)
  <2>1. CASE Advance(c, "posted") /\ signed' = signed \cup {c} /\ UNCHANGED <<seen, attempt>>
    <3>1. pc[c] # "done"
      BY <1>1 DEF StartSettle
    <3> QED
      BY <2>1, <3>1, AdvanceKeeps DEF CallInv
  <2>2. CASE Raise(c, "CircuitRefusal") /\ signed' = signed
    BY <2>2, RaiseKeeps DEF Exceptions, FallbackErrors
  <2> QED
    BY <1>1, <2>1, <2>2 DEF StartSettle
<1>2. CASE SettleSucceeds(c)
  <2>1. c \in moved /\ Finish(c, TRUE, TRUE, FALSE) /\ signed' = signed
    BY <1>2 DEF SettleSucceeds, Answers, HttpErrors
  <2> QED
    BY <2>1, FinishKeeps
<1>3. CASE Retry(c)
  <2>1. /\ pc[c] = "sleeping" /\ Advance(c, "posted") /\ signed' = signed /\ seen' = seen
        /\ attempt' = [attempt EXCEPT ![c] = @ + 1]
    BY <1>3 DEF Retry
  <2>2. attempt[c] < RetryAttempts /\ attempt[c] \in 0..RetryAttempts
    BY <2>1 DEF CallInv, Accounted
  <2>3. attempt' \in [Calls -> 0..RetryAttempts]
    BY <2>1, <2>2, NanopayAssumption DEF CallInv
  <2> QED
    BY <2>1, <2>3, AdvanceKeeps DEF CallInv
<1>4. ASSUME NEW e \in Outcomes, SettleTransient(c, e) PROVE CallInv'
  <2>1. signed' = signed /\ pc[c] # "done"
    BY <1>4 DEF SettleTransient
  <2>2. CASE MoreAttempts(c) /\ Advance(c, "sleeping") /\ UNCHANGED <<seen, attempt>>
    BY <2>1, <2>2, AdvanceKeeps DEF CallInv, MoreAttempts
  <2>3. CASE e \in HttpErrors /\ Raise(c, e)
    BY <2>1, <2>3, RaiseKeeps DEF HttpErrors, Exceptions, FallbackErrors
  <2>4. CASE Raise(c, "SettlementError")
    BY <2>1, <2>4, RaiseKeeps DEF Exceptions, FallbackErrors
  <2> QED
    BY <1>4, <2>2, <2>3, <2>4 DEF SettleTransient
<1>5. ASSUME NEW e \in Outcomes, SettleFails(c, e) PROVE CallInv'
  <2>1. e \in Recorded \cup Unrecorded /\ Raise(c, e) /\ signed' = signed
    BY <1>5 DEF SettleFails
  <2>2. e \in Exceptions /\ e \notin FallbackErrors
    BY <2>1 DEF Recorded, Unrecorded, Exceptions, FallbackErrors
  <2> QED
    BY <2>1, <2>2, RaiseKeeps
<1> QED
  BY <1>1, <1>2, <1>3, <1>4, <1>5 DEF Settle

\* The paid request of pay_x402_url.
LEMMA ShowKeeps ==
    ASSUME CallInv, NEW c \in Calls, Show(c)
    PROVE  CallInv'
<1>1. CASE ShowPayment(c)
  <2>1. /\ pc[c] # "done" /\ c \in Urls /\ Advance(c, "shown") /\ signed' = signed \cup {c}
        /\ seen' = seen /\ attempt' = attempt
    BY <1>1 DEF ShowPayment
  <2> QED
    BY <2>1, AdvanceKeeps DEF CallInv
<1>2. CASE SellerLost(c)
  BY <1>2, RaiseKeeps DEF SellerLost, Exceptions, FallbackErrors
<1>3. ASSUME NEW header \in {"settled", "refused", "missing", "invalid"},
             NEW content \in BOOLEAN, SellerAnswers(c, header, content)
      PROVE  CallInv'
  <2>1. signed' = signed /\ c \in Urls /\ (header = "settled" => c \in moved)
    BY <1>3 DEF SellerAnswers, CallInv, Accounted
  <2>2. CASE Raise(c, "SettlementError")
    BY <2>1, <2>2, RaiseKeeps DEF Exceptions, FallbackErrors
  <2>3. CASE Finish(c, UrlSuccess(header, content), TRUE, content)
    <3>1. UrlSuccess(header, content) \in BOOLEAN
      BY DEF UrlSuccess
    <3>2. UrlSuccess(header, content) => c \in moved \/ (~strict /\ c \in Urls /\ content)
      BY <2>1 DEF UrlSuccess
    <3> QED
      BY <2>1, <2>3, <3>1, <3>2, FinishKeeps
  <2> QED
    BY <1>3, <2>2, <2>3 DEF SellerAnswers
<1> QED
  BY <1>1, <1>2, <1>3 DEF Show

\* The Gateway executes an authorization that is out.
LEMMA MoveKeeps ==
    ASSUME CallInv, NEW c \in Calls, MoveFunds(c)
    PROVE  CallInv'
BY DEF CallInv, MoveFunds, callVars, Accounted, Unsigned, SuccessIsPaid
-----------------------------------------------------------------------------
\* The inductive invariant, and its two halves.
Inv == NanopayTypeOK /\ BreakerAgrees /\ Accounted /\ SuccessIsPaid

\* The invariant is that of the breaker and that of the payments.
LEMMA Halves == Inv <=> cb \in Breaker /\ Agree(cb) /\ CallInv
BY DEF Inv, NanopayTypeOK, BreakerAgrees, Agree, CallInv

\* The adapter starts with a closed circuit and nothing signed.
LEMMA InitInv == Init => Inv
BY NanopayAssumption
   DEF Init, Inv, NanopayTypeOK, BreakerAgrees, Accounted, Unsigned, SuccessIsPaid,
       Closed, Breaker, None, NoResult, Result

\* Every step keeps the invariant.
LEMMA NextInv == Inv /\ [Next]_vars => Inv'
<1> SUFFICES ASSUME Inv, [Next]_vars PROVE Inv'
  OBVIOUS
<1>1. cb \in Breaker /\ Agree(cb) /\ CallInv
  BY Halves
<1>2. cb' \in Breaker /\ Agree(cb)'
  <2>1. Agree(cb') => Agree(cb)'
    BY DEF Agree
  <2> QED
    BY <1>1, <2>1, NextBreaker, BreakerKept
<1>3. CallInv'
  <2>1. CASE UNCHANGED vars
    BY <1>1, <2>1
       DEF vars, callVars, gatewayVars, CallInv, Accounted, Unsigned, SuccessIsPaid
  <2>2. CASE Tick \/ GetState \/ Reset
    BY <1>1, <2>2
       DEF Tick, GetState, Reset, callVars, gatewayVars, CallInv, Accounted, Unsigned,
           SuccessIsPaid
  <2>3. ASSUME NEW c \in Calls, Pay(c) \/ MoveFunds(c) PROVE CallInv'
    BY <1>1, <2>3, PreludeKeeps, SettleKeeps, ShowKeeps, MoveKeeps DEF Pay
  <2> QED
    BY <2>1, <2>2, <2>3 DEF Next
<1> QED
  BY <1>2, <1>3 DEF Inv, NanopayTypeOK, BreakerAgrees, Agree, CallInv

\* The inductive invariant holds always.
THEOREM Invariance == Spec => []Inv
BY InitInv, NextInv, PTL DEF Spec

\* Types, and the bound on the attempts of _settle_with_retry.
THEOREM NanopayTypeCorrect == Spec => []NanopayTypeOK
<1>1. Inv => NanopayTypeOK
  BY DEF Inv
<1> QED
  BY <1>1, Invariance, PTL

\* However the payments overlap, a circuit that is not closed has counted as
\* many failures as the threshold since the last success or reset, and has the
\* time of one.
THEOREM BreakerConsistent == Spec => []BreakerAgrees
<1>1. Inv => BreakerAgrees
  BY DEF Inv
<1> QED
  BY <1>1, Invariance, PTL

\* A payment offered for a fallback is never executed by the Gateway.
THEOREM NoDoublePay == Spec => []FallbackIsSafe
<1>1. Inv => FallbackIsSafe
  BY DEF Inv, Accounted, Unsigned, FallbackIsSafe
<1> QED
  BY <1>1, Invariance, PTL

\* A payment reported as made has been made, or its content was delivered to a
\* buyer that did not ask for strict settlement.
THEOREM PaidWhenReported == Spec => []SuccessIsPaid
<1>1. Inv => SuccessIsPaid
  BY DEF Inv
<1> QED
  BY <1>1, Invariance, PTL

\* A failure recorded while the circuit is open or half open leaves it open.
THEOREM ReopensOnFailure == Spec => FailureReopens
<1>1. Inv /\ [Next]_vars
        => [cb.state # "closed" /\ cb'.fails > cb.fails => cb'.state = "open"]_vars
  <2> SUFFICES ASSUME Inv, [Next]_vars, cb.state # "closed", cb'.fails > cb.fails
               PROVE  cb'.state = "open"
    OBVIOUS
  <2>1. cb \in Breaker /\ Agree(cb)
    BY Halves
  <2>2. BreakerStep
    BY NextBreaker
  <2>3. CASE cb' \in {cb, Polled(cb), Closed}
    <3>1. cb'.fails = cb.fails \/ cb'.fails = 0
      BY <2>1, <2>3, PolledAgrees DEF Closed
    <3> QED
      BY <2>1, <3>1 DEF Breaker
  <2>4. CASE cb' \in {RecordFailure(cb), RecordError(cb)}
    BY <2>1, <2>4, FailureAgrees, ErrorAgrees
  <2>5. CASE cb' = RecordFailure(RecordError(cb))
    <3>1. RecordError(cb) \in Breaker /\ Agree(RecordError(cb)) /\ RecordError(cb).state # "closed"
      BY <2>1, ErrorAgrees
    <3> QED
      BY <2>5, <3>1, FailureAgrees
  <2>6. CASE cb.age < RecoverySeconds /\ cb' = [cb EXCEPT !.age = @ + 1]
    BY <2>1, <2>6 DEF Breaker
  <2> QED
    BY <2>2, <2>3, <2>4, <2>5, <2>6 DEF BreakerStep
<1> QED
  BY <1>1, Invariance, PTL DEF Spec, FailureReopens
=============================================================================
