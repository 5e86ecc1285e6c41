------------------------------ MODULE Nanopay -------------------------------
(***************************************************************************)
(* The buyer's side: payments through NanopaymentProtocolAdapter.execute,  *)
(* run as coroutines of one event loop that share one adapter, its circuit *)
(* breaker and one Gateway balance.                                        *)
(*                                                                         *)
(* A step runs from one await to the next.  Directs pay an address through *)
(* pay_direct and the retry loop, Urls pay an x402 resource whose seller   *)
(* settles.  The Gateway and the sellers are external: once the signed     *)
(* authorization of a payment has left the process, the money may move at  *)
(* any time, also after the request was given up.  Each payment costs one  *)
(* unit.                                                                   *)
(*                                                                         *)
(* cb.age is the time since _last_failure_time; it stops counting at       *)
(* RecoverySeconds, past which no guard changes its answer.                *)
(***************************************************************************)
EXTENDS Integers

CONSTANTS
    Directs,            \* payments to an address
    Urls,               \* payments for an x402 resource
    Unserved,           \* payments on a network the Gateway no longer settles
    FailureThreshold, RecoverySeconds, RetryAttempts,
    Deposit             \* Gateway balance at the start

ASSUME NanopayAssumption ==
    /\ FailureThreshold \in Nat \ {0}
    /\ RecoverySeconds \in Nat
    /\ RetryAttempts \in Nat
    /\ Deposit \in Nat
    /\ Directs \cap Urls = {}

VARIABLES
    strict,     \* _strict_settlement of the adapter
    cb,         \* the circuit breaker
    pc, seen, attempt, result,     \* the coroutine of each payment
    signed,     \* payments whose authorization has left the process
    moved,      \* payments the Gateway has executed
    funds       \* what the Gateway balance has left

Calls == Directs \cup Urls
callVars == <<pc, seen, attempt, result>>
gatewayVars == <<moved, funds>>
vars == <<strict, cb, callVars, signed, gatewayVars>>
-----------------------------------------------------------------------------
None == -1      \* _last_failure_time is None

Breaker == [state: {"closed", "open", "half_open"}, fails: Nat,
            age: 0..RecoverySeconds \cup {None}]
Closed == [state |-> "closed", fails |-> 0, age |-> None]

\* Exceptions that end a payment.  CircuitRefusal is the SettlementError that
\* pay_direct raises from a CircuitOpenError.  TypeError is what
\* _map_settlement_error raises for unsupported_scheme, unsupported_network and
\* network_mismatch: the classes the table names do not take its arguments.
Exceptions ==
    {"UnsupportedSchemeError", "UnsupportedNetworkError", "CircuitOpenError",
     "CircuitRefusal", "GatewayAPIError", "GatewayTimeoutError",
     "GatewayConnectionError", "NonceReusedError", "InsufficientBalanceError",
     "VerificationError", "SettlementError", "TypeError", "ValueError", "SigningError"}

\* What client.settle comes to: an answer or an exception.  TransientError is a
\* SettlementError whose text contains "timeout" or "connection".
HttpErrors == {"GatewayTimeoutError", "GatewayConnectionError"}
Recorded == {"NonceReusedError", "InsufficientBalanceError", "SettlementError"}
Unrecorded == {"GatewayAPIError", "VerificationError", "TypeError"}
Outcomes == {"success", "TransientError"} \cup HttpErrors \cup Recorded \cup Unrecorded

NoResult == [status |-> "none", fallback |-> FALSE, error |-> "none",
             nano |-> FALSE, content |-> FALSE]
Result == [status: {"none", "settled", "completed", "failed", "failed_final"},
           fallback: BOOLEAN, error: Exceptions \cup {"none"},
           nano: BOOLEAN, content: BOOLEAN]

\* The domains of the state; in particular no payment is sent to the Gateway
\* more than RetryAttempts + 1 times by _settle_with_retry.
NanopayTypeOK ==
    /\ strict \in BOOLEAN
    /\ cb \in Breaker
    /\ pc \in [Calls -> {"start", "resolved", "balance", "posted", "sleeping",
                         "shown", "done"}]
    /\ seen \in [Calls -> Nat]
    /\ attempt \in [Calls -> 0..RetryAttempts]
    /\ result \in [Calls -> Result]
    /\ signed \in SUBSET Calls
    /\ moved \in SUBSET Calls
    /\ funds \in Nat

Init ==
    /\ strict \in BOOLEAN
    /\ cb = Closed
    /\ pc = [c \in Calls |-> "start"]
    /\ seen = [c \in Calls |-> 0]
    /\ attempt = [c \in Calls |-> 0]
    /\ result = [c \in Calls |-> NoResult]
    /\ signed = {}
    /\ moved = {}
    /\ funds = Deposit
-----------------------------------------------------------------------------
(***************************************************************************)
(* The circuit breaker.                                                    *)
(***************************************************************************)

\* Mutant: half-opening forgets the failures.
PolledForgets(b) ==
    IF b.state = "open" /\ b.age # None /\ b.age >= RecoverySeconds
    THEN [b EXCEPT !.state = "half_open", !.fails = 0] ELSE b

\* The state property: looking at an open circuit half-opens it once the
\* recovery time is over.
Polled(b) ==
    IF b.state = "open" /\ b.age # None /\ b.age >= RecoverySeconds
    THEN [b EXCEPT !.state = "half_open"] ELSE b

IsAvailable(b) == Polled(b).state # "open"

RecordFailure(b) ==
    [state |-> IF b.fails + 1 >= FailureThreshold THEN "open" ELSE b.state,
     fails |-> b.fails + 1, age |-> 0]

RecordError(b) ==
    [state |-> IF b.fails + 1 >= FailureThreshold THEN "open" ELSE b.state,
     fails |-> b.fails + 1, age |-> 0]

\* Mutant: the failures are forgotten, the state is left.
RecordSuccessLeavesState(b) == [b EXCEPT !.fails = 0, !.age = None]

RecordSuccess(b) == Closed
-----------------------------------------------------------------------------
(***************************************************************************)
(* How a payment ends: execute turns a result or an exception into a       *)
(* PaymentResult.                                                          *)
(***************************************************************************)

\* Mutant: a time-out is taken for a payment that never happened.
FallbackErrorsAndTimeout ==
    {"UnsupportedSchemeError", "CircuitOpenError", "UnsupportedNetworkError",
     "GatewayTimeoutError"}

\* Only these invite the router to pay by another method.
FallbackErrors == {"UnsupportedSchemeError", "CircuitOpenError", "UnsupportedNetworkError"}

Return(c, r) ==
    /\ result' = [result EXCEPT ![c] = r]
    /\ pc' = [pc EXCEPT ![c] = "done"]
    /\ UNCHANGED <<strict, seen, attempt, gatewayVars>>

Raise(c, e) ==
    Return(c, [status |-> "failed", fallback |-> e \in FallbackErrors, error |-> e,
               nano |-> FALSE, content |-> FALSE])

Finish(c, success, nano, content) ==
    Return(c, [status |-> IF success THEN IF strict THEN "settled" ELSE "completed"
                                     ELSE IF strict THEN "failed_final" ELSE "failed",
               fallback |-> FALSE, error |-> "none",
               nano |-> nano, content |-> content])

Advance(c, label) ==
    /\ pc' = [pc EXCEPT ![c] = label]
    /\ UNCHANGED <<strict, result, gatewayVars>>
-----------------------------------------------------------------------------
(***************************************************************************)
(* Both kinds of payment: find the contract, read the balance, sign.       *)
(***************************************************************************)

\* get_verifying_contract and get_usdc_address, whose answers may come from a
\* list of networks cached for an hour.
Resolve(c) ==
    /\ pc[c] = "start" /\ c \in Directs
    /\ \/ Advance(c, "resolved") /\ UNCHANGED <<seen, attempt>>
       \/ \E e \in HttpErrors \cup {"GatewayAPIError", "UnsupportedNetworkError",
                                    "ValueError"} : Raise(c, e)
    /\ UNCHANGED <<cb, signed>>

\* The first request of pay_x402_url, up to the verifying contract.
RequestResource(c) ==
    /\ pc[c] = "start" /\ c \in Urls
    /\ \/ Advance(c, "resolved") /\ UNCHANGED <<seen, attempt>>
       \/ \E ok \in BOOLEAN : Finish(c, ok, FALSE, ok)
       \/ \E e \in HttpErrors \cup {"GatewayAPIError", "UnsupportedSchemeError",
                                    "UnsupportedNetworkError"} : Raise(c, e)
    /\ UNCHANGED <<cb, signed>>

\* check_balance: what the Gateway reads is used in a later step.
CheckBalance(c) ==
    /\ pc[c] = "resolved"
    /\ \/ /\ seen' = [seen EXCEPT ![c] = funds]
          /\ Advance(c, "balance") /\ UNCHANGED attempt
       \/ \E e \in HttpErrors \cup {"GatewayAPIError", "UnsupportedNetworkError"} : Raise(c, e)
    /\ UNCHANGED <<cb, signed>>

\* The balance read is too small, or the signer refuses.
SignFails(c) ==
    /\ pc[c] = "balance"
    /\ Raise(c, IF seen[c] < 1 THEN "InsufficientBalanceError" ELSE "SigningError")
    /\ UNCHANGED <<cb, signed>>
-----------------------------------------------------------------------------
(***************************************************************************)
(* pay_direct and _settle_with_retry.                                      *)
(***************************************************************************)

\* The circuit is looked at once, before the first attempt.
StartSettle(c) ==
    /\ pc[c] = "balance" /\ c \in Directs /\ seen[c] >= 1
    /\ cb' = Polled(cb)
    /\ \/ /\ IsAvailable(cb)
          /\ signed' = signed \cup {c}
          /\ Advance(c, "posted") /\ UNCHANGED <<seen, attempt>>
       \/ /\ ~IsAvailable(cb)
          /\ Raise(c, "CircuitRefusal")
          /\ UNCHANGED signed

\* What the Gateway can answer at this moment.  Time-outs, lost connections,
\* server errors and failed confirmations tell nothing about the money.
Answers(c) ==
    HttpErrors \cup {"TransientError", "SettlementError", "GatewayAPIError"}
    \cup (IF c \in moved THEN {"success", "NonceReusedError"} ELSE {"VerificationError"})
    \cup (IF c \notin moved /\ funds = 0 THEN {"InsufficientBalanceError"} ELSE {})
    \cup (IF c \in Unserved THEN {"TypeError"} ELSE {})

MoreAttempts(c) == attempt[c] < RetryAttempts

SettleSucceeds(c) ==
    /\ pc[c] = "posted" /\ "success" \in Answers(c)
    /\ cb' = RecordSuccess(cb)
    /\ Finish(c, TRUE, TRUE, FALSE)
    /\ UNCHANGED signed

\* A transient error: back off if attempts are left.  A transient
\* SettlementError on the last attempt is recorded twice.
SettleTransient(c, e) ==
    /\ pc[c] = "posted" /\ e \in HttpErrors \cup {"TransientError"}
    /\ \/ /\ MoreAttempts(c)
          /\ cb' = RecordError(cb)
          /\ Advance(c, "sleeping") /\ UNCHANGED <<seen, attempt>>
       \/ /\ ~MoreAttempts(c) /\ e \in HttpErrors
          /\ cb' = RecordError(cb)
          /\ Raise(c, e)
       \/ /\ ~MoreAttempts(c) /\ e = "TransientError"
          /\ cb' = RecordFailure(RecordError(cb))
          /\ Raise(c, "SettlementError")
    /\ UNCHANGED signed

SettleFails(c, e) ==
    /\ pc[c] = "posted" /\ e \in Answers(c)
    /\ \/ e \in Recorded /\ cb' = RecordFailure(cb)
       \/ e \in Unrecorded /\ UNCHANGED cb
    /\ Raise(c, e)
    /\ UNCHANGED signed

\* Mutant: the attempt is not counted.
RetryUncounted(c) ==
    /\ pc[c] = "sleeping"
    /\ Advance(c, "posted")
    /\ UNCHANGED <<cb, seen, attempt, signed>>

\* The back-off is over: the same authorization is sent again.
Retry(c) ==
    /\ pc[c] = "sleeping"
    /\ attempt' = [attempt EXCEPT ![c] = @ + 1]
    /\ Advance(c, "posted")
    /\ UNCHANGED <<cb, seen, signed>>
-----------------------------------------------------------------------------
(***************************************************************************)
(* The paid request of pay_x402_url.                                       *)
(***************************************************************************)
ShowPayment(c) ==
    /\ pc[c] = "balance" /\ c \in Urls /\ seen[c] >= 1
    /\ signed' = signed \cup {c}
    /\ Advance(c, "shown")
    /\ UNCHANGED <<cb, seen, attempt>>

\* Mutant: content stands for settlement in strict mode too.
UrlSuccessLax(header, content) == header = "settled" \/ content

UrlSuccess(header, content) ==
    header = "settled" \/ (~strict /\ content)

\* The seller answers, with or without the resource and a PAYMENT-RESPONSE; a
\* seller that reports a settlement has one.
SellerAnswers(c, header, content) ==
    /\ pc[c] = "shown"
    /\ header = "settled" => c \in moved
    /\ IF strict /\ ~content /\ header \in {"missing", "invalid"}
       THEN Raise(c, "SettlementError")
       ELSE Finish(c, UrlSuccess(header, content), TRUE, content)
    /\ UNCHANGED <<cb, signed>>

SellerLost(c) ==
    /\ pc[c] = "shown"
    /\ Raise(c, "GatewayAPIError")
    /\ UNCHANGED <<cb, signed>>
-----------------------------------------------------------------------------
(***************************************************************************)
(* The Gateway, the clock, and operations on the breaker itself.           *)
(***************************************************************************)

\* An authorization is executed at most once: its nonce is spent.
MoveFunds(c) ==
    /\ c \in signed \ (moved \cup Unserved) /\ funds > 0
    /\ moved' = moved \cup {c}
    /\ funds' = funds - 1
    /\ UNCHANGED <<strict, cb, callVars, signed>>

Tick ==
    /\ cb.age # None /\ cb.age < RecoverySeconds
    /\ cb' = [cb EXCEPT !.age = @ + 1]
    /\ UNCHANGED <<strict, callVars, signed, gatewayVars>>

\* get_circuit_breaker_state
GetState ==
    /\ cb' = Polled(cb)
    /\ UNCHANGED <<strict, callVars, signed, gatewayVars>>

Reset ==
    /\ cb' = Closed
    /\ UNCHANGED <<strict, callVars, signed, gatewayVars>>

Settle(c) ==
    \/ StartSettle(c) \/ SettleSucceeds(c) \/ Retry(c)
    \/ \E e \in Outcomes : SettleTransient(c, e) \/ SettleFails(c, e)

Show(c) ==
    \/ ShowPayment(c) \/ SellerLost(c)
    \/ \E header \in {"settled", "refused", "missing", "invalid"}, content \in BOOLEAN :
          SellerAnswers(c, header, content)

Pay(c) == Resolve(c) \/ RequestResource(c) \/ CheckBalance(c) \/ SignFails(c) \/ Settle(c) \/ Show(c)

Next == (\E c \in Calls : Pay(c) \/ MoveFunds(c)) \/ Tick \/ GetState \/ Reset

Spec == Init /\ [][Next]_vars

\* The event loop runs a coroutine that is ready, and the HTTP clients time
\* out, so each payment's next step is taken some day.  Nothing makes the
\* Gateway or a seller move the money.
FairSpec == Spec /\ \A c \in Calls : WF_vars(Pay(c))
-----------------------------------------------------------------------------
(***************************************************************************)
(* Properties.                                                             *)
(***************************************************************************)

\* The breaker stands in the way only with a reason, and for a time: a circuit
\* that is not closed has counted as many failures as the threshold since the
\* last success or reset, also when payments that started before it opened
\* still succeed or fail, and it has the time of one of them, without which
\* the state property would leave it open for ever.
BreakerAgrees ==
    cb.state # "closed" => cb.fails >= FailureThreshold /\ cb.age # None

\* execute's promise to the router: a payment it may make again by another
\* method is never executed by the Gateway, not even later.
FallbackIsSafe == \A c \in Calls : result[c].fallback => c \notin moved

\* Payments that are not yet signed, or that the router may make again.
Unsigned == {c \in Calls : pc[c] \in {"start", "resolved", "balance"} \/ result[c].fallback}

\* What the others rest on: no authorization is out for a payment that is not
\* yet signed or that may be made again; the Gateway executes only what is out;
\* a payment offered for a fallback has ended; one that backs off has an attempt
\* left to make; and sellers are shown payments for their resources only.
Accounted ==
    /\ signed \cap Unsigned = {}
    /\ moved \subseteq signed
    /\ \A c \in Calls : result[c].fallback => pc[c] = "done"
    /\ \A c \in Calls : pc[c] = "sleeping" => attempt[c] < RetryAttempts
    /\ \A c \in Calls : pc[c] = "shown" => c \in Urls

\* A payment reported as made through the Gateway has been made; the one
\* exception is pay_x402_url without strict settlement, where the content
\* stands for it.
SuccessIsPaid ==
    \A c \in Calls :
        result[c].status \in {"settled", "completed"} /\ result[c].nano
            => c \in moved \/ (~strict /\ c \in Urls /\ result[c].content)

\* Once the circuit has opened, a failure never leaves it half open: it opens
\* again, though only an earlier state reached the threshold.
FailureReopens ==
    [][cb.state # "closed" /\ cb'.fails > cb.fails => cb'.state = "open"]_vars

\* Every payment returns: the retry loop ends whatever the Gateway answers.
Returns == \A c \in Calls : <>(pc[c] = "done")

\* record_error: "These don't trip the circuit", said of HTTP time-outs and
\* connection errors: a payment that ends with one leaves a closed circuit
\* closed.
ErrorsDoNotTrip ==
    [][\A c \in Directs :
          pc[c] = "posted" /\ result'[c].error \in HttpErrors /\ cb.state = "closed"
              => cb'.state = "closed"]_vars

\* execute: "Safe fallback: ... network is not supported for nanopayments",
\* also when it is the Gateway that says so.
UnsupportedFallsBack ==
    \A c \in Directs :
        result[c].error \in {"UnsupportedNetworkError", "TypeError"} => result[c].fallback
=============================================================================
