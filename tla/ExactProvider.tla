--------------------------- MODULE ExactProvider ---------------------------
(***************************************************************************)
(* HostedExactProvider with its HostedSignerGuard and the web3 signer: how *)
(* the coroutines of one process that settle payments pass the semaphore   *)
(* and the lock of their network, which nonce the signer takes, what is    *)
(* answered when a call fails, is given up or cancelled, and what the      *)
(* reconciliation of such a payment answers.                               *)
(*                                                                         *)
(* The x402 facilitator, the node and the chain are external.  Settlement  *)
(* takes the answers of a provider as they come; this module is about why  *)
(* its definite answers are true.                                          *)
(***************************************************************************)
EXTENDS Naturals, Sequences, FiniteSets, SequencesExt

CONSTANTS
    Payments,
    Networks,
    NetworkOf,          \* NetworkOf[p]: where p settles, one nonce sequence each
    Terms,              \* Terms[p]: asset, payer, payTo and amount of p
    MaxConcurrent,      \* max_concurrent_settlements
    SignerActive,       \* HostedSignerConfig.status is active
    HasHook,            \* the facilitator has a reconcile_settlement
    None

ExactProviderAssumption ==
    /\ MaxConcurrent \in Nat \ {0}
    /\ NetworkOf \in [Payments -> Networks]
    /\ {SignerActive, HasHook} \subseteq BOOLEAN
    /\ IsFiniteSet(Payments) /\ None \notin Payments

VARIABLES
    call,       \* call[p]: where the coroutine that settles p is
    slots,      \* the semaphore and the locks, with who waits for them
    work,       \* work[p]: what the signer did for p, and the chain with it
    nonce,      \* nonce[p], once the transaction of p is built
    mined,      \* mined[n]: get_transaction_count of the signer on n
    answer,     \* answer[p]: the outcome of settle
    late        \* late[n]: a call on n ended while its transaction was open

vars == <<call, slots, work, nonce, mined, answer, late>>

Init ==
    /\ call = [p \in Payments |-> "new"]
    /\ slots = [free |-> MaxConcurrent, waiting |-> <<>>,
                holder |-> [n \in Networks |-> None],
                queue |-> [n \in Networks |-> <<>>]]
    /\ work = [p \in Payments |-> "none"]
    /\ nonce = [p \in Payments |-> 0]
    /\ mined = [n \in Networks |-> 0]
    /\ answer = [p \in Payments |-> "none"]
    /\ late = [n \in Networks |-> FALSE]

-----------------------------------------------------------------------------
(***************************************************************************)
(* The semaphore, and inside it the lock of the network.  Both are first   *)
(* come, first served; who is next has it as soon as it is given back.     *)
(***************************************************************************)
\* settlement_slot of the guard, after _lock_for_network
TakeLock(s, p) ==
    LET n == NetworkOf[p]
    IN  IF s.holder[n] = None
        THEN [s EXCEPT !.holder[n] = p]
        ELSE [s EXCEPT !.queue[n] = Append(@, p)]

\* _settlement_slot on the way in
TakeSlot(s, p) ==
    IF s.free > 0
    THEN TakeLock([s EXCEPT !.free = @ - 1], p)
    ELSE [s EXCEPT !.waiting = Append(@, p)]

ReleaseLock(s, n) ==
    IF s.queue[n] = <<>>
    THEN [s EXCEPT !.holder[n] = None]
    ELSE [s EXCEPT !.holder[n] = Head(s.queue[n]), !.queue[n] = Tail(@)]

ReleaseSlot(s) ==
    IF s.waiting = <<>>
    THEN [s EXCEPT !.free = @ + 1]
    ELSE TakeLock([s EXCEPT !.waiting = Tail(@)], Head(s.waiting))

\* a waiter that is cancelled is taken out of its queue
Without(q, p) == RemoveAt(q, CHOOSE i \in DOMAIN q : q[i] = p)

\* gives back the lock only, when it is cancelled in its queue
MutantLeaveSlot(s, p) ==
    LET n == NetworkOf[p]
    IN  IF s.holder[n] = p THEN ReleaseSlot(ReleaseLock(s, n))
        ELSE [s EXCEPT !.queue[n] = Remove(@, p), !.waiting = Remove(@, p)]

\* _settlement_slot on the way out, by return, exception or cancellation
LeaveSlot(s, p) ==
    LET n == NetworkOf[p]
    IN  IF s.holder[n] = p THEN ReleaseSlot(ReleaseLock(s, n))
        ELSE IF Contains(s.queue[n], p) THEN ReleaseSlot([s EXCEPT !.queue[n] = Without(@, p)])
        ELSE [s EXCEPT !.waiting = Without(@, p)]

-----------------------------------------------------------------------------
(***************************************************************************)
(* settle.                                                                 *)
(***************************************************************************)
\* preflight_settlement: the signer is active and its balance could be read
\* and is enough
PreflightOk(p) ==
    /\ call[p] = "new" /\ SignerActive
    /\ call' = [call EXCEPT ![p] = "claimed"]
    /\ UNCHANGED <<slots, work, nonce, mined, answer, late>>

\* or not: nothing is claimed
PreflightRefused(p) ==
    /\ call[p] = "new"
    /\ call' = [call EXCEPT ![p] = "over"]
    /\ answer' = [answer EXCEPT ![p] = "unavailable"]
    /\ UNCHANGED <<slots, work, nonce, mined, late>>

Enter(p) ==
    /\ call[p] = "claimed"
    /\ call' = [call EXCEPT ![p] = "queued"]
    /\ slots' = TakeSlot(slots, p)
    /\ UNCHANGED <<work, nonce, mined, answer, late>>

\* the coroutine goes on inside the slot, and calls facilitator.settle
Begin(p) ==
    /\ call[p] = "queued" /\ slots.holder[NetworkOf[p]] = p
    /\ call' = [call EXCEPT ![p] = "calling"]
    /\ UNCHANGED <<slots, work, nonce, mined, answer, late>>

Outcome(p, result) ==
    /\ call' = [call EXCEPT ![p] = "over"]
    /\ slots' = LeaveSlot(slots, p)
    /\ answer' = [answer EXCEPT ![p] = result]
    /\ late' = [late EXCEPT ![NetworkOf[p]] = @ \/ work[p] \in {"built", "pending"}]
    /\ UNCHANGED <<work, nonce, mined>>

\* what the facilitator returns: success, and of a failure the reason, which
\* has one of the ambiguous markers in it or not
Responses == [success : {"true", "false", "malformed"}, reason : {"none", "ambiguous", "definite"}]

\* the facilitator says success only of a mined transaction, and gives a
\* reason without a marker only when none is open or has succeeded
ResponsesFor(p) ==
    {r \in Responses :
        /\ r.success = "true" => work[p] = "ok"
        /\ r.success = "false" /\ r.reason = "definite" => work[p] \notin {"built", "pending", "ok"}}

\* _settlement_status_for_failure that knows no ambiguous reason
MutantFailureStatus(reason) == IF reason = "none" THEN "unknown" ELSE "failed_final"

\* _settlement_status_for_failure
FailureStatus(reason) == IF reason = "definite" THEN "failed_final" ELSE "unknown"

SettlementStatus(r) ==
    CASE r.success = "true" -> "settled"
      [] r.success = "false" -> FailureStatus(r.reason)
      [] OTHER -> "unknown"

Answer(p) ==
    /\ call[p] = "calling"
    /\ \E r \in ResponsesFor(p) : Outcome(p, SettlementStatus(r))

\* the call takes longer than timeout_seconds, which do not count the wait
\* for the slot
Timeout(p) ==
    /\ call[p] = "calling"
    /\ Outcome(p, "unknown")

\* the request is cancelled at an await, or the facilitator raises
Cancel(p) ==
    /\ call[p] \in {"queued", "calling"}
    /\ Outcome(p, "exception")

-----------------------------------------------------------------------------
(***************************************************************************)
(* The signer, the node and the chain.  A transaction that is built is     *)
(* sent although the call that asked for it was given up.                  *)
(***************************************************************************)
\* write_contract and send_transaction: the nonce is the number of mined
\* transactions, whatever else is on its way
Build(p) ==
    /\ call[p] = "calling" /\ work[p] = "none"
    /\ work' = [work EXCEPT ![p] = "built"]
    /\ nonce' = [nonce EXCEPT ![p] = mined[NetworkOf[p]]]
    /\ UNCHANGED <<call, slots, mined, answer, late>>

SameNonce(p) ==
    {q \in Payments \ {p} :
        /\ work[q] = "pending"
        /\ NetworkOf[q] = NetworkOf[p] /\ nonce[q] = nonce[p]}

\* send_raw_transaction
Send(p) ==
    /\ work[p] = "built"
    /\ nonce[p] = mined[NetworkOf[p]]
    /\ work' = [q \in Payments |->
                  CASE q = p -> "pending"
                    [] q \in SameNonce(p) -> "dropped"
                    [] OTHER -> work[q]]
    /\ UNCHANGED <<call, slots, nonce, mined, answer, late>>

\* the nonce is used, or its transaction is not to be replaced
SendRefused(p) ==
    /\ work[p] = "built"
    /\ nonce[p] < mined[NetworkOf[p]] \/ SameNonce(p) # {}
    /\ work' = [work EXCEPT ![p] = "refused"]
    /\ UNCHANGED <<call, slots, nonce, mined, answer, late>>

Mine(p) ==
    /\ work[p] = "pending" /\ nonce[p] = mined[NetworkOf[p]]
    /\ \E result \in {"ok", "failed"} : work' = [work EXCEPT ![p] = result]
    /\ mined' = [mined EXCEPT ![NetworkOf[p]] = @ + 1]
    /\ UNCHANGED <<call, slots, nonce, answer, late>>

-----------------------------------------------------------------------------
(***************************************************************************)
(* reconcile_settlement.  The engine keeps no transaction with a           *)
(* settlement whose outcome is unknown: one can only come from the hook.   *)
(***************************************************************************)
Receipt == [matches : BOOLEAN, status : {"1", "0", "other"}, transfers : {None} \cup {Terms[p] : p \in Payments}]

\* What the node may return for transaction t: its receipt, nothing, also of
\* one that is mined, or a receipt that is not to be read.  A receipt of
\* another transaction has that one's hash in it.
ReceiptsFor(t) ==
    LET truth == CASE work[t] = "ok" -> {[matches |-> TRUE, status |-> "1", transfers |-> Terms[t]]}
                   [] work[t] = "failed" -> {[matches |-> TRUE, status |-> "0", transfers |-> None]}
                   [] OTHER -> {}
    IN  truth \cup {r \in Receipt : ~r.matches \/ r.status = "other"}

Result(p, status, t) == [pay |-> p, status |-> status, tx |-> t]

\* _reconcile_transaction of a record in a status
ReconcileTransaction(p, recordStatus, t) ==
    IF t = None THEN {Result(p, "pending", None)}
    ELSE {Result(p, "pending", t), Result(p, "exception", t)} \cup
         {Result(p, CASE r.matches /\ r.status = "1" ->
                            IF r.transfers = Terms[p] THEN "settled" ELSE "pending"
                      [] r.matches /\ r.status = "0" ->
                            IF recordStatus = "submitted" THEN "unknown" ELSE "failed_final"
                      [] OTHER -> "pending", t) : r \in ReceiptsFor(t)}

Hooked == [status : {"settled", "failed_final", "unknown", "pending", "manual_review"}, tx : Payments \cup {None}]

\* _validate_reconciliation_outcome
Validate(p, recordStatus, outcome) ==
    IF outcome.status # "settled"
    THEN {Result(p, outcome.status, outcome.tx)}
    ELSE ReconcileTransaction(p, recordStatus, outcome.tx)

\* reconcile_settlement: what it may answer of a record that settle has left
\* open; it changes nothing
Reconcile(p, recordStatus) ==
    IF HasHook
    THEN {Result(p, "pending", None)} \cup
         UNION {Validate(p, recordStatus, outcome) : outcome \in Hooked}
    ELSE ReconcileTransaction(p, recordStatus, None)

-----------------------------------------------------------------------------
Next == \E p \in Payments :
    \/ PreflightOk(p) \/ PreflightRefused(p) \/ Enter(p) \/ Begin(p)
    \/ Answer(p) \/ Timeout(p) \/ Cancel(p)
    \/ Build(p) \/ Send(p) \/ SendRefused(p) \/ Mine(p)

\* The event loop runs every coroutine that can go on, and its timers.
Ends(p) == Answer(p) \/ Timeout(p)

Fairness == \A p \in Payments : WF_vars(Begin(p)) /\ WF_vars(Ends(p))

Spec == Init /\ [][Next]_vars /\ Fairness

-----------------------------------------------------------------------------
\* Domains of the state: answers in the words of the provider, and no more
\* free places than there are.
ExactTypeOK ==
    /\ call \in [Payments -> {"new", "claimed", "queued", "calling", "over"}]
    /\ work \in [Payments -> {"none", "built", "pending", "ok", "failed", "dropped", "refused"}]
    /\ mined \in [Networks -> 0..Cardinality(Payments)]
    /\ answer \in [Payments -> {"none", "unavailable", "settled", "failed_final", "unknown", "exception"}]
    /\ slots.free \in 0..MaxConcurrent

\* the payments of network n whose coroutines have a place of the semaphore
Placed(n) == {p \in Payments : p = slots.holder[n] \/ Contains(slots.queue[n], p)}

(***************************************************************************)
(* Places are neither lost nor made: whatever ends a call, in the lock, in *)
(* its queue or in the semaphore's, the free places and those taken are    *)
(* MaxConcurrent together, nobody waits while one is free, and in a        *)
(* network there is one call at a time.                                    *)
(***************************************************************************)
SlotsKept ==
    /\ slots.free + Cardinality(UNION {Placed(n) : n \in Networks}) = MaxConcurrent
    /\ slots.free > 0 => slots.waiting = <<>>
    /\ \A n \in Networks :
          /\ slots.holder[n] = None => slots.queue[n] = <<>>
          /\ Cardinality({p \in Payments : call[p] = "calling" /\ NetworkOf[p] = n}) <= 1
    /\ \A p \in Payments :
          call[p] \in {"queued", "calling"} <=>
              Contains(slots.waiting, p) \/ p \in Placed(NetworkOf[p])

(***************************************************************************)
(* The signer takes the count of mined transactions for its nonce, and the *)
(* lock of the network makes that good: no transaction is refused or       *)
(* replaced for its nonce, unless a call of the network ended before its   *)
(* transaction did.                                                        *)
(***************************************************************************)
NoncesApart ==
    \A p \in Payments : ~late[NetworkOf[p]] => work[p] \notin {"refused", "dropped"}

(***************************************************************************)
(* A definite answer is true and stays true: settled only of a payment     *)
(* whose transaction succeeded, failed_final only of one that no           *)
(* transaction, not even one sent after its call was given up, will pay.   *)
(***************************************************************************)
AnswersTrue ==
    \A p \in Payments :
        /\ answer[p] = "settled" => work[p] = "ok"
        /\ answer[p] = "failed_final" => work[p] \notin {"built", "pending", "ok"}

(***************************************************************************)
(* Reconciliation answers settled only with a mined transaction that makes *)
(* the transfer of the payment, whatever the hook and the node say.        *)
(***************************************************************************)
SettledProved ==
    \A p \in Payments : answer[p] \in {"unknown", "exception"} =>
        \A s \in {"settle_in_progress", "unknown"} : \A result \in Reconcile(p, s) :
            result.status = "settled" =>
                /\ result.tx # None
                /\ work[result.tx] = "ok" /\ Terms[result.tx] = Terms[p]

(***************************************************************************)
(* A settlement that has entered gets its answer: the time-out ends every  *)
(* call in a slot, and what waits for one comes to its turn.               *)
(***************************************************************************)
EverySettleEnds == \A p \in Payments : []<>(call[p] \in {"new", "claimed", "over"})

(***************************************************************************)
(* Semaphore and locks do what they are for: no place is lost or made, and *)
(* transactions of one signer do not meet.                                 *)
(***************************************************************************)
OneAtATime == ExactTypeOK /\ SlotsKept /\ NoncesApart

(***************************************************************************)
(* What the provider says for certain is so, in settlement and in          *)
(* reconciliation.                                                         *)
(***************************************************************************)
ProviderTruthful == AnswersTrue /\ SettledProved
=============================================================================
