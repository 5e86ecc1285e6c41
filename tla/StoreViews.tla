----------------------------- MODULE StoreViews -----------------------------
(***************************************************************************)
(* What an operator reads while settlements go on: the summary of a seller *)
(* and the reconciliation queue of the control plane.  Each is answered    *)
(* from several queries, one after the other and in no transaction, so     *)
(* that other processes settle in between.                                 *)
(***************************************************************************)
EXTENDS Stores, Ranking

CONSTANTS
    Sellers,    \* seller accounts
    SellerOf,   \* the account of each payment
    Amount,     \* the amount of each payment in USDC, 0 for another asset
    Limit       \* records on a page

ASSUME StoreViewsAssumption ==
    /\ IsFiniteSet(Payments)
    /\ SellerOf \in [Payments -> Sellers]
    /\ Amount \in [Payments -> Nat]
    /\ Limit \in Nat

VARIABLE view   \* the operator's request, and what its queries have returned

allvars == <<vars, view>>

\* what is in progress is not yet for reconciliation
MutantQueueStatuses == {"unknown", "submitted", "manual_review"}

\* _RECONCILIATION_QUEUE_STATUSES
QueueStatuses == {"unknown", "submitted", InProgress, "manual_review"}

\* settled or reconciled
Successful == {"settled", "reconciled"}

NoView == [pc |-> "idle"]

InitViews == Init /\ view = NoView

-----------------------------------------------------------------------------
OfSeller(s) == {i \in DOMAIN records : SellerOf[records[i].payment] = s}

\* the place of a record in the order of updated_at, and its opposite
Place == [i \in DOMAIN records |-> CHOOSE k \in DOMAIN touched : touched[k] = i]
Newest == [i \in DOMAIN records |-> 0 - Place[i]]

\* The atomic units of the amounts of some things, each unit once: their
\* number is the sum of the amounts.
Units(amount, S) == UNION {{x} \X (1..amount[x]) : x \in S}

\* settlement_status_counts_for_seller
StatusCounts(s) ==
    [st \in Statuses |-> Cardinality({i \in OfSeller(s) : records[i].status = st})]

\* list_recent_records_for_seller: ORDER BY updated_at DESC
Recent(s, limit) == Lowest(Newest, OfSeller(s), limit)

\* what waits for reconciliation
Queued(s) == {i \in OfSeller(s) : records[i].status \in QueueStatuses}

\* list_reconciliation_queue: ORDER BY updated_at ASC
Queue(s, limit) == Ranked(Place, Lowest(Place, Queued(s), limit))

\* reconciliation_queue_status_counts, summed
QueueCount(s) == Cardinality(Queued(s))

\* the records of a seller that succeeded
Good(s) == {i \in OfSeller(s) : records[i].status \in Successful}

\* what a record is about, in atomic units
Charge == [i \in DOMAIN records |-> Amount[records[i].payment]]

\* settlement_amount_atomic_for_seller
AmountOf(s) == Cardinality(Units(Charge, Good(s)))

\* settlement_attempt_count_for_seller
AttemptCount(s) == Cardinality({a \in DOMAIN attempts : attempts[a].record \in OfSeller(s)})

\* last_successful_settlement_at_for_seller: the newest of them, or none
LastSuccess(s) == IF Good(s) = {} THEN 0 ELSE CHOOSE i \in Lowest(Newest, Good(s), 1) : TRUE

-----------------------------------------------------------------------------
\* what clients have been told of the seller's payments, as an amount
ToldAmount(s) ==
    Cardinality(Units(Amount, {p \in Payments : SellerOf[p] = s /\ "settled" \in promised[p]}))

\* what has been paid to the seller
MovedAmount(s) ==
    Cardinality(Units(Amount, {p \in Payments : SellerOf[p] = s /\ money[p] = "moved"}))

Step(from, to, upd) ==
    /\ view.pc = from
    /\ view' = [upd EXCEPT !.pc = to]
    /\ UNCHANGED vars

(***************************************************************************)
(* get_seller_account: _seller_settlement_summary, query by query.         *)
(***************************************************************************)
ReadRecent(s) ==
    /\ view.pc = "idle"
    /\ view' = [pc |-> "counts", seller |-> s, told |-> ToldAmount(s),
                recent |-> Cardinality(Recent(s, Limit)),
                counts |-> [st \in Statuses |-> 0], amount |-> 0, last |-> 0, attempts |-> 0]
    /\ UNCHANGED vars

ReadCounts == Step("counts", "amount", [view EXCEPT !.counts = StatusCounts(view.seller)])

ReadAmount == Step("amount", "last", [view EXCEPT !.amount = AmountOf(view.seller)])

ReadLast == Step("last", "attempts", [view EXCEPT !.last = LastSuccess(view.seller)])

ReadAttempts == Step("attempts", "summary", [view EXCEPT !.attempts = AttemptCount(view.seller)])

(***************************************************************************)
(* get_reconciliation_queue: the page, then the counts.                    *)
(***************************************************************************)
ReadQueue(s) ==
    /\ view.pc = "idle"
    /\ view' = [pc |-> "queue", seller |-> s, items |-> Queue(s, Limit), place |-> Place,
                waiting |-> {i \in OfSeller(s) : records[i].status \notin Final}, count |-> 0]
    /\ UNCHANGED vars

ReadQueueCounts == Step("queue", "page", [view EXCEPT !.count = QueueCount(view.seller)])

Seen ==
    /\ view.pc \in {"summary", "page"}
    /\ view' = NoView
    /\ UNCHANGED vars

NextViews ==
    \/ Next /\ UNCHANGED view
    \/ \E s \in Sellers : ReadRecent(s) \/ ReadQueue(s)
    \/ ReadCounts \/ ReadAmount \/ ReadLast \/ ReadAttempts
    \/ ReadQueueCounts
    \/ Seen

SpecViews == InitViews /\ [][NextViews]_allvars

-----------------------------------------------------------------------------
(***************************************************************************)
(* The seller's total is true on both sides: it holds every payment that a *)
(* client had been told settled when the operator asked, and nothing whose *)
(* money has not moved.                                                    *)
(***************************************************************************)
TotalTrue ==
    view.pc = "summary" =>
        /\ view.amount >= view.told
        /\ view.amount <= MovedAmount(view.seller)

\* the sum over the statuses
Total(counts) ==
    counts["settled"] + counts["settle_failed"] + counts[InProgress] + counts["submitted"]
        + counts["unknown"]

(***************************************************************************)
(* The parts of a summary are of different moments, but never contradict   *)
(* each other the wrong way round: the newer ones know at least what the   *)
(* older ones said.                                                        *)
(***************************************************************************)
SummaryOrdered ==
    view.pc = "summary" =>
        /\ view.recent <= Total(view.counts)
        /\ view.counts["settled"] > 0 => view.last # 0
        /\ view.attempts >= view.counts["settled"] + view.counts["settle_failed"]

(***************************************************************************)
(* No payment drops out of the operator's sight: one that has a record and *)
(* no outcome when the queue is read is on the page, or the page is full   *)
(* and the records on it have waited longer.  This includes a payment left *)
(* in progress by a process that has crashed.                              *)
(***************************************************************************)
QueueShowsOpen ==
    view.pc = "page" =>
        \A i \in view.waiting :
            \/ i \in ToSet(view.items)
            \/ /\ Len(view.items) = Limit
               /\ \A j \in ToSet(view.items) : view.place[j] < view.place[i]

(***************************************************************************)
(* An empty queue is really empty: no item, and no count, while a payment  *)
(* of the seller that the provider has been given waits for its outcome.   *)
(***************************************************************************)
NothingHidden ==
    view.pc = "page" /\ view.count = 0 =>
        \A i \in view.waiting : records[i].status \in Final

(***************************************************************************)
(* What an operator reads, query by query, while others settle, misleads   *)
(* him neither about money nor about work that waits.                      *)
(***************************************************************************)
ViewsTrue == TotalTrue /\ SummaryOrdered /\ QueueShowsOpen /\ NothingHidden
=============================================================================
