------------------------------- MODULE Runner -------------------------------
(***************************************************************************)
(* HostedReconciliationRunner and the batches that it makes                *)
(* HostedSettlementReconciler work through, over many runs: which records  *)
(* a run takes up, in which order, and when it comes back to them.  How a  *)
(* record is fenced against other processes is in Settlement; here one     *)
(* process works alone.                                                    *)
(*                                                                         *)
(* Time is counted in intervals of the loop.  A record keeps the time      *)
(* since it was updated, up to ManualAfter, and what is left of its lease. *)
(* A run reads the clock once, at its start, and all its leases count from *)
(* there: during a run these are the times at its start, and loop.elapsed  *)
(* is what has gone by since.                                              *)
(***************************************************************************)
EXTENDS Integers, Sequences, FiniteSets, SequencesExt, Ranking

CONSTANTS
    Records,        \* ids of settlement records, numbers
    FirstStatus,    \* FirstStatus[r]: the status in which r is found
    Limit,          \* records of a run at most
    LeaseTicks,     \* lease_seconds
    MaxRun,         \* bound: how long a run waits for the provider
    StaleTicks,     \* StaleTicks[status]: how long a record is left alone
    ManualAfter,    \* manual_review_after
    ErrorTicks,     \* error_interval_seconds
    MaxRuns,        \* max_runs, 0 for None
    MaxFaults       \* bound: stops, raising callbacks and failing runs

Open == <<"settle_in_progress", "submitted", "unknown">>
Closed == {"settled", "settle_failed", "manual_review"}

RunnerAssumption ==
    /\ Records \subseteq Nat /\ IsFiniteSet(Records)
    /\ {Limit, LeaseTicks, ManualAfter, ErrorTicks} \subseteq Nat \ {0}
    /\ {MaxRun, MaxRuns, MaxFaults} \subseteq Nat
    /\ \A s \in ToSet(Open) : StaleTicks[s] \in 0..ManualAfter
    /\ \A r \in Records : FirstStatus[r] \in ToSet(Open)

\* A run is over before its leases are, and the runs that start within one
\* lease have room for every record.
RoomAssumption ==
    /\ MaxRun < LeaseTicks
    /\ Cardinality(Records) <= Limit * (1 + (LeaseTicks - 1) \div (MaxRun + 1))

VARIABLES
    rec,        \* rec[r]: status, age since updated_at, and lease left
    order,      \* the records by updated_at, then by id
    loop,       \* where the loop is, its batch, the time since the run began,
                \* how long it sleeps, its runs
    stop,       \* _stop_event
    faults,     \* stops, raising callbacks and failing runs so far
    last        \* the record that a run has just worked on, while it runs

vars == <<rec, order, loop, stop, faults, last>>

Nothing == 0

\* the process is not started yet
Init ==
    /\ rec = [r \in Records |-> [status |-> FirstStatus[r], age |-> 0, lease |-> 0]]
    /\ order \in [1..Cardinality(Records) -> Records]
    /\ \A i, j \in DOMAIN order : i < j => order[i] < order[j]
    /\ loop = [pc |-> "ended", batch |-> <<>>, elapsed |-> 0, sleep |-> 0, runs |-> 0]
    /\ stop = FALSE
    /\ faults = 0
    /\ last = Nothing

-----------------------------------------------------------------------------
\* the place of a record in the order
Place == [r \in Records |-> CHOOSE k \in DOMAIN order : order[k] = r]

\* without a look at the lease
MutantCandidates(status) ==
    Lowest(Place, {r \in Records : /\ rec[r].status = status
                                   /\ rec[r].age >= StaleTicks[status]}, Limit)

\* list_reconciliation_candidates: stale records of a status without a lease,
\* the oldest first
Candidates(status) ==
    Lowest(Place, {r \in Records : /\ rec[r].status = status
                                   /\ rec[r].age >= StaleTicks[status]
                                   /\ rec[r].lease = 0}, Limit)

\* what the three lists hold
Listed == UNION {Candidates(Open[b]) : b \in 1..3}

\* one list after the other
MutantScan ==
    LET slot == [r \in Listed |->
                    LET b == CHOOSE b \in 1..3 : Open[b] = rec[r].status
                    IN  Limit * b + Rank(Place, Candidates(Open[b]), r)]
    IN  Ranked(slot, Lowest(slot, Listed, Limit))

\* the turn of a record when the lists are gone through side by side
Slot == [r \in Listed |->
            LET b == CHOOSE b \in 1..3 : Open[b] = rec[r].status
            IN  3 * Rank(Place, Candidates(Open[b]), r) + b]

\* _scan_candidates: in turn from the three lists, until Limit are taken
Scan == Ranked(Slot, Lowest(Slot, Listed, Limit))

\* the loop's condition, and max_runs
MayRun == ~stop /\ (MaxRuns = 0 \/ loop.runs < MaxRuns)

\* runs and failed_runs, which count alike
Counted(n) == IF MaxRuns = 0 THEN 0 ELSE n + 1

Begin ==
    /\ loop.pc = "check" /\ MayRun
    /\ loop' = [loop EXCEPT !.pc = "batch", !.batch = Scan]
    /\ UNCHANGED <<rec, order, stop, faults, last>>

\* where run_once may raise: in its scan, or claiming the next of its batch
InRunOnce == (loop.pc = "check" /\ MayRun) \/ (loop.pc = "batch" /\ loop.batch # <<>>)

\* the records when so much time has gone by
Later(ticks) ==
    [r \in Records |->
        [rec[r] EXCEPT !.age = IF @ + ticks < ManualAfter THEN @ + ticks ELSE ManualAfter,
                       !.lease = IF @ > ticks THEN @ - ticks ELSE 0]]

\* what follows a run, whether it failed or not: the end, or a sleep
AfterRun(ticks) ==
    /\ loop' = [loop EXCEPT !.runs = Counted(@), !.batch = <<>>, !.elapsed = 0,
                            !.pc = IF stop \/ (MaxRuns # 0 /\ Counted(loop.runs) >= MaxRuns)
                                   THEN "ended" ELSE "asleep",
                            !.sleep = ticks]
    /\ rec' = Later(loop.elapsed)
    /\ last' = Nothing

\* run_once raises, the store being away: what is left of the batch waits for
\* the error interval
RunFails ==
    /\ InRunOnce /\ faults < MaxFaults
    /\ AfterRun(ErrorTicks)
    /\ faults' = faults + 1
    /\ UNCHANGED <<order, stop>>

\* the loop has nothing to run: stopped before a run
Leave ==
    /\ loop.pc = "check" /\ ~MayRun
    /\ loop' = [loop EXCEPT !.pc = "ended"]
    /\ UNCHANGED <<rec, order, stop, faults, last>>

\* _mark_manual_or_pending
ManualOrPending(status, overdue) ==
    CASE status = "settle_in_progress" -> "unknown"
      [] status = "unknown" /\ overdue -> "manual_review"
      [] OTHER -> status

Answers == {"settled", "failed_final", "unknown", "manual_review", "pending"}

\* _apply_outcome and what the store makes of it, and run_once when the
\* provider raises; mark_reconciled_failed refuses a submitted record
Decided(status, overdue, answer) ==
    CASE answer = "settled" -> "settled"
      [] answer = "failed_final" /\ status = "unknown" -> "settle_failed"
      [] answer = "failed_final" /\ status = "submitted" -> "submitted"
      [] answer = "unknown" /\ status # "unknown" -> "unknown"
      [] answer = "manual_review" -> ManualOrPending(status, TRUE)
      [] answer = "raises" -> IF status = "settle_in_progress" THEN "unknown" ELSE status
      [] OTHER -> ManualOrPending(status, overdue)

\* the provider, and all that a run waits for, takes its time
Wait ==
    /\ loop.pc = "batch" /\ loop.batch # <<>> /\ loop.elapsed < MaxRun
    /\ loop' = [loop EXCEPT !.elapsed = @ + 1]
    /\ UNCHANGED <<rec, order, stop, faults, last>>

\* One record of the batch: claimed, asked about, and written when its status
\* changes, which ends the lease and makes it the youngest.  A write after the
\* end of the lease is refused.
Work(answer) ==
    LET r == Head(loop.batch)
        after == IF loop.elapsed >= LeaseTicks THEN rec[r].status
                 ELSE Decided(rec[r].status, rec[r].age >= ManualAfter, answer)
    IN  /\ loop.pc = "batch" /\ loop.batch # <<>>
        /\ IF after = rec[r].status
           THEN rec' = [rec EXCEPT ![r].lease = LeaseTicks] /\ UNCHANGED order
           ELSE /\ rec' = [rec EXCEPT ![r] = [status |-> after, age |-> -loop.elapsed, lease |-> 0]]
                /\ order' = Append(RemoveAt(order, Place[r]), r)
        /\ loop' = [loop EXCEPT !.batch = Tail(@)]
        /\ last' = r
        /\ UNCHANGED <<stop, faults>>

\* the same, and the write raises, or the outcome settles without a
\* transaction: the claim stands
WriteFails ==
    LET r == Head(loop.batch)
    IN  /\ loop.pc = "batch" /\ loop.batch # <<>>
        /\ rec' = [rec EXCEPT ![r].lease = LeaseTicks]
        /\ loop' = [loop EXCEPT !.batch = Tail(@)]
        /\ last' = r
        /\ UNCHANGED <<order, stop, faults>>

\* the run is over, and on_iteration has written the heartbeat
Finish ==
    /\ loop.pc = "batch" /\ loop.batch = <<>>
    /\ AfterRun(1)
    /\ UNCHANGED <<order, stop, faults>>

\* on_iteration raises, and run with it
CallbackRaises ==
    /\ loop.pc = "batch" /\ loop.batch = <<>> /\ faults < MaxFaults
    /\ loop' = [loop EXCEPT !.pc = "ended", !.elapsed = 0]
    /\ rec' = Later(loop.elapsed)
    /\ faults' = faults + 1
    /\ last' = Nothing
    /\ UNCHANGED <<order, stop>>

\* _sleep_or_stop: an interval goes by
Sleep ==
    /\ loop.pc = "asleep" /\ ~stop
    /\ rec' = Later(1)
    /\ loop' = [loop EXCEPT !.sleep = @ - 1, !.pc = IF loop.sleep = 1 THEN "check" ELSE @]
    /\ UNCHANGED <<order, stop, faults, last>>

\* _sleep_or_stop: the event ends the sleep
Wake ==
    /\ loop.pc = "asleep" /\ stop
    /\ loop' = [loop EXCEPT !.pc = "ended"]
    /\ UNCHANGED <<rec, order, stop, faults, last>>

\* stop, from a signal at any moment
Stop ==
    /\ ~stop /\ loop.pc # "ended" /\ faults < MaxFaults
    /\ stop' = TRUE
    /\ faults' = faults + 1
    /\ UNCHANGED <<rec, order, loop, last>>

\* the process is started, the first time or again after it has ended
Start ==
    /\ loop.pc = "ended"
    /\ loop' = [pc |-> "check", batch |-> <<>>, elapsed |-> 0, sleep |-> 0, runs |-> 0]
    /\ stop' = FALSE
    /\ UNCHANGED <<rec, order, faults, last>>

Next ==
    \/ Begin \/ RunFails \/ Leave \/ Wait
    \/ \E a \in Answers \cup {"raises"} : Work(a)
    \/ WriteFails \/ Finish \/ CallbackRaises \/ Sleep \/ Wake \/ Stop \/ Start

\* the loop does what it does next
GoesOn ==
    \/ Begin \/ Leave \/ Finish \/ Sleep \/ Wake \/ Start
    \/ \E a \in Answers \cup {"raises"} : Work(a)

\* the next record of the batch is r, and the provider answers
Answered(r) == loop.batch # <<>> /\ Head(loop.batch) = r /\ \E a \in Answers : Work(a)

\* The process runs and is restarted; runs do not fail for ever; the provider
\* and the store, asked about a record again and again, answer again and again.
Fairness == WF_vars(GoesOn) /\ \A r \in Records : SF_vars(Answered(r))

Spec == Init /\ [][Next]_vars /\ Fairness

-----------------------------------------------------------------------------
\* Domains of the state: ages, leases and batches within their bounds, and
\* every record in the order once.
RunnerTypeOK ==
    /\ \A r \in Records :
          /\ rec[r].status \in ToSet(Open) \cup Closed
          /\ rec[r].age \in (-MaxRun)..ManualAfter
          /\ rec[r].lease \in 0..LeaseTicks
    /\ ToSet(order) = Records /\ Len(order) = Cardinality(Records)
    /\ loop.pc \in {"check", "batch", "asleep", "ended"}
    /\ Len(loop.batch) <= Limit
    /\ loop.elapsed \in 0..MaxRun
    /\ loop.runs \in 0..MaxRuns
    /\ stop \in BOOLEAN /\ faults \in 0..MaxFaults

\* how many records of a status a batch takes
Taken(batch, status) == Cardinality({r \in batch : rec[r].status = status})

(***************************************************************************)
(* A backlog in one status does not shut out the others: a batch takes a   *)
(* record once, is full unless it takes all there are, and where it leaves *)
(* records of one status behind it has taken at most one more of another.  *)
(***************************************************************************)
BatchBalanced ==
    LET batch == ToSet(Scan)
    IN  /\ IsInjective(Scan)
        /\ \A s \in ToSet(Open) :
              Taken(batch, s) < Cardinality(Candidates(s)) =>
                  /\ Len(Scan) = Limit
                  /\ \A t \in ToSet(Open) : Taken(batch, t) <= Taken(batch, s) + 1

(***************************************************************************)
(* No record starves: one that stays open is worked on again and again,    *)
(* however many older ones stay pending, as long as the runs that start    *)
(* within one lease, slow as they may be, have room for all of them.  Runs *)
(* that outlast their leases, or one that fails now and then for ever,     *)
(* would starve the youngest: meanwhile the leases of the older ones end,  *)
(* and they come first again.                                              *)
(***************************************************************************)
NoneStarved == \A r \in Records : []<>(rec[r].status \in Closed \/ last = r)

(***************************************************************************)
(* An unknown settlement ends, settled, failed or in manual review: a      *)
(* provider that raises and a store that fails postpone the end, but do    *)
(* not set the clock of manual review back.                                *)
(***************************************************************************)
UnknownEnds == \A r \in Records : []<>(rec[r].status # "unknown")

(***************************************************************************)
(* A signal ends the loop, after the batch it is in and without the sleep. *)
(***************************************************************************)
StopEnds == []<>(~stop \/ loop.pc = "ended")

(***************************************************************************)
(* The loop gets on: with every open record, to the end of unknown ones,   *)
(* and to its own end when it is told to.                                  *)
(***************************************************************************)
LoopProgress == NoneStarved /\ UnknownEnds /\ StopEnds
=============================================================================
