------------------------------- MODULE Stores -------------------------------
(***************************************************************************)
(* A settlement through each of the three stores: claim, attempt, provider *)
(* call, mark and finish are store operations of their own, and a process  *)
(* may end, or an operation raise, between any two of them.                *)
(*                                                                         *)
(*   memory    one process; nothing outlives it                            *)
(*   sqlite    processes sharing a file; BEGIN IMMEDIATE locks all of it   *)
(*   postgres  an advisory lock per payment, whatever the profile; claim   *)
(*             and attempt in one transaction, mark and finish in another  *)
(*                                                                         *)
(* A payment is what has one fingerprint.  The buyer may present it under  *)
(* any payment profile of the seller.  The counters of duplicate claims,   *)
(* on which no answer depends, are left out.  Reconciliation is in         *)
(* Settlement.                                                             *)
(***************************************************************************)
EXTENDS Integers, Sequences, FiniteSets, SequencesExt

CONSTANTS
    Processes,  \* the processes of the facilitator
    Requests,   \* settle requests in flight at the same time
    Payments,   \* payments
    Profiles    \* payment profiles

ASSUME StoresAssumption == Processes # {}

VARIABLES
    store,      \* "memory", "sqlite" or "postgres": does not change
    limited,    \* is there a rate limiter? does not change
    records,    \* the settlement records, by id
    attempts,   \* the settlement attempts, by id
    touched,    \* the ids of the records in the order of updated_at
    req,        \* req[r]: where request r is, and what it has found out
    handed,     \* handed[p]: how often the provider was given payment p
    money,      \* money[p]: what became of p at the provider
    promised    \* promised[p]: what clients have been told of p

vars == <<store, limited, records, attempts, touched, req, handed, money, promised>>

Tables == <<records, attempts, touched>>
World == <<handed, money, promised>>

InProgress == "settle_in_progress"
Final == {"settled", "settle_failed"}
Statuses == Final \cup {InProgress, "submitted", "unknown"}

NoRequest == [pc |-> "idle"]

\* the one process that has the in-memory store
Server == CHOOSE x \in Processes : TRUE

Init ==
    /\ store \in {"memory", "sqlite", "postgres"}
    /\ limited \in BOOLEAN
    /\ records = <<>>
    /\ attempts = <<>>
    /\ touched = <<>>
    /\ req = [r \in Requests |-> NoRequest]
    /\ handed = [p \in Payments |-> 0]
    /\ money = [p \in Payments |-> "none"]
    /\ promised = [p \in Payments |-> {}]

-----------------------------------------------------------------------------
At(r, pc) == req[r].pc = pc

Goto(r, pc) == req' = [req EXCEPT ![r].pc = pc]

End(r) == req' = [req EXCEPT ![r] = NoRequest]

IdsOf(p) == {i \in DOMAIN records : records[i].payment = p}

\* get, _select_record
Exact(p, f) == {i \in IdsOf(p) : records[i].profile = f}

\* The index by seller, provider, scheme, network and fingerprint holds the
\* key of the payment's first record.
Replay(p) == IF IdsOf(p) = {} THEN 0 ELSE Min(IdsOf(p))

\* the record of a request: its own profile's, or else another profile's
Locate(p, f) == IF Exact(p, f) = {} THEN Replay(p) ELSE Min(Exact(p, f))

\* a submitted payment is as good as settled
MutantCached(i) == IF records[i].status \in {"settled", "submitted"} THEN "settled" ELSE "open"

\* the record's status, or nothing, as the answer to a client
Cached(i) == IF records[i].status \in Final THEN records[i].status ELSE "open"

Answer(r, i) == req' = [req EXCEPT ![r].pc = "respond", ![r].record = i, ![r].answer = Cached(i)]

-----------------------------------------------------------------------------
(***************************************************************************)
(* settle, up to the claim.  With a limiter the engine looks for a record  *)
(* before it spends the submission's budget, and again when that is spent. *)
(***************************************************************************)
Arrive(r, x, p, f) ==
    /\ At(r, "idle")
    /\ store = "memory" => x = Server
    /\ req' = [req EXCEPT ![r] =
          [pc |-> IF limited THEN "lookup" ELSE "claim", process |-> x, payment |-> p,
           profile |-> f, record |-> 0, attempt |-> 0, answer |-> "none"]]
    /\ UNCHANGED <<Tables, World>>

\* _cached_existing_settlement
Lookup(r) ==
    /\ At(r, "lookup")
    /\ LET i == Locate(req[r].payment, req[r].profile)
       IN  IF i = 0 THEN Goto(r, "claim") ELSE Answer(r, i)
    /\ UNCHANGED <<Tables, World>>

RateLimited(r) ==
    /\ At(r, "claim") /\ limited
    /\ LET i == Locate(req[r].payment, req[r].profile)
       IN  IF i = 0 THEN End(r) ELSE Answer(r, i)
    /\ UNCHANGED <<Tables, World>>

-----------------------------------------------------------------------------
(***************************************************************************)
(* The claim: a transaction that reads, then writes.                       *)
(***************************************************************************)
Insert(r, pc, a) ==
    /\ records' = Append(records, [payment |-> req[r].payment, profile |-> req[r].profile,
                                   status |-> InProgress])
    /\ touched' = Append(touched, Len(records) + 1)
    /\ req' = [req EXCEPT ![r].pc = pc, ![r].record = Len(records) + 1, ![r].attempt = a]

\* claim_for_settlement of the in-memory store, under its lock
MemoryClaim(r) ==
    /\ store = "memory" /\ At(r, "claim")
    /\ LET i == Locate(req[r].payment, req[r].profile)
       IN  IF i = 0 THEN Insert(r, "start", 0) /\ UNCHANGED attempts
                    ELSE Answer(r, i) /\ UNCHANGED Tables
    /\ UNCHANGED World

\* the lock's key names the profile too
MutantExcludes(q, r) ==
    \/ store = "sqlite"
    \/ req[q].payment = req[r].payment /\ req[q].profile = req[r].profile

\* does the transaction of q keep r from beginning one?
Excludes(q, r) == store = "sqlite" \/ req[q].payment = req[r].payment

\* BEGIN IMMEDIATE, or pg_advisory_xact_lock, and the first SELECTs
BeginClaim(r) ==
    /\ store # "memory" /\ At(r, "claim")
    /\ \A q \in Requests : At(q, "claiming") => ~Excludes(q, r)
    /\ LET i == IF store = "sqlite" THEN Locate(req[r].payment, req[r].profile)
                                    ELSE Replay(req[r].payment)
       IN  req' = [req EXCEPT ![r].pc = "claiming", ![r].record = i,
                              ![r].answer = IF i = 0 THEN "none" ELSE Cached(i)]
    /\ UNCHANGED <<Tables, World>>

\* SQLite commits the claim and reads the duplicate's record once more
SqliteClaim(r) ==
    /\ store = "sqlite" /\ At(r, "claiming")
    /\ IF req[r].record = 0
       THEN Insert(r, "start", 0) /\ UNCHANGED attempts
       ELSE Answer(r, req[r].record) /\ UNCHANGED Tables
    /\ UNCHANGED World

\* Postgres answers with what it has read.  The unique index of seller,
\* profile and fingerprint lets an insert do nothing.
PostgresClaim(r) ==
    /\ store = "postgres" /\ At(r, "claiming")
    /\ IF req[r].record # 0
       THEN Goto(r, "respond") /\ UNCHANGED Tables
       ELSE IF Exact(req[r].payment, req[r].profile) # {}
            THEN Answer(r, Min(Exact(req[r].payment, req[r].profile))) /\ UNCHANGED Tables
            ELSE /\ Insert(r, "call", Len(attempts) + 1)
                 /\ attempts' = Append(attempts, [record |-> Len(records) + 1, status |-> "started"])
    /\ UNCHANGED World

\* A write of SQLite outside a transaction waits for whoever has begun one.
FileFree == store # "sqlite" \/ \A q \in Requests : ~At(q, "claiming")

StartAttempt(r) ==
    /\ At(r, "start") /\ FileFree
    /\ attempts' = Append(attempts, [record |-> req[r].record, status |-> "started"])
    /\ req' = [req EXCEPT ![r].pc = "call", ![r].attempt = Len(attempts) + 1]
    /\ UNCHANGED <<records, touched, World>>

-----------------------------------------------------------------------------
(***************************************************************************)
(* The provider, which answers truthfully or not at all.                   *)
(***************************************************************************)
Call(r) ==
    /\ At(r, "call")
    /\ handed' = [handed EXCEPT ![req[r].payment] = @ + 1]
    /\ money' = [money EXCEPT ![req[r].payment] = IF @ = "none" THEN "called" ELSE @]
    /\ Goto(r, "calling")
    /\ UNCHANGED <<Tables, promised>>

Decide(p) ==
    /\ money[p] = "called"
    /\ \E m \in {"moved", "dead"} : money' = [money EXCEPT ![p] = m]
    /\ UNCHANGED <<Tables, req, handed, promised>>

\* the statuses the provider may report; an exception is unknown
Reported(m) ==
    {"submitted", "unknown"}
        \cup (CASE m = "moved" -> {"settled"}
              [] m = "dead" -> {"settle_failed"} 
              [] OTHER -> {})

Return(r) ==
    /\ At(r, "calling")
    /\ \E s \in Reported(money[req[r].payment]) :
          req' = [req EXCEPT ![r].pc = "mark", ![r].answer = s]
    /\ UNCHANGED <<Tables, World>>

-----------------------------------------------------------------------------
\* the record moves to the end of the order of updated_at
Touch(i) ==
    \E k \in DOMAIN touched :
        touched[k] = i /\ touched' = Append(RemoveAt(touched, k), i)

SetStatus(i, s) ==
    /\ records' = [records EXCEPT ![i].status = s]
    /\ Touch(i)

FinishAttempt(a, s) == attempts' = [attempts EXCEPT ![a].status = s]

Told(s) == IF s \in Final THEN s ELSE "open"

Conclude(r) == req' = [req EXCEPT ![r].pc = "respond", ![r].answer = Told(@)]

\* mark_* of the local stores: whatever status the record has
Mark(r) ==
    /\ store # "postgres" /\ At(r, "mark") /\ FileFree
    /\ SetStatus(req[r].record, req[r].answer)
    /\ Goto(r, "finish")
    /\ UNCHANGED <<attempts, World>>

Finish(r) ==
    /\ At(r, "finish") /\ FileFree
    /\ FinishAttempt(req[r].attempt, req[r].answer)
    /\ Conclude(r)
    /\ UNCHANGED <<records, touched, World>>

\* mark_record_and_finish_settle_attempt
MarkAndFinish(r) ==
    /\ store = "postgres" /\ At(r, "mark")
    /\ records[req[r].record].status = InProgress
    /\ SetStatus(req[r].record, req[r].answer)
    /\ FinishAttempt(req[r].attempt, req[r].answer)
    /\ Conclude(r)
    /\ UNCHANGED World

Respond(r) ==
    /\ At(r, "respond")
    /\ LET told == {req[r].answer} \cap Final
       IN  promised' = [promised EXCEPT ![req[r].payment] = @ \cup told]
    /\ End(r)
    /\ UNCHANGED <<Tables, handed, money>>

-----------------------------------------------------------------------------
(***************************************************************************)
(* Failures.  SQLite raises when the file stays locked for five seconds;   *)
(* Postgres when the connection is lost, where a commit may have happened. *)
(* A transaction is rolled back.                                           *)
(***************************************************************************)
RaisesAt ==
    CASE store = "memory" -> {}
      [] store = "sqlite" -> {"claim", "claiming", "start", "mark", "finish"}
      [] store = "postgres" -> {"claim", "claiming", "call", "mark", "respond"}

Raise(r) ==
    /\ req[r].pc \in RaisesAt
    /\ End(r)
    /\ UNCHANGED <<Tables, World>>

\* The in-memory records are gone with their process, and with them every
\* promise (durable = False): that store is followed while the process lives.
Crash(x) ==
    /\ store # "memory"
    /\ \E r \in Requests : ~At(r, "idle") /\ req[r].process = x
    /\ req' = [r \in Requests |-> IF ~At(r, "idle") /\ req[r].process = x
                                  THEN NoRequest ELSE req[r]]
    /\ UNCHANGED <<Tables, World>>

Request(r) ==
    \/ \E x \in Processes, p \in Payments, f \in Profiles : Arrive(r, x, p, f)
    \/ Lookup(r) \/ RateLimited(r)
    \/ MemoryClaim(r) \/ BeginClaim(r) \/ SqliteClaim(r) \/ PostgresClaim(r)
    \/ StartAttempt(r) \/ Call(r) \/ Return(r)
    \/ Mark(r) \/ Finish(r) \/ MarkAndFinish(r) \/ Respond(r)
    \/ Raise(r)

Next ==
    /\ \/ \E r \in Requests : Request(r)
       \/ \E p \in Payments : Decide(p)
       \/ \E x \in Processes : Crash(x)
    /\ UNCHANGED <<store, limited>>

Spec == Init /\ [][Next]_vars

-----------------------------------------------------------------------------
\* Domains of the tables: attempts and the updated_at order name records that
\* exist, and each record has one place in that order.
StoresTypeOK ==
    /\ store \in {"memory", "sqlite", "postgres"} /\ limited \in BOOLEAN
    /\ records \in Seq([payment: Payments, profile: Profiles, status: Statuses])
    /\ attempts \in Seq([record: DOMAIN records, status: Statuses \cup {"started"}])
    /\ touched \in Seq(DOMAIN records) /\ Len(touched) = Len(records)
    /\ handed \in [Payments -> Nat]

\* the outcome of a payment in the words of SettlementContract
Outcome(p) ==
    IF IdsOf(p) = {} THEN "new"
    ELSE LET s == records[Min(IdsOf(p))].status
         IN  CASE s = "settled" -> "settled" [] s = "settle_failed" -> "failed" [] OTHER -> "open"

ToldOf(p) == {IF s = "settled" THEN "settled" ELSE "failed" : s \in promised[p]}

Contract == INSTANCE SettlementContract WITH
    outcome <- [p \in Payments |-> Outcome(p)],
    promised <- [p \in Payments |-> ToldOf(p)]

(***************************************************************************)
(* The hosted facilitator's promise about a payment holds in every store,  *)
(* also where its steps are separate and unguarded: one hand-over, one     *)
(* outcome, and no client told otherwise.  The promise is about payments,  *)
(* not about the profile that asks: see RightProfileTold.                  *)
(***************************************************************************)
StoresKeepContract == Contract!Spec

(***************************************************************************)
(* docs/hosted-facilitator-seller-domain-design.md:700, of a payment       *)
(* presented under another profile: the response "must not silently report *)
(* a successful settlement for the wrong profile."  A request that hears   *)
(* settled has presented the payment under the profile of its record.      *)
(***************************************************************************)
RightProfileTold ==
    \A r \in Requests : At(r, "respond") /\ req[r].answer = "settled" =>
        records[req[r].record].profile = req[r].profile

(***************************************************************************)
(* A payment has one record in the seller's account, under whatever        *)
(* profiles it is presented:                                               *)
(* docs/hosted-facilitator-seller-domain-design.md:551, "The same          *)
(* buyer-signed authorization must still not be settleable twice across    *)
(* profiles."                                                              *)
(***************************************************************************)
OneRecordPerPayment == \A p \in Payments : Cardinality(IdsOf(p)) <= 1

(***************************************************************************)
(* The trail an operator follows after a crash: a payment the provider was *)
(* given has an attempt, and an attempt that says how it ended says what   *)
(* the record says.  (The record may be ahead of its attempt.)             *)
(***************************************************************************)
TrailHolds ==
    /\ \A p \in Payments : handed[p] > 0 =>
          \E a \in DOMAIN attempts : attempts[a].record \in IdsOf(p)
    /\ \A a \in DOMAIN attempts :
          attempts[a].status \in {"started", records[attempts[a].record].status}

(***************************************************************************)
(* What the tables say of a payment: one record, and a trail that agrees.  *)
(***************************************************************************)
RecordsSound == StoresTypeOK /\ OneRecordPerPayment /\ TrailHolds
=============================================================================
