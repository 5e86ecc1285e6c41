---------------------------- MODULE StoresProofs ----------------------------
(***************************************************************************)
(* Proofs about Stores: for each of the three stores, with and without a   *)
(* limiter, any number of processes, requests, payments and profiles, and  *)
(* whichever operation fails or process ends.                              *)
(***************************************************************************)
EXTENDS StoreViews, RankingProofs

\* where the request that has written a payment's record is
Writing == {"start", "call", "calling", "mark", "finish"}
Pcs == Writing \cup {"lookup", "claim", "claiming", "respond"}
Answers == Statuses \cup {"none", "open"}

Claim == [pc: Pcs, process: Processes, payment: Payments, profile: Profiles,
          record: Nat, attempt: Nat, answer: Answers]
RecordSet == [payment: Payments, profile: Profiles, status: Statuses]
AttemptSet == [record: DOMAIN records, status: Statuses \cup {"started"}]
Monies == {"none", "called", "moved", "dead"}

Owner(r) == req[r].pc \in Writing

Domains ==
    /\ StoresTypeOK
    /\ req \in [Requests -> {NoRequest} \cup Claim]
    /\ money \in [Payments -> Monies]
    /\ promised \in [Payments -> SUBSET Final]

\* A payment has at most one record.
RecordUnique ==
    \A i, j \in DOMAIN records : records[i].payment = records[j].payment => i = j

\* Every record has its place in the order of updated_at.
RecordPlaced == \A i \in DOMAIN records : \E k \in DOMAIN touched : touched[k] = i

\* An attempt is open, or says what its record says.
AttemptTrue ==
    \A a \in DOMAIN attempts :
        /\ attempts[a].status \in {"started", records[attempts[a].record].status}
        /\ attempts[a].status # InProgress

\* What the provider was given has an attempt, and what it was not given has
\* moved no money.
HandedTraced ==
    \A p \in Payments :
        /\ money[p] = "none" <=> handed[p] = 0
        /\ handed[p] > 0 => \E a \in DOMAIN attempts : attempts[a].record \in IdsOf(p)

\* An outcome is recorded only when the provider's state is that one, and
\* promised only when it is recorded.
OutcomeTrue ==
    /\ \A i \in DOMAIN records :
          /\ records[i].status = "settled" => money[records[i].payment] = "moved"
          /\ records[i].status = "settle_failed" => money[records[i].payment] = "dead"
    /\ \A p \in Payments : \A s \in promised[p] : \E i \in IdsOf(p) : records[i].status = s

\* The answer that a request has in hand is what its record says.
Answered(q) ==
    /\ q.record \in IdsOf(q.payment)
    /\ q.answer \in Final \cup {"open"}
    /\ q.answer \in Final => records[q.record].status = q.answer

\* What a request knows at each place.  A claim that found nothing may rely
\* on it until it commits, because it has the lock.
Knows(q) ==
    /\ q.pc = "claiming" =>
          /\ store # "memory"
          /\ q.record = 0 => IdsOf(q.payment) = {}
          /\ q.record # 0 => Answered(q)
    /\ q.pc = "respond" => Answered(q)
    /\ q.pc \in Writing => q.record \in IdsOf(q.payment)
    /\ q.pc \in Writing \ {"finish"} => records[q.record].status = InProgress
    /\ q.pc \in Writing \ {"start"} =>
          q.attempt \in DOMAIN attempts /\ attempts[q.attempt].record = q.record
    /\ q.pc \in {"start", "call"} => handed[q.payment] = 0
    /\ q.pc \in {"mark", "finish"} => q.answer \in Reported(money[q.payment])
    /\ q.pc = "finish" => records[q.record].status = q.answer

\* One request writes a payment's record, and one at a time claims it.
Exclusive ==
    \A q, r \in Requests : q # r =>
        /\ Owner(q) /\ Owner(r) => req[q].payment # req[r].payment
        /\ At(q, "claiming") /\ At(r, "claiming") => ~Excludes(q, r)

\* The inductive invariant.
StoresInv ==
    /\ Domains
    /\ RecordUnique
    /\ RecordPlaced
    /\ AttemptTrue
    /\ HandedTraced
    /\ OutcomeTrue
    /\ \A r \in Requests : Knows(req[r])
    /\ Exclusive

-----------------------------------------------------------------------------
(***************************************************************************)
(* Sequences.                                                              *)
(***************************************************************************)

\* Appending to a sequence leaves the elements before it where they are.
LEMMA AppendFacts ==
    ASSUME NEW S, NEW s \in Seq(S), NEW x \in S
    PROVE  /\ Append(s, x) \in Seq(S)
           /\ Len(Append(s, x)) = Len(s) + 1
           /\ DOMAIN Append(s, x) = DOMAIN s \cup {Len(s) + 1}
           /\ Len(s) + 1 \notin DOMAIN s
           /\ \A i \in DOMAIN s : Append(s, x)[i] = s[i]
           /\ Append(s, x)[Len(s) + 1] = x
OBVIOUS

\* Changing an element of a sequence.
LEMMA ExceptFacts ==
    ASSUME NEW S, NEW s \in Seq(S), NEW i \in DOMAIN s, NEW x \in S
    PROVE  /\ [s EXCEPT ![i] = x] \in Seq(S)
           /\ Len([s EXCEPT ![i] = x]) = Len(s)
           /\ DOMAIN [s EXCEPT ![i] = x] = DOMAIN s
OBVIOUS

\* A sequence over a set is one over a larger set.
LEMMA SeqGrows ==
    ASSUME NEW S, NEW T, S \subseteq T, NEW s \in Seq(S)
    PROVE  s \in Seq(T)
OBVIOUS

-----------------------------------------------------------------------------
(***************************************************************************)
(* Looking for a record.                                                   *)
(***************************************************************************)

\* What the lookups of a payment find: its record, whichever way they look.
LEMMA Found ==
    ASSUME StoresInv, NEW p \in Payments, NEW f \in Profiles
    PROVE  /\ Locate(p, f) \in Nat /\ Replay(p) \in Nat
           /\ Locate(p, f) = 0 <=> IdsOf(p) = {}
           /\ Replay(p) = 0 <=> IdsOf(p) = {}
           /\ Locate(p, f) # 0 => Locate(p, f) \in IdsOf(p)
           /\ Replay(p) # 0 => Replay(p) \in IdsOf(p)
           /\ Exact(p, f) # {} => Min(Exact(p, f)) \in IdsOf(p)
<1>1. records \in Seq(RecordSet) /\ DOMAIN records = 1..Len(records) /\ Len(records) \in Nat
  BY DEF StoresInv, Domains, StoresTypeOK, RecordSet
<1>2. ASSUME NEW T, T \subseteq IdsOf(p), T # {}
      PROVE  Min(T) \in IdsOf(p) /\ Min(T) \in Nat /\ Min(T) # 0
  <2>1. PICK i \in T : TRUE
    BY <1>2
  <2>2. T = {i} /\ i \in Nat \ {0}
    BY <1>1, <1>2 DEF IdsOf, StoresInv, RecordUnique
  <2>3. Min(T) = i
    BY <2>2 DEF Min
  <2> QED
    BY <1>2, <2>2, <2>3
<1>3. Exact(p, f) \subseteq IdsOf(p)
  BY DEF Exact
<1>4. /\ Replay(p) \in Nat /\ (Replay(p) = 0 <=> IdsOf(p) = {})
      /\ Replay(p) # 0 => Replay(p) \in IdsOf(p)
  BY <1>2 DEF Replay
<1>5. Exact(p, f) # {} => Min(Exact(p, f)) \in IdsOf(p) /\ Min(Exact(p, f)) \in Nat \ {0}
  BY <1>2, <1>3
<1> QED
  BY <1>3, <1>4, <1>5 DEF Locate

\* What a client is told of a record is what it says, or that it is open.
LEMMA CachedTrue ==
    ASSUME NEW i PROVE /\ Cached(i) \in Final \cup {"open"}
                       /\ Cached(i) \in Final => records[i].status = Cached(i)
BY DEF Cached, Final

\* A request is idle, or it is one of a process, with a payment and a profile.
LEMMA OfRequest ==
    ASSUME StoresInv, NEW r \in Requests
    PROVE  /\ req \in [Requests -> {NoRequest} \cup Claim]
           /\ req[r].pc # "idle" => req[r] \in Claim
           /\ Knows(req[r])
<1>1. req \in [Requests -> {NoRequest} \cup Claim] /\ Knows(req[r])
  BY DEF StoresInv, Domains
<1> QED
  BY <1>1 DEF NoRequest

\* Nothing is known of a request that is over.
LEMMA NothingKnown == Knows(NoRequest) /\ NoRequest.pc = "idle"
BY DEF NoRequest, Knows, Writing

\* Every record is one of a payment, with a status.
LEMMA OfRecord ==
    ASSUME StoresInv, NEW i \in DOMAIN records
    PROVE  records[i].payment \in Payments /\ records[i].status \in Statuses
<1>1. records \in Seq(RecordSet)
  BY DEF StoresInv, Domains, StoresTypeOK, RecordSet
<1>2. records[i] \in RecordSet
  BY <1>1
<1> QED
  BY <1>2 DEF RecordSet

\* A request goes on knowing what it knows, unless a step changes the record
\* of its payment, its attempt, or what the provider has of it.
LEMMA KnowsKept ==
    ASSUME NEW q, Knows(q), store' = store,
           IdsOf(q.payment)' = IdsOf(q.payment),
           \A i \in IdsOf(q.payment) : records'[i].status = records[i].status,
           \A a \in DOMAIN attempts : a \in DOMAIN attempts' /\ attempts'[a].record = attempts[a].record,
           handed'[q.payment] = handed[q.payment],
           Reported(money[q.payment]) \subseteq Reported(money'[q.payment])
    PROVE  Knows(q)'
<1>1. Answered(q) => Answered(q)'
  BY DEF Answered
<1>2. q.record \in IdsOf(q.payment) => records'[q.record].status = records[q.record].status
  OBVIOUS
<1>3. q.attempt \in DOMAIN attempts =>
        q.attempt \in DOMAIN attempts' /\ attempts'[q.attempt].record = attempts[q.attempt].record
  OBVIOUS
<1>4. /\ q.pc \in Writing => q.record \in IdsOf(q.payment)
      /\ Writing \ {"finish"} \subseteq Writing
      /\ "finish" \in Writing
  BY DEF Knows, Writing
<1> QED
  BY <1>1, <1>2, <1>3, <1>4 DEF Knows

-----------------------------------------------------------------------------
(***************************************************************************)
(* Steps.                                                                  *)
(***************************************************************************)
Others == <<store, limited, Tables, World>>

\* A request that moves on, with the tables and the world as they are, keeps
\* the invariant if what it knows is so, it becomes no owner, and it begins a
\* claim only where no other excludes it.
LEMMA MoveKeeps ==
    ASSUME StoresInv, NEW r \in Requests, NEW q \in {NoRequest} \cup Claim,
           req' = [req EXCEPT ![r] = q], UNCHANGED Others, Knows(q),
           q.pc \in Writing => Owner(r) /\ q.payment = req[r].payment,
           q.pc = "claiming" => \A o \in Requests : At(o, "claiming") =>
                                  store # "sqlite" /\ req[o].payment # q.payment
    PROVE  StoresInv'
<1>1. /\ UNCHANGED <<store, limited, records, attempts, touched, handed, money, promised>>
      /\ req \in [Requests -> {NoRequest} \cup Claim]
  BY OfRequest DEF Others, Tables, World
<1>2. \A o \in Requests : req'[o] = IF o = r THEN q ELSE req[o]
  BY <1>1
<1>3. Domains'
  BY <1>1 DEF StoresInv, Domains, StoresTypeOK, Claim
<1>4. RecordUnique' /\ RecordPlaced' /\ AttemptTrue' /\ HandedTraced' /\ OutcomeTrue'
  BY <1>1 DEF StoresInv, RecordUnique, RecordPlaced, AttemptTrue, HandedTraced, OutcomeTrue, IdsOf
<1>5. \A o \in Requests : Knows(req[o])'
  BY <1>1, <1>2 DEF StoresInv, Knows, Answered, IdsOf
<1>6. Exclusive'
  BY <1>1, <1>2 DEF StoresInv, Exclusive, Owner, At, Excludes
<1> QED
  BY <1>3, <1>4, <1>5, <1>6 DEF StoresInv

\* A request that ends, or raises, is forgotten.
LEMMA EndKeeps ==
    ASSUME StoresInv, NEW r \in Requests, End(r), UNCHANGED Others
    PROVE  StoresInv'
<1>1. req' = [req EXCEPT ![r] = NoRequest]
  BY DEF End
<1>2. NoRequest.pc \notin Writing /\ NoRequest.pc # "claiming"
  BY NothingKnown DEF Writing
<1> QED
  BY <1>1, <1>2, NothingKnown, MoveKeeps

\* A duplicate is answered with its payment's record.
LEMMA AnswerKeeps ==
    ASSUME StoresInv, NEW r \in Requests, req[r].pc # "idle",
           NEW i \in IdsOf(req[r].payment), Answer(r, i), UNCHANGED Others
    PROVE  StoresInv'
<1> DEFINE c == Cached(i)
           q == [req[r] EXCEPT !.pc = "respond", !.record = i, !.answer = c]
<1>1. req \in [Requests -> {NoRequest} \cup Claim] /\ req[r] \in Claim
  BY OfRequest
<1>2. "respond" \in Pcs /\ i \in Nat /\ c \in Answers
  BY CachedTrue DEF Pcs, IdsOf, StoresInv, Domains, StoresTypeOK, Answers, Statuses
<1>3. req' = [req EXCEPT ![r] = q]
  <2> HIDE DEF c
  <2> QED
    BY <1>1 DEF Answer, c
<1>4. /\ q \in Claim /\ q.pc = "respond" /\ q.record = i /\ q.answer = c
      /\ q.payment = req[r].payment
  <2> HIDE DEF c
  <2> QED
    BY <1>1, <1>2 DEF Claim
<1> HIDE DEF q
<1>5. Knows(q)
  BY <1>4, CachedTrue DEF Knows, Answered, Writing
<1> QED
  BY <1>3, <1>4, <1>5, MoveKeeps DEF Writing

\* A request comes in.
LEMMA ArriveKeeps ==
    ASSUME StoresInv, NEW r \in Requests, NEW x \in Processes, NEW p \in Payments,
           NEW f \in Profiles, Arrive(r, x, p, f), UNCHANGED <<store, limited>>
    PROVE  StoresInv'
<1> DEFINE pc == IF limited THEN "lookup" ELSE "claim"
           q == [pc |-> pc, process |-> x, payment |-> p,
                 profile |-> f, record |-> 0, attempt |-> 0, answer |-> "none"]
<1>1. req' = [req EXCEPT ![r] = q] /\ UNCHANGED Others
  BY DEF Arrive, Others
<1>2. pc \in Pcs /\ "none" \in Answers /\ pc \notin Writing \cup {"claiming", "respond"}
  BY DEF Pcs, Writing, Answers
<1>3. q \in Claim /\ q.pc = pc
  <2> HIDE DEF pc
  <2> QED
    BY <1>2 DEF Claim
<1> HIDE DEF q
<1>4. Knows(q)
  <2> HIDE DEF pc
  <2> QED
    BY <1>2, <1>3 DEF Knows, Writing
<1> QED
  BY <1>1, <1>2, <1>3, <1>4, MoveKeeps

\* The lookups before the claim.
LEMMA LookupKeeps ==
    ASSUME StoresInv, NEW r \in Requests, Lookup(r) \/ RateLimited(r), UNCHANGED <<store, limited>>
    PROVE  StoresInv'
<1> DEFINE i == Locate(req[r].payment, req[r].profile)
<1>1. req[r].pc \in {"lookup", "claim"} /\ UNCHANGED Others
  BY DEF Lookup, RateLimited, At, Others
<1>2. req[r] \in Claim /\ req[r].payment \in Payments /\ req[r].profile \in Profiles
  BY <1>1, OfRequest DEF Claim
<1>3. i # 0 => i \in IdsOf(req[r].payment)
  BY <1>2, Found
<1>4. CASE i # 0
  <2>1. Answer(r, i)
    BY <1>4 DEF Lookup, RateLimited
  <2> QED
    BY <1>1, <1>3, <1>4, <2>1, AnswerKeeps
<1>5. CASE i = 0
  <2>1. CASE End(r)
    BY <1>1, <2>1, EndKeeps
  <2>2. CASE Goto(r, "claim")
    <3> DEFINE q == [req[r] EXCEPT !.pc = "claim"]
    <3>1. req' = [req EXCEPT ![r] = q]
      BY <2>2, OfRequest DEF Goto
    <3>2. "claim" \in Pcs
      BY DEF Pcs
    <3>3. q \in Claim /\ q.pc = "claim"
      BY <1>2, <3>2 DEF Claim
    <3> HIDE DEF q
    <3>4. Knows(q)
      BY <3>3 DEF Knows, Writing
    <3> QED
      BY <1>1, <3>1, <3>3, <3>4, MoveKeeps DEF Writing
  <2> QED
    BY <1>5, <2>1, <2>2 DEF Lookup, RateLimited
<1> QED
  BY <1>4, <1>5

\* BEGIN IMMEDIATE or the advisory lock, and the reads under it: no other
\* request that could insert this payment's record is between begin and
\* commit.
LEMMA BeginClaimKeeps ==
    ASSUME StoresInv, NEW r \in Requests, BeginClaim(r), UNCHANGED <<store, limited>>
    PROVE  StoresInv'
<1> DEFINE i == IF store = "sqlite" THEN Locate(req[r].payment, req[r].profile)
                                    ELSE Replay(req[r].payment)
           c == IF i = 0 THEN "none" ELSE Cached(i)
           q == [req[r] EXCEPT !.pc = "claiming", !.record = i, !.answer = c]
<1>1. /\ req[r].pc = "claim" /\ UNCHANGED Others /\ store # "memory"
      /\ \A o \in Requests : At(o, "claiming") => ~Excludes(o, r)
      /\ req' = [req EXCEPT ![r].pc = "claiming", ![r].record = i, ![r].answer = c]
  BY DEF BeginClaim, At, Others
<1>2. /\ req \in [Requests -> {NoRequest} \cup Claim] /\ req[r] \in Claim
      /\ req[r].payment \in Payments /\ req[r].profile \in Profiles
  BY <1>1, OfRequest DEF Claim
<1>3. /\ i \in Nat /\ (i = 0 <=> IdsOf(req[r].payment) = {})
      /\ i # 0 => i \in IdsOf(req[r].payment)
  BY <1>2, Found
<1>4. "claiming" \in Pcs /\ c \in Answers
  BY CachedTrue DEF Pcs, Answers, Statuses
<1>5. i # 0 => /\ c \in Final \cup {"open"}
               /\ c \in Final => records[i].status = c
  BY CachedTrue
<1> HIDE DEF i, c
<1>6. req' = [req EXCEPT ![r] = q]
  BY <1>1, <1>2
<1>7. /\ q \in Claim /\ q.pc = "claiming" /\ q.record = i /\ q.answer = c
      /\ q.payment = req[r].payment
  BY <1>2, <1>3, <1>4 DEF Claim
<1> HIDE DEF q
<1>8. Knows(q)
  BY <1>1, <1>3, <1>5, <1>7 DEF Knows, Answered, Writing
<1>9. \A o \in Requests : At(o, "claiming") => store # "sqlite" /\ req[o].payment # q.payment
  BY <1>1, <1>7 DEF Excludes
<1>10. q.pc \notin Writing
  BY <1>7 DEF Writing
<1> QED
  BY <1>1, <1>6, <1>7, <1>8, <1>9, <1>10, MoveKeeps

\* A claim that knows that its payment has no record inserts one and becomes
\* its owner, in Postgres with the attempt in the same transaction.
LEMMA InsertKeeps ==
    ASSUME StoresInv, NEW r \in Requests, req[r].pc \in {"claim", "claiming"},
           IdsOf(req[r].payment) = {},
           \A o \in Requests : o # r /\ At(o, "claiming") => req[o].payment # req[r].payment,
           NEW pc, NEW a, Insert(r, pc, a), UNCHANGED <<store, limited, World>>,
           \/ pc = "start" /\ a = 0 /\ UNCHANGED attempts
           \/ /\ pc = "call" /\ a = Len(attempts) + 1
              /\ attempts' = Append(attempts, [record |-> Len(records) + 1, status |-> "started"])
    PROVE  StoresInv'
<1>n. PICK n : n = Len(records) + 1
  OBVIOUS
<1>p. PICK p : p = req[r].payment
  OBVIOUS
<1>r. PICK new : new = [payment |-> p, profile |-> req[r].profile, status |-> InProgress]
  OBVIOUS
<1>q. PICK q : q = [req[r] EXCEPT !.pc = pc, !.record = n, !.attempt = a]
  OBVIOUS
<1>1. /\ req \in [Requests -> {NoRequest} \cup Claim] /\ req[r] \in Claim
      /\ p \in Payments /\ req[r].profile \in Profiles
  BY <1>p, OfRequest DEF Claim
<1>2. /\ records \in Seq(RecordSet) /\ n \in Nat
      /\ attempts \in Seq(AttemptSet) /\ Len(attempts) \in Nat
      /\ touched \in Seq(DOMAIN records) /\ Len(touched) = Len(records)
  BY <1>n DEF StoresInv, Domains, StoresTypeOK, RecordSet, AttemptSet
<1>3. /\ records' = Append(records, new) /\ touched' = Append(touched, n)
      /\ req' = [req EXCEPT ![r].pc = pc, ![r].record = n, ![r].attempt = a]
      /\ UNCHANGED <<store, limited, handed, money, promised>>
  BY <1>n, <1>p, <1>r DEF Insert, World
<1>4. new \in RecordSet /\ new.payment = p /\ new.status = InProgress
  BY <1>1, <1>r DEF RecordSet, Statuses
<1>5. /\ records' \in Seq(RecordSet) /\ Len(records') = n
      /\ DOMAIN records' = DOMAIN records \cup {n} /\ n \notin DOMAIN records
      /\ \A i \in DOMAIN records : records'[i] = records[i]
      /\ records'[n] = new
  BY <1>n, <1>2, <1>3, <1>4, AppendFacts
<1>6. /\ touched' \in Seq(DOMAIN records') /\ Len(touched') = Len(records')
      /\ \A i \in DOMAIN records' : \E k \in DOMAIN touched' : touched'[k] = i
  <2>1. touched \in Seq(DOMAIN records') /\ n \in DOMAIN records'
    BY <1>2, <1>5, SeqGrows
  <2>2. /\ touched' \in Seq(DOMAIN records') /\ Len(touched') = Len(touched) + 1
        /\ DOMAIN touched' = DOMAIN touched \cup {Len(touched) + 1}
        /\ \A k \in DOMAIN touched : touched'[k] = touched[k]
        /\ touched'[Len(touched) + 1] = n
    BY <1>3, <2>1, AppendFacts
  <2> QED
    BY <1>n, <1>2, <1>5, <2>2 DEF StoresInv, RecordPlaced
<1>7. /\ attempts' \in Seq(AttemptSet')
      /\ \A b \in DOMAIN attempts : b \in DOMAIN attempts' /\ attempts'[b] = attempts[b]
      /\ \A b \in DOMAIN attempts' \ DOMAIN attempts :
            attempts'[b].record = n /\ attempts'[b].status = "started"
      /\ a \in Nat
      /\ pc = "call" => a \in DOMAIN attempts' /\ attempts'[a].record = n
  <2> DEFINE started == [record |-> n, status |-> "started"]
  <2>1. attempts \in Seq(AttemptSet')
    <3>1. AttemptSet \subseteq AttemptSet'
      BY <1>5 DEF AttemptSet
    <3> QED
      BY <1>2, <3>1, SeqGrows
  <2>2. CASE pc = "start" /\ a = 0 /\ UNCHANGED attempts
    BY <2>1, <2>2
  <2>3. CASE pc = "call" /\ a = Len(attempts) + 1 /\ attempts' = Append(attempts, started)
    <3>1. started \in AttemptSet' /\ started.record = n /\ started.status = "started"
      BY <1>5 DEF AttemptSet
    <3> HIDE DEF started
    <3>2. /\ attempts' \in Seq(AttemptSet')
          /\ DOMAIN attempts' = DOMAIN attempts \cup {a}
          /\ \A b \in DOMAIN attempts : attempts'[b] = attempts[b]
          /\ attempts'[a] = started
      BY <2>1, <2>3, <3>1, AppendFacts
    <3> QED
      BY <1>2, <2>3, <3>1, <3>2
  <2> QED
    BY <1>n, <2>2, <2>3
<1>8. /\ q \in Claim /\ q.pc = pc /\ q.record = n /\ q.attempt = a /\ q.payment = p
      /\ req' = [req EXCEPT ![r] = q]
  <2>1. pc \in Pcs
    BY DEF Pcs, Writing
  <2>2. req' = [req EXCEPT ![r] = q]
    BY <1>q, <1>1, <1>3
  <2> QED
    BY <1>p, <1>q, <1>1, <1>2, <1>7, <2>1, <2>2 DEF Claim
<1>9. \A o \in Requests : req'[o] = IF o = r THEN q ELSE req[o]
  BY <1>1, <1>8
<1>0. IdsOf(p) = {}
  BY <1>p
<1>10. IdsOf(p)' = {n} /\ \A x \in Payments : x # p => IdsOf(x)' = IdsOf(x)
  BY <1>0, <1>1, <1>4, <1>5 DEF IdsOf
<1>11. Domains'
  <2>1. req' \in [Requests -> {NoRequest} \cup Claim]
    BY <1>1, <1>8
  <2>2. StoresTypeOK'
    BY <1>3, <1>5, <1>6, <1>7 DEF StoresInv, Domains, StoresTypeOK, RecordSet, AttemptSet
  <2> QED
    BY <1>3, <2>1, <2>2 DEF StoresInv, Domains, Claim
<1>12. RecordUnique' /\ RecordPlaced'
  BY <1>0, <1>4, <1>5, <1>6 DEF StoresInv, RecordUnique, RecordPlaced, IdsOf
<1>13. AttemptTrue'
  <2>1. \A b \in DOMAIN attempts : attempts[b].record \in DOMAIN records
    <3>1. \A b \in DOMAIN attempts : attempts[b] \in AttemptSet
      BY <1>2
    <3> QED
      BY <3>1 DEF AttemptSet
  <2> QED
    BY <1>5, <1>7, <2>1 DEF StoresInv, AttemptTrue, InProgress
<1>14. HandedTraced'
  <2>1. \A x \in Payments : IdsOf(x) \subseteq IdsOf(x)'
    BY <1>0, <1>10
  <2>2. HandedTraced
    BY DEF StoresInv
  <2> QED
    BY <1>3, <1>7, <2>1, <2>2 DEF HandedTraced
<1>15. OutcomeTrue'
  BY <1>3, <1>4, <1>5, <1>10 DEF StoresInv, OutcomeTrue, InProgress, IdsOf
<1>16. handed[p] = 0
  <2>1. handed[p] \in Nat
    BY <1>1 DEF StoresInv, Domains, StoresTypeOK
  <2> QED
    BY <1>0, <1>1, <2>1 DEF StoresInv, HandedTraced
<1>17. Knows(q)'
  BY <1>3, <1>4, <1>5, <1>7, <1>8, <1>10, <1>16 DEF Knows, Writing
<1>18. ASSUME NEW o \in Requests, o # r PROVE Knows(req[o])' /\ ~(Owner(o) /\ req[o].payment = p)
  <2>1. Knows(req[o]) /\ (req[o].pc # "idle" => req[o] \in Claim)
    BY OfRequest
  <2>2. CASE req[o].pc = "idle"
    BY <1>9, <1>18, <2>2 DEF Knows, Owner, Writing
  <2>3. CASE req[o].pc # "idle" /\ req[o].payment = p
    <3>1. req[o].pc \notin Writing \cup {"claiming", "respond"}
      BY <1>0, <1>p, <1>18, <2>1, <2>3 DEF Knows, Answered, At
    <3> QED
      BY <1>9, <1>18, <3>1 DEF Knows, Owner, Writing
  <2>4. CASE req[o].pc # "idle" /\ req[o].payment # p
    <3>1. req[o].payment \in Payments
      BY <2>1, <2>4 DEF Claim
    <3>2. IdsOf(req[o].payment)' = IdsOf(req[o].payment) /\ req'[o] = req[o]
      BY <1>9, <1>10, <1>18, <2>4, <3>1
    <3>3. \A i \in IdsOf(req[o].payment) : records'[i] = records[i]
      BY <1>5 DEF IdsOf
    <3>4. Knows(req[o])'
      <4> PICK q0 : q0 = req[o]
        OBVIOUS
      <4>1. Knows(q0)'
        BY <1>3, <1>7, <2>1, <3>2, <3>3, KnowsKept
      <4> QED
        BY <3>2, <4>1
    <3> QED
      BY <2>4, <3>4
  <2> QED
    BY <2>2, <2>3, <2>4
<1>19. Exclusive'
  <2> SUFFICES ASSUME NEW x \in Requests, NEW y \in Requests, x # y
               PROVE  /\ Owner(x)' /\ Owner(y)' => req'[x].payment # req'[y].payment
                      /\ At(x, "claiming")' /\ At(y, "claiming")' => ~Excludes(x, y)'
    BY DEF Exclusive
  <2>1. CASE x # r /\ y # r
    <3>1. req'[x] = req[x] /\ req'[y] = req[y] /\ store' = store
      BY <1>3, <1>9, <2>1
    <3>2. Exclusive
      BY DEF StoresInv
    <3> QED
      BY <3>1, <3>2 DEF Exclusive, Owner, At, Excludes
  <2>2. CASE x = r \/ y = r
    <3>1. q.pc # "claiming"
      BY <1>8
    <3> QED
      BY <1>8, <1>9, <1>18, <2>2, <3>1 DEF Owner, At
  <2> QED
    BY <2>1, <2>2
<1> QED
  BY <1>9, <1>11, <1>12, <1>13, <1>14, <1>15, <1>17, <1>18, <1>19 DEF StoresInv

\* The claims of the three stores.
LEMMA ClaimKeeps ==
    ASSUME StoresInv, NEW r \in Requests, UNCHANGED <<store, limited>>,
           MemoryClaim(r) \/ SqliteClaim(r) \/ PostgresClaim(r)
    PROVE  StoresInv'
<1> PICK p : p = req[r].payment
  OBVIOUS
<1> PICK f : f = req[r].profile
  OBVIOUS
<1>1. req[r].pc \in {"claim", "claiming"} /\ UNCHANGED World
  BY DEF MemoryClaim, SqliteClaim, PostgresClaim, At
<1>2. /\ req \in [Requests -> {NoRequest} \cup Claim] /\ req[r] \in Claim /\ Knows(req[r])
      /\ p \in Payments /\ f \in Profiles
  BY <1>1, OfRequest DEF Claim
<1>3. ASSUME NEW i \in IdsOf(p), Answer(r, i), UNCHANGED Tables
      PROVE  StoresInv'
  BY <1>1, <1>3, AnswerKeeps DEF Others
<1>4. CASE MemoryClaim(r)
  <2>1. /\ store = "memory" /\ req[r].pc = "claim"
        /\ IF Locate(p, f) = 0 THEN Insert(r, "start", 0) /\ UNCHANGED attempts
           ELSE Answer(r, Locate(p, f)) /\ UNCHANGED Tables
    BY <1>4 DEF MemoryClaim, At
  <2>2. \A o \in Requests : ~At(o, "claiming")
    BY <2>1, OfRequest DEF Knows, At
  <2>3. CASE Locate(p, f) = 0
    <3>1. IdsOf(p) = {}
      BY <1>2, <2>3, Found
    <3>2. Insert(r, "start", 0) /\ UNCHANGED attempts
      BY <2>1, <2>3
    <3> QED
      BY <1>1, <2>2, <3>1, <3>2, InsertKeeps
  <2>4. CASE Locate(p, f) # 0
    BY <1>2, <1>3, <2>1, <2>4, Found
  <2> QED
    BY <2>3, <2>4
<1>5. CASE SqliteClaim(r) \/ PostgresClaim(r)
  <2>1. req[r].pc = "claiming" /\ store # "memory"
    BY <1>5 DEF SqliteClaim, PostgresClaim, At
  <2>2. /\ req[r].record = 0 => IdsOf(p) = {}
        /\ req[r].record # 0 => Answered(req[r]) /\ req[r].record \in IdsOf(p)
    BY <1>2, <2>1 DEF Knows, Answered
  <2>3. \A o \in Requests : o # r /\ At(o, "claiming") => req[o].payment # req[r].payment
    BY <2>1 DEF StoresInv, Exclusive, Excludes, At
  <2>4. CASE SqliteClaim(r) /\ req[r].record = 0
    <3>1. Insert(r, "start", 0) /\ UNCHANGED attempts
      BY <2>4 DEF SqliteClaim
    <3> QED
      BY <1>1, <2>2, <2>3, <2>4, <3>1, InsertKeeps
  <2>5. CASE SqliteClaim(r) /\ req[r].record # 0
    BY <1>3, <2>2, <2>5 DEF SqliteClaim
  <2>6. CASE PostgresClaim(r) /\ req[r].record = 0
    <3>1. Exact(p, f) = {}
      BY <2>2, <2>6 DEF Exact
    <3>2. /\ Insert(r, "call", Len(attempts) + 1)
          /\ attempts' = Append(attempts, [record |-> Len(records) + 1, status |-> "started"])
      BY <2>6, <3>1 DEF PostgresClaim
    <3> QED
      BY <1>1, <2>2, <2>3, <2>6, <3>2, InsertKeeps
  <2>7. CASE PostgresClaim(r) /\ req[r].record # 0
    <3> PICK q : q = [req[r] EXCEPT !.pc = "respond"]
      OBVIOUS
    <3>1. Goto(r, "respond") /\ UNCHANGED Others
      BY <1>1, <2>7 DEF PostgresClaim, Others
    <3>2. req' = [req EXCEPT ![r] = q]
      BY <1>2, <3>1 DEF Goto
    <3>3. "respond" \in Pcs
      BY DEF Pcs
    <3>4. /\ q \in Claim /\ q.pc = "respond" /\ q.record = req[r].record
          /\ q.answer = req[r].answer /\ q.payment = req[r].payment
      BY <1>2, <3>3 DEF Claim
    <3>5. Knows(q)
      BY <2>2, <2>7, <3>4 DEF Knows, Answered, Writing
    <3> QED
      BY <3>1, <3>2, <3>4, <3>5, MoveKeeps DEF Writing
  <2> QED
    BY <1>5, <2>4, <2>5, <2>6, <2>7
<1> QED
  BY <1>4, <1>5

-----------------------------------------------------------------------------
(***************************************************************************)
(* Steps of the request that owns a payment's record: they change what the *)
(* tables and the provider have of this payment alone, and no outcome.     *)
(***************************************************************************)

\* One request has moved, to no claim and to no record that it does not own.
LEMMA ExclusiveKept ==
    ASSUME Exclusive, NEW r \in Requests, NEW q, req \in [Requests -> {NoRequest} \cup Claim],
           req' = [req EXCEPT ![r] = q], store' = store, q.pc # "claiming",
           q.pc \in Writing => Owner(r) /\ q.payment = req[r].payment
    PROVE  Exclusive'
<1> SUFFICES ASSUME NEW x \in Requests, NEW y \in Requests, x # y
             PROVE  /\ Owner(x)' /\ Owner(y)' => req'[x].payment # req'[y].payment
                    /\ At(x, "claiming")' /\ At(y, "claiming")' => ~Excludes(x, y)'
  BY DEF Exclusive
<1>1. \A o \in Requests : req'[o] = IF o = r THEN q ELSE req[o]
  OBVIOUS
<1> QED
  BY <1>1 DEF Exclusive, Owner, At, Excludes

\* The step of an owner keeps the invariant if it keeps the parts of it that
\* are about the tables and the provider, and the owner knows what it must.
LEMMA OwnerKeeps ==
    ASSUME StoresInv, NEW r \in Requests, Owner(r), NEW q \in Claim,
           req' = [req EXCEPT ![r] = q], UNCHANGED <<store, limited, promised>>,
           q.pc # "claiming", q.payment = req[r].payment, Knows(q)',
           StoresTypeOK', money' \in [Payments -> Monies],
           \A x \in Payments : IdsOf(x)' = IdsOf(x),
           \A i \in DOMAIN records :
              records[i].payment # q.payment \/ records[i].status \in Final =>
                 records'[i].status = records[i].status,
           \A a \in DOMAIN attempts : a \in DOMAIN attempts' /\ attempts'[a].record = attempts[a].record,
           \A x \in Payments : x # q.payment =>
              handed'[x] = handed[x] /\ money'[x] = money[x],
           RecordUnique', RecordPlaced', AttemptTrue', HandedTraced', OutcomeTrue'
    PROVE  StoresInv'
<1>1. /\ req \in [Requests -> {NoRequest} \cup Claim] /\ Exclusive
      /\ promised \in [Payments -> SUBSET Final]
  BY DEF StoresInv, Domains
<1>2. \A o \in Requests : req'[o] = IF o = r THEN q ELSE req[o]
  BY <1>1
<1>3. Domains'
  <2>1. req' \in [Requests -> {NoRequest} \cup Claim]
    BY <1>1
  <2> QED
    BY <1>1, <2>1 DEF Domains, Claim, Pcs
<1>4. Exclusive'
  BY <1>1, ExclusiveKept
<1>5. ASSUME NEW o \in Requests, o # r PROVE Knows(req[o])'
  <2> PICK q0 : q0 = req[o]
    OBVIOUS
  <2>1. req'[o] = q0 /\ Knows(q0) /\ (q0.pc # "idle" => q0 \in Claim)
    BY <1>2, <1>5, OfRequest
  <2>2. CASE q0.pc = "idle"
    BY <2>1, <2>2 DEF Knows, Writing
  <2>3. CASE q0.pc # "idle" /\ q0.payment # q.payment
    <3>1. q0.payment \in Payments
      BY <2>1, <2>3 DEF Claim
    <3>2. \A i \in IdsOf(q0.payment) : records'[i].status = records[i].status
      BY <2>3 DEF IdsOf
    <3>3. IdsOf(q0.payment)' = IdsOf(q0.payment)
      BY <3>1
    <3>4. handed'[q0.payment] = handed[q0.payment] /\ money'[q0.payment] = money[q0.payment]
      BY <2>3, <3>1
    <3>5. Knows(q0)'
      BY <2>1, <3>2, <3>3, <3>4, KnowsKept
    <3> QED
      BY <2>1, <3>5
  <2>4. CASE q0.pc # "idle" /\ q0.payment = q.payment
    <3>1. q0.payment \in Payments /\ IdsOf(q0.payment)' = IdsOf(q0.payment)
      BY <2>1, <2>4 DEF Claim
    <3>2. q0.pc \notin Writing
      BY <1>1, <1>5, <2>4 DEF Exclusive, Owner
    <3>3. IdsOf(q0.payment) # {}
      BY <2>4, OfRequest DEF Owner, Knows
    <3>4. Answered(q0) => Answered(q0)'
      BY <3>1 DEF Answered, IdsOf
    <3>5. Knows(q0)'
      BY <2>1, <3>1, <3>2, <3>3, <3>4 DEF Knows, Writing
    <3> QED
      BY <2>1, <3>5
  <2> QED
    BY <2>2, <2>3, <2>4
<1>6. \A o \in Requests : Knows(req[o])'
  <2>1. Knows(req[r])'
    BY <1>2
  <2> QED
    BY <1>5, <2>1
<1> QED
  BY <1>3, <1>4, <1>6 DEF StoresInv

\* What the invariant says of an owner.
LEMMA OfOwner ==
    ASSUME StoresInv, NEW r \in Requests, Owner(r)
    PROVE  /\ req \in [Requests -> {NoRequest} \cup Claim] /\ req[r] \in Claim /\ Knows(req[r])
           /\ req[r].payment \in Payments /\ req[r].record \in DOMAIN records
           /\ records[req[r].record].payment = req[r].payment
           /\ records \in Seq(RecordSet) /\ attempts \in Seq(AttemptSet)
           /\ touched \in Seq(DOMAIN records) /\ Len(touched) = Len(records)
           /\ handed \in [Payments -> Nat] /\ money \in [Payments -> Monies]
           /\ \A a \in DOMAIN attempts : attempts[a] \in AttemptSet
<1>1. req[r].pc # "idle" /\ req[r].pc \in Writing
  BY DEF Owner, Writing
<1>2. req \in [Requests -> {NoRequest} \cup Claim] /\ req[r] \in Claim /\ Knows(req[r])
  BY <1>1, OfRequest
<1>3. req[r].payment \in Payments
  BY <1>2 DEF Claim
<1>4. req[r].record \in DOMAIN records /\ records[req[r].record].payment = req[r].payment
  BY <1>1, <1>2 DEF Knows, IdsOf
<1>5. /\ records \in Seq(RecordSet) /\ attempts \in Seq(AttemptSet)
      /\ touched \in Seq(DOMAIN records) /\ Len(touched) = Len(records)
      /\ handed \in [Payments -> Nat] /\ money \in [Payments -> Monies]
  BY DEF StoresInv, Domains, StoresTypeOK, RecordSet, AttemptSet
<1> QED
  BY <1>2, <1>3, <1>4, <1>5

\* start_settle_attempt of the local stores.
LEMMA StartKeeps ==
    ASSUME StoresInv, NEW r \in Requests, StartAttempt(r), UNCHANGED <<store, limited>>
    PROVE  StoresInv'
<1>1. /\ req[r].pc = "start" /\ Owner(r)
      /\ UNCHANGED <<records, touched, handed, money, promised>>
  BY DEF StartAttempt, At, Owner, Writing, World
<1> PICK a : a = Len(attempts) + 1
  OBVIOUS
<1> PICK new : new = [record |-> req[r].record, status |-> "started"]
  OBVIOUS
<1> PICK q : q = [req[r] EXCEPT !.pc = "call", !.attempt = a]
  OBVIOUS
<1>2. /\ attempts' = Append(attempts, new)
      /\ req' = [req EXCEPT ![r].pc = "call", ![r].attempt = a]
  BY DEF StartAttempt
<1>3. new \in AttemptSet /\ new.record = req[r].record /\ new.status = "started"
  BY <1>1, OfOwner DEF AttemptSet
<1>4. /\ attempts' \in Seq(AttemptSet) /\ a \in Nat
      /\ DOMAIN attempts' = DOMAIN attempts \cup {a}
      /\ \A b \in DOMAIN attempts : attempts'[b] = attempts[b]
      /\ attempts'[a] = new
  <2>1. attempts \in Seq(AttemptSet)
    BY <1>1, OfOwner
  <2> QED
    BY <1>2, <1>3, <2>1, AppendFacts
<1>5. /\ q \in Claim /\ q.pc = "call" /\ q.attempt = a /\ q.record = req[r].record
      /\ q.payment = req[r].payment /\ req' = [req EXCEPT ![r] = q]
  <2>1. req \in [Requests -> {NoRequest} \cup Claim] /\ req[r] \in Claim
    BY <1>1, OfOwner
  <2>2. req' = [req EXCEPT ![r] = q]
    BY <1>2, <2>1
  <2>3. "call" \in Pcs
    BY DEF Pcs, Writing
  <2> QED
    BY <1>4, <2>1, <2>2, <2>3 DEF Claim
<1>6. \A x : IdsOf(x)' = IdsOf(x)
  BY <1>1 DEF IdsOf
<1>7. StoresTypeOK'
  BY <1>1, <1>4 DEF StoresInv, Domains, StoresTypeOK, AttemptSet
<1>8. RecordUnique' /\ RecordPlaced' /\ OutcomeTrue'
  BY <1>1, <1>6 DEF StoresInv, RecordUnique, RecordPlaced, OutcomeTrue
<1>9. AttemptTrue'
  BY <1>1, <1>3, <1>4 DEF StoresInv, AttemptTrue, InProgress
<1>10. HandedTraced'
  BY <1>1, <1>4, <1>6 DEF StoresInv, HandedTraced
<1>11. Knows(q)'
  <2>1. /\ req[r].record \in IdsOf(req[r].payment) /\ handed[req[r].payment] = 0
        /\ records[req[r].record].status = InProgress
    BY <1>1, OfOwner DEF Knows, Writing
  <2> QED
    BY <1>1, <1>3, <1>4, <1>5, <1>6, <2>1 DEF Knows, Writing
<1>12. money' \in [Payments -> Monies]
  BY <1>1, OfOwner
<1> QED
  BY <1>1, <1>4, <1>5, <1>6, <1>7, <1>8, <1>9, <1>10, <1>11, <1>12, OwnerKeeps

\* provider.settle is called: by the owner, and for the first time.
LEMMA CallKeeps ==
    ASSUME StoresInv, NEW r \in Requests, Call(r), UNCHANGED <<store, limited>>
    PROVE  StoresInv' /\ handed[req[r].payment] = 0 /\ money[req[r].payment] = "none"
<1>1. req[r].pc = "call" /\ Owner(r) /\ UNCHANGED <<records, attempts, touched, promised>>
  BY DEF Call, At, Owner, Writing, Tables
<1> PICK p : p = req[r].payment
  OBVIOUS
<1> PICK q : q = [req[r] EXCEPT !.pc = "calling"]
  OBVIOUS
<1>2. /\ p \in Payments /\ handed \in [Payments -> Nat] /\ money \in [Payments -> Monies]
      /\ req[r].record \in DOMAIN records /\ records[req[r].record].payment = p
  BY <1>1, OfOwner
<1>3. /\ handed[p] = 0 /\ records[req[r].record].status = InProgress
      /\ req[r].attempt \in DOMAIN attempts /\ attempts[req[r].attempt].record = req[r].record
      /\ req[r].record \in IdsOf(p)
  BY <1>1, OfOwner DEF Knows, Writing
<1>4. money[p] = "none"
  BY <1>2, <1>3 DEF StoresInv, HandedTraced
<1>5. /\ handed' = [handed EXCEPT ![p] = 1] /\ money' = [money EXCEPT ![p] = "called"]
      /\ req' = [req EXCEPT ![r].pc = "calling"]
  BY <1>2, <1>3, <1>4 DEF Call, Goto
<1>6. /\ q \in Claim /\ q.pc = "calling" /\ q.attempt = req[r].attempt /\ q.record = req[r].record
      /\ q.payment = p /\ req' = [req EXCEPT ![r] = q]
  <2>1. req \in [Requests -> {NoRequest} \cup Claim] /\ req[r] \in Claim
    BY <1>1, OfOwner
  <2>2. req' = [req EXCEPT ![r] = q]
    BY <1>5, <2>1
  <2>3. "calling" \in Pcs
    BY DEF Pcs, Writing
  <2> QED
    BY <2>1, <2>2, <2>3 DEF Claim
<1>7. \A x : IdsOf(x)' = IdsOf(x)
  BY <1>1 DEF IdsOf
<1>8. /\ handed' \in [Payments -> Nat] /\ money' \in [Payments -> Monies]
      /\ \A x \in Payments : x # p => handed'[x] = handed[x] /\ money'[x] = money[x]
      /\ handed'[p] = 1 /\ money'[p] = "called"
  BY <1>2, <1>5 DEF Monies
<1>9. StoresTypeOK'
  BY <1>1, <1>8 DEF StoresInv, Domains, StoresTypeOK
<1>10. RecordUnique' /\ RecordPlaced' /\ AttemptTrue'
  BY <1>1 DEF StoresInv, RecordUnique, RecordPlaced, AttemptTrue
<1>11. HandedTraced'
  <2> SUFFICES ASSUME NEW x \in Payments
               PROVE  /\ money'[x] = "none" <=> handed'[x] = 0
                      /\ handed'[x] > 0 => \E a \in DOMAIN attempts' : attempts'[a].record \in IdsOf(x)'
    BY DEF HandedTraced
  <2>1. CASE x = p
    BY <1>1, <1>3, <1>7, <1>8, <2>1
  <2>2. CASE x # p
    BY <1>1, <1>7, <1>8, <2>2 DEF StoresInv, HandedTraced
  <2> QED
    BY <2>1, <2>2
<1>12. OutcomeTrue'
  <2>1. \A i \in DOMAIN records : records[i].payment = p => i = req[r].record
    BY <1>2 DEF StoresInv, RecordUnique
  <2>2. \A i \in DOMAIN records : records[i].payment \in Payments
    BY OfRecord
  <2>3. OutcomeTrue
    BY DEF StoresInv
  <2>4. ASSUME NEW i \in DOMAIN records
        PROVE  /\ records[i].status = "settled" => money'[records[i].payment] = "moved"
               /\ records[i].status = "settle_failed" => money'[records[i].payment] = "dead"
    <3>1. CASE records[i].payment = p
      BY <1>3, <2>1, <3>1 DEF InProgress
    <3>2. CASE records[i].payment # p
      BY <1>8, <2>2, <2>3, <3>2 DEF OutcomeTrue
    <3> QED
      BY <3>1, <3>2
  <2> QED
    BY <1>1, <1>7, <2>3, <2>4 DEF OutcomeTrue
<1>13. Knows(q)'
  BY <1>1, <1>3, <1>6, <1>7 DEF Knows, Writing
<1>14. StoresInv'
  BY <1>1, <1>6, <1>7, <1>8, <1>9, <1>10, <1>11, <1>12, <1>13, OwnerKeeps
<1> QED
  BY <1>3, <1>4, <1>14

\* The provider returns or raises.
LEMMA ReturnKeeps ==
    ASSUME StoresInv, NEW r \in Requests, Return(r), UNCHANGED <<store, limited>>
    PROVE  StoresInv'
<1>1. req[r].pc = "calling" /\ Owner(r) /\ UNCHANGED Others
  BY DEF Return, At, Owner, Writing, Others
<1>2. PICK s : /\ s \in Reported(money[req[r].payment])
               /\ req' = [req EXCEPT ![r].pc = "mark", ![r].answer = s]
  BY DEF Return
<1> PICK q : q = [req[r] EXCEPT !.pc = "mark", !.answer = s]
  OBVIOUS
<1>3. req \in [Requests -> {NoRequest} \cup Claim] /\ req[r] \in Claim /\ Knows(req[r])
  BY <1>1, OfOwner
<1>4. req' = [req EXCEPT ![r] = q]
  BY <1>2, <1>3
<1>5. "mark" \in Pcs /\ s \in Answers
  BY <1>2 DEF Pcs, Writing, Answers, Reported, Statuses, Final
<1>6. /\ q \in Claim /\ q.pc = "mark" /\ q.attempt = req[r].attempt /\ q.record = req[r].record
      /\ q.payment = req[r].payment /\ q.answer = s
  BY <1>3, <1>5 DEF Claim
<1>7. Knows(q)
  BY <1>1, <1>2, <1>3, <1>6 DEF Knows, Writing
<1> QED
  BY <1>1, <1>4, <1>6, <1>7, MoveKeeps

\* The provider decides about a payment it was given.
LEMMA DecideKeeps ==
    ASSUME StoresInv, NEW p \in Payments, Decide(p), UNCHANGED <<store, limited>>
    PROVE  StoresInv'
<1>1. /\ money[p] = "called" /\ UNCHANGED <<records, attempts, touched, req, handed, promised>>
      /\ \E m \in {"moved", "dead"} : money' = [money EXCEPT ![p] = m]
  BY DEF Decide, Tables
<1>2. /\ money' \in [Payments -> Monies] /\ money'[p] # "none"
      /\ \A x \in Payments : x # p => money'[x] = money[x]
  BY <1>1 DEF StoresInv, Domains, Monies
<1>3. Domains'
  BY <1>1, <1>2 DEF StoresInv, Domains, StoresTypeOK, Claim
<1>4. \A x : IdsOf(x)' = IdsOf(x)
  BY <1>1 DEF IdsOf
<1>5. RecordUnique' /\ RecordPlaced' /\ AttemptTrue' /\ Exclusive'
  BY <1>1 DEF StoresInv, RecordUnique, RecordPlaced, AttemptTrue, Exclusive, Owner, At, Excludes
<1>6. HandedTraced'
  BY <1>1, <1>2, <1>4 DEF StoresInv, HandedTraced
<1>7. OutcomeTrue'
  <2>2. \A i \in DOMAIN records : records[i].payment \in Payments
    BY OfRecord
  <2>3. OutcomeTrue
    BY DEF StoresInv
  <2> QED
    BY <1>1, <1>2, <1>4, <2>2, <2>3 DEF OutcomeTrue
<1>8. ASSUME NEW r \in Requests PROVE Knows(req[r])'
  <2> PICK q : q = req[r]
    OBVIOUS
  <2>1. req'[r] = q /\ Knows(q) /\ (q.pc # "idle" => q \in Claim)
    BY <1>1, OfRequest
  <2>2. CASE q.pc = "idle"
    BY <2>1, <2>2 DEF Knows, Writing
  <2>3. CASE q.pc # "idle"
    <3>1. Reported(money[q.payment]) \subseteq Reported(money'[q.payment])
      <4>1. q.payment \in Payments
        BY <2>1, <2>3 DEF Claim
      <4>2. CASE q.payment = p
        BY <1>1, <4>2 DEF Reported
      <4>3. CASE q.payment # p
        BY <1>2, <4>1, <4>3
      <4> QED
        BY <4>2, <4>3
    <3>2. Knows(q)'
      BY <1>1, <1>4, <2>1, <3>1, KnowsKept
    <3> QED
      BY <2>1, <3>2
  <2> QED
    BY <2>2, <2>3
<1> QED
  BY <1>3, <1>5, <1>6, <1>7, <1>8 DEF StoresInv

\* A process ends: its requests are forgotten, the tables stay.
LEMMA CrashKeeps ==
    ASSUME StoresInv, NEW x \in Processes, Crash(x), UNCHANGED <<store, limited>>
    PROVE  StoresInv'
<1>1. /\ UNCHANGED <<store, limited, records, attempts, touched, handed, money, promised>>
      /\ req' = [r \in Requests |-> IF ~At(r, "idle") /\ req[r].process = x
                                    THEN NoRequest ELSE req[r]]
  BY DEF Crash, Tables, World
<1>2. \A r \in Requests : req'[r] \in {NoRequest, req[r]}
  BY <1>1
<1>3. Domains'
  <2>1. req' \in [Requests -> {NoRequest} \cup Claim]
    BY <1>1, OfRequest
  <2> QED
    BY <1>1, <2>1 DEF StoresInv, Domains, StoresTypeOK, Claim
<1>4. RecordUnique' /\ RecordPlaced' /\ AttemptTrue' /\ HandedTraced' /\ OutcomeTrue'
  BY <1>1 DEF StoresInv, RecordUnique, RecordPlaced, AttemptTrue, HandedTraced, OutcomeTrue, IdsOf
<1>5. \A r \in Requests : Knows(req[r])'
  BY <1>1, <1>2, NothingKnown DEF StoresInv, Knows, Answered, IdsOf
<1>6. Exclusive'
  BY <1>1, <1>2, NothingKnown DEF StoresInv, Exclusive, Owner, At, Excludes, Writing
<1> QED
  BY <1>3, <1>4, <1>5, <1>6 DEF StoresInv

\* mark_*: the status of one record changes, and its place in the order of
\* updated_at.
LEMMA StatusSet ==
    ASSUME StoresInv, NEW i \in DOMAIN records, NEW s \in Statuses, SetStatus(i, s)
    PROVE  /\ records' \in Seq(RecordSet) /\ DOMAIN records' = DOMAIN records
           /\ \A j \in DOMAIN records :
                 /\ records'[j].payment = records[j].payment
                 /\ records'[j].status = IF j = i THEN s ELSE records[j].status
           /\ touched' \in Seq(DOMAIN records') /\ Len(touched') = Len(records')
           /\ \A x : IdsOf(x)' = IdsOf(x)
           /\ RecordUnique' /\ RecordPlaced'
<1> PICK y : y = [records[i] EXCEPT !.status = s]
  OBVIOUS
<1>1. /\ records \in Seq(RecordSet) /\ touched \in Seq(DOMAIN records) /\ Len(touched) = Len(records)
  BY DEF StoresInv, Domains, StoresTypeOK, RecordSet
<1>2. records' = [records EXCEPT ![i] = y]
  BY DEF SetStatus
<1>3. y \in RecordSet /\ y.payment = records[i].payment /\ y.status = s
  <2>1. records[i] \in RecordSet
    BY <1>1
  <2> QED
    BY <2>1 DEF RecordSet
<1>4. records' \in Seq(RecordSet) /\ DOMAIN records' = DOMAIN records /\ Len(records') = Len(records)
  BY <1>1, <1>2, <1>3, ExceptFacts
<1>5. \A j \in DOMAIN records : records'[j] = IF j = i THEN y ELSE records[j]
  BY <1>2
<1>6. \A j \in DOMAIN records :
         /\ records'[j].payment = records[j].payment
         /\ records'[j].status = IF j = i THEN s ELSE records[j].status
  BY <1>3, <1>5
<1>7. \A x : IdsOf(x)' = IdsOf(x)
  BY <1>4, <1>6 DEF IdsOf
<1>8. RecordUnique'
  BY <1>4, <1>6 DEF StoresInv, RecordUnique
<1>9. PICK k \in DOMAIN touched : touched[k] = i /\ touched' = Append(RemoveAt(touched, k), i)
  BY DEF SetStatus, Touch
<1>10. /\ touched' \in Seq(DOMAIN records) /\ Len(touched') = Len(touched)
       /\ \A j \in DOMAIN touched : \E l \in DOMAIN touched' : touched'[l] = touched[j]
  BY <1>1, <1>9, MovedToEnd
<1>11. RecordPlaced'
  BY <1>4, <1>10 DEF StoresInv, RecordPlaced
<1> QED
  BY <1>1, <1>4, <1>6, <1>7, <1>8, <1>10, <1>11

\* What the owner knows when the provider has answered: it may write the
\* answer, and nobody was promised anything else.
LEMMA MayMark ==
    ASSUME StoresInv, NEW r \in Requests, Owner(r), req[r].pc \in {"mark", "finish"}
    PROVE  /\ req[r].answer \in Statuses \ {InProgress}
           /\ req[r].answer = "settled" => money[req[r].payment] = "moved"
           /\ req[r].answer = "settle_failed" => money[req[r].payment] = "dead"
           /\ req[r].attempt \in DOMAIN attempts
           /\ attempts[req[r].attempt].record = req[r].record
           /\ req[r].pc = "mark" => records[req[r].record].status = InProgress
           /\ req[r].pc = "finish" => records[req[r].record].status = req[r].answer
           /\ \A j \in DOMAIN records : records[j].payment = req[r].payment => j = req[r].record
<1>1. Knows(req[r]) /\ req[r].record \in IdsOf(req[r].payment)
  BY OfOwner DEF Knows, Writing
<1>2. req[r].answer \in Reported(money[req[r].payment])
  BY <1>1 DEF Knows
<1>3. /\ req[r].answer \in Statuses \ {InProgress}
      /\ req[r].answer = "settled" => money[req[r].payment] = "moved"
      /\ req[r].answer = "settle_failed" => money[req[r].payment] = "dead"
  BY <1>2 DEF Reported, Statuses, Final, InProgress
<1>4. \A j \in DOMAIN records : records[j].payment = req[r].payment => j = req[r].record
  BY <1>1 DEF StoresInv, RecordUnique, IdsOf
<1> QED
  BY <1>1, <1>3, <1>4 DEF Knows, Writing

\* The record is marked, before the attempt or with it: the outcome that is
\* written is the provider's.
LEMMA MarkedOutcome ==
    ASSUME StoresInv, NEW r \in Requests, Owner(r), req[r].pc = "mark",
           SetStatus(req[r].record, req[r].answer), UNCHANGED <<handed, money, promised>>,
           \/ UNCHANGED attempts
           \/ FinishAttempt(req[r].attempt, req[r].answer)
    PROVE  /\ StoresTypeOK' <=> store' \in {"memory", "sqlite", "postgres"} /\ limited' \in BOOLEAN
           /\ AttemptTrue' /\ HandedTraced' /\ OutcomeTrue'
           /\ DOMAIN attempts' = DOMAIN attempts
           /\ \A a \in DOMAIN attempts : attempts'[a].record = attempts[a].record
           /\ \A j \in DOMAIN records :
                 records[j].payment # req[r].payment \/ records[j].status \in Final =>
                    records'[j].status = records[j].status
<1> PICK i : i = req[r].record
  OBVIOUS
<1> PICK s : s = req[r].answer
  OBVIOUS
<1> PICK a : a = req[r].attempt
  OBVIOUS
<1>1. /\ i \in DOMAIN records /\ records[i].payment = req[r].payment
      /\ s \in Statuses /\ s # InProgress /\ records[i].status = InProgress
      /\ a \in DOMAIN attempts /\ attempts[a].record = i
      /\ req[r].payment \in Payments
      /\ s = "settled" => money[records[i].payment] = "moved"
      /\ s = "settle_failed" => money[records[i].payment] = "dead"
  <2>1. i \in DOMAIN records /\ records[i].payment = req[r].payment /\ req[r].payment \in Payments
    BY OfOwner
  <2>2. req[r].pc \in {"mark", "finish"}
    OBVIOUS
  <2>3. /\ s \in Statuses \ {InProgress} /\ a \in DOMAIN attempts /\ attempts[a].record = i
        /\ s = "settled" => money[req[r].payment] = "moved"
        /\ s = "settle_failed" => money[req[r].payment] = "dead"
    BY <2>2, MayMark
  <2>4. records[i].status = InProgress
    BY <2>2, MayMark
  <2> QED
    BY <2>1, <2>3, <2>4
<1>2. /\ records' \in Seq(RecordSet) /\ DOMAIN records' = DOMAIN records
      /\ \A j \in DOMAIN records :
            /\ records'[j].payment = records[j].payment
            /\ records'[j].status = IF j = i THEN s ELSE records[j].status
      /\ touched' \in Seq(DOMAIN records') /\ Len(touched') = Len(records')
      /\ \A x : IdsOf(x)' = IdsOf(x)
  BY <1>1, StatusSet
<1>3. attempts \in Seq(AttemptSet) /\ AttemptSet' = AttemptSet
  BY <1>2, OfOwner DEF AttemptSet
<1>4. \A b \in DOMAIN attempts : attempts[b] \in AttemptSet /\ attempts[b].record \in DOMAIN records
  <2>1. \A b \in DOMAIN attempts : attempts[b] \in AttemptSet
    BY <1>3
  <2> QED
    BY <2>1 DEF AttemptSet
<1>5. /\ attempts' \in Seq(AttemptSet) /\ DOMAIN attempts' = DOMAIN attempts
      /\ \A b \in DOMAIN attempts :
            /\ attempts'[b].record = attempts[b].record
            /\ attempts'[b].status \in {attempts[b].status, s}
            /\ attempts'[b].status # attempts[b].status => b = a
  <2>1. CASE UNCHANGED attempts
    BY <1>3, <2>1
  <2>2. CASE FinishAttempt(a, s)
    <3> PICK y : y = [attempts[a] EXCEPT !.status = s]
      OBVIOUS
    <3>1. attempts' = [attempts EXCEPT ![a] = y]
      BY <2>2 DEF FinishAttempt
    <3>2. y \in AttemptSet /\ y.record = attempts[a].record /\ y.status = s
      BY <1>1, <1>4 DEF AttemptSet
    <3>3. attempts' \in Seq(AttemptSet) /\ DOMAIN attempts' = DOMAIN attempts
      BY <1>1, <1>3, <3>1, <3>2, ExceptFacts
    <3>4. \A b \in DOMAIN attempts : attempts'[b] = IF b = a THEN y ELSE attempts[b]
      BY <3>1
    <3> QED
      BY <3>2, <3>3, <3>4
  <2> QED
    BY <2>1, <2>2
<1>6. StoresTypeOK' <=> store' \in {"memory", "sqlite", "postgres"} /\ limited' \in BOOLEAN
  <2>1. handed \in [Payments -> Nat]
    BY OfOwner
  <2> QED
    BY <1>2, <1>3, <1>5, <2>1 DEF StoresTypeOK, RecordSet, AttemptSet
<1>7. AttemptTrue'
  <2> SUFFICES ASSUME NEW b \in DOMAIN attempts
               PROVE  /\ attempts'[b].status \in {"started", records'[attempts'[b].record].status}
                      /\ attempts'[b].status # InProgress
    BY <1>5 DEF AttemptTrue
  <2>1. /\ attempts[b].status \in {"started", records[attempts[b].record].status}
        /\ attempts[b].status # InProgress
    BY DEF StoresInv, AttemptTrue
  <2>2. attempts[b].record = i => attempts[b].status = "started"
    BY <1>1, <2>1
  <2> QED
    <3>1. attempts'[b].record = attempts[b].record /\ attempts[b].record \in DOMAIN records
      BY <1>4, <1>5
    <3>2. CASE attempts[b].record = i
      BY <1>1, <1>2, <1>5, <2>2, <3>1, <3>2 DEF InProgress
    <3>3. CASE attempts[b].record # i
      <4>1. b # a
        BY <1>1, <3>3
      <4>2. attempts'[b].status = attempts[b].status
        BY <1>5, <4>1
      <4>3. records'[attempts'[b].record].status = records[attempts[b].record].status
        BY <1>2, <3>1, <3>3
      <4> QED
        BY <2>1, <4>2, <4>3
    <3> QED
      BY <3>2, <3>3
<1>8. HandedTraced'
  BY <1>2, <1>5 DEF StoresInv, HandedTraced
<1>9. OutcomeTrue'
  <2>1. OutcomeTrue /\ \A j \in DOMAIN records : records[j].status = InProgress => records[j].status \notin Final
    BY DEF StoresInv, InProgress, Final
  <2>2. \A x \in Payments : promised[x] \subseteq Final
    BY DEF StoresInv, Domains
  <2>3. \A j \in DOMAIN records :
          /\ records'[j].status = "settled" => money[records'[j].payment] = "moved"
          /\ records'[j].status = "settle_failed" => money[records'[j].payment] = "dead"
    BY <1>1, <1>2, <2>1 DEF OutcomeTrue
  <2>4. ASSUME NEW x \in Payments, NEW t \in promised[x]
        PROVE  \E j \in IdsOf(x)' : records'[j].status = t
    <3>1. PICK j \in IdsOf(x) : records[j].status = t
      BY <2>1 DEF OutcomeTrue
    <3>2. j \in DOMAIN records /\ j # i
      BY <1>1, <2>1, <2>2, <3>1 DEF IdsOf
    <3> QED
      BY <1>2, <3>1, <3>2
  <2> QED
    BY <1>2, <2>3, <2>4 DEF OutcomeTrue
<1>10. \A j \in DOMAIN records :
         records[j].payment # req[r].payment \/ records[j].status \in Final =>
            records'[j].status = records[j].status
  BY <1>1, <1>2 DEF Final, InProgress
<1> QED
  BY <1>5, <1>6, <1>7, <1>8, <1>9, <1>10

\* Mark and Finish of the local stores, and the one transaction of Postgres.
LEMMA MarkKeeps ==
    ASSUME StoresInv, NEW r \in Requests, UNCHANGED <<store, limited>>,
           Mark(r) \/ MarkAndFinish(r)
    PROVE  StoresInv'
<1> PICK q : q = req'[r]
  OBVIOUS
<1>1. /\ req[r].pc = "mark" /\ Owner(r) /\ UNCHANGED <<handed, money, promised>>
      /\ SetStatus(req[r].record, req[r].answer)
      /\ UNCHANGED attempts \/ FinishAttempt(req[r].attempt, req[r].answer)
  BY DEF Mark, MarkAndFinish, At, Owner, Writing, World
<1>2. /\ req \in [Requests -> {NoRequest} \cup Claim] /\ req[r] \in Claim
      /\ req[r].record \in DOMAIN records /\ req[r].payment \in Payments
      /\ records[req[r].record].payment = req[r].payment
      /\ req[r].answer \in Statuses /\ req[r].answer \in Reported(money[req[r].payment])
      /\ req[r].attempt \in DOMAIN attempts /\ attempts[req[r].attempt].record = req[r].record
  BY <1>1, OfOwner, MayMark DEF Knows
<1>3. /\ DOMAIN records' = DOMAIN records /\ \A x : IdsOf(x)' = IdsOf(x)
      /\ records'[req[r].record].status = req[r].answer
      /\ RecordUnique' /\ RecordPlaced'
  BY <1>1, <1>2, StatusSet
<1>4. StoresTypeOK'
  BY <1>1, MarkedOutcome DEF StoresInv, Domains, StoresTypeOK
<1>5. /\ q \in Claim /\ q.record = req[r].record /\ q.payment = req[r].payment
      /\ q.attempt = req[r].attempt /\ req' = [req EXCEPT ![r] = q]
      /\ \/ q.pc = "finish" /\ q.answer = req[r].answer
         \/ q.pc = "respond" /\ q.answer = Told(req[r].answer)
  <2>1. CASE Mark(r)
    <3>1. req' = [req EXCEPT ![r] = [req[r] EXCEPT !.pc = "finish"]]
      BY <1>2, <2>1 DEF Mark, Goto
    <3>2. "finish" \in Pcs
      BY DEF Pcs, Writing
    <3> QED
      BY <1>2, <3>1, <3>2 DEF Claim
  <2>2. CASE MarkAndFinish(r)
    <3> PICK t : t = Told(req[r].answer)
      OBVIOUS
    <3>1. req' = [req EXCEPT ![r] = [req[r] EXCEPT !.pc = "respond", !.answer = t]]
      BY <1>2, <2>2 DEF MarkAndFinish, Conclude
    <3>2. "respond" \in Pcs /\ t \in Answers
      BY <1>2 DEF Pcs, Told, Answers
    <3> QED
      BY <1>2, <3>1, <3>2 DEF Claim
  <2> QED
    BY <2>1, <2>2
<1>6. Knows(q)'
  <2>1. req[r].record \in IdsOf(req[r].payment)
    BY <1>2 DEF IdsOf
  <2>2. CASE q.pc = "finish" /\ q.answer = req[r].answer
    BY <1>1, <1>2, <1>3, <1>5, <2>1, <2>2, MarkedOutcome DEF Knows, Writing
  <2>3. CASE q.pc = "respond" /\ q.answer = Told(req[r].answer)
    <3>1. Answered(q)'
      BY <1>3, <1>5, <2>1, <2>3 DEF Answered, Told, Final
    <3> QED
      BY <2>3, <3>1 DEF Knows, Writing
  <2> QED
    BY <1>5, <2>2, <2>3
<1>7. money' \in [Payments -> Monies]
  BY <1>1, OfOwner
<1>8. /\ \A j \in DOMAIN records : records[j].payment # q.payment \/ records[j].status \in Final =>
              records'[j].status = records[j].status
      /\ \A a \in DOMAIN attempts : a \in DOMAIN attempts' /\ attempts'[a].record = attempts[a].record
      /\ AttemptTrue' /\ HandedTraced' /\ OutcomeTrue'
  BY <1>1, <1>5, MarkedOutcome
<1>9. q.pc # "claiming"
  BY <1>5
<1> QED
  BY <1>1, <1>3, <1>4, <1>5, <1>6, <1>7, <1>8, <1>9, OwnerKeeps

\* finish_attempt of the local stores.
LEMMA FinishKeeps ==
    ASSUME StoresInv, NEW r \in Requests, UNCHANGED <<store, limited>>, Finish(r)
    PROVE  StoresInv'
<1> PICK a : a = req[r].attempt
  OBVIOUS
<1> PICK s : s = req[r].answer
  OBVIOUS
<1> PICK t : t = Told(s)
  OBVIOUS
<1> PICK y : y = [attempts[a] EXCEPT !.status = s]
  OBVIOUS
<1> PICK q : q = [req[r] EXCEPT !.pc = "respond", !.answer = t]
  OBVIOUS
<1>1. /\ req[r].pc = "finish" /\ Owner(r)
      /\ UNCHANGED <<records, touched, handed, money, promised>>
      /\ attempts' = [attempts EXCEPT ![a].status = s] /\ Conclude(r)
  BY DEF Finish, At, Owner, Writing, World, FinishAttempt
<1>2. /\ req \in [Requests -> {NoRequest} \cup Claim] /\ req[r] \in Claim
      /\ req[r].record \in IdsOf(req[r].payment) /\ attempts \in Seq(AttemptSet)
      /\ s \in Statuses \ {InProgress} /\ records[req[r].record].status = s
      /\ a \in DOMAIN attempts /\ attempts[a].record = req[r].record
      /\ attempts[a] \in AttemptSet
  <2>1. /\ s \in Statuses \ {InProgress} /\ records[req[r].record].status = s
        /\ a \in DOMAIN attempts /\ attempts[a].record = req[r].record
    BY <1>1, MayMark
  <2>2. req[r].record \in IdsOf(req[r].payment)
    BY <1>1, OfOwner DEF Knows, Writing
  <2> QED
    BY <1>1, <2>1, <2>2, OfOwner
<1>3. y \in AttemptSet /\ y.record = attempts[a].record /\ y.status = s
  BY <1>2 DEF AttemptSet
<1>4. /\ attempts' \in Seq(AttemptSet) /\ DOMAIN attempts' = DOMAIN attempts
      /\ \A b \in DOMAIN attempts : attempts'[b] = IF b = a THEN y ELSE attempts[b]
  <2>1. attempts' = [attempts EXCEPT ![a] = y]
    BY <1>1
  <2> QED
    BY <1>2, <1>3, <2>1, ExceptFacts
<1>5. /\ q \in Claim /\ q.record = req[r].record /\ q.payment = req[r].payment
      /\ q.pc = "respond" /\ q.answer = t /\ req' = [req EXCEPT ![r] = q]
  <2>1. req' = [req EXCEPT ![r] = q]
    BY <1>1, <1>2 DEF Conclude
  <2>2. "respond" \in Pcs /\ t \in Answers
    BY <1>2 DEF Pcs, Told, Answers
  <2> QED
    BY <1>2, <2>1, <2>2 DEF Claim
<1>6. \A x : IdsOf(x)' = IdsOf(x)
  BY <1>1 DEF IdsOf
<1>7. StoresTypeOK'
  BY <1>1, <1>4 DEF StoresInv, Domains, StoresTypeOK, AttemptSet
<1>8. RecordUnique' /\ RecordPlaced' /\ OutcomeTrue'
  BY <1>1, <1>6 DEF StoresInv, RecordUnique, RecordPlaced, OutcomeTrue
<1>9. AttemptTrue'
  BY <1>1, <1>2, <1>3, <1>4 DEF StoresInv, AttemptTrue
<1>10. HandedTraced'
  BY <1>1, <1>3, <1>4, <1>6 DEF StoresInv, HandedTraced
<1>11. Knows(q)'
  <2>1. t \in Final \cup {"open"} /\ (t \in Final => t = s)
    BY DEF Told, Final
  <2>2. Answered(q)'
    BY <1>1, <1>2, <1>5, <1>6, <2>1 DEF Answered
  <2> QED
    BY <1>5, <2>2 DEF Knows, Writing
<1>12. money' \in [Payments -> Monies]
  BY <1>1, OfOwner
<1>13. \A b \in DOMAIN attempts : b \in DOMAIN attempts' /\ attempts'[b].record = attempts[b].record
  BY <1>3, <1>4
<1> QED
  BY <1>1, <1>5, <1>6, <1>7, <1>8, <1>9, <1>10, <1>11, <1>12, <1>13, OwnerKeeps

\* The client gets its answer: a promise that the record keeps.
LEMMA RespondKeeps ==
    ASSUME StoresInv, NEW r \in Requests, UNCHANGED <<store, limited>>, Respond(r)
    PROVE  StoresInv'
<1> PICK p : p = req[r].payment
  OBVIOUS
<1> PICK told : told = {req[r].answer} \cap Final
  OBVIOUS
<1>1. /\ req[r].pc = "respond" /\ UNCHANGED <<records, attempts, touched, handed, money>>
      /\ promised' = [promised EXCEPT ![p] = @ \cup told]
      /\ req' = [req EXCEPT ![r] = NoRequest]
  BY DEF Respond, At, End, Tables
<1>2. /\ req \in [Requests -> {NoRequest} \cup Claim] /\ req[r] \in Claim /\ Answered(req[r])
      /\ p \in Payments
  BY <1>1, OfRequest DEF Claim, Knows
<1>3. promised \in [Payments -> SUBSET Final] /\ told \subseteq Final
  BY DEF StoresInv, Domains
<1>4. /\ promised' \in [Payments -> SUBSET Final]
      /\ \A x \in Payments : promised'[x] = IF x = p THEN promised[x] \cup told ELSE promised[x]
  BY <1>1, <1>2, <1>3
<1>5. \A x : IdsOf(x)' = IdsOf(x)
  BY <1>1 DEF IdsOf
<1>6. Domains'
  <2>1. req' \in [Requests -> {NoRequest} \cup Claim]
    BY <1>1, <1>2
  <2> QED
    BY <1>1, <1>4, <2>1 DEF StoresInv, Domains, StoresTypeOK, Claim
<1>7. RecordUnique' /\ RecordPlaced' /\ AttemptTrue'
  BY <1>1 DEF StoresInv, RecordUnique, RecordPlaced, AttemptTrue
<1>8. HandedTraced'
  BY <1>1, <1>5 DEF StoresInv, HandedTraced
<1>9. OutcomeTrue'
  <2>1. OutcomeTrue
    BY DEF StoresInv
  <2>2. \A s \in told : req[r].record \in IdsOf(p) /\ records[req[r].record].status = s
    BY <1>2 DEF Answered
  <2>3. ASSUME NEW x \in Payments, NEW s \in promised'[x]
        PROVE  \E i \in IdsOf(x) : records[i].status = s
    <3>1. CASE s \in promised[x]
      BY <2>1, <3>1 DEF OutcomeTrue
    <3>2. CASE x = p /\ s \in told
      BY <2>2, <3>2
    <3> QED
      BY <1>4, <3>1, <3>2
  <2> QED
    BY <1>1, <1>5, <2>1, <2>3 DEF OutcomeTrue
<1>10. Exclusive'
  <2>1. Exclusive /\ NoRequest.pc \notin Writing /\ NoRequest.pc # "claiming"
    BY NothingKnown DEF StoresInv, Writing
  <2> QED
    BY <1>1, <1>2, <2>1, ExclusiveKept
<1>11. ASSUME NEW o \in Requests PROVE Knows(req[o])'
  <2> PICK q : q = req'[o]
    OBVIOUS
  <2>1. q \in {NoRequest, req[o]} /\ Knows(q)
    BY <1>1, <1>2, NothingKnown, OfRequest
  <2>2. Knows(q)'
    BY <1>1, <1>5, <2>1, KnowsKept
  <2> QED
    BY <2>2
<1> QED
  BY <1>6, <1>7, <1>8, <1>9, <1>10, <1>11 DEF StoresInv

-----------------------------------------------------------------------------
\* Nothing is recorded at first.
LEMMA InitStores == ASSUME Init PROVE StoresInv
<1>1. Domains
  BY DEF Init, Domains, StoresTypeOK, Monies
<1>2. RecordUnique /\ RecordPlaced /\ AttemptTrue
  BY DEF Init, RecordUnique, RecordPlaced, AttemptTrue
<1>3. HandedTraced /\ OutcomeTrue
  BY DEF Init, HandedTraced, OutcomeTrue
<1>4. \A r \in Requests : req[r] = NoRequest
  BY DEF Init
<1>5. Exclusive
  BY <1>4, NothingKnown DEF Exclusive, Owner, At, Writing
<1> QED
  BY <1>1, <1>2, <1>3, <1>4, <1>5, NothingKnown DEF StoresInv

\* Every step keeps the invariant.
LEMMA NextStores == ASSUME StoresInv, [Next]_vars PROVE StoresInv'
<1>1. CASE Next /\ \E r \in Requests : Request(r)
  <2> PICK r \in Requests : Request(r)
    BY <1>1
  <2>0. UNCHANGED <<store, limited>>
    BY <1>1 DEF Next
  <2>1. CASE \E x \in Processes, p \in Payments, f \in Profiles : Arrive(r, x, p, f)
    BY <2>0, <2>1, ArriveKeeps
  <2>2. CASE Lookup(r) \/ RateLimited(r)
    BY <2>0, <2>2, LookupKeeps
  <2>3. CASE MemoryClaim(r) \/ SqliteClaim(r) \/ PostgresClaim(r)
    BY <2>0, <2>3, ClaimKeeps
  <2>4. CASE BeginClaim(r)
    BY <2>0, <2>4, BeginClaimKeeps
  <2>5. CASE StartAttempt(r) \/ Call(r) \/ Return(r)
    BY <2>0, <2>5, StartKeeps, CallKeeps, ReturnKeeps
  <2>6. CASE Mark(r) \/ MarkAndFinish(r)
    BY <2>0, <2>6, MarkKeeps
  <2>7. CASE Finish(r) \/ Respond(r)
    BY <2>0, <2>7, FinishKeeps, RespondKeeps
  <2>8. CASE Raise(r)
    BY <2>0, <2>8, EndKeeps DEF Raise, Others
  <2> QED
    BY <2>1, <2>2, <2>3, <2>4, <2>5, <2>6, <2>7, <2>8 DEF Request
<1>2. CASE Next /\ \E p \in Payments : Decide(p)
  BY <1>2, DecideKeeps DEF Next
<1>3. CASE Next /\ \E x \in Processes : Crash(x)
  BY <1>3, CrashKeeps DEF Next
<1>4. CASE UNCHANGED vars
  <2>1. UNCHANGED <<store, limited, records, attempts, touched, req, handed, money, promised>>
    BY <1>4 DEF vars
  <2>2. Domains' /\ Exclusive'
    BY <2>1 DEF StoresInv, Domains, StoresTypeOK, Claim, Exclusive, Owner, At, Excludes
  <2>3. RecordUnique' /\ RecordPlaced' /\ AttemptTrue' /\ HandedTraced' /\ OutcomeTrue'
    BY <2>1 DEF StoresInv, RecordUnique, RecordPlaced, AttemptTrue, HandedTraced, OutcomeTrue, IdsOf
  <2>4. \A r \in Requests : Knows(req[r])'
    BY <2>1 DEF StoresInv, Knows, Answered, IdsOf
  <2> QED
    BY <2>2, <2>3, <2>4 DEF StoresInv
<1> QED
  BY <1>1, <1>2, <1>3, <1>4 DEF Next

\* The inductive invariant holds.
LEMMA StoresInductive == Spec => []StoresInv
BY InitStores, NextStores, PTL DEF Spec

\* What the tables say of a payment is sound in every store: one record in
\* the seller's account whatever the profile, an attempt for everything the
\* provider was given, and attempts that do not contradict their records.
THEOREM StoresRecordsSound == Spec => []RecordsSound
<1>1. ASSUME StoresInv PROVE RecordsSound
  <2>1. StoresTypeOK
    BY <1>1 DEF StoresInv, Domains
  <2>2. OneRecordPerPayment
    <3> SUFFICES ASSUME NEW p \in Payments PROVE Cardinality(IdsOf(p)) <= 1
      BY DEF OneRecordPerPayment
    <3>1. CASE IdsOf(p) = {}
      BY <3>1, FS_EmptySet
    <3>2. CASE IdsOf(p) # {}
      <4> PICK i \in IdsOf(p) : TRUE
        BY <3>2
      <4>1. IdsOf(p) = {i}
        BY <1>1 DEF StoresInv, RecordUnique, IdsOf
      <4> QED
        BY <4>1, FS_Singleton
    <3> QED
      BY <3>1, <3>2
  <2>3. TrailHolds
    BY <1>1 DEF StoresInv, HandedTraced, AttemptTrue, TrailHolds
  <2> QED
    BY <2>1, <2>2, <2>3 DEF RecordsSound
<1> QED
  BY <1>1, StoresInductive, PTL

-----------------------------------------------------------------------------
(***************************************************************************)
(* The refinement.                                                         *)
(***************************************************************************)

\* A status in the words of SettlementContract.
Word(s) == CASE s = "settled" -> "settled" [] s = "settle_failed" -> "failed" [] OTHER -> "open"

\* The refinement mapping, by name.
BarOutcome == [p \in Payments |-> Outcome(p)]
BarPromised == [p \in Payments |-> ToldOf(p)]

\* A step of the contract, or nothing it speaks of.
ContractStep == [Contract!Next]_(Contract!vars)

LEMMA Stutters ==
    ASSUME BarOutcome' = BarOutcome, BarPromised' = BarPromised, UNCHANGED <<handed, money>>
    PROVE  ContractStep
BY DEF ContractStep, Contract!vars, BarOutcome, BarPromised

LEMMA MinOfOne == ASSUME NEW i \in Nat PROVE Min({i}) = i
BY DEF Min

\* The outcome of a payment is what its one record says.
LEMMA OutcomeOf ==
    ASSUME StoresInv, NEW p
    PROVE  /\ IdsOf(p) = {} => Outcome(p) = "new"
           /\ \A i \in IdsOf(p) : IdsOf(p) = {i} /\ i \in Nat /\ Outcome(p) = Word(records[i].status)
<1> SUFFICES ASSUME NEW i \in IdsOf(p)
             PROVE  IdsOf(p) = {i} /\ i \in Nat /\ Outcome(p) = Word(records[i].status)
  BY DEF Outcome
<1>1. records \in Seq(RecordSet)
  BY DEF StoresInv, Domains, StoresTypeOK, RecordSet
<1>2. i \in Nat
  BY <1>1 DEF IdsOf
<1>3. IdsOf(p) = {i}
  BY DEF IdsOf, StoresInv, RecordUnique
<1>4. Min(IdsOf(p)) = i
  BY <1>2, <1>3, MinOfOne
<1> QED
  BY <1>2, <1>3, <1>4 DEF Outcome, Word

\* Writing one record's status, seen through the mapping.
LEMMA OutcomeAfter ==
    ASSUME NEW p, NEW i \in Nat, IdsOf(p)' = {i}
    PROVE  Outcome(p)' = Word(records'[i].status)
<1>1. Min(IdsOf(p)') = i
  BY MinOfOne
<1> QED
  BY <1>1 DEF Outcome, Word

LEMMA OutcomesKept ==
    ASSUME StoresInv, NEW x, IdsOf(x)' = IdsOf(x),
           \A i \in IdsOf(x) : Word(records'[i].status) = Word(records[i].status)
    PROVE  Outcome(x)' = Outcome(x)
<1>1. CASE IdsOf(x) = {}
  BY <1>1 DEF Outcome
<1>2. CASE IdsOf(x) # {}
  <2> PICK i : i \in IdsOf(x)
    BY <1>2
  <2>1. IdsOf(x) = {i} /\ i \in Nat /\ Outcome(x) = Word(records[i].status)
    BY OutcomeOf
  <2> QED
    BY <2>1, OutcomeAfter
<1> QED
  BY <1>1, <1>2

\* A step that leaves the records, the provider and the promises alone.
LEMMA SilentRefines ==
    ASSUME UNCHANGED <<records, handed, money, promised>>
    PROVE  ContractStep
<1>1. BarOutcome' = BarOutcome /\ BarPromised' = BarPromised
  BY DEF BarOutcome, BarPromised, Outcome, IdsOf, ToldOf
<1> QED
  BY <1>1, Stutters

\* The first record of a payment is the contract's acceptance of it.
LEMMA InsertRefines ==
    ASSUME StoresInv, NEW r \in Requests, req[r].pc # "idle",
           IdsOf(req[r].payment) = {}, NEW pc, NEW a, Insert(r, pc, a), UNCHANGED World
    PROVE  ContractStep
<1> PICK p : p = req[r].payment
  OBVIOUS
<1> PICK n : n = Len(records) + 1
  OBVIOUS
<1> PICK new : new = [payment |-> p, profile |-> req[r].profile, status |-> InProgress]
  OBVIOUS
<1>1. req[r] \in Claim /\ p \in Payments /\ req[r].profile \in Profiles
  BY OfRequest DEF Claim
<1>2. records \in Seq(RecordSet) /\ InProgress \in Statuses
  BY DEF StoresInv, Domains, StoresTypeOK, RecordSet, Statuses
<1>3. new \in RecordSet /\ new.payment = p /\ new.status = InProgress
  BY <1>1, <1>2 DEF RecordSet
<1>4. records' = Append(records, new) /\ UNCHANGED <<handed, money, promised>>
  BY DEF Insert, World
<1>5. /\ DOMAIN records' = DOMAIN records \cup {n} /\ n \notin DOMAIN records /\ n \in Nat
      /\ \A i \in DOMAIN records : records'[i] = records[i]
      /\ records'[n] = new
  BY <1>2, <1>3, <1>4, AppendFacts
<1>6. Outcome(p) = "new" /\ Outcome(p)' = "open"
  <2>1. IdsOf(p)' = {n}
    BY <1>3, <1>5 DEF IdsOf
  <2>2. Outcome(p)' = Word(new.status)
    BY <1>5, <2>1, OutcomeAfter
  <2> QED
    BY <1>3, <2>2, OutcomeOf DEF Word, InProgress
<1>7. ASSUME NEW x \in Payments, x # p PROVE Outcome(x)' = Outcome(x)
  <2>1. IdsOf(x)' = IdsOf(x)
    BY <1>3, <1>5, <1>7 DEF IdsOf
  <2>2. \A i \in IdsOf(x) : records'[i] = records[i]
    BY <1>5 DEF IdsOf
  <2> QED
    BY <2>1, <2>2, OutcomesKept
<1>8. BarOutcome' = [BarOutcome EXCEPT ![p] = "open"] /\ BarOutcome[p] = "new"
  BY <1>1, <1>6, <1>7 DEF BarOutcome
<1>9. BarPromised' = BarPromised
  BY <1>4 DEF BarPromised, ToldOf
<1>10. Contract!Accept(p)
  BY <1>4, <1>8, <1>9 DEF Contract!Accept, BarOutcome, BarPromised
<1> QED
  BY <1>1, <1>10 DEF ContractStep, Contract!Next

LEMMA ClaimRefines ==
    ASSUME StoresInv, NEW r \in Requests, MemoryClaim(r) \/ SqliteClaim(r) \/ PostgresClaim(r)
    PROVE  ContractStep
<1> PICK p : p = req[r].payment
  OBVIOUS
<1> PICK f : f = req[r].profile
  OBVIOUS
<1>1. req[r].pc \in {"claim", "claiming"} /\ UNCHANGED World
  BY DEF MemoryClaim, SqliteClaim, PostgresClaim, At
<1>2. req[r] \in Claim /\ Knows(req[r]) /\ p \in Payments /\ f \in Profiles
  BY <1>1, OfRequest DEF Claim
<1>3. CASE UNCHANGED Tables
  BY <1>1, <1>3, SilentRefines DEF Tables, World
<1>4. ASSUME NEW pc, NEW a, Insert(r, pc, a), IdsOf(p) = {} PROVE ContractStep
  BY <1>1, <1>4, InsertRefines
<1>5. CASE MemoryClaim(r)
  <2>1. (Locate(p, f) = 0 /\ Insert(r, "start", 0)) \/ UNCHANGED Tables
    BY <1>5 DEF MemoryClaim
  <2> QED
    BY <1>2, <1>3, <1>4, <2>1, Found
<1>6. CASE SqliteClaim(r) \/ PostgresClaim(r)
  <2>1. req[r].record = 0 => IdsOf(p) = {}
    BY <1>2, <1>6 DEF SqliteClaim, PostgresClaim, At, Knows
  <2>2. \/ req[r].record = 0 /\ (Insert(r, "start", 0) \/ Insert(r, "call", Len(attempts) + 1))
        \/ UNCHANGED Tables
    BY <1>6 DEF SqliteClaim, PostgresClaim
  <2> QED
    BY <1>3, <1>4, <2>1, <2>2
<1> QED
  BY <1>5, <1>6

LEMMA CallRefines ==
    ASSUME StoresInv, NEW r \in Requests, Call(r), UNCHANGED <<store, limited>>
    PROVE  ContractStep
<1> PICK p : p = req[r].payment
  OBVIOUS
<1>1. /\ req[r].pc = "call" /\ Owner(r) /\ UNCHANGED <<records, promised>>
      /\ handed' = [handed EXCEPT ![p] = @ + 1]
      /\ money' = [money EXCEPT ![p] = IF @ = "none" THEN "called" ELSE @]
  BY DEF Call, At, Owner, Writing, Tables
<1>2. handed[p] = 0 /\ money[p] = "none"
  BY CallKeeps
<1>3. /\ p \in Payments /\ handed \in [Payments -> Nat] /\ money \in [Payments -> Monies]
      /\ Knows(req[r])
  BY <1>1, OfOwner
<1>4. req[r].record \in IdsOf(p) /\ records[req[r].record].status = InProgress
  BY <1>1, <1>3 DEF Knows, Writing
<1>5. BarOutcome[p] = "open"
  BY <1>3, <1>4, OutcomeOf DEF BarOutcome, Word, InProgress
<1>6. handed' = [handed EXCEPT ![p] = 1] /\ money' = [money EXCEPT ![p] = "called"]
  BY <1>1, <1>2, <1>3
<1>7. BarOutcome' = BarOutcome /\ BarPromised' = BarPromised
  BY <1>1 DEF BarOutcome, BarPromised, Outcome, IdsOf, ToldOf
<1>8. Contract!HandOver(p)
  BY <1>2, <1>5, <1>6, <1>7 DEF Contract!HandOver, BarOutcome, BarPromised
<1> QED
  BY <1>3, <1>8 DEF ContractStep, Contract!Next

LEMMA DecideRefines ==
    ASSUME NEW p \in Payments, Decide(p)
    PROVE  ContractStep
<1>1. UNCHANGED <<records, handed, promised>>
  BY DEF Decide, Tables
<1>2. BarOutcome' = BarOutcome /\ BarPromised' = BarPromised
  BY <1>1 DEF BarOutcome, BarPromised, Outcome, IdsOf, ToldOf
<1>3. Contract!MoneyDecided(p)
  BY <1>1, <1>2 DEF Decide, Contract!MoneyDecided, BarOutcome, BarPromised
<1> QED
  BY <1>3 DEF ContractStep, Contract!Next

\* Marking a record concludes its payment as the provider's state permits, or
\* leaves it open.
LEMMA MarkRefines ==
    ASSUME StoresInv, NEW r \in Requests, Mark(r) \/ MarkAndFinish(r)
    PROVE  ContractStep
<1> PICK p : p = req[r].payment
  OBVIOUS
<1> PICK i : i = req[r].record
  OBVIOUS
<1> PICK s : s = req[r].answer
  OBVIOUS
<1>1. /\ req[r].pc = "mark" /\ Owner(r) /\ UNCHANGED <<handed, money, promised>>
      /\ SetStatus(i, s)
  BY DEF Mark, MarkAndFinish, At, Owner, Writing, World
<1>2. p \in Payments /\ i \in DOMAIN records /\ records[i].payment = p
  BY <1>1, OfOwner
<1>3. /\ s \in Statuses \ {InProgress} /\ records[i].status = InProgress
      /\ s = "settled" => money[p] = "moved"
      /\ s = "settle_failed" => money[p] = "dead"
  BY <1>1, MayMark
<1>4. /\ \A j \in DOMAIN records : records'[j].status = IF j = i THEN s ELSE records[j].status
      /\ \A x : IdsOf(x)' = IdsOf(x)
  BY <1>1, <1>2, <1>3, StatusSet
<1>5. i \in IdsOf(p) /\ IdsOf(p) = {i} /\ i \in Nat /\ Outcome(p) = "open"
  <2>1. i \in IdsOf(p)
    BY <1>2 DEF IdsOf
  <2> QED
    BY <1>3, <2>1, OutcomeOf DEF Word, InProgress
<1>6. Outcome(p)' = Word(s)
  BY <1>2, <1>4, <1>5, OutcomeAfter
<1>7. ASSUME NEW x \in Payments, x # p PROVE Outcome(x)' = Outcome(x)
  <2>1. \A j \in IdsOf(x) : records'[j].status = records[j].status
    BY <1>2, <1>4, <1>7 DEF IdsOf
  <2> QED
    BY <1>4, <2>1, OutcomesKept
<1>8. BarOutcome' = [BarOutcome EXCEPT ![p] = Word(s)] /\ BarOutcome[p] = "open"
  BY <1>2, <1>5, <1>6, <1>7 DEF BarOutcome
<1>9. BarPromised' = BarPromised
  BY <1>1 DEF BarPromised, ToldOf
<1>10. CASE s \in Final
  <2>1. Word(s) \in Contract!Permitted(money[p])
    BY <1>3, <1>10 DEF Word, Final, Contract!Permitted
  <2>2. Contract!Conclude(p)
    BY <1>1, <1>8, <1>9, <2>1 DEF Contract!Conclude, BarOutcome, BarPromised
  <2> QED
    BY <1>2, <2>2 DEF ContractStep, Contract!Next
<1>11. CASE s \notin Final
  <2>1. Word(s) = "open"
    BY <1>11 DEF Word, Final
  <2>2. BarOutcome' = BarOutcome
    BY <1>8, <2>1 DEF BarOutcome
  <2> QED
    BY <1>1, <1>9, <2>2, Stutters
<1> QED
  BY <1>10, <1>11

\* An answer that says settled or failed promises what is recorded.
LEMMA RespondRefines ==
    ASSUME StoresInv, NEW r \in Requests, Respond(r)
    PROVE  ContractStep
<1> PICK p : p = req[r].payment
  OBVIOUS
<1> PICK s : s = req[r].answer
  OBVIOUS
<1>1. /\ req[r].pc = "respond" /\ UNCHANGED <<records, handed, money>>
      /\ promised' = [promised EXCEPT ![p] = @ \cup ({s} \cap Final)]
  BY DEF Respond, At, Tables
<1>2. p \in Payments /\ Answered(req[r])
  BY <1>1, OfRequest DEF Claim, Knows
<1>3. promised \in [Payments -> SUBSET Final]
  BY DEF StoresInv, Domains
<1>4. BarOutcome' = BarOutcome
  BY <1>1 DEF BarOutcome, Outcome, IdsOf
<1>5. CASE s \in Final
  <2>1. \A x \in Payments : promised'[x] = IF x = p THEN promised[x] \cup {s} ELSE promised[x]
    BY <1>1, <1>2, <1>3, <1>5
  <2>2. /\ Word(s) = IF s = "settled" THEN "settled" ELSE "failed"
        /\ Word(s) \in {"settled", "failed"}
    BY <1>5 DEF Word, Final
  <2>3. ToldOf(p)' = ToldOf(p) \cup {Word(s)}
    BY <1>2, <2>1, <2>2 DEF ToldOf
  <2>4. \A x \in Payments : x # p => ToldOf(x)' = ToldOf(x)
    BY <2>1 DEF ToldOf
  <2>5. BarPromised' = [BarPromised EXCEPT ![p] = @ \cup {Word(s)}]
    BY <1>2, <2>3, <2>4 DEF BarPromised
  <2>6. req[r].record \in IdsOf(p) /\ records[req[r].record].status = s
    BY <1>2, <1>5 DEF Answered
  <2>7. BarOutcome[p] = Word(s)
    BY <1>2, <2>6, OutcomeOf DEF BarOutcome
  <2>8. Contract!Promise(p)
    BY <1>1, <1>4, <2>2, <2>5, <2>7 DEF Contract!Promise, BarOutcome, BarPromised
  <2> QED
    BY <1>2, <2>8 DEF ContractStep, Contract!Next
<1>6. CASE s \notin Final
  <2>1. promised' = promised
    BY <1>1, <1>3, <1>6
  <2> QED
    BY <1>1, <2>1, SilentRefines
<1> QED
  BY <1>5, <1>6

LEMMA NextRefines == ASSUME StoresInv, [Next]_vars PROVE ContractStep
<1>1. CASE Next /\ \E r \in Requests : Request(r)
  <2> PICK r \in Requests : Request(r)
    BY <1>1
  <2>0. UNCHANGED <<store, limited>>
    BY <1>1 DEF Next
  <2>1. CASE MemoryClaim(r) \/ SqliteClaim(r) \/ PostgresClaim(r)
    BY <2>1, ClaimRefines
  <2>2. CASE Call(r)
    BY <2>0, <2>2, CallRefines
  <2>3. CASE Mark(r) \/ MarkAndFinish(r)
    BY <2>3, MarkRefines
  <2>4. CASE Respond(r)
    BY <2>4, RespondRefines
  <2>5. CASE UNCHANGED <<records, handed, money, promised>>
    BY <2>5, SilentRefines
  <2> QED
    BY <2>1, <2>2, <2>3, <2>4, <2>5
    DEF Request, Arrive, Lookup, RateLimited, BeginClaim, StartAttempt, Return, Finish, Raise,
        Tables, World
<1>2. CASE Next /\ \E p \in Payments : Decide(p)
  BY <1>2, DecideRefines
<1>3. CASE Next /\ \E x \in Processes : Crash(x)
  BY <1>3, SilentRefines DEF Crash, Tables, World
<1>4. CASE UNCHANGED vars
  BY <1>4, SilentRefines DEF vars
<1> QED
  BY <1>1, <1>2, <1>3, <1>4 DEF Next

\* Settlement through the in-memory, the SQLite or the Postgres store keeps
\* the settlement contract, whichever operation raises and whichever process
\* ends: at most one hand-over and one conclusion, true to the provider, and
\* no client told otherwise.
THEOREM StoresKeepTheContract == Spec => StoresKeepContract
<1>1. Init => Contract!Init
  <2> SUFFICES ASSUME Init PROVE Contract!Init
    OBVIOUS
  <2>1. BarOutcome = [p \in Payments |-> "new"]
    BY DEF Init, BarOutcome, Outcome, IdsOf
  <2>2. BarPromised = [p \in Payments |-> {}]
    BY DEF Init, BarPromised, ToldOf
  <2> QED
    BY <2>1, <2>2 DEF Init, Contract!Init, BarOutcome, BarPromised
<1> QED
  BY <1>1, NextRefines, StoresInductive, PTL DEF Spec, StoresKeepContract, Contract!Spec, ContractStep

-----------------------------------------------------------------------------
(***************************************************************************)
(* What an operator reads.                                                 *)
(***************************************************************************)

\* The units of finitely many amounts can be counted.
LEMMA UnitsFinite ==
    ASSUME NEW S, IsFiniteSet(S), NEW a, \A x \in S : a[x] \in Nat
    PROVE  IsFiniteSet(Units(a, S)) /\ Cardinality(Units(a, S)) \in Nat
<1> DEFINE F == [x \in S |-> {x} \X (1..a[x])]
           V == {F[x] : x \in S}
<1>1. F \in Surjection(S, V)
  BY DEF Surjection
<1>2. IsFiniteSet(V)
  BY <1>1, FS_Surjection
<1>3. ASSUME NEW x \in S PROVE IsFiniteSet({x} \X (1..a[x]))
  <2>1. IsFiniteSet({x})
    BY FS_Singleton
  <2>2. 1 \in Int /\ a[x] \in Int
    OBVIOUS
  <2>3. IsFiniteSet(1..a[x])
    BY <2>2, FS_Interval
  <2> QED
    BY <2>1, <2>3, FS_Product
<1>4. \A v \in V : IsFiniteSet(v)
  BY <1>3
<1>5. IsFiniteSet(UNION V)
  BY <1>2, <1>4, FS_UNION
<1>6. UNION V = Units(a, S)
  BY DEF Units
<1> QED
  BY <1>5, <1>6, FS_CardinalityType

\* Where each of S has one of T to itself, for at least the amount, there are
\* at least as many units in T.
LEMMA UnitsInjected ==
    ASSUME NEW S, NEW T, IsFiniteSet(T), NEW a, NEW b, NEW f,
           \A x \in S : a[x] \in Nat,
           \A y \in T : b[y] \in Nat,
           \A x \in S : f[x] \in T /\ a[x] <= b[f[x]],
           \A x, y \in S : f[x] = f[y] => x = y
    PROVE  Cardinality(Units(a, S)) <= Cardinality(Units(b, T))
<1> DEFINE U == Units(a, S)
           V == Units(b, T)
           g == [u \in U |-> <<f[u[1]], u[2]>>]
<1>1. ASSUME NEW u \in U
      PROVE  u[1] \in S /\ u[2] \in 1..a[u[1]] /\ u = <<u[1], u[2]>>
  BY DEF Units
<1>2. \A y \in T : \A n \in 1..b[y] : <<y, n>> \in V
  BY DEF Units
<1>3. IsFiniteSet(V)
  BY UnitsFinite
<1> HIDE DEF U, V
<1>4. ASSUME NEW u \in U PROVE <<f[u[1]], u[2]>> \in V
  <2>1. u[1] \in S /\ u[2] \in 1..a[u[1]]
    BY <1>1
  <2>2. f[u[1]] \in T /\ u[2] \in 1..b[f[u[1]]]
    BY <2>1
  <2> QED
    BY <1>2, <2>2
<1>5. ASSUME NEW u \in U, NEW v \in U, <<f[u[1]], u[2]>> = <<f[v[1]], v[2]>> PROVE u = v
  <2>1. f[u[1]] = f[v[1]] /\ u[2] = v[2]
    BY <1>5
  <2>2. u[1] = v[1]
    BY <1>1, <2>1
  <2> QED
    BY <1>1, <2>1, <2>2
<1>6. g \in Injection(U, V)
  BY <1>4, <1>5 DEF Injection, IsInjective
<1>7. Cardinality(U) <= Cardinality(V)
  BY <1>3, <1>6, FS_Injection
<1> QED
  BY <1>7 DEF U, V

\* A part of a finite set and the rest.
LEMMA PartAndRest ==
    ASSUME NEW S, IsFiniteSet(S), NEW A, A \subseteq S
    PROVE  /\ IsFiniteSet(A) /\ IsFiniteSet(S \ A)
           /\ Cardinality(A) \in Nat /\ Cardinality(S \ A) \in Nat
           /\ Cardinality(S) = Cardinality(A) + Cardinality(S \ A)
<1>1. IsFiniteSet(A) /\ IsFiniteSet(S \ A)
  BY FS_Subset
<1>2. Cardinality(A) \in Nat /\ Cardinality(S \ A) \in Nat
  BY <1>1, FS_CardinalityType
<1>3. A \cup (S \ A) = S /\ A \cap (S \ A) = {}
  OBVIOUS
<1>4. Cardinality(A \cup (S \ A)) = Cardinality(A) + Cardinality(S \ A) - Cardinality(A \cap (S \ A))
  BY <1>1, FS_Union
<1>5. Cardinality({}) = 0
  BY FS_EmptySet
<1>6. Cardinality(S) = Cardinality(A) + Cardinality(S \ A) - 0
  BY <1>3, <1>4, <1>5
<1> QED
  BY <1>1, <1>2, <1>6

-----------------------------------------------------------------------------
\* Records and attempts are only added, outcomes are not taken back, and money
\* that has moved has moved.
Grows ==
    /\ \A i \in DOMAIN records :
          /\ i \in DOMAIN records' /\ records'[i].payment = records[i].payment
          /\ records[i].status \in Final => records'[i].status = records[i].status
    /\ \A a \in DOMAIN attempts : a \in DOMAIN attempts' /\ attempts'[a].record = attempts[a].record
    /\ \A p \in Payments : money[p] = "moved" => money'[p] = "moved"

LEMMA TablesGrow == ASSUME StoresInv, [Next]_vars PROVE Grows
<1>0. /\ records \in Seq(RecordSet) /\ attempts \in Seq(AttemptSet)
      /\ money \in [Payments -> Monies]
  BY DEF StoresInv, Domains, StoresTypeOK, RecordSet, AttemptSet
<1>1. ASSUME UNCHANGED <<records, attempts, money>> PROVE Grows
  BY <1>1 DEF Grows
<1>2. ASSUME NEW r, NEW pc, NEW k, Insert(r, pc, k)
      PROVE  \A i \in DOMAIN records : i \in DOMAIN records' /\ records'[i] = records[i]
  <2>1. PICK y : records' = Append(records, y)
    BY <1>2 DEF Insert
  <2> QED
    BY <1>0, <2>1
<1>3. ASSUME NEW y, attempts' = Append(attempts, y)
      PROVE  \A a \in DOMAIN attempts : a \in DOMAIN attempts' /\ attempts'[a].record = attempts[a].record
  BY <1>0, <1>3
<1>4. ASSUME NEW k, NEW st, FinishAttempt(k, st)
      PROVE  \A a \in DOMAIN attempts : a \in DOMAIN attempts' /\ attempts'[a].record = attempts[a].record
  <2>1. \A a \in DOMAIN attempts : attempts[a] \in AttemptSet
    BY <1>0
  <2>2. DOMAIN attempts' = DOMAIN attempts
    BY <1>4 DEF FinishAttempt
  <2>3. \A a \in DOMAIN attempts :
           attempts'[a] = IF a = k THEN [attempts[k] EXCEPT !.status = st] ELSE attempts[a]
    BY <1>4 DEF FinishAttempt
  <2> QED
    BY <2>1, <2>2, <2>3 DEF AttemptSet
<1>5. CASE Next /\ \E r \in Requests : Request(r)
  <2> PICK r \in Requests : Request(r)
    BY <1>5
  <2>1. CASE \/ \E x \in Processes, p \in Payments, f \in Profiles : Arrive(r, x, p, f)
             \/ Lookup(r) \/ RateLimited(r) \/ BeginClaim(r) \/ Return(r) \/ Respond(r) \/ Raise(r)
    BY <1>1, <2>1 DEF Arrive, Lookup, RateLimited, BeginClaim, Return, Respond, Raise, Tables, World
  <2>2. CASE MemoryClaim(r) \/ SqliteClaim(r)
    <3>1. (Insert(r, "start", 0) \/ UNCHANGED records) /\ UNCHANGED <<attempts, money>>
      BY <2>2 DEF MemoryClaim, SqliteClaim, Tables, World
    <3> QED
      BY <1>1, <1>2, <3>1 DEF Grows
  <2>3. CASE PostgresClaim(r)
    <3>1. /\ UNCHANGED money
          /\ \/ UNCHANGED <<records, attempts>>
             \/ /\ Insert(r, "call", Len(attempts) + 1)
                /\ attempts' = Append(attempts, [record |-> Len(records) + 1, status |-> "started"])
      BY <2>3 DEF PostgresClaim, Tables, World
    <3> QED
      BY <1>1, <1>2, <1>3, <3>1 DEF Grows
  <2>4. CASE StartAttempt(r)
    <3>1. /\ UNCHANGED <<records, money>>
          /\ attempts' = Append(attempts, [record |-> req[r].record, status |-> "started"])
      BY <2>4 DEF StartAttempt, World
    <3> QED
      BY <1>3, <3>1 DEF Grows
  <2>5. CASE Call(r)
    <3>1. UNCHANGED <<records, attempts>>
      BY <2>5 DEF Call, Tables
    <3>2. \A p \in Payments : money[p] = "moved" => money'[p] = "moved"
      BY <1>0, <2>5 DEF Call
    <3> QED
      BY <3>1, <3>2 DEF Grows
  <2>6. CASE Mark(r) \/ MarkAndFinish(r)
    <3>1. /\ req[r].pc = "mark" /\ Owner(r) /\ UNCHANGED money
          /\ SetStatus(req[r].record, req[r].answer)
          /\ UNCHANGED attempts \/ FinishAttempt(req[r].attempt, req[r].answer)
      BY <2>6 DEF Mark, MarkAndFinish, At, Owner, Writing, World
    <3>2. /\ req[r].record \in DOMAIN records /\ req[r].answer \in Statuses
          /\ records[req[r].record].status = InProgress
      BY <3>1, OfOwner, MayMark
    <3>3. /\ DOMAIN records' = DOMAIN records
          /\ \A j \in DOMAIN records :
                /\ records'[j].payment = records[j].payment
                /\ records'[j].status = IF j = req[r].record THEN req[r].answer ELSE records[j].status
      BY <3>1, <3>2, StatusSet
    <3>4. InProgress \notin Final
      BY DEF InProgress, Final
    <3>5. \A i \in DOMAIN records :
            /\ i \in DOMAIN records' /\ records'[i].payment = records[i].payment
            /\ records[i].status \in Final => records'[i].status = records[i].status
      BY <3>2, <3>3, <3>4
    <3> QED
      BY <1>4, <3>1, <3>5 DEF Grows
  <2>7. CASE Finish(r)
    <3>1. UNCHANGED <<records, money>> /\ FinishAttempt(req[r].attempt, req[r].answer)
      BY <2>7 DEF Finish, World
    <3> QED
      BY <1>4, <3>1 DEF Grows
  <2> QED
    BY <2>1, <2>2, <2>3, <2>4, <2>5, <2>6, <2>7 DEF Request
<1>6. CASE Next /\ \E p \in Payments : Decide(p)
  <2> PICK p \in Payments : Decide(p)
    BY <1>6
  <2>1. /\ UNCHANGED <<records, attempts>> /\ money[p] = "called"
        /\ \E m \in {"moved", "dead"} : money' = [money EXCEPT ![p] = m]
    BY DEF Decide, Tables
  <2>2. \A x \in Payments : money[x] = "moved" => money'[x] = "moved"
    BY <1>0, <2>1
  <2> QED
    BY <2>1, <2>2 DEF Grows
<1>7. CASE Next /\ \E x \in Processes : Crash(x)
  BY <1>1, <1>7 DEF Crash, Tables, World
<1>8. CASE UNCHANGED vars
  BY <1>1, <1>8 DEF vars
<1> QED
  BY <1>5, <1>6, <1>7, <1>8 DEF Next

-----------------------------------------------------------------------------
\* The records of a seller, those that succeeded, and the attempts on them.
AttemptsOf(s) == {a \in DOMAIN attempts : attempts[a].record \in OfSeller(s)}
PaidTo(s) == {p \in Payments : SellerOf[p] = s /\ money[p] = "moved"}
ToldOfSeller(s) == {p \in Payments : SellerOf[p] = s /\ "settled" \in promised[p]}

Counted(s) ==
    /\ DOMAIN records = 1..Len(records) /\ Len(records) \in Nat
    /\ IsFiniteSet(OfSeller(s)) /\ Cardinality(OfSeller(s)) \in Nat
    /\ IsFiniteSet(Good(s)) /\ Good(s) \subseteq OfSeller(s)
    /\ IsFiniteSet(AttemptsOf(s)) /\ AttemptCount(s) = Cardinality(AttemptsOf(s))
    /\ AttemptCount(s) \in Nat
    /\ IsFiniteSet(PaidTo(s)) /\ MovedAmount(s) = Cardinality(Units(Amount, PaidTo(s)))
    /\ IsFiniteSet(ToldOfSeller(s)) /\ ToldAmount(s) = Cardinality(Units(Amount, ToldOfSeller(s)))
    /\ \A i \in OfSeller(s) : Charge[i] = Amount[records[i].payment] /\ Charge[i] \in Nat
    /\ \A p \in Payments : Amount[p] \in Nat
    /\ AmountOf(s) \in Nat /\ MovedAmount(s) \in Nat /\ ToldAmount(s) \in Nat

AllCounted == \A s : Counted(s)

\* They are finite, and their queries return numbers, now and after a step.
LEMMA TablesFinite == StoresInv => AllCounted
<1> SUFFICES ASSUME StoresInv, NEW s PROVE Counted(s)
  BY DEF AllCounted
<1>1. /\ records \in Seq(RecordSet) /\ attempts \in Seq(AttemptSet)
  BY DEF StoresInv, Domains, StoresTypeOK, RecordSet, AttemptSet
<1>2. /\ DOMAIN records = 1..Len(records) /\ Len(records) \in Nat
      /\ DOMAIN attempts = 1..Len(attempts) /\ Len(attempts) \in Nat
  BY <1>1
<1>3. IsFiniteSet(DOMAIN records) /\ IsFiniteSet(DOMAIN attempts)
  BY <1>2, FS_Interval
<1>4. /\ OfSeller(s) \subseteq DOMAIN records /\ Good(s) \subseteq OfSeller(s)
      /\ AttemptsOf(s) \subseteq DOMAIN attempts
      /\ PaidTo(s) \subseteq Payments /\ ToldOfSeller(s) \subseteq Payments
  BY DEF OfSeller, Good, AttemptsOf, PaidTo, ToldOfSeller
<1>5. /\ IsFiniteSet(OfSeller(s)) /\ IsFiniteSet(AttemptsOf(s))
      /\ IsFiniteSet(PaidTo(s)) /\ IsFiniteSet(ToldOfSeller(s))
  BY <1>3, <1>4, FS_Subset, StoreViewsAssumption
<1>6. IsFiniteSet(Good(s))
  BY <1>4, <1>5, FS_Subset
<1>7. Cardinality(OfSeller(s)) \in Nat /\ Cardinality(AttemptsOf(s)) \in Nat
  BY <1>5, FS_CardinalityType
<1>8. AttemptCount(s) = Cardinality(AttemptsOf(s))
  BY DEF AttemptCount, AttemptsOf
<1>9. /\ MovedAmount(s) = Cardinality(Units(Amount, PaidTo(s)))
      /\ ToldAmount(s) = Cardinality(Units(Amount, ToldOfSeller(s)))
  BY DEF MovedAmount, PaidTo, ToldAmount, ToldOfSeller
<1>10. \A p \in Payments : Amount[p] \in Nat
  BY StoreViewsAssumption
<1>11. \A i \in OfSeller(s) : Charge[i] = Amount[records[i].payment] /\ Charge[i] \in Nat
  <2>1. \A i \in OfSeller(s) : Charge[i] = Amount[records[i].payment]
    BY <1>4 DEF Charge
  <2>2. \A i \in OfSeller(s) : records[i].payment \in Payments
    BY <1>4, OfRecord
  <2> QED
    BY <1>10, <2>1, <2>2
<1>12. Cardinality(Units(Amount, PaidTo(s))) \in Nat /\ Cardinality(Units(Amount, ToldOfSeller(s))) \in Nat
  BY <1>4, <1>5, <1>10, UnitsFinite
<1>13. AmountOf(s) \in Nat
  <2>1. \A i \in Good(s) : Charge[i] \in Nat
    BY <1>4, <1>11
  <2> QED
    BY <1>6, <2>1, UnitsFinite DEF AmountOf
<1> QED
  BY <1>2, <1>4, <1>5, <1>6, <1>7, <1>8, <1>9, <1>10, <1>11, <1>12, <1>13 DEF Counted

\* What a seller's queries return does not go down while others settle.
Growing(s) ==
    /\ OfSeller(s) \subseteq OfSeller(s)'
    /\ Cardinality(OfSeller(s)) <= Cardinality(OfSeller(s)')
    /\ Good(s) \subseteq Good(s)'
    /\ AmountOf(s) <= AmountOf(s)'
    /\ AttemptCount(s) <= AttemptCount(s)'
    /\ MovedAmount(s) <= MovedAmount(s)'
    /\ \A i \in OfSeller(s) : records[i].status \in Final => records'[i].status \in Final
    /\ {Cardinality(OfSeller(s)), AmountOf(s), AttemptCount(s), MovedAmount(s)} \subseteq Nat
    /\ {Cardinality(OfSeller(s)'), AmountOf(s)', AttemptCount(s)', MovedAmount(s)'} \subseteq Nat

LEMMA TablesFiniteNext == StoresInv' => AllCounted'
BY TablesFinite, PTL

LEMMA QueriesGrow ==
    ASSUME StoresInv, StoresInv', Grows, NEW s PROVE Growing(s)
<1>1. Counted(s) /\ Counted(s)'
  BY TablesFinite, TablesFiniteNext DEF AllCounted
<1>2. /\ {Cardinality(OfSeller(s)), AmountOf(s), AttemptCount(s), MovedAmount(s)} \subseteq Nat
      /\ {Cardinality(OfSeller(s)'), AmountOf(s)', AttemptCount(s)', MovedAmount(s)'} \subseteq Nat
  BY <1>1 DEF Counted
<1>3. /\ OfSeller(s) \subseteq OfSeller(s)'
      /\ \A i \in OfSeller(s) : i \in DOMAIN records /\ records'[i].payment = records[i].payment
  BY DEF Grows, OfSeller
<1>4. Good(s) \subseteq Good(s)'
  <2>1. \A i \in DOMAIN records : records[i].status \in Successful => records[i].status \in Final
    BY OfRecord DEF Successful, Statuses, Final, InProgress
  <2> QED
    BY <1>3, <2>1 DEF Grows, Good
<1>5. Cardinality(OfSeller(s)) <= Cardinality(OfSeller(s)')
  BY <1>1, <1>3, FS_Subset DEF Counted
<1>6. AmountOf(s) <= AmountOf(s)'
  <2> DEFINE f == [i \in Good(s) |-> i]
  <2>1. IsFiniteSet(Good(s)')
    BY <1>1 DEF Counted
  <2>2. \A i \in Good(s) : i \in OfSeller(s) /\ i \in OfSeller(s)' /\ i \in Good(s)'
    BY <1>1, <1>3, <1>4 DEF Counted
  <2>3. \A i \in Good(s) : Charge[i] \in Nat /\ Charge[i] = Amount[records[i].payment]
    BY <1>1, <2>2 DEF Counted
  <2>4. \A i \in OfSeller(s)' : Charge'[i] \in Nat /\ Charge'[i] = Amount[records'[i].payment]
    BY <1>1 DEF Counted
  <2>5. Good(s)' \subseteq OfSeller(s)'
    BY <1>1 DEF Counted
  <2>6. \A i \in Good(s)' : Charge'[i] \in Nat
    BY <2>4, <2>5
  <2>7. \A i \in Good(s) : f[i] \in Good(s)' /\ Charge[i] <= Charge'[f[i]]
    BY <1>3, <2>2, <2>3, <2>4
  <2>8. \A i, j \in Good(s) : f[i] = f[j] => i = j
    OBVIOUS
  <2> HIDE DEF f
  <2>9. Cardinality(Units(Charge, Good(s))) <= Cardinality(Units(Charge', Good(s)'))
    BY <2>1, <2>3, <2>6, <2>7, <2>8, UnitsInjected
  <2> QED
    BY <2>9 DEF AmountOf, Units
<1>7. AttemptCount(s) <= AttemptCount(s)'
  <2>1. AttemptsOf(s) \subseteq AttemptsOf(s)'
    BY <1>3 DEF Grows, AttemptsOf
  <2> QED
    BY <1>1, <2>1, FS_Subset DEF Counted
<1>8. MovedAmount(s) <= MovedAmount(s)'
  <2> DEFINE f == [p \in PaidTo(s) |-> p]
  <2>1. PaidTo(s) \subseteq PaidTo(s)' /\ PaidTo(s)' \subseteq Payments
    BY DEF Grows, PaidTo
  <2>2. \A p \in Payments : Amount[p] \in Nat
    BY <1>1 DEF Counted
  <2>3. IsFiniteSet(PaidTo(s)')
    BY <1>1 DEF Counted
  <2>4. \A p \in PaidTo(s) : f[p] \in PaidTo(s)' /\ Amount[p] <= Amount[f[p]]
    BY <2>1, <2>2
  <2>5. \A p, q \in PaidTo(s) : f[p] = f[q] => p = q
    OBVIOUS
  <2>6. (\A p \in PaidTo(s) : Amount[p] \in Nat) /\ (\A p \in PaidTo(s)' : Amount[p] \in Nat)
    BY <2>1, <2>2
  <2> HIDE DEF f
  <2>7. Cardinality(Units(Amount, PaidTo(s))) <= Cardinality(Units(Amount, PaidTo(s)'))
    BY <2>3, <2>4, <2>5, <2>6, UnitsInjected
  <2>8. /\ MovedAmount(s) = Cardinality(Units(Amount, PaidTo(s)))
        /\ MovedAmount(s)' = Cardinality(Units(Amount, PaidTo(s)'))
    BY <1>1 DEF Counted, Units
  <2> QED
    BY <2>7, <2>8
<1>9. \A i \in OfSeller(s) : records[i].status \in Final => records'[i].status \in Final
  BY <1>3 DEF Grows
<1> QED
  BY <1>2, <1>3, <1>4, <1>5, <1>6, <1>7, <1>8, <1>9 DEF Growing

\* What clients have been told is in the total, and what is in the total has
\* been paid.
LEMMA TotalBetween ==
    ASSUME StoresInv, NEW s
    PROVE  ToldAmount(s) <= AmountOf(s) /\ AmountOf(s) <= MovedAmount(s)
<1>1. Counted(s)
  BY TablesFinite DEF AllCounted
<1>2. \A i \in Good(s) : /\ i \in DOMAIN records /\ i \in OfSeller(s)
                        /\ SellerOf[records[i].payment] = s /\ records[i].status = "settled"
  BY OfRecord DEF Good, OfSeller, Successful, Statuses, Final, InProgress
<1>3. \A i \in Good(s) : Charge[i] \in Nat /\ Charge[i] = Amount[records[i].payment]
  BY <1>1, <1>2 DEF Counted
<1>4. \A p \in Payments : Amount[p] \in Nat
  BY <1>1 DEF Counted
<1>5. ToldAmount(s) <= AmountOf(s)
  <2> DEFINE f == [p \in ToldOfSeller(s) |-> CHOOSE i \in IdsOf(p) : records[i].status = "settled"]
  <2>1. ASSUME NEW p \in ToldOfSeller(s)
        PROVE  f[p] \in Good(s) /\ records[f[p]].payment = p
    <3>1. p \in Payments /\ SellerOf[p] = s /\ "settled" \in promised[p]
      BY DEF ToldOfSeller
    <3>2. \E i \in IdsOf(p) : records[i].status = "settled"
      BY <3>1 DEF StoresInv, OutcomeTrue
    <3>3. f[p] \in IdsOf(p) /\ records[f[p]].status = "settled"
      BY <3>2
    <3> HIDE DEF f
    <3> QED
      BY <3>1, <3>3 DEF IdsOf, Good, OfSeller, Successful
  <2>2. \A p \in ToldOfSeller(s) : Amount[p] \in Nat
    BY <1>4 DEF ToldOfSeller
  <2> HIDE DEF f
  <2>3. \A p \in ToldOfSeller(s) : f[p] \in Good(s) /\ Amount[p] <= Charge[f[p]]
    BY <1>3, <2>1, <2>2
  <2>4. \A p, q \in ToldOfSeller(s) : f[p] = f[q] => p = q
    BY <2>1
  <2>5. (\A i \in Good(s) : Charge[i] \in Nat) /\ IsFiniteSet(Good(s))
    BY <1>1, <1>3 DEF Counted
  <2>6. Cardinality(Units(Amount, ToldOfSeller(s))) <= Cardinality(Units(Charge, Good(s)))
    BY <2>2, <2>3, <2>4, <2>5, UnitsInjected
  <2> QED
    BY <1>1, <2>6 DEF Counted, AmountOf
<1>6. AmountOf(s) <= MovedAmount(s)
  <2> DEFINE f == [i \in Good(s) |-> records[i].payment]
  <2>1. \A i \in Good(s) : f[i] \in PaidTo(s) /\ f[i] = records[i].payment
    BY <1>2, OfRecord DEF PaidTo, StoresInv, OutcomeTrue
  <2>2. \A i, j \in Good(s) : f[i] = f[j] => i = j
    BY <1>2 DEF StoresInv, RecordUnique
  <2>3. \A p \in PaidTo(s) : Amount[p] \in Nat
    BY <1>4 DEF PaidTo
  <2> HIDE DEF f
  <2>4. \A i \in Good(s) : f[i] \in PaidTo(s) /\ Charge[i] <= Amount[f[i]]
    BY <1>3, <2>1, <2>3
  <2>5. (\A i \in Good(s) : Charge[i] \in Nat) /\ IsFiniteSet(PaidTo(s))
    BY <1>1, <1>3 DEF Counted
  <2>6. Cardinality(Units(Charge, Good(s))) <= Cardinality(Units(Amount, PaidTo(s)))
    BY <2>2, <2>3, <2>4, <2>5, UnitsInjected
  <2> QED
    BY <1>1, <2>6 DEF Counted, AmountOf
<1> QED
  BY <1>5, <1>6

\* The counts of a seller are of all of his records; a settled one is among
\* the good ones; and each with an outcome has an attempt of its own.
LEMMA CountsFacts ==
    ASSUME StoresInv, NEW s
    PROVE  /\ StatusCounts(s) \in [Statuses -> Nat]
           /\ Total(StatusCounts(s)) = Cardinality(OfSeller(s))
           /\ StatusCounts(s)["settled"] > 0 => Good(s) # {}
           /\ StatusCounts(s)["settled"] + StatusCounts(s)["settle_failed"] <= AttemptCount(s)
<1> DEFINE S == OfSeller(s)
           In(st) == {i \in S : records[i].status = st}
<1>1. Counted(s) /\ IsFiniteSet(S)
  BY TablesFinite DEF AllCounted, Counted
<1>2. \A st : IsFiniteSet(In(st)) /\ Cardinality(In(st)) \in Nat
  <2> SUFFICES ASSUME NEW st PROVE IsFiniteSet(In(st)) /\ Cardinality(In(st)) \in Nat
    OBVIOUS
  <2>1. In(st) \subseteq S
    OBVIOUS
  <2> QED
    BY <1>1, <2>1, PartAndRest
<1>3. /\ StatusCounts(s) \in [Statuses -> Nat]
      /\ \A st \in Statuses : StatusCounts(s)[st] = Cardinality(In(st))
  BY <1>2 DEF StatusCounts
<1>4. {"settled", "settle_failed", InProgress, "submitted", "unknown"} = Statuses
  BY DEF Statuses, Final
<1>5. \A i \in S : records[i].status \in Statuses
  BY OfRecord DEF OfSeller
<1>6. Total(StatusCounts(s)) = Cardinality(S)
  <2> DEFINE A == In("settled")
             B == In("settle_failed")
             C == In(InProgress)
             D == In("submitted")
             E == In("unknown")
             R1 == S \ A
             R2 == R1 \ B
             R3 == R2 \ C
             R4 == R3 \ D
  <2>1. A \subseteq S /\ B \subseteq R1 /\ C \subseteq R2 /\ D \subseteq R3 /\ R4 = E
    BY <1>4, <1>5 DEF InProgress
  <2> HIDE DEF A, B, C, D, E
  <2>2. /\ Cardinality(S) = Cardinality(A) + Cardinality(R1) /\ IsFiniteSet(R1)
        /\ Cardinality(A) \in Nat /\ Cardinality(R1) \in Nat
    BY <1>1, <2>1, PartAndRest
  <2> HIDE DEF R1
  <2>3. /\ Cardinality(R1) = Cardinality(B) + Cardinality(R2) /\ IsFiniteSet(R2)
        /\ Cardinality(B) \in Nat /\ Cardinality(R2) \in Nat
    BY <2>1, <2>2, PartAndRest
  <2> HIDE DEF R2
  <2>4. /\ Cardinality(R2) = Cardinality(C) + Cardinality(R3) /\ IsFiniteSet(R3)
        /\ Cardinality(C) \in Nat /\ Cardinality(R3) \in Nat
    BY <2>1, <2>3, PartAndRest
  <2> HIDE DEF R3
  <2>5. /\ Cardinality(R3) = Cardinality(D) + Cardinality(R4) /\ IsFiniteSet(R4)
        /\ Cardinality(D) \in Nat /\ Cardinality(R4) \in Nat
    BY <2>1, <2>4, PartAndRest
  <2> HIDE DEF R4
  <2>6. Cardinality(S) = Cardinality(A) + Cardinality(B) + Cardinality(C) + Cardinality(D) + Cardinality(E)
    BY <2>1, <2>2, <2>3, <2>4, <2>5
  <2>7. /\ StatusCounts(s)["settled"] = Cardinality(A)
        /\ StatusCounts(s)["settle_failed"] = Cardinality(B)
        /\ StatusCounts(s)[InProgress] = Cardinality(C)
        /\ StatusCounts(s)["submitted"] = Cardinality(D)
        /\ StatusCounts(s)["unknown"] = Cardinality(E)
    BY <1>3, <1>4 DEF A, B, C, D, E
  <2> HIDE DEF S
  <2> QED
    BY <2>6, <2>7 DEF Total
<1>7. StatusCounts(s)["settled"] > 0 => Good(s) # {}
  <2>1. In("settled") \subseteq Good(s)
    BY DEF Good, Successful
  <2>2. In("settled") = {} => Cardinality(In("settled")) = 0
    BY FS_EmptySet
  <2>3. StatusCounts(s)["settled"] = Cardinality(In("settled"))
    BY <1>3, <1>4
  <2> HIDE DEF In
  <2> QED
    BY <1>2, <2>1, <2>2, <2>3
<1>8. StatusCounts(s)["settled"] + StatusCounts(s)["settle_failed"] <= AttemptCount(s)
  <2> DEFINE F == {i \in S : records[i].status \in Final}
             f == [i \in F |-> CHOOSE a \in DOMAIN attempts : attempts[a].record = i]
  <2>1. ASSUME NEW i \in F PROVE \E a \in DOMAIN attempts : attempts[a].record = i
    <3>1. i \in DOMAIN records /\ records[i].payment \in Payments
      BY OfRecord DEF OfSeller
    <3>2. money[records[i].payment] \in {"moved", "dead"}
      BY <3>1 DEF StoresInv, OutcomeTrue, Final
    <3>3. handed[records[i].payment] \in Nat
      BY <3>1 DEF StoresInv, Domains, StoresTypeOK
    <3>4. handed[records[i].payment] > 0
      BY <3>1, <3>2, <3>3 DEF StoresInv, HandedTraced
    <3>5. PICK a \in DOMAIN attempts : attempts[a].record \in IdsOf(records[i].payment)
      BY <3>1, <3>4 DEF StoresInv, HandedTraced
    <3>6. attempts[a].record = i
      BY <3>1, <3>5 DEF StoresInv, RecordUnique, IdsOf
    <3> QED
      BY <3>5, <3>6
  <2>2. \A i \in F : f[i] \in DOMAIN attempts /\ attempts[f[i]].record = i
    BY <2>1
  <2>3. f \in Injection(F, AttemptsOf(s))
    <3>1. \A i \in F : f[i] \in AttemptsOf(s)
      BY <2>2 DEF AttemptsOf
    <3>2. \A i, j \in F : f[i] = f[j] => i = j
      BY <2>2
    <3> QED
      BY <3>1, <3>2 DEF Injection, IsInjective
  <2>4. Cardinality(F) <= AttemptCount(s)
    BY <1>1, <2>3, FS_Injection DEF Counted
  <2>5. IsFiniteSet(F) /\ In("settled") \subseteq F /\ F \ In("settled") = In("settle_failed")
    BY <1>1, FS_Subset DEF Final
  <2> HIDE DEF F, f, In
  <2>6. Cardinality(F) = Cardinality(In("settled")) + Cardinality(In("settle_failed"))
    BY <2>5, PartAndRest
  <2>7. /\ StatusCounts(s)["settled"] = Cardinality(In("settled"))
        /\ StatusCounts(s)["settle_failed"] = Cardinality(In("settle_failed"))
    BY <1>3, <1>4
  <2> QED
    BY <2>4, <2>6, <2>7
<1> QED
  BY <1>3, <1>6, <1>7, <1>8

-----------------------------------------------------------------------------
\* Records have different places in the order of updated_at.
LEMMA PlacesDiffer ==
    ASSUME StoresInv, NEW S, S \subseteq DOMAIN records
    PROVE  /\ Keyed(Place, S) /\ Keyed(Newest, S)
           /\ Place \in Seq(Nat)
<1>1. /\ touched \in Seq(DOMAIN records) /\ DOMAIN records = 1..Len(records) /\ Len(records) \in Nat
  BY DEF StoresInv, Domains, StoresTypeOK
<1>2. \A i \in DOMAIN records : Place[i] \in DOMAIN touched /\ touched[Place[i]] = i
  BY DEF StoresInv, RecordPlaced, Place
<1>3. DOMAIN touched \subseteq Nat
  BY <1>1
<1>4. \A i \in DOMAIN records : Place[i] \in Nat /\ Newest[i] = 0 - Place[i]
  BY <1>2, <1>3 DEF Newest
<1>5. IsFiniteSet(S)
  <2>1. IsFiniteSet(DOMAIN records)
    BY <1>1, FS_Interval
  <2> QED
    BY <2>1, FS_Subset
<1>6. Keyed(Place, S)
  BY <1>2, <1>4, <1>5 DEF Keyed
<1>7. \A i, j \in DOMAIN records : Newest[i] = Newest[j] => Place[i] = Place[j]
  BY <1>4
<1>8. Keyed(Newest, S)
  BY <1>2, <1>4, <1>5, <1>7 DEF Keyed
<1>9. Place \in [1..Len(records) -> Nat]
  BY <1>1, <1>4 DEF Place
<1> QED
  BY <1>1, <1>6, <1>8, <1>9

\* Every record that waits is on the page, or the page is full and those on it
\* come before it.
Shown(v) ==
    \A i \in v.waiting :
        \/ i \in ToSet(v.items)
        \/ /\ Len(v.items) = Limit
           /\ \A j \in ToSet(v.items) : v.place[j] < v.place[i]

\* The queue's page when it is read.
LEMMA PageRead ==
    ASSUME StoresInv, NEW s
    PROVE  /\ Queue(s, Limit) \in Seq(Nat)
           /\ \A i \in OfSeller(s) : records[i].status \notin Final =>
                 \/ i \in ToSet(Queue(s, Limit))
                 \/ /\ Len(Queue(s, Limit)) = Limit
                    /\ \A j \in ToSet(Queue(s, Limit)) : Place[j] < Place[i]
<1> DEFINE Q == Queued(s)
           T == Lowest(Place, Q, Limit)
<1>1. Q \subseteq DOMAIN records /\ T \subseteq Q
  BY DEF Queued, OfSeller, Lowest
<1>2. Keyed(Place, Q) /\ Keyed(Place, T)
  BY <1>1, PlacesDiffer, KeyedSubset
<1>3. Limit \in Nat
  BY StoreViewsAssumption
<1>4. Cardinality(Q) \in Nat /\ Cardinality(T) = IF Cardinality(Q) < Limit THEN Cardinality(Q) ELSE Limit
  BY <1>2, <1>3, LowestCount, RankType
<1>5. /\ Queue(s, Limit) \in Seq(T) /\ Len(Queue(s, Limit)) = Cardinality(T)
      /\ ToSet(Queue(s, Limit)) = T
  BY <1>2, RankedSequence DEF Queue, ToSet
<1>6. DOMAIN records \subseteq Nat
  BY DEF StoresInv, Domains, StoresTypeOK
<1>7. ASSUME NEW i \in OfSeller(s), records[i].status \notin Final, i \notin T
      PROVE  Len(Queue(s, Limit)) = Limit /\ \A j \in T : Place[j] < Place[i]
  <2>1. i \in Q
    BY <1>7, OfRecord DEF Queued, QueueStatuses, OfSeller, Statuses
  <2>2. Rank(Place, Q, i) \in 0..(Cardinality(Q) - 1) /\ ~(Rank(Place, Q, i) < Limit)
    BY <1>2, <1>7, <2>1, RankType DEF Lowest
  <2>3. Cardinality(T) = Limit
    BY <1>3, <1>4, <2>2
  <2>4. ASSUME NEW j \in T PROVE Place[j] < Place[i]
    <3>1. j \in Q /\ ~(Place[i] < Place[j])
      BY <1>1, <1>2, <1>3, <1>7, <2>1, LowestClosed
    <3>2. Place[i] \in Int /\ Place[j] \in Int /\ Place[i] # Place[j]
      BY <1>2, <1>7, <2>1, <3>1 DEF Keyed
    <3> QED
      BY <3>1, <3>2
  <2> QED
    BY <1>5, <2>3, <2>4
<1>8. Queue(s, Limit) \in Seq(Nat)
  <2>1. T \subseteq Nat
    BY <1>1, <1>6
  <2> QED
    BY <1>5, <2>1, SeqGrows
<1> QED
  BY <1>5, <1>7, <1>8

\* The recent records are records of the seller; the newest of the good ones
\* is one of them.
LEMMA NewestRead ==
    ASSUME StoresInv, NEW s
    PROVE  /\ Cardinality(Recent(s, Limit)) \in Nat
           /\ Cardinality(Recent(s, Limit)) <= Cardinality(OfSeller(s))
           /\ LastSuccess(s) \in Nat
           /\ Good(s) # {} => LastSuccess(s) # 0
<1>1. /\ OfSeller(s) \subseteq DOMAIN records /\ Good(s) \subseteq DOMAIN records
  BY DEF OfSeller, Good
<1>2. Keyed(Newest, OfSeller(s)) /\ Keyed(Newest, Good(s))
  BY <1>1, PlacesDiffer
<1>3. Limit \in Nat /\ 1 \in Nat
  BY StoreViewsAssumption
<1>4. Cardinality(OfSeller(s)) \in Nat /\ Cardinality(Good(s)) \in Nat
  BY <1>2, RankType
<1>5. Cardinality(Recent(s, Limit)) =
        IF Cardinality(OfSeller(s)) < Limit THEN Cardinality(OfSeller(s)) ELSE Limit
  BY <1>2, <1>3, LowestCount DEF Recent
<1>6. ASSUME Good(s) # {} PROVE LastSuccess(s) \in Good(s)
  <2> DEFINE T == Lowest(Newest, Good(s), 1)
  <2>1. Cardinality(Good(s)) # 0
    BY <1>2, <1>6, FS_EmptySet DEF Keyed
  <2>2. Cardinality(T) = 1
    BY <1>2, <1>3, <1>4, <2>1, LowestCount
  <2>3. T # {}
    BY <2>2, FS_EmptySet
  <2>4. LastSuccess(s) \in T
    BY <1>6, <2>3 DEF LastSuccess
  <2> QED
    BY <2>4 DEF Lowest
<1>7. \A i \in DOMAIN records : i \in Nat /\ i # 0
  BY DEF StoresInv, Domains, StoresTypeOK
<1>8. Good(s) = {} => LastSuccess(s) = 0
  BY DEF LastSuccess
<1>9. LastSuccess(s) \in Nat /\ (Good(s) # {} => LastSuccess(s) # 0)
  BY <1>1, <1>6, <1>7, <1>8
<1> QED
  BY <1>3, <1>4, <1>5, <1>9

-----------------------------------------------------------------------------
SummaryPcs == {"counts", "amount", "last", "attempts", "summary"}
PagePcs == {"queue", "page"}
Counts == [Statuses -> Nat]
SummaryViews == [pc: SummaryPcs, seller: Sellers, told: Nat, recent: Nat, counts: Counts,
                 amount: Nat, last: Nat, attempts: Nat]
PageViews == [pc: PagePcs, seller: Sellers, items: Seq(Nat), place: Seq(Nat),
              waiting: SUBSET Nat, count: Nat]

\* What is still to be read cannot contradict what has been read: each fact
\* relates the one to the other until the query is answered, and then stays.
SummaryTrue(v) ==
    /\ v.pc \in {"counts", "amount"} => v.told <= AmountOf(v.seller)
    /\ v.pc = "counts" => v.recent <= Cardinality(OfSeller(v.seller))
    /\ v.pc # "counts" => v.recent <= Total(v.counts)
    /\ v.pc \in {"amount", "last"} => (v.counts["settled"] > 0 => Good(v.seller) # {})
    /\ v.pc \in {"amount", "last", "attempts"} =>
          v.counts["settled"] + v.counts["settle_failed"] <= AttemptCount(v.seller)
    /\ v.pc \in {"last", "attempts", "summary"} =>
          v.told <= v.amount /\ v.amount <= MovedAmount(v.seller)
    /\ v.pc \in {"attempts", "summary"} => (v.counts["settled"] > 0 => v.last # 0)
    /\ v.pc = "summary" => v.counts["settled"] + v.counts["settle_failed"] <= v.attempts

PageTrue(v) ==
    /\ v.waiting \subseteq OfSeller(v.seller)
    /\ Shown(v)
    /\ v.pc = "page" /\ v.count = 0 => \A i \in v.waiting : records[i].status \in Final

\* The inductive invariant of what the operator has read.
ViewInv ==
    \/ view = NoView
    \/ view \in SummaryViews /\ SummaryTrue(view)
    \/ view \in PageViews /\ PageTrue(view)

\* Others go on while the operator reads.
LEMMA ViewKept ==
    ASSUME StoresInv, StoresInv', Grows, ViewInv, UNCHANGED view PROVE ViewInv'
<1>1. CASE view = NoView
  BY <1>1 DEF ViewInv, NoView
<1>2. CASE view \in SummaryViews /\ SummaryTrue(view)
  <2>1. PICK v : v = view
    OBVIOUS
  <2>2. v \in SummaryViews /\ SummaryTrue(v) /\ Growing(v.seller)
    BY <1>2, <2>1, QueriesGrow
  <2>3. /\ v.told \in Nat /\ v.recent \in Nat /\ v.amount \in Nat /\ v.attempts \in Nat
        /\ v.counts["settled"] + v.counts["settle_failed"] \in Nat
    BY <2>2 DEF SummaryViews, Counts, Statuses, Final
  <2>4. /\ v.told <= AmountOf(v.seller) => v.told <= AmountOf(v.seller)'
        /\ v.recent <= Cardinality(OfSeller(v.seller)) => v.recent <= Cardinality(OfSeller(v.seller)')
        /\ Good(v.seller) # {} => Good(v.seller)' # {}
        /\ v.counts["settled"] + v.counts["settle_failed"] <= AttemptCount(v.seller) =>
              v.counts["settled"] + v.counts["settle_failed"] <= AttemptCount(v.seller)'
        /\ v.amount <= MovedAmount(v.seller) => v.amount <= MovedAmount(v.seller)'
    BY <2>2, <2>3 DEF Growing
  <2>5. SummaryTrue(v)'
    BY <2>2, <2>4 DEF SummaryTrue
  <2>6. view' = v
    BY <2>1
  <2> QED
    BY <2>2, <2>5, <2>6 DEF ViewInv, SummaryTrue
<1>3. CASE view \in PageViews /\ PageTrue(view)
  <2>1. PICK v : v = view
    OBVIOUS
  <2>2. v \in PageViews /\ PageTrue(v) /\ Growing(v.seller) /\ view' = v
    BY <1>3, <2>1, QueriesGrow
  <2>3. v.waiting \subseteq OfSeller(v.seller)' /\ Shown(v)
    BY <2>2 DEF PageTrue, Growing
  <2>4. v.pc = "page" /\ v.count = 0 => \A i \in v.waiting : records'[i].status \in Final
    BY <2>2 DEF PageTrue, Growing
  <2> QED
    BY <2>2, <2>3, <2>4 DEF ViewInv, PageTrue, Shown
<1> QED
  BY <1>1, <1>2, <1>3 DEF ViewInv

\* A query changes no table.
LEMMA ViewRead ==
    ASSUME UNCHANGED vars, NEW w, view' = w,
           \/ w = NoView
           \/ w \in SummaryViews /\ SummaryTrue(w)
           \/ w \in PageViews /\ PageTrue(w)
    PROVE  ViewInv'
<1>1. UNCHANGED <<records, attempts, touched, money>>
  BY DEF vars
<1>2. \A s : OfSeller(s)' = OfSeller(s)
  BY <1>1 DEF OfSeller
<1>3. \A s : Good(s)' = Good(s)
  BY <1>1, <1>2 DEF Good
<1>4. \A s : AmountOf(s)' = AmountOf(s)
  <2>1. Charge' = Charge
    BY <1>1 DEF Charge
  <2> QED
    BY <1>3, <2>1 DEF AmountOf, Units
<1>5. \A s : AttemptCount(s)' = AttemptCount(s)
  BY <1>1, <1>2 DEF AttemptCount
<1>6. \A s : MovedAmount(s)' = MovedAmount(s)
  BY <1>1 DEF MovedAmount, Units
<1>7. SummaryTrue(w) => SummaryTrue(w)'
  BY <1>2, <1>3, <1>4, <1>5, <1>6 DEF SummaryTrue
<1>8. PageTrue(w) => PageTrue(w)'
  BY <1>1, <1>2 DEF PageTrue, Shown
<1> QED
  BY <1>7, <1>8 DEF ViewInv, SummaryTrue, PageTrue, Shown

\* What the view is at a place of the summary.
LEMMA InSummary ==
    ASSUME ViewInv, view.pc \in SummaryPcs
    PROVE  view \in SummaryViews /\ SummaryTrue(view) /\ view.seller \in Sellers
<1>1. view # NoView /\ view \notin PageViews
  BY DEF NoView, PageViews, SummaryPcs, PagePcs
<1> QED
  BY <1>1 DEF ViewInv, SummaryViews

LEMMA ReadRecentKeeps ==
    ASSUME StoresInv, ViewInv, NEW s \in Sellers, ReadRecent(s) PROVE ViewInv'
<1>1. PICK w : w = view'
  OBVIOUS
<1>2. PICK told : told = ToldAmount(s)
  OBVIOUS
<1>3. PICK recent : recent = Cardinality(Recent(s, Limit))
  OBVIOUS
<1>4. PICK counts : counts = [st \in Statuses |-> 0]
  OBVIOUS
<1>5. w = [pc |-> "counts", seller |-> s, told |-> told, recent |-> recent, counts |-> counts,
           amount |-> 0, last |-> 0, attempts |-> 0]
  BY <1>1, <1>2, <1>3, <1>4 DEF ReadRecent
<1>6. told \in Nat /\ told <= AmountOf(s)
  BY <1>2, TablesFinite, TotalBetween DEF AllCounted, Counted
<1>7. recent \in Nat /\ recent <= Cardinality(OfSeller(s))
  BY <1>3, NewestRead
<1>8. counts \in Counts
  BY <1>4 DEF Counts
<1>9. w \in SummaryViews
  BY <1>5, <1>6, <1>7, <1>8 DEF SummaryViews, SummaryPcs
<1>10. SummaryTrue(w)
  BY <1>5, <1>6, <1>7 DEF SummaryTrue
<1>11. UNCHANGED vars
  BY DEF ReadRecent
<1> QED
  BY <1>1, <1>9, <1>10, <1>11, ViewRead

LEMMA ReadCountsKeeps ==
    ASSUME StoresInv, ViewInv, ReadCounts PROVE ViewInv'
<1>1. PICK v : v = view
  OBVIOUS
<1>2. PICK c : c = StatusCounts(v.seller)
  OBVIOUS
<1>3. v.pc = "counts" /\ view' = [v EXCEPT !.counts = c, !.pc = "amount"] /\ UNCHANGED vars
  BY <1>1, <1>2 DEF ReadCounts, Step
<1>4. v \in SummaryViews /\ SummaryTrue(v)
  BY <1>1, <1>3, InSummary DEF SummaryPcs
<1>5. /\ c \in Counts
      /\ Total(c) = Cardinality(OfSeller(v.seller))
      /\ c["settled"] > 0 => Good(v.seller) # {}
      /\ c["settled"] + c["settle_failed"] <= AttemptCount(v.seller)
  BY <1>2, CountsFacts DEF Counts
<1>6. PICK w : w = view'
  OBVIOUS
<1>7. /\ w \in SummaryViews /\ w.pc = "amount" /\ w.counts = c /\ w.seller = v.seller
      /\ w.told = v.told /\ w.recent = v.recent
  BY <1>3, <1>4, <1>5, <1>6 DEF SummaryViews, SummaryPcs
<1>8. SummaryTrue(w)
  BY <1>3, <1>4, <1>5, <1>7 DEF SummaryTrue
<1> QED
  BY <1>3, <1>6, <1>7, <1>8, ViewRead

LEMMA ReadAmountKeeps ==
    ASSUME StoresInv, ViewInv, ReadAmount PROVE ViewInv'
<1>1. PICK v : v = view
  OBVIOUS
<1>2. PICK n : n = AmountOf(v.seller)
  OBVIOUS
<1>3. v.pc = "amount" /\ view' = [v EXCEPT !.amount = n, !.pc = "last"] /\ UNCHANGED vars
  BY <1>1, <1>2 DEF ReadAmount, Step
<1>4. v \in SummaryViews /\ SummaryTrue(v)
  BY <1>1, <1>3, InSummary DEF SummaryPcs
<1>5. n \in Nat /\ n <= MovedAmount(v.seller)
  BY <1>2, TablesFinite, TotalBetween DEF AllCounted, Counted
<1>6. PICK w : w = view'
  OBVIOUS
<1>7. /\ w \in SummaryViews /\ w.pc = "last" /\ w.amount = n /\ w.seller = v.seller
      /\ w.told = v.told /\ w.recent = v.recent /\ w.counts = v.counts
  BY <1>3, <1>4, <1>5, <1>6 DEF SummaryViews, SummaryPcs
<1>8. SummaryTrue(w)
  BY <1>2, <1>3, <1>4, <1>5, <1>7 DEF SummaryTrue
<1> QED
  BY <1>3, <1>6, <1>7, <1>8, ViewRead

LEMMA ReadLastKeeps ==
    ASSUME StoresInv, ViewInv, ReadLast PROVE ViewInv'
<1>1. PICK v : v = view
  OBVIOUS
<1>2. PICK n : n = LastSuccess(v.seller)
  OBVIOUS
<1>3. v.pc = "last" /\ view' = [v EXCEPT !.last = n, !.pc = "attempts"] /\ UNCHANGED vars
  BY <1>1, <1>2 DEF ReadLast, Step
<1>4. v \in SummaryViews /\ SummaryTrue(v)
  BY <1>1, <1>3, InSummary DEF SummaryPcs
<1>5. n \in Nat /\ (Good(v.seller) # {} => n # 0)
  BY <1>2, NewestRead
<1>6. PICK w : w = view'
  OBVIOUS
<1>7. /\ w \in SummaryViews /\ w.pc = "attempts" /\ w.last = n /\ w.seller = v.seller
      /\ w.told = v.told /\ w.recent = v.recent /\ w.counts = v.counts /\ w.amount = v.amount
  BY <1>3, <1>4, <1>5, <1>6 DEF SummaryViews, SummaryPcs
<1>8. SummaryTrue(w)
  BY <1>3, <1>4, <1>5, <1>7 DEF SummaryTrue
<1> QED
  BY <1>3, <1>6, <1>7, <1>8, ViewRead

LEMMA ReadAttemptsKeeps ==
    ASSUME StoresInv, ViewInv, ReadAttempts PROVE ViewInv'
<1>1. PICK v : v = view
  OBVIOUS
<1>2. PICK n : n = AttemptCount(v.seller)
  OBVIOUS
<1>3. v.pc = "attempts" /\ view' = [v EXCEPT !.attempts = n, !.pc = "summary"] /\ UNCHANGED vars
  BY <1>1, <1>2 DEF ReadAttempts, Step
<1>4. v \in SummaryViews /\ SummaryTrue(v)
  BY <1>1, <1>3, InSummary DEF SummaryPcs
<1>5. n \in Nat
  BY <1>2, TablesFinite DEF AllCounted, Counted
<1>6. PICK w : w = view'
  OBVIOUS
<1>7. /\ w \in SummaryViews /\ w.pc = "summary" /\ w.attempts = n /\ w.seller = v.seller
      /\ w.told = v.told /\ w.recent = v.recent /\ w.counts = v.counts /\ w.amount = v.amount
      /\ w.last = v.last
  BY <1>3, <1>4, <1>5, <1>6 DEF SummaryViews, SummaryPcs
<1>8. SummaryTrue(w)
  BY <1>2, <1>3, <1>4, <1>7 DEF SummaryTrue
<1> QED
  BY <1>3, <1>6, <1>7, <1>8, ViewRead

LEMMA ReadQueueKeeps ==
    ASSUME StoresInv, ViewInv, NEW s \in Sellers, ReadQueue(s) PROVE ViewInv'
<1>1. PICK w : w = view'
  OBVIOUS
<1>2. PICK items : items = Queue(s, Limit)
  OBVIOUS
<1>3. PICK waiting : waiting = {i \in OfSeller(s) : records[i].status \notin Final}
  OBVIOUS
<1>4. PICK place : place = Place
  OBVIOUS
<1>5. w = [pc |-> "queue", seller |-> s, items |-> items, place |-> place, waiting |-> waiting, count |-> 0]
  BY <1>1, <1>2, <1>3, <1>4 DEF ReadQueue
<1>6. items \in Seq(Nat)
  BY <1>2, PageRead
<1>7. place \in Seq(Nat)
  BY <1>4, PlacesDiffer
<1>8. waiting \in SUBSET Nat /\ waiting \subseteq OfSeller(s)
  BY <1>3 DEF OfSeller, StoresInv, Domains, StoresTypeOK
<1>9. w \in PageViews
  BY <1>5, <1>6, <1>7, <1>8 DEF PageViews, PagePcs
<1>10. \A i \in waiting :
         \/ i \in ToSet(items)
         \/ Len(items) = Limit /\ \A j \in ToSet(items) : place[j] < place[i]
  BY <1>2, <1>3, <1>4, PageRead
<1>11. PageTrue(w)
  BY <1>5, <1>8, <1>10 DEF PageTrue, Shown
<1>12. UNCHANGED vars
  BY DEF ReadQueue
<1> QED
  BY <1>1, <1>9, <1>11, <1>12, ViewRead

LEMMA ReadQueueCountsKeeps ==
    ASSUME StoresInv, ViewInv, ReadQueueCounts PROVE ViewInv'
<1>1. PICK v : v = view
  OBVIOUS
<1>2. PICK n : n = QueueCount(v.seller)
  OBVIOUS
<1>3. v.pc = "queue" /\ view' = [v EXCEPT !.count = n, !.pc = "page"] /\ UNCHANGED vars
  BY <1>1, <1>2 DEF ReadQueueCounts, Step
<1>4. v \in PageViews /\ PageTrue(v)
  <2>1. view # NoView /\ view \notin SummaryViews
    BY <1>1, <1>3 DEF NoView, SummaryViews, SummaryPcs
  <2> QED
    BY <1>1, <2>1 DEF ViewInv
<1>5. Queued(v.seller) \subseteq OfSeller(v.seller) /\ IsFiniteSet(Queued(v.seller))
  <2>1. Queued(v.seller) \subseteq OfSeller(v.seller)
    BY DEF Queued
  <2>2. IsFiniteSet(OfSeller(v.seller))
    BY TablesFinite DEF AllCounted, Counted
  <2> QED
    BY <2>1, <2>2, FS_Subset
<1>6. n \in Nat /\ (n = 0 => Queued(v.seller) = {})
  BY <1>2, <1>5, FS_CardinalityType, FS_EmptySet DEF QueueCount
<1>7. ASSUME n = 0, NEW i \in v.waiting PROVE records[i].status \in Final
  <2>1. i \in OfSeller(v.seller)
    BY <1>4 DEF PageTrue
  <2>2. records[i].status \in Statuses /\ records[i].status \notin QueueStatuses
    BY <1>6, <1>7, <2>1, OfRecord DEF OfSeller, Queued
  <2> QED
    BY <2>2 DEF Statuses, QueueStatuses
<1>8. PICK w : w = view'
  OBVIOUS
<1>9. /\ w \in PageViews /\ w.pc = "page" /\ w.count = n /\ w.seller = v.seller
      /\ w.items = v.items /\ w.place = v.place /\ w.waiting = v.waiting
  BY <1>3, <1>4, <1>6, <1>8 DEF PageViews, PagePcs
<1>10. PageTrue(w)
  BY <1>4, <1>7, <1>9 DEF PageTrue, Shown
<1> QED
  BY <1>3, <1>8, <1>9, <1>10, ViewRead

LEMMA NextView ==
    ASSUME StoresInv, StoresInv', ViewInv, [NextViews]_allvars PROVE ViewInv'
<1>1. CASE Next /\ UNCHANGED view
  BY <1>1, TablesGrow, ViewKept
<1>2. CASE \E s \in Sellers : ReadRecent(s) \/ ReadQueue(s)
  BY <1>2, ReadRecentKeeps, ReadQueueKeeps
<1>3. CASE ReadCounts \/ ReadAmount \/ ReadLast \/ ReadAttempts
  BY <1>3, ReadCountsKeeps, ReadAmountKeeps, ReadLastKeeps, ReadAttemptsKeeps
<1>4. CASE ReadQueueCounts
  BY <1>4, ReadQueueCountsKeeps
<1>5. CASE Seen
  BY <1>5, ViewRead DEF Seen
<1>6. CASE UNCHANGED allvars
  <2>1. UNCHANGED vars /\ UNCHANGED view
    BY <1>6 DEF allvars
  <2>2. Grows
    BY <2>1, TablesGrow
  <2> QED
    BY <2>1, <2>2, ViewKept
<1> QED
  BY <1>1, <1>2, <1>3, <1>4, <1>5, <1>6 DEF NextViews

\* What an operator reads misleads him neither about money nor about work
\* that waits, although the queries are of different moments: the total holds
\* what clients had been told and nothing that was not paid, the parts of the
\* summary agree in the order in which they were read, every open payment is
\* on the page of the queue or behind a full one, and a count of zero means
\* that all of them have an outcome.  For any number of sellers, payments,
\* requests and processes, any amounts and any limit of a page.
THEOREM OperatorNotMisled == SpecViews => []ViewsTrue
<1>1. InitViews => StoresInv /\ ViewInv
  BY InitStores DEF InitViews, ViewInv
<1>2. StoresInv /\ ViewInv /\ [NextViews]_allvars => StoresInv' /\ ViewInv'
  <2> SUFFICES ASSUME StoresInv, ViewInv, [NextViews]_allvars PROVE StoresInv' /\ ViewInv'
    OBVIOUS
  <2>1. [Next]_vars
    BY DEF NextViews, allvars, ReadRecent, ReadQueue, ReadCounts, ReadAmount, ReadLast, ReadAttempts,
           ReadQueueCounts, Seen, Step
  <2>2. StoresInv'
    BY <2>1, NextStores
  <2> QED
    BY <2>2, NextView
<1>3. StoresInv /\ ViewInv => ViewsTrue
  <2> SUFFICES ASSUME StoresInv, ViewInv PROVE ViewsTrue
    OBVIOUS
  <2>1. CASE view = NoView
    <3>1. view.pc = "idle"
      BY <2>1 DEF NoView
    <3> QED
      BY <3>1 DEF ViewsTrue, TotalTrue, SummaryOrdered, QueueShowsOpen, NothingHidden
  <2>2. CASE view \in SummaryViews /\ SummaryTrue(view)
    <3>1. view.pc # "page"
      BY <2>2 DEF SummaryViews, SummaryPcs
    <3>2. /\ view.told \in Nat /\ view.amount \in Nat /\ view.attempts \in Nat
          /\ view.counts["settled"] + view.counts["settle_failed"] \in Nat
      BY <2>2 DEF SummaryViews, Counts, Statuses, Final
    <3>3. TotalTrue /\ SummaryOrdered
      BY <2>2, <3>2 DEF SummaryTrue, TotalTrue, SummaryOrdered
    <3> QED
      BY <3>1, <3>3 DEF ViewsTrue, QueueShowsOpen, NothingHidden
  <2>3. CASE view \in PageViews /\ PageTrue(view)
    <3>1. view.pc # "summary"
      BY <2>3 DEF PageViews, PagePcs
    <3> QED
      BY <2>3, <3>1 DEF ViewsTrue, TotalTrue, SummaryOrdered, QueueShowsOpen, NothingHidden,
                        PageTrue, Shown
  <2> QED
    BY <2>1, <2>2, <2>3 DEF ViewInv
<1> QED
  BY <1>1, <1>2, <1>3, PTL DEF SpecViews
=============================================================================
