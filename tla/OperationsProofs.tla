-------------------------- MODULE OperationsProofs --------------------------
(***************************************************************************)
(* Proofs about those who look after open settlements: the authorisation   *)
(* of operators (OpsAuth), their actions on a record (OperatorControl) and *)
(* the batches of the reconciler (Runner).                                 *)
(***************************************************************************)
EXTENDS Operations, RankingProofs

-----------------------------------------------------------------------------
(***************************************************************************)
(* Authorisation.                                                          *)
(***************************************************************************)
AuthPcs == {"idle", "token", "check", "401", "403", "503", "admitted"}
Bodies == {"nothing", "keys", "object"}
Asks == 0..Len(Permitting)
Tokens == Keys \cup {"none"}
Https == [pc: AuthPcs, key: Tokens, valid: BOOLEAN, ask: Asks, held: BOOLEAN]
Caches == [body: Bodies, keys: SUBSET Keys, left: 0..Ttl]

AuthDomains ==
    /\ published \subseteq Keys
    /\ gone \in [Keys -> 0..Ttl]
    /\ cache \in Caches
    /\ http \in [Callers -> Https]

\* A key that the copy still holds has not been withdrawn for longer than the
\* copy is old.
CopyAge ==
    \A k \in cache.keys \ published : cache.left > 0 => gone[k] + cache.left <= Ttl

\* A request that is being checked asks of a relation there is, and remembers
\* that the operator has, or had, one that grants the permission.
HeldNoted(q) ==
    /\ q.pc = "check" => q.ask # 0 /\ (A!PermittingSet \cap roles # {} => q.held)
    /\ q.pc = "admitted" => q.held

\* The inductive invariant of OpsAuth.
AuthInv == AuthDomains /\ CopyAge /\ \A r \in Callers : HeldNoted(http[r])

LEMMA InitAuth == ASSUME A!OpsAuthAssumption, A!Init PROVE AuthInv
<1>1. AuthDomains /\ CopyAge
  BY DEF A!OpsAuthAssumption, A!Init, A!Idle, AuthDomains, CopyAge, AuthPcs, Bodies, Asks, Tokens,
         Https, Caches
<1>2. \A r \in Callers : HeldNoted(http[r])
  BY DEF A!Init, A!Idle, HeldNoted
<1> QED
  BY <1>1, <1>2 DEF AuthInv

\* Most steps move one request, by what it knows.
LEMMA HttpMoves ==
    ASSUME AuthInv, NEW r \in Callers, NEW q \in Https, http' = [http EXCEPT ![r] = q],
           HeldNoted(q), UNCHANGED <<published, gone, cache, roles>>
    PROVE  AuthInv'
<1>1. http \in [Callers -> Https] /\ \A o \in Callers : HeldNoted(http[o])
  BY DEF AuthInv, AuthDomains
<1>2. http' \in [Callers -> Https] /\ \A o \in Callers : http'[o] = IF o = r THEN q ELSE http[o]
  BY <1>1
<1>3. AuthDomains' /\ CopyAge'
  BY <1>2 DEF AuthInv, AuthDomains, CopyAge
<1>4. \A o \in Callers : HeldNoted(http[o])'
  BY <1>1, <1>2 DEF HeldNoted
<1> QED
  BY <1>3, <1>4 DEF AuthInv

\* What a request that is not idle, or is, looks like.
LEMMA OfHttp ==
    ASSUME AuthInv, NEW r \in Callers
    PROVE  /\ http \in [Callers -> Https] /\ http[r] \in Https /\ HeldNoted(http[r])
           /\ cache \in Caches /\ published \subseteq Keys /\ gone \in [Keys -> 0..Ttl]
BY DEF AuthInv, AuthDomains

\* A request only changes its place, to one where nothing need be known.
LEMMA PlaceMoves ==
    ASSUME AuthInv, NEW r \in Callers, NEW pc \in AuthPcs \ {"check", "admitted"},
           http' = [http EXCEPT ![r].pc = pc], UNCHANGED <<published, gone, cache, roles>>
    PROVE  AuthInv'
<1> PICK q : q = [http[r] EXCEPT !.pc = pc]
  OBVIOUS
<1>1. http \in [Callers -> Https] /\ http[r] \in Https
  BY OfHttp
<1>2. q \in Https /\ q.pc = pc
  BY <1>1 DEF Https
<1>3. HeldNoted(q)
  BY <1>2 DEF HeldNoted
<1>4. http' = [http EXCEPT ![r] = q]
  BY <1>1
<1> QED
  BY <1>2, <1>3, <1>4, HttpMoves

LEMMA IdleHttp == ASSUME A!OpsAuthAssumption PROVE A!Idle \in Https /\ HeldNoted(A!Idle)
BY DEF A!Idle, Https, HeldNoted, AuthPcs, Tokens, Asks, A!OpsAuthAssumption

LEMMA ArriveKeeps ==
    ASSUME AuthInv, NEW r \in Callers, NEW k \in Tokens, NEW valid \in BOOLEAN,
           A!Arrive(r, k, valid), A!OpsAuthAssumption
    PROVE  AuthInv'
<1> PICK q : q = [A!Idle EXCEPT !.pc = "token", !.key = k, !.valid = valid]
  OBVIOUS
<1>1. /\ http' = [http EXCEPT ![r] = q] /\ UNCHANGED <<published, gone, cache, roles>>
  BY DEF A!Arrive
<1>2. "token" \in AuthPcs /\ A!Idle \in Https
  BY IdleHttp DEF AuthPcs
<1>3. q \in Https /\ q.pc = "token"
  BY <1>2 DEF Https
<1>4. HeldNoted(q)
  BY <1>3 DEF HeldNoted
<1> QED
  BY <1>1, <1>3, <1>4, HttpMoves

\* The copy that is used is as young as it should be.
LEMMA LoadFacts ==
    ASSUME A!OpsAuthAssumption, AuthInv
    PROVE  /\ A!Load \in Caches
           /\ \A k \in A!Load.keys \ published : A!Load.left > 0 /\ gone[k] + A!Load.left <= Ttl
<1>1. cache \in Caches /\ published \subseteq Keys /\ Ttl \in Nat /\ CopyAge
  BY DEF AuthInv, AuthDomains, A!OpsAuthAssumption
<1>2. CASE cache.left > 0
  BY <1>1, <1>2 DEF A!Load, CopyAge
<1>3. CASE ~(cache.left > 0) /\ feed = "keys"
  <2>1. A!Load = [body |-> "keys", keys |-> published, left |-> Ttl]
    BY <1>3 DEF A!Load
  <2> QED
    BY <1>1, <2>1 DEF Caches, Bodies
<1>4. CASE ~(cache.left > 0) /\ feed = "object"
  <2>1. A!Load = [body |-> "object", keys |-> {}, left |-> Ttl]
    BY <1>4 DEF A!Load
  <2> QED
    BY <1>1, <2>1 DEF Caches, Bodies
<1>5. CASE ~(cache.left > 0) /\ feed \notin {"keys", "object"}
  <2>1. A!Load = [body |-> "nothing", keys |-> {}, left |-> 0]
    BY <1>5 DEF A!Load
  <2> QED
    BY <1>1, <2>1 DEF Caches, Bodies
<1> QED
  BY <1>2, <1>3, <1>4, <1>5

\* Authentication refuses, or begins the check of a key that is in the copy.
LEMMA AuthenticateFacts ==
    ASSUME A!OpsAuthAssumption, AuthInv, NEW r \in Callers, A!Authenticate(r)
    PROVE  \/ \E pc \in AuthPcs \ {"check", "admitted"} : http' = [http EXCEPT ![r].pc = pc]
           \/ /\ http[r].key \in A!Load.keys
              /\ http' = [http EXCEPT ![r].pc = "check", ![r].ask = 1,
                                      ![r].held = A!PermittingSet \cap roles # {}]
<1>1. http \in [Callers -> Https]
  BY OfHttp
<1>2. {"401", "503"} \subseteq AuthPcs \ {"check", "admitted"}
  BY DEF AuthPcs
<1>3. CASE A!Load.body = "nothing"
  <2>1. CASE feed = "text"
    <3>1. http' = [http EXCEPT ![r].pc = "401"]
      BY <1>3, <2>1 DEF A!Authenticate
    <3> QED
      BY <1>2, <3>1
  <2>2. CASE feed # "text"
    <3>1. http' = [http EXCEPT ![r].pc = "503"]
      BY <1>3, <2>2 DEF A!Authenticate
    <3> QED
      BY <1>2, <3>1
  <2> QED
    BY <2>1, <2>2
<1>4. CASE /\ A!Load.body # "nothing"
           /\ A!Load.body = "object" \/ http[r].key \notin A!Load.keys \/ ~http[r].valid
  <2>1. http' = [http EXCEPT ![r].pc = "401"]
    BY <1>4 DEF A!Authenticate
  <2> QED
    BY <1>2, <2>1
<1>5. CASE /\ A!Load.body # "nothing"
           /\ ~(A!Load.body = "object" \/ http[r].key \notin A!Load.keys \/ ~http[r].valid)
  BY <1>5 DEF A!Authenticate
<1> QED
  BY <1>3, <1>4, <1>5

LEMMA AuthenticateKeeps ==
    ASSUME A!OpsAuthAssumption, AuthInv, NEW r \in Callers, A!Authenticate(r)
    PROVE  AuthInv'
<1> PICK q : q = http'[r]
  OBVIOUS
<1> PICK held : held = (A!PermittingSet \cap roles # {})
  OBVIOUS
<1>1. cache' = A!Load /\ UNCHANGED <<published, gone, roles>>
  BY DEF A!Authenticate
<1>2. http \in [Callers -> Https] /\ http[r] \in Https
  BY OfHttp
<1>3. 1 \in Asks /\ "check" \in AuthPcs /\ held \in BOOLEAN
  BY DEF A!OpsAuthAssumption, Asks, AuthPcs
<1>4. /\ q \in Https /\ http' = [http EXCEPT ![r] = q]
      /\ q.pc = "check" => q.ask = 1 /\ q.held = held
      /\ q.pc # "admitted"
  <2>1. CASE \E pc \in AuthPcs \ {"check", "admitted"} : http' = [http EXCEPT ![r].pc = pc]
    <3> PICK pc : pc \in AuthPcs \ {"check", "admitted"} /\ http' = [http EXCEPT ![r].pc = pc]
      BY <2>1
    <3> QED
      BY <1>2 DEF Https
  <2>2. CASE http' = [http EXCEPT ![r].pc = "check", ![r].ask = 1, ![r].held = held]
    BY <1>2, <1>3, <2>2 DEF Https
  <2> QED
    BY <2>1, <2>2, AuthenticateFacts
<1>5. AuthDomains'
  <2>1. http' \in [Callers -> Https]
    BY <1>2, <1>4
  <2> QED
    BY <1>1, <2>1, LoadFacts DEF AuthInv, AuthDomains
<1>6. CopyAge'
  BY <1>1, LoadFacts DEF CopyAge
<1>7. \A o \in Callers : HeldNoted(http[o])'
  <2>1. \A o \in Callers : HeldNoted(http[o])
    BY DEF AuthInv
  <2>2. \A o \in Callers : o # r => http'[o] = http[o]
    BY <1>2, <1>4
  <2>3. \A o \in Callers : o # r => HeldNoted(http[o])'
    BY <1>1, <2>1, <2>2 DEF HeldNoted
  <2>4. q.pc = "check" /\ A!PermittingSet \cap roles # {} => q.held = TRUE
    <3>1. A!PermittingSet \cap roles # {} => held = TRUE
      OBVIOUS
    <3> QED
      BY <1>4, <3>1
  <2>5. q.pc = "check" /\ A!PermittingSet \cap roles # {} => q.held
    BY <2>4
  <2>6. HeldNoted(q)'
    BY <1>1, <1>4, <2>5 DEF HeldNoted
  <2> QED
    BY <2>3, <2>6
<1> QED
  BY <1>5, <1>6, <1>7 DEF AuthInv

\* OpenFGA's answers: who is let in has a relation now.
LEMMA CheckKeeps ==
    ASSUME A!OpsAuthAssumption, AuthInv, NEW r \in Callers, A!Check(r)
    PROVE  AuthInv'
<1> PICK q : q = http'[r]
  OBVIOUS
<1>1. http[r].pc = "check" /\ UNCHANGED <<published, gone, cache, roles>>
  BY DEF A!Check
<1>2. http \in [Callers -> Https] /\ http[r] \in Https /\ HeldNoted(http[r])
  BY OfHttp
<1>3. http[r].ask \in Asks /\ http[r].ask # 0 /\ http[r].held \in BOOLEAN
  BY <1>1, <1>2 DEF HeldNoted, Https
<1>4. CASE Permitting[http[r].ask] \in roles
  <2>1. http' = [http EXCEPT ![r].pc = "admitted"]
    BY <1>4 DEF A!Check, A!Answered
  <2>2. Permitting[http[r].ask] \in A!PermittingSet
    BY <1>3 DEF A!PermittingSet, Asks, A!OpsAuthAssumption
  <2>3. http[r].held
    BY <1>1, <1>2, <1>4, <2>2 DEF HeldNoted
  <2>4. "admitted" \in AuthPcs
    BY DEF AuthPcs
  <2>5. q \in Https /\ q.pc = "admitted" /\ q.held = http[r].held /\ http' = [http EXCEPT ![r] = q]
    BY <1>2, <2>1, <2>4 DEF Https
  <2>6. HeldNoted(q)
    BY <2>3, <2>5 DEF HeldNoted
  <2> QED
    BY <1>1, <2>5, <2>6, HttpMoves
<1>5. CASE Permitting[http[r].ask] \notin roles /\ http[r].ask = Len(Permitting)
  <2>1. http' = [http EXCEPT ![r].pc = "403"]
    BY <1>5 DEF A!Check, A!Answered
  <2>2. "403" \in AuthPcs \ {"check", "admitted"}
    BY DEF AuthPcs
  <2> QED
    BY <1>1, <2>1, <2>2, PlaceMoves
<1>6. CASE Permitting[http[r].ask] \notin roles /\ http[r].ask # Len(Permitting)
  <2>1. http' = [http EXCEPT ![r].ask = http[r].ask + 1]
    BY <1>2, <1>6 DEF A!Check, A!Answered
  <2>2. http[r].ask + 1 \in Asks /\ http[r].ask + 1 # 0
    BY <1>3, <1>6 DEF Asks, A!OpsAuthAssumption
  <2>3. /\ q \in Https /\ q.ask = http[r].ask + 1 /\ q.held = http[r].held /\ q.pc = http[r].pc
        /\ http' = [http EXCEPT ![r] = q]
    BY <1>2, <2>1, <2>2 DEF Https
  <2>4. HeldNoted(q)
    BY <1>2, <2>2, <2>3 DEF HeldNoted
  <2> QED
    BY <1>1, <2>3, <2>4, HttpMoves
<1> QED
  BY <1>4, <1>5, <1>6

\* The issuer, the administrator and the time.
LEMMA KeysChangeKeeps ==
    ASSUME A!OpsAuthAssumption, AuthInv, NEW k \in Keys, A!Withdraw(k) \/ A!Publish(k)
    PROVE  AuthInv'
<1>1. /\ gone' = [gone EXCEPT ![k] = 0] /\ UNCHANGED <<cache, roles, http>>
      /\ published' = published \ {k} \/ published' = published \cup {k}
  BY DEF A!Withdraw, A!Publish
<1>2. /\ published \subseteq Keys /\ gone \in [Keys -> 0..Ttl] /\ Ttl \in Nat /\ CopyAge
      /\ cache.left \in 0..Ttl
  BY DEF AuthInv, AuthDomains, Caches, A!OpsAuthAssumption
<1>3. AuthDomains'
  BY <1>1, <1>2 DEF AuthInv, AuthDomains
<1>4. CopyAge'
  BY <1>1, <1>2, <1>3 DEF CopyAge, AuthDomains, Caches
<1>5. \A r \in Callers : HeldNoted(http[r])'
  BY <1>1 DEF AuthInv, HeldNoted
<1> QED
  BY <1>3, <1>4, <1>5 DEF AuthInv

LEMMA RolesChangeKeeps ==
    ASSUME AuthInv, A!RolesChange
    PROVE  AuthInv'
<1> PICK more : more = (A!PermittingSet \cap roles' # {})
  OBVIOUS
<1>1. /\ UNCHANGED <<published, gone, cache>>
      /\ http' = [r \in Callers |-> [http[r] EXCEPT !.held = @ \/ (http[r].pc = "check" /\ more)]]
  BY DEF A!RolesChange
<1>2. ASSUME NEW r \in Callers PROVE http'[r] \in Https /\ HeldNoted(http[r])'
  <2> PICK h : h = (http[r].held \/ (http[r].pc = "check" /\ more))
    OBVIOUS
  <2>1. http[r] \in Https /\ HeldNoted(http[r])
    BY OfHttp
  <2>2. h \in BOOLEAN /\ http'[r] = [http[r] EXCEPT !.held = h]
    BY <1>1
  <2>3. http'[r] \in Https /\ http'[r].held = h /\ http'[r].pc = http[r].pc /\ http'[r].ask = http[r].ask
    BY <2>1, <2>2 DEF Https
  <2> QED
    BY <2>1, <2>3 DEF HeldNoted
<1>3. http' \in [Callers -> Https]
  BY <1>1, <1>2
<1> QED
  BY <1>1, <1>2, <1>3 DEF AuthInv, AuthDomains, CopyAge

LEMMA AuthTickKeeps ==
    ASSUME A!OpsAuthAssumption, AuthInv, A!Tick
    PROVE  AuthInv'
<1> PICK n : n = IF cache.left > 0 THEN cache.left - 1 ELSE 0
  OBVIOUS
<1>1. /\ cache \in Caches /\ gone \in [Keys -> 0..Ttl] /\ Ttl \in Nat /\ CopyAge
      /\ published \subseteq Keys
  BY DEF AuthInv, AuthDomains, A!OpsAuthAssumption
<1>2. /\ cache' = [cache EXCEPT !.left = n] /\ UNCHANGED <<published, roles, http>>
      /\ gone' = [k \in Keys |-> IF k \notin published /\ gone[k] < Ttl THEN gone[k] + 1 ELSE gone[k]]
  BY DEF A!Tick
<1>3. n \in 0..Ttl /\ cache.left \in 0..Ttl /\ cache.keys \subseteq Keys
  BY <1>1 DEF Caches
<1>4. cache' \in Caches /\ cache'.left = n /\ cache'.keys = cache.keys
  BY <1>1, <1>2, <1>3 DEF Caches
<1>5. gone' \in [Keys -> 0..Ttl]
  BY <1>1, <1>2
<1>6. CopyAge'
  <2> SUFFICES ASSUME NEW k \in cache.keys \ published, n > 0 PROVE gone'[k] + n <= Ttl
    BY <1>2, <1>4 DEF CopyAge
  <2>1. n = cache.left - 1 /\ gone[k] + cache.left <= Ttl
    BY <1>1, <1>3 DEF CopyAge
  <2> QED
    BY <1>1, <1>2, <1>3, <2>1
<1>7. \A r \in Callers : HeldNoted(http[r])'
  BY <1>2 DEF AuthInv, HeldNoted
<1> QED
  BY <1>2, <1>4, <1>5, <1>6, <1>7 DEF AuthInv, AuthDomains

LEMMA NextAuth ==
    ASSUME A!OpsAuthAssumption, AuthInv, [A!Next]_(A!vars)
    PROVE  AuthInv'
<1>1. ASSUME NEW r \in Callers, NEW k \in Keys, NEW valid \in BOOLEAN, A!Arrive(r, k, valid)
      PROVE  AuthInv'
  BY <1>1, ArriveKeeps DEF Tokens
<1>2. ASSUME NEW r \in Callers, A!Arrive(r, "none", FALSE) PROVE AuthInv'
  BY <1>2, ArriveKeeps DEF Tokens
<1>3. ASSUME NEW r \in Callers, A!RefuseHeader(r) \/ A!CheckFails(r) PROVE AuthInv'
  BY <1>3, PlaceMoves DEF A!RefuseHeader, A!CheckFails, AuthPcs
<1>4. ASSUME NEW r \in Callers, A!Leave(r) PROVE AuthInv'
  BY <1>4, IdleHttp, HttpMoves DEF A!Leave
<1>5. CASE A!FeedChanges \/ UNCHANGED A!vars
  BY <1>5 DEF A!FeedChanges, A!vars, AuthInv, AuthDomains, CopyAge, HeldNoted
<1> QED
  BY <1>1, <1>2, <1>3, <1>4, <1>5, AuthenticateKeeps, CheckKeeps, KeysChangeKeeps,
     RolesChangeKeeps, AuthTickKeeps DEF A!Next

\* The inductive invariant holds.
LEMMA AuthInductive == ASSUME A!OpsAuthAssumption PROVE A!Spec => []AuthInv
BY InitAuth, NextAuth, PTL DEF A!Spec

\* Nobody is admitted to the operators' routes who did not have a relation
\* that grants the permission at some moment of the check, however roles
\* change between the answers of OpenFGA and whichever of them fails.
THEOREM AdmittedHadTheRole ==
    ASSUME A!OpsAuthAssumption PROVE A!Spec => []AdmittedHeld
<1>1. AuthInv => AdmittedHeld
  BY DEF AdmittedHeld, AuthInv, AuthDomains, HeldNoted, A!OpsAuthTypeOK, A!AdmittedHeld, Https, Caches, AuthPcs, Asks
<1> QED
  BY <1>1, AuthInductive, PTL

\* A token of a withdrawn key passes no longer than the cached copy of the
\* keys lasts, whatever the JWKS URL answered in between.
THEOREM WithdrawnKeysLapse == ASSUME A!OpsAuthAssumption PROVE A!Spec => A!WithdrawnLapses
<1> DEFINE Lapses ==
        \A r \in Callers : http[r].pc = "token" /\ http'[r].pc = "check" =>
            http[r].key \in published \/ gone[http[r].key] < Ttl
<1>1. ASSUME AuthInv, [A!Next]_(A!vars) PROVE [Lapses]_(A!vars)
  <2> SUFFICES ASSUME A!Next, NEW r \in Callers, http[r].pc = "token", http'[r].pc = "check"
               PROVE  http[r].key \in published \/ gone[http[r].key] < Ttl
    BY <1>1
  <2>1. http \in [Callers -> Https] /\ http[r] \in Https /\ gone \in [Keys -> 0..Ttl]
    BY <1>1, OfHttp
  <2>2. A!Authenticate(r)
    <3>1. ASSUME NEW o \in Callers,
                 \/ \E k \in Tokens, valid \in BOOLEAN : A!Arrive(o, k, valid)
                 \/ A!RefuseHeader(o) \/ A!Check(o) \/ A!CheckFails(o) \/ A!Leave(o)
          PROVE  FALSE
      <4>1. CASE o # r
        BY <2>1, <3>1, <4>1
        DEF A!Arrive, A!RefuseHeader, A!Check, A!Answered, A!CheckFails, A!Leave
      <4>2. CASE o = r
        <5>1. A!RefuseHeader(r)
          BY <3>1, <4>2 DEF A!Arrive, A!Check, A!CheckFails, A!Leave
        <5> QED
          BY <2>1, <5>1 DEF A!RefuseHeader, Https
      <4> QED
        BY <4>1, <4>2
    <3>2. ASSUME NEW o \in Callers, A!Authenticate(o), o # r PROVE FALSE
      BY <2>1, <3>2 DEF A!Authenticate
    <3>3. ASSUME A!RolesChange PROVE FALSE
      BY <2>1, <3>3 DEF A!RolesChange, Https
    <3>4. http' # http
      OBVIOUS
    <3> QED
      BY <3>1, <3>2, <3>3, <3>4
      DEF A!Next, Tokens, A!Withdraw, A!Publish, A!FeedChanges, A!Tick
  <2>3. http[r].key \in A!Load.keys
    <3>1. ASSUME NEW pc \in AuthPcs \ {"check", "admitted"}, http' = [http EXCEPT ![r].pc = pc]
          PROVE  FALSE
      BY <2>1, <3>1 DEF Https
    <3> QED
      BY <1>1, <2>2, <3>1, AuthenticateFacts
  <2>4. A!Load \in Caches /\ Ttl \in Nat
    BY <1>1, LoadFacts DEF A!OpsAuthAssumption
  <2>5. http[r].key \in Keys /\ A!Load.left \in 0..Ttl
    BY <2>3, <2>4 DEF Caches
  <2>6. CASE http[r].key \notin published
    <3>1. A!Load.left > 0 /\ gone[http[r].key] + A!Load.left <= Ttl
      BY <1>1, <2>3, <2>6, LoadFacts
    <3> QED
      BY <2>1, <2>4, <2>5, <3>1
  <2> QED
    BY <2>6
<1> QED
  BY <1>1, AuthInductive, PTL DEF A!Spec, A!WithdrawnLapses

-----------------------------------------------------------------------------
(***************************************************************************)
(* The operators' actions.                                                 *)
(***************************************************************************)
RecStatuses == Claimable \cup {"absent", "settled", "settle_failed"}
Owners == Operators \cup Workers \cup {None}
Rows == [status: RecStatuses, owner: Owners, until: Nat, updated: Nat]

Done == {"committed", "200", "503", "gone"}
Pcs == Refused \cup Done \cup {"new", "waiting", "written"}
SomeAction == Actions \cup {"none"}
Asked == [pc: Pcs, action: SomeAction, now: Nat]
Events == [id: Requests, action: Actions, op: Operators]
Readings == [pc: {"idle", "claiming", "holds", "writing"}, run: Nat, now: Nat, until: Nat]

ControlDomains ==
    /\ clock \in Nat /\ clock <= MaxClock
    /\ rec \in Rows /\ rec.updated <= clock
    /\ lock \in Requests \cup {None}
    /\ trail \in Seq(Events)
    /\ req \in [Requests -> Asked]
    /\ work \in [Workers -> Readings]
    /\ engine \in BOOLEAN

\* The clocks that were read are not ahead.
NotAhead ==
    /\ \A r \in Requests : req[r].now <= clock
    /\ \A w \in Workers : work[w].now <= clock

\* Who has the row has decided by what is in it; what has begun is an action.
LockHeld ==
    \A r \in Requests :
        /\ req[r].pc = "written" <=> lock = r
        /\ req[r].pc = "written" => Allowed(req[r], OpOf[r])
        /\ req[r].pc \in {"waiting", "written"} => req[r].action \in Actions

\* An event is of a request that committed, and each has one.
TrailOfDone ==
    \A r \in Requests :
        /\ EventsOf(r) # {} => req[r].pc \in Done
        /\ req[r].pc \in {"200", "committed"} => EventsOf(r) # {}
        /\ \A i, j \in EventsOf(r) : i = j

\* The last event accounts for the owner, and the one before for a release or
\* a review.
OwnerClaimed ==
    rec.owner \in Operators =>
        trail # <<>> /\ Last(trail).action = "claim" /\ Last(trail).op = rec.owner

ClaimBefore ==
    \A i \in DOMAIN trail :
        trail[i].action # "claim" =>
            i > 1 /\ trail[i - 1].action = "claim" /\ trail[i - 1].op = trail[i].op

\* The inductive invariant of OperatorControl.
ControlInv ==
    /\ ControlDomains
    /\ NotAhead
    /\ LockHeld
    /\ TrailOfDone
    /\ OwnerClaimed
    /\ ClaimBefore

\* What the domains say of one request and of the record.
LEMMA OfControl ==
    ASSUME ControlInv, NEW r \in Requests
    PROVE  /\ req \in [Requests -> Asked] /\ req[r] \in Asked /\ req[r].now \in Nat
           /\ req[r].now <= clock /\ clock \in Nat /\ rec \in Rows /\ trail \in Seq(Events)
           /\ OpOf[r] \in Operators /\ r # None
<1>1. req \in [Requests -> Asked] /\ clock \in Nat /\ rec \in Rows /\ trail \in Seq(Events)
  BY DEF ControlInv, ControlDomains
<1>2. req[r] \in Asked /\ req[r].now <= clock
  BY <1>1 DEF ControlInv, NotAhead
<1>3. req[r].now \in Nat
  BY <1>2 DEF Asked
<1> QED
  BY <1>1, <1>2, <1>3, OperatorControlAssumption

\* A request that has nothing in hand.
LEMMA AtFacts ==
    ASSUME NEW pc \in Pcs
    PROVE  At(pc) \in Asked /\ At(pc).pc = pc /\ At(pc).now = 0
<1>1. "none" \in SomeAction
  BY DEF SomeAction
<1> QED
  BY <1>1 DEF At, Asked

LEMMA InitControl == ASSUME Init PROVE ControlInv
<1>1. PICK s \in Scanned \cup {"absent"} :
          rec = [status |-> s, owner |-> None, until |-> 0, updated |-> 0]
  BY DEF Init
<1>2. s \in RecStatuses /\ None \in Owners
  BY DEF RecStatuses, Owners, Scanned, Claimable
<1>3. rec \in Rows /\ rec.owner = None /\ rec.updated = 0
  BY <1>1, <1>2 DEF Rows
<1>4. At("new") \in Asked /\ At("new").pc = "new" /\ At("new").now = 0
  BY AtFacts DEF Pcs
<1>5. IdleWorker \in Readings /\ IdleWorker.now = 0
  BY DEF IdleWorker, Readings
<1>6. /\ clock = 0 /\ lock = None /\ trail = <<>> /\ req = [r \in Requests |-> At("new")]
      /\ work = [w \in Workers |-> IdleWorker] /\ engine \in BOOLEAN
  BY DEF Init
<1>7. 0 <= MaxClock
  BY OperatorControlAssumption
<1>8. ControlDomains
  BY <1>3, <1>4, <1>5, <1>6, <1>7 DEF ControlDomains
<1>9. NotAhead
  BY <1>4, <1>5, <1>6 DEF NotAhead
<1>10. LockHeld
  BY <1>4, <1>6, OperatorControlAssumption DEF LockHeld
<1>11. TrailOfDone /\ OwnerClaimed /\ ClaimBefore
  BY <1>3, <1>4, <1>6, OperatorControlAssumption DEF TrailOfDone, OwnerClaimed, ClaimBefore, EventsOf
<1> QED
  BY <1>8, <1>9, <1>10, <1>11 DEF ControlInv

-----------------------------------------------------------------------------
\* A request moves that has not the row and does not take it.
LEMMA RequestMoves ==
    ASSUME ControlInv, NEW r \in Requests, NEW q \in Asked, req' = [req EXCEPT ![r] = q],
           q.now <= clock, req[r].pc # "written", q.pc # "written",
           q.pc = "waiting" => q.action \in Actions,
           EventsOf(r) # {} => q.pc \in Done,
           q.pc \in {"200", "committed"} => EventsOf(r) # {},
           UNCHANGED <<clock, rec, lock, trail, work, engine>>
    PROVE  ControlInv'
<1>1. req \in [Requests -> Asked]
  BY OfControl
<1>2. req' \in [Requests -> Asked] /\ \A o \in Requests : req'[o] = IF o = r THEN q ELSE req[o]
  BY <1>1
<1>3. \A o \in Requests : EventsOf(o)' = EventsOf(o)
  BY DEF EventsOf
<1>4. ControlDomains'
  BY <1>2 DEF ControlInv, ControlDomains
<1>5. NotAhead'
  BY <1>2 DEF ControlInv, NotAhead
<1>6. LockHeld'
  <2> SUFFICES ASSUME NEW o \in Requests
               PROVE  /\ req'[o].pc = "written" <=> lock = o
                      /\ req'[o].pc = "written" => Allowed(req[o], OpOf[o])'
                      /\ req'[o].pc \in {"waiting", "written"} => req'[o].action \in Actions
    BY DEF LockHeld
  <2>1. /\ req[o].pc = "written" <=> lock = o
        /\ req[o].pc = "written" => Allowed(req[o], OpOf[o])
        /\ req[o].pc \in {"waiting", "written"} => req[o].action \in Actions
    BY DEF ControlInv, LockHeld
  <2>2. CASE o = r
    BY <1>2, <2>1, <2>2
  <2>3. CASE o # r
    <3>1. req'[o] = req[o]
      BY <1>2, <2>3
    <3>2. Allowed(req[o], OpOf[o])' <=> Allowed(req[o], OpOf[o])
      BY <3>1 DEF Allowed, MayClaim, MayReview
    <3> QED
      BY <2>1, <3>1, <3>2
  <2> QED
    BY <2>2, <2>3
<1>7. TrailOfDone'
  BY <1>2, <1>3 DEF ControlInv, TrailOfDone
<1>8. OwnerClaimed' /\ ClaimBefore'
  BY DEF ControlInv, OwnerClaimed, ClaimBefore
<1> QED
  BY <1>4, <1>5, <1>6, <1>7, <1>8 DEF ControlInv

\* An answer before there is an event, or after it.
LEMMA AnswerKeeps ==
    ASSUME ControlInv, NEW r \in Requests,
           Deny(r) \/ Refuse(r) \/ Detail(r) \/ (Crash(r) /\ req[r].pc # "written")
    PROVE  ControlInv'
<1>1. PICK pc : /\ req' = [req EXCEPT ![r] = At(pc)]
                /\ \/ req[r].pc \in {"new", "waiting"} /\ pc \in {"4xx", "404", "409", "503", "gone"}
                   \/ req[r].pc = "committed" /\ pc \in {"200", "503", "gone"}
  BY DEF Deny, Refuse, Detail, Crash
<1>2. UNCHANGED <<clock, rec, lock, trail, work, engine>>
  <2>1. CASE Deny(r) \/ Refuse(r) \/ Detail(r)
    BY <2>1 DEF Deny, Refuse, Detail
  <2>2. CASE Crash(r) /\ req[r].pc # "written"
    <3>1. lock # r
      BY <2>2 DEF ControlInv, LockHeld
    <3> QED
      BY <2>2, <3>1 DEF Crash
  <2> QED
    BY <2>1, <2>2
<1>3. pc \in Pcs /\ pc \notin {"written", "waiting", "committed"}
  BY <1>1 DEF Pcs, Refused, Done
<1>4. /\ EventsOf(r) # {} => req[r].pc \in Done
      /\ req[r].pc = "committed" => EventsOf(r) # {}
  BY DEF ControlInv, TrailOfDone
<1>5. EventsOf(r) # {} => pc \in Done
  BY <1>1, <1>4 DEF Done
<1>6. pc = "200" => EventsOf(r) # {}
  BY <1>1, <1>4
<1>7. 0 <= clock
  BY OfControl
<1> QED
  BY <1>1, <1>2, <1>3, <1>5, <1>6, <1>7, AtFacts, RequestMoves

LEMMA AskKeeps ==
    ASSUME ControlInv, NEW r \in Requests, NEW action \in Actions, Ask(r, action)
    PROVE  ControlInv'
<1> PICK q : q = [pc |-> "waiting", action |-> action, now |-> clock]
  OBVIOUS
<1>1. /\ req[r].pc = "new" /\ req' = [req EXCEPT ![r] = q]
      /\ UNCHANGED <<clock, rec, lock, trail, work, engine>>
  BY DEF Ask
<1>2. "waiting" \in Pcs /\ action \in SomeAction /\ clock \in Nat
  BY OfControl DEF Pcs, SomeAction
<1>3. q \in Asked /\ q.pc = "waiting" /\ q.now <= clock /\ q.action \in Actions
  BY <1>2 DEF Asked
<1>4. EventsOf(r) = {}
  BY <1>1 DEF ControlInv, TrailOfDone, Done
<1> QED
  BY <1>1, <1>3, <1>4, RequestMoves

\* The row is taken: nobody else has it.
LEMMA LockKeeps ==
    ASSUME ControlInv, NEW r \in Requests, LockRow(r)
    PROVE  ControlInv'
<1> PICK q : q = [req[r] EXCEPT !.pc = "written"]
  OBVIOUS
<1>1. /\ req[r].pc = "waiting" /\ lock = None /\ Allowed(req[r], OpOf[r]) /\ lock' = r
      /\ UNCHANGED <<clock, rec, trail, work, engine>>
      /\ req' = [req EXCEPT ![r].pc = "written"]
  BY DEF LockRow
<1>2. req \in [Requests -> Asked] /\ req[r] \in Asked /\ r # None /\ "written" \in Pcs
  BY OfControl DEF Pcs
<1>3. q \in Asked /\ q.pc = "written" /\ q.action = req[r].action /\ q.now = req[r].now
  BY <1>2 DEF Asked
<1>4. req' \in [Requests -> Asked] /\ \A o \in Requests : req'[o] = IF o = r THEN q ELSE req[o]
  BY <1>1, <1>2, <1>3
<1>5. \A o \in Requests : EventsOf(o)' = EventsOf(o)
  BY <1>1 DEF EventsOf
<1>6. ControlDomains'
  BY <1>1, <1>4 DEF ControlInv, ControlDomains
<1>7. NotAhead'
  BY <1>1, <1>3, <1>4 DEF ControlInv, NotAhead
<1>8. LockHeld'
  <2>1. \A o \in Requests : req[o].pc # "written"
    BY <1>1, OperatorControlAssumption DEF ControlInv, LockHeld
  <2>2. Allowed(q, OpOf[r])'
    BY <1>1, <1>3 DEF Allowed, MayClaim, MayReview
  <2>3. \A o \in Requests : req[o].pc \in {"waiting", "written"} => req[o].action \in Actions
    BY DEF ControlInv, LockHeld
  <2> QED
    BY <1>1, <1>3, <1>4, <2>1, <2>2, <2>3 DEF LockHeld
<1>9. TrailOfDone'
  <2>1. \A o \in Requests :
           /\ EventsOf(o) # {} => req[o].pc \in Done
           /\ req[o].pc \in {"200", "committed"} => EventsOf(o) # {}
           /\ \A i, j \in EventsOf(o) : i = j
    BY DEF ControlInv, TrailOfDone
  <2>2. EventsOf(r) = {}
    BY <1>1, <2>1 DEF Done
  <2>3. \A o \in Requests :
           /\ EventsOf(o)' # {} => req'[o].pc \in Done
           /\ req'[o].pc \in {"200", "committed"} => EventsOf(o)' # {}
    BY <1>3, <1>4, <1>5, <2>1, <2>2
  <2>4. \A o \in Requests : \A i, j \in EventsOf(o)' : i = j
    BY <1>5, <2>1
  <2> QED
    BY <2>3, <2>4 DEF TrailOfDone
<1>10. OwnerClaimed' /\ ClaimBefore'
  BY <1>1 DEF ControlInv, OwnerClaimed, ClaimBefore
<1> QED
  BY <1>6, <1>7, <1>8, <1>9, <1>10 DEF ControlInv

\* The row is given back: nobody has it.
LEMMA Unlocked ==
    ASSUME ControlInv, NEW r \in Requests, req[r].pc = "written",
           NEW pc \in Pcs \ {"written", "waiting"}, req' = [req EXCEPT ![r] = At(pc)],
           lock' = None, UNCHANGED <<clock, work, engine>>
    PROVE  /\ req' \in [Requests -> Asked]
           /\ \A o \in Requests : req'[o] = IF o = r THEN At(pc) ELSE req[o]
           /\ LockHeld' /\ NotAhead' /\ EventsOf(r) = {}
<1> PICK q : q = At(pc)
  OBVIOUS
<1>1. q \in Asked /\ q.pc = pc /\ q.now = 0 /\ req \in [Requests -> Asked] /\ clock \in Nat
  BY AtFacts, OfControl
<1>2. req' \in [Requests -> Asked] /\ \A o \in Requests : req'[o] = IF o = r THEN q ELSE req[o]
  BY <1>1
<1>3. \A o \in Requests : req'[o].pc # "written"
  <2>1. \A o \in Requests : req[o].pc = "written" => lock = o
    BY DEF ControlInv, LockHeld
  <2>2. lock = r
    BY DEF ControlInv, LockHeld
  <2> QED
    BY <1>1, <1>2, <2>1, <2>2
<1>4. LockHeld'
  <2>1. \A o \in Requests : o # None
    BY OperatorControlAssumption
  <2>2. \A o \in Requests : req[o].pc \in {"waiting", "written"} => req[o].action \in Actions
    BY DEF ControlInv, LockHeld
  <2> QED
    BY <1>1, <1>2, <1>3, <2>1, <2>2 DEF LockHeld
<1>5. NotAhead'
  BY <1>1, <1>2 DEF ControlInv, NotAhead
<1>6. EventsOf(r) = {}
  BY DEF ControlInv, TrailOfDone, Done
<1> QED
  BY <1>2, <1>4, <1>5, <1>6

LEMMA AbortKeeps ==
    ASSUME ControlInv, NEW r \in Requests, Abort(r) \/ (Crash(r) /\ req[r].pc = "written")
    PROVE  ControlInv'
<1>1. req[r].pc = "written" /\ lock = r
  BY DEF Abort, ControlInv, LockHeld
<1>2. PICK pc : /\ pc \in {"503", "gone"} /\ req' = [req EXCEPT ![r] = At(pc)] /\ lock' = None
                /\ UNCHANGED <<clock, rec, trail, work, engine>>
  BY <1>1 DEF Abort, Crash
<1>3. pc \in Pcs \ {"written", "waiting"} /\ pc \in Done
  BY <1>2 DEF Pcs, Done
<1>4. /\ req' \in [Requests -> Asked]
      /\ \A o \in Requests : req'[o] = IF o = r THEN At(pc) ELSE req[o]
      /\ LockHeld' /\ NotAhead' /\ EventsOf(r) = {}
  BY <1>1, <1>2, <1>3, Unlocked
<1>5. ControlDomains'
  BY <1>2, <1>4 DEF ControlInv, ControlDomains
<1>6. TrailOfDone'
  <2>1. \A o \in Requests : EventsOf(o)' = EventsOf(o)
    BY <1>2 DEF EventsOf
  <2>2. At(pc).pc = pc
    BY DEF At
  <2> QED
    BY <1>2, <1>3, <1>4, <2>1, <2>2 DEF ControlInv, TrailOfDone
<1>7. OwnerClaimed' /\ ClaimBefore'
  BY <1>2 DEF ControlInv, OwnerClaimed, ClaimBefore
<1> QED
  BY <1>4, <1>5, <1>6, <1>7 DEF ControlInv

\* The commit of a request that has the row: the record as it was checked, and
\* its event.
LEMMA CommittedRow ==
    ASSUME ControlInv, NEW r \in Requests, req[r].pc = "written", rec' = Updated(req[r], OpOf[r])
    PROVE  /\ rec' \in Rows /\ rec'.updated <= clock
           /\ rec'.owner = IF req[r].action = "claim" THEN OpOf[r] ELSE None
           /\ req[r].action \in Actions
           /\ req[r].action = "claim" => rec.until <= req[r].now
           /\ req[r].action # "claim" => rec.owner = OpOf[r]
           /\ req[r].action = "manual_review" => rec.status = "unknown" /\ rec'.status = "manual_review"
<1>1. /\ req[r].now \in Nat /\ req[r].now <= clock /\ clock \in Nat /\ rec \in Rows
      /\ OpOf[r] \in Operators
  BY OfControl
<1>2. Allowed(req[r], OpOf[r]) /\ req[r].action \in Actions
  BY DEF ControlInv, LockHeld
<1>3. OpOf[r] \in Owners /\ None \in Owners /\ "manual_review" \in RecStatuses
  BY <1>1 DEF Owners, RecStatuses, Claimable
<1>4. CASE req[r].action = "claim"
  <2> PICK until : until = req[r].now + LeaseSeconds
    OBVIOUS
  <2>1. until \in Nat
    BY <1>1, OperatorControlAssumption
  <2>2. rec' = [rec EXCEPT !.owner = OpOf[r], !.until = until, !.updated = req[r].now]
    BY <1>4 DEF Updated
  <2>3. rec' \in Rows /\ rec'.updated = req[r].now /\ rec'.owner = OpOf[r]
    BY <1>1, <1>3, <2>1, <2>2 DEF Rows
  <2>4. rec.until <= req[r].now
    BY <1>2, <1>4 DEF Allowed, MayClaim
  <2> QED
    BY <1>1, <1>2, <1>4, <2>3, <2>4
<1>5. CASE req[r].action = "release"
  <2> PICK until : until = 0
    OBVIOUS
  <2>1. rec' = [rec EXCEPT !.owner = None, !.until = until, !.updated = req[r].now] /\ until \in Nat
    BY <1>5 DEF Updated
  <2>2. rec' \in Rows /\ rec'.updated = req[r].now /\ rec'.owner = None
    BY <1>1, <1>3, <2>1 DEF Rows
  <2>3. rec.owner = OpOf[r]
    BY <1>2, <1>5 DEF Allowed
  <2> QED
    BY <1>1, <1>2, <1>5, <2>2, <2>3
<1>6. CASE req[r].action = "manual_review"
  <2>1. rec' = [status |-> "manual_review", owner |-> None, until |-> 0, updated |-> req[r].now]
    BY <1>6 DEF Updated
  <2>2. rec' \in Rows /\ rec'.updated = req[r].now /\ rec'.owner = None /\ rec'.status = "manual_review"
    BY <1>1, <1>3, <2>1 DEF Rows
  <2>3. rec.owner = OpOf[r] /\ rec.status = "unknown"
    BY <1>2, <1>6 DEF Allowed, MayReview
  <2> QED
    BY <1>1, <1>2, <1>6, <2>2, <2>3
<1> QED
  BY <1>2, <1>4, <1>5, <1>6 DEF Actions

\* One more event.
LEMMA Appended ==
    ASSUME NEW s \in Seq(Events), NEW x \in Events
    PROVE  /\ Append(s, x) \in Seq(Events) /\ Append(s, x) # <<>>
           /\ Append(s, x) # s /\ Last(Append(s, x)) = x /\ Len(s) \in Nat
           /\ DOMAIN Append(s, x) = DOMAIN s \cup {Len(s) + 1}
           /\ Append(s, x)[Len(s) + 1] = x
           /\ \A i \in DOMAIN s : i \in 1..Len(s) /\ Append(s, x)[i] = s[i]
           /\ s # <<>> => Len(s) \in DOMAIN s /\ Last(s) = s[Len(s)]
<1>1. Len(Append(s, x)) = Len(s) + 1 /\ Len(s) \in Nat
  OBVIOUS
<1>2. Append(s, x) # s
  BY <1>1
<1> QED
  BY <1>1, <1>2 DEF Last

LEMMA CommitKeeps ==
    ASSUME ControlInv, NEW r \in Requests, NEW pc \in {"committed", "503"}, Committed(r, pc)
    PROVE  ControlInv'
<1> PICK e : e = Event(r)
  OBVIOUS
<1> PICK n : n = Len(trail) + 1
  OBVIOUS
<1>1. /\ req[r].pc = "written" /\ rec' = Updated(req[r], OpOf[r]) /\ trail' = Append(trail, e)
      /\ lock' = None /\ req' = [req EXCEPT ![r] = At(pc)] /\ UNCHANGED <<clock, work, engine>>
  BY DEF Committed
<1>2. pc \in Pcs \ {"written", "waiting"} /\ pc \in Done
  BY DEF Pcs, Done
<1>3. /\ req' \in [Requests -> Asked]
      /\ \A o \in Requests : req'[o] = IF o = r THEN At(pc) ELSE req[o]
      /\ LockHeld' /\ NotAhead' /\ EventsOf(r) = {}
  BY <1>1, <1>2, Unlocked
<1>4. /\ rec' \in Rows /\ rec'.updated <= clock
      /\ rec'.owner = IF req[r].action = "claim" THEN OpOf[r] ELSE None
      /\ req[r].action \in Actions
      /\ req[r].action # "claim" => rec.owner = OpOf[r]
  BY <1>1, CommittedRow
<1>5. trail \in Seq(Events) /\ OpOf[r] \in Operators
  BY OfControl
<1>6. e \in Events /\ e.id = r /\ e.action = req[r].action /\ e.op = OpOf[r]
  BY <1>4, <1>5 DEF Event, Events
<1>7. /\ trail' \in Seq(Events) /\ trail' # <<>> /\ Last(trail') = e /\ Len(trail) \in Nat
      /\ DOMAIN trail' = DOMAIN trail \cup {n} /\ trail'[n] = e
      /\ \A i \in DOMAIN trail : i \in 1..Len(trail) /\ trail'[i] = trail[i]
      /\ trail # <<>> => Len(trail) \in DOMAIN trail /\ Last(trail) = trail[Len(trail)]
  BY <1>1, <1>5, <1>6, Appended
<1>8. ControlDomains'
  BY <1>1, <1>3, <1>4, <1>7 DEF ControlInv, ControlDomains
<1>9. TrailOfDone'
  <2>1. EventsOf(r)' = {n}
    BY <1>3, <1>6, <1>7 DEF EventsOf
  <2>2. \A o \in Requests : o # r => EventsOf(o)' = EventsOf(o)
    BY <1>6, <1>7 DEF EventsOf
  <2>3. At(pc).pc = pc
    BY DEF At
  <2>4. \A o \in Requests :
           /\ EventsOf(o) # {} => req[o].pc \in Done
           /\ req[o].pc \in {"200", "committed"} => EventsOf(o) # {}
           /\ \A i, j \in EventsOf(o) : i = j
    BY DEF ControlInv, TrailOfDone
  <2>5. \A o \in Requests :
           /\ EventsOf(o)' # {} => req'[o].pc \in Done
           /\ req'[o].pc \in {"200", "committed"} => EventsOf(o)' # {}
    BY <1>2, <1>3, <2>1, <2>2, <2>3, <2>4
  <2>6. \A o \in Requests : \A i, j \in EventsOf(o)' : i = j
    BY <2>1, <2>2, <2>4
  <2> QED
    BY <2>5, <2>6 DEF TrailOfDone
<1>10. OwnerClaimed'
  BY <1>4, <1>6, <1>7, OperatorControlAssumption DEF OwnerClaimed
<1>11. ClaimBefore'
  <2>1. ASSUME e.action # "claim"
        PROVE  n > 1 /\ trail'[n - 1].action = "claim" /\ trail'[n - 1].op = e.op
    <3>1. trail # <<>> /\ Last(trail).action = "claim" /\ Last(trail).op = OpOf[r]
      BY <1>4, <1>5, <1>6, <2>1 DEF ControlInv, OwnerClaimed
    <3>2. n - 1 = Len(trail) /\ Len(trail) \in DOMAIN trail /\ Len(trail) >= 1
      BY <1>7, <3>1
    <3> QED
      BY <1>6, <1>7, <3>1, <3>2
  <2>2. ASSUME NEW i \in DOMAIN trail, trail[i].action # "claim"
        PROVE  i > 1 /\ trail'[i - 1].action = "claim" /\ trail'[i - 1].op = trail'[i].op
    <3>1. i > 1 /\ trail[i - 1].action = "claim" /\ trail[i - 1].op = trail[i].op
      BY <2>2 DEF ControlInv, ClaimBefore
    <3>2. i - 1 \in DOMAIN trail
      BY <1>5, <3>1
    <3> QED
      BY <1>7, <3>1, <3>2
  <2> QED
    BY <1>7, <2>1, <2>2 DEF ClaimBefore
<1> QED
  BY <1>3, <1>8, <1>9, <1>10, <1>11 DEF ControlInv

-----------------------------------------------------------------------------
\* The others write the record when no request has the row, and leave it to
\* nobody, to a worker, or as it was.
LEMMA RowMoves ==
    ASSUME ControlInv, lock = None, rec' \in Rows, rec'.updated <= clock,
           rec'.owner \in Operators => rec'.owner = rec.owner,
           work' \in [Workers -> Readings], \A w \in Workers : work'[w].now <= clock,
           engine' \in BOOLEAN, UNCHANGED <<clock, lock, trail, req>>
    PROVE  ControlInv'
<1>1. ControlDomains' /\ NotAhead'
  BY DEF ControlInv, ControlDomains, NotAhead
<1>2. LockHeld'
  <2>1. \A o \in Requests : req[o].pc # "written"
    BY OperatorControlAssumption DEF ControlInv, LockHeld
  <2> QED
    BY <2>1 DEF ControlInv, LockHeld
<1>3. TrailOfDone' /\ ClaimBefore'
  BY DEF ControlInv, TrailOfDone, ClaimBefore, EventsOf
<1>4. OwnerClaimed'
  BY DEF ControlInv, OwnerClaimed
<1> QED
  BY <1>1, <1>2, <1>3, <1>4 DEF ControlInv

LEMMA OfWorkers ==
    ASSUME ControlInv
    PROVE  /\ work \in [Workers -> Readings] /\ \A w \in Workers : work[w].now \in Nat /\ work[w].now <= clock
           /\ rec \in Rows /\ rec.updated <= clock /\ clock \in Nat /\ engine \in BOOLEAN
           /\ IdleWorker \in Readings /\ IdleWorker.now = 0
<1>1. IdleWorker \in Readings /\ IdleWorker.now = 0
  BY DEF IdleWorker, Readings
<1>2. work \in [Workers -> Readings]
  BY DEF ControlInv, ControlDomains
<1>3. \A w \in Workers : work[w].now \in Nat
  BY <1>2 DEF Readings
<1> QED
  BY <1>1, <1>2, <1>3 DEF ControlInv, ControlDomains, NotAhead

\* A record that is written anew has no owner.
LEMMA Closes ==
    ASSUME NEW s \in RecStatuses, NEW now \in Nat,
           rec' = [status |-> s, owner |-> None, until |-> 0, updated |-> now]
    PROVE  rec' \in Rows /\ rec'.updated = now /\ rec'.owner = None /\ rec'.status = s
<1>1. None \in Owners
  BY DEF Owners
<1> QED
  BY <1>1 DEF Rows

LEMMA ReadingsMove ==
    ASSUME ControlInv, NEW w \in Workers, NEW q \in Readings, q.now <= clock,
           work' = [work EXCEPT ![w] = q], UNCHANGED <<clock, rec, lock, trail, req, engine>>
    PROVE  ControlInv'
<1>1. work' \in [Workers -> Readings] /\ \A v \in Workers : work'[v].now <= clock
  BY OfWorkers
<1>2. ControlDomains' /\ NotAhead'
  BY <1>1 DEF ControlInv, ControlDomains, NotAhead
<1>3. LockHeld'
  BY DEF ControlInv, LockHeld, Allowed, MayClaim, MayReview
<1>4. TrailOfDone' /\ OwnerClaimed' /\ ClaimBefore'
  BY DEF ControlInv, TrailOfDone, OwnerClaimed, ClaimBefore, EventsOf
<1> QED
  BY <1>2, <1>3, <1>4 DEF ControlInv

LEMMA WorkerReadsKeeps ==
    ASSUME ControlInv, NEW w \in Workers, WorkerReads(w)
    PROVE  ControlInv'
<1>1. clock \in Nat
  BY OfWorkers
<1>2. PICK begun \in 0..clock :
         /\ work' = [work EXCEPT ![w] =
                       [pc |-> "claiming", run |-> begun, now |-> clock, until |-> begun + WorkerLease]]
         /\ UNCHANGED <<clock, rec, lock, trail, req, engine>>
  BY DEF WorkerReads
<1> PICK until : until = begun + WorkerLease
  OBVIOUS
<1> PICK q : q = [pc |-> "claiming", run |-> begun, now |-> clock, until |-> until]
  OBVIOUS
<1>3. begun \in Nat /\ until \in Nat
  BY <1>1, OperatorControlAssumption
<1>4. q \in Readings /\ q.now = clock
  BY <1>1, <1>3 DEF Readings
<1>5. q.now <= clock
  BY <1>1, <1>4
<1>6. work' = [work EXCEPT ![w] = q] /\ UNCHANGED <<clock, rec, lock, trail, req, engine>>
  BY <1>2
<1> QED
  BY <1>4, <1>5, <1>6, ReadingsMove

LEMMA WorkerDecidesKeeps ==
    ASSUME ControlInv, NEW w \in Workers, WorkerDecides(w)
    PROVE  ControlInv'
<1> PICK q : q = [work[w] EXCEPT !.pc = "writing", !.now = clock]
  OBVIOUS
<1>1. work' = [work EXCEPT ![w] = q] /\ UNCHANGED <<clock, rec, lock, trail, req, engine>>
  BY OfWorkers DEF WorkerDecides
<1>2. q \in Readings /\ q.now = clock /\ clock \in Nat
  BY OfWorkers DEF Readings
<1>3. q.now <= clock
  BY <1>2
<1> QED
  BY <1>1, <1>2, <1>3, ReadingsMove

LEMMA WorkerClaimsKeeps ==
    ASSUME ControlInv, NEW w \in Workers, WorkerClaims(w)
    PROVE  ControlInv' /\ (rec' # rec => rec.until <= clock)
<1> PICK q : q = work'[w]
  OBVIOUS
<1>1. lock = None /\ UNCHANGED <<clock, lock, trail, req, engine>>
  BY DEF WorkerClaims
<1>2. /\ work \in [Workers -> Readings] /\ work[w] \in Readings /\ work[w].until \in Nat
      /\ work[w].now \in Nat /\ work[w].now <= clock /\ rec \in Rows /\ clock \in Nat
      /\ rec.until \in Nat
  BY OfWorkers DEF Readings, Rows
<1>3. \/ /\ rec.until <= work[w].now
         /\ rec' = [rec EXCEPT !.owner = w, !.until = work[w].until]
         /\ work' = [work EXCEPT ![w] = [IdleWorker EXCEPT !.pc = "holds", !.until = work[w].until]]
      \/ rec' = rec /\ work' = [work EXCEPT ![w] = IdleWorker]
  BY DEF WorkerClaims
<1>4. w \in Owners /\ w \notin Operators
  BY OperatorControlAssumption DEF Owners
<1>5. /\ rec' \in Rows /\ rec'.updated <= clock
      /\ rec'.owner \in Operators => rec'.owner = rec.owner
  <2>1. CASE rec' = [rec EXCEPT !.owner = w, !.until = work[w].until]
    <3>1. rec' \in Rows /\ rec'.updated = rec.updated /\ rec'.owner = w
      BY <1>2, <1>4, <2>1 DEF Rows
    <3> QED
      BY <1>4, <3>1, OfWorkers
  <2>2. CASE rec' = rec
    BY <2>2, OfWorkers
  <2> QED
    BY <1>3, <2>1, <2>2
<1>6. q \in Readings /\ q.now <= clock /\ work' = [work EXCEPT ![w] = q]
  <2>1. CASE work' = [work EXCEPT ![w] = [IdleWorker EXCEPT !.pc = "holds", !.until = work[w].until]]
    <3> PICK h : h = [IdleWorker EXCEPT !.pc = "holds", !.until = work[w].until]
      OBVIOUS
    <3>1. h \in Readings /\ h.now = 0
      BY <1>2, OfWorkers DEF Readings, IdleWorker
    <3>2. work' = [work EXCEPT ![w] = h] /\ h.now <= clock
      BY <1>2, <2>1, <3>1
    <3>3. q = h
      BY <1>2, <3>2
    <3> QED
      BY <3>1, <3>2, <3>3
  <2>2. CASE work' = [work EXCEPT ![w] = IdleWorker]
    BY <1>2, <2>2, OfWorkers
  <2> QED
    BY <1>3, <2>1, <2>2
<1>7. work' \in [Workers -> Readings] /\ \A v \in Workers : work'[v].now <= clock
  BY <1>2, <1>6, OfWorkers
<1>8. ControlInv'
  BY <1>1, <1>5, <1>7, OfWorkers, RowMoves
<1> QED
  BY <1>2, <1>3, <1>8

LEMMA WorkerEndsKeeps ==
    ASSUME ControlInv, NEW w \in Workers, WorkerEnds(w)
    PROVE  ControlInv' /\ (rec' # rec => rec'.status # rec.status)
<1>1. /\ lock = None /\ UNCHANGED <<clock, lock, trail, req, engine>>
      /\ work' = [work EXCEPT ![w] = IdleWorker]
  BY DEF WorkerEnds
<1>2. work' \in [Workers -> Readings] /\ \A v \in Workers : work'[v].now <= clock
  BY <1>1, OfWorkers
<1>3. CASE rec' = rec
  BY <1>1, <1>2, <1>3, OfWorkers, RowMoves
<1>4. CASE rec' # rec
  <2>1. PICK s \in {"settled", "settle_failed", "unknown", "manual_review"} :
            /\ rec.status \in ReconcileFrom(s)
            /\ rec' = [status |-> s, owner |-> None, until |-> 0, updated |-> work[w].now]
    BY <1>4 DEF WorkerEnds
  <2>2. s \in RecStatuses /\ rec.status # s
    BY <2>1 DEF RecStatuses, Claimable, ReconcileFrom, Scanned, Active
  <2>3. rec' \in Rows /\ rec'.updated = work[w].now /\ rec'.owner = None /\ rec'.status = s
    BY <2>1, <2>2, OfWorkers, Closes
  <2>4. ControlInv'
    BY <1>1, <1>2, <2>3, OfWorkers, RowMoves, OperatorControlAssumption
  <2> QED
    BY <2>2, <2>3, <2>4
<1> QED
  BY <1>3, <1>4

LEMMA EngineKeeps ==
    ASSUME ControlInv, EngineFinishes
    PROVE  ControlInv' /\ (rec' # rec => rec'.status # rec.status)
<1>1. lock = None /\ UNCHANGED <<clock, lock, trail, req, work>> /\ engine' \in BOOLEAN
  BY DEF EngineFinishes
<1>2. CASE rec' = rec
  BY <1>1, <1>2, OfWorkers, RowMoves
<1>3. CASE rec' # rec
  <2>1. PICK s \in {"settled", "submitted", "settle_failed", "unknown"} :
            /\ rec.status \in FinishFrom(s)
            /\ rec' = [status |-> s, owner |-> None, until |-> 0, updated |-> clock]
    BY <1>3 DEF EngineFinishes
  <2>2. s \in RecStatuses /\ rec.status # s
    BY <2>1 DEF RecStatuses, Claimable, FinishFrom, Active
  <2>3. rec' \in Rows /\ rec'.updated = clock /\ rec'.owner = None /\ rec'.status = s
    BY <2>1, <2>2, OfWorkers, Closes
  <2>4. ControlInv'
    BY <1>1, <2>3, OfWorkers, RowMoves, OperatorControlAssumption
  <2> QED
    BY <2>2, <2>3, <2>4
<1> QED
  BY <1>2, <1>3

LEMMA TickKeeps ==
    ASSUME ControlInv, Tick \/ UNCHANGED vars
    PROVE  ControlInv'
<1>1. /\ UNCHANGED <<rec, lock, trail, req, work, engine>>
      /\ clock' = clock \/ (clock < MaxClock /\ clock' = clock + 1)
  BY DEF Tick, vars
<1>2. clock \in Nat /\ MaxClock \in Nat /\ clock' \in Nat /\ clock' >= clock /\ clock' <= MaxClock
  BY <1>1, OperatorControlAssumption DEF ControlInv, ControlDomains
<1>3. \A r \in Requests : req[r].now \in Nat /\ req[r].now <= clock
  BY OfControl
<1>4. rec.updated \in Nat
  BY DEF ControlInv, ControlDomains, Rows
<1>5. ControlDomains' /\ NotAhead'
  BY <1>1, <1>2, <1>3, <1>4, OfWorkers DEF ControlInv, ControlDomains, NotAhead
<1>6. LockHeld'
  BY <1>1 DEF ControlInv, LockHeld, Allowed, MayClaim, MayReview
<1>7. TrailOfDone' /\ OwnerClaimed' /\ ClaimBefore'
  BY <1>1 DEF ControlInv, TrailOfDone, OwnerClaimed, ClaimBefore, EventsOf
<1> QED
  BY <1>5, <1>6, <1>7 DEF ControlInv

LEMMA NextControl == ASSUME ControlInv, [Next]_vars PROVE ControlInv'
<1>1. ASSUME NEW r \in Requests, Commit(r) \/ CommitLost(r) PROVE ControlInv'
  BY <1>1, CommitKeeps DEF Commit, CommitLost
<1> QED
  BY <1>1, AnswerKeeps, AskKeeps, LockKeeps, AbortKeeps, WorkerReadsKeeps, WorkerClaimsKeeps,
     WorkerDecidesKeeps, WorkerEndsKeeps, EngineKeeps, TickKeeps DEF Next

\* The inductive invariant holds.
LEMMA ControlInductive == Spec => []ControlInv
BY InitControl, NextControl, PTL DEF Spec

\* Every operator action that took effect has its one event, what was refused
\* has none, and the trail accounts for who holds, released or reviewed the
\* record, wherever commits are lost, requests crash and workers interfere.
THEOREM ActionsAudited == Spec => []OperatorAudited
<1>1. ASSUME ControlInv PROVE OperatorAudited
  <2>1. OperatorControlTypeOK
    <3>1. rec.status \in RecStatuses /\ rec.owner \in Owners /\ rec.until \in Nat /\ rec.updated \in Nat
      BY <1>1 DEF ControlInv, ControlDomains, Rows
    <3>2. \A r \in Requests : req[r].pc \in Pcs
      BY <1>1 DEF ControlInv, ControlDomains, Asked
    <3>3. clock \in 0..MaxClock /\ rec.updated \in 0..clock
      BY <1>1, <3>1, OperatorControlAssumption DEF ControlInv, ControlDomains
    <3>4. Pcs = Refused \cup {"new", "waiting", "written", "committed", "200", "503", "gone"}
      BY DEF Pcs, Done
    <3> QED
      BY <1>1, <3>1, <3>2, <3>3, <3>4
      DEF OperatorControlTypeOK, RecStatuses, Owners, ControlInv, ControlDomains
  <2>2. AuditExact
    <3>1. \A r \in Requests :
             /\ req[r].pc \in {"200", "committed"} => EventsOf(r) # {}
             /\ req[r].pc \in Refused => EventsOf(r) = {}
             /\ \A i, j \in EventsOf(r) : i = j
      BY <1>1 DEF ControlInv, TrailOfDone, Refused, Done
    <3> QED
      BY <1>1, <3>1 DEF AuditExact, ControlInv, OwnerClaimed, ClaimBefore
  <2> QED
    BY <2>1, <2>2 DEF OperatorAudited
<1> QED
  BY <1>1, ControlInductive, PTL

\* A lease that runs is not taken over, not by a request or a worker that read
\* the clock before it waited for the row: it ends early only by its owner's
\* release, or because the record moves on.
THEOREM LeasesRespected == Spec => LeaseRespected
<1> DEFINE Respects ==
        rec.owner # None /\ rec.until > clock /\ rec'.owner # rec.owner =>
            \/ rec'.status # rec.status
            \/ rec'.owner = None /\ trail' # trail /\ Last(trail').op = rec.owner
<1>1. ASSUME ControlInv, [Next]_vars PROVE [Respects]_vars
  <2> SUFFICES ASSUME Next, rec.owner # None, rec.until > clock, rec'.owner # rec.owner,
                      rec'.status = rec.status
               PROVE  rec'.owner = None /\ trail' # trail /\ Last(trail').op = rec.owner
    BY <1>1
  <2>1. rec.until \in Nat /\ clock \in Nat /\ rec' # rec
    BY <1>1 DEF ControlInv, ControlDomains, Rows
  <2>2. ASSUME NEW r \in Requests, Commit(r) \/ CommitLost(r)
        PROVE  rec'.owner = None /\ trail' # trail /\ Last(trail').op = rec.owner
    <3> PICK e : e = Event(r)
      OBVIOUS
    <3>1. req[r].pc = "written" /\ rec' = Updated(req[r], OpOf[r]) /\ trail' = Append(trail, e)
      BY <2>2 DEF Commit, CommitLost, Committed
    <3>2. req[r].now \in Nat /\ req[r].now <= clock /\ trail \in Seq(Events) /\ OpOf[r] \in Operators
      BY <1>1, OfControl
    <3>3. /\ rec'.owner = IF req[r].action = "claim" THEN OpOf[r] ELSE None
          /\ req[r].action \in Actions
          /\ req[r].action = "claim" => rec.until <= req[r].now
          /\ req[r].action # "claim" => rec.owner = OpOf[r]
      BY <1>1, <3>1, CommittedRow
    <3>4. req[r].action # "claim" /\ rec.owner = OpOf[r] /\ rec'.owner = None
      BY <2>1, <3>2, <3>3
    <3>5. e \in Events /\ e.op = OpOf[r]
      BY <3>2, <3>3 DEF Event, Events
    <3>6. Last(trail') = e /\ trail' # trail
      BY <3>1, <3>2, <3>5, Appended
    <3> QED
      BY <3>4, <3>5, <3>6
  <2>3. ASSUME NEW w \in Workers, WorkerClaims(w) \/ WorkerEnds(w) PROVE FALSE
    BY <1>1, <2>1, <2>3, WorkerClaimsKeeps, WorkerEndsKeeps
  <2>4. ~EngineFinishes
    BY <1>1, <2>1, EngineKeeps
  <2> QED
    BY <2>1, <2>2, <2>3, <2>4
    DEF Next, Deny, LockRow, Refuse, Abort, Detail, Crash, Ask, WorkerReads, WorkerDecides, Tick
<1> QED
  BY <1>1, ControlInductive, PTL DEF Spec, LeaseRespected
-----------------------------------------------------------------------------
(***************************************************************************)
(* The reconciler's batches.                                               *)
(***************************************************************************)

\* Three lists of records, each in the order of place, and the turn in which
\* they are gone through side by side.
SideBySide(S, place, list, turn) ==
    /\ Keyed(place, S)
    /\ \A b \in 1..3 : list[b] \subseteq S
    /\ \A b, d \in 1..3 : \A r \in list[b] : r \in list[d] => b = d
    /\ \A b \in 1..3 : \A r \in list[b] : turn[r] = 3 * Rank(place, list[b], r) + b

\* what the lists hold
AllOf(list) == UNION {list[b] : b \in 1..3}

\* Records of the lists take turns one at a time.
LEMMA TurnsDiffer ==
    ASSUME NEW S, NEW place, NEW list, NEW turn, SideBySide(S, place, list, turn)
    PROVE  /\ \A b \in 1..3 : Keyed(place, list[b])
           /\ Keyed(turn, AllOf(list))
<1>1. \A b \in 1..3 : Keyed(place, list[b])
  BY KeyedSubset DEF SideBySide
<1>2. \A b \in 1..3 : \A r \in list[b] : Rank(place, list[b], r) \in Nat
  BY <1>1, RankType
<1>3. IsFiniteSet(AllOf(list))
  <2>1. AllOf(list) \subseteq S
    BY DEF SideBySide, AllOf
  <2> QED
    BY <2>1, FS_Subset DEF SideBySide, Keyed
<1>4. \A x \in AllOf(list) : turn[x] \in Int
  BY <1>2 DEF SideBySide, AllOf
<1>5. ASSUME NEW x \in AllOf(list), NEW y \in AllOf(list), turn[x] = turn[y]
      PROVE  x = y
  <2>1. PICK b \in 1..3 : x \in list[b]
    BY DEF AllOf
  <2>2. PICK d \in 1..3 : y \in list[d]
    BY DEF AllOf
  <2>3. 3 * Rank(place, list[b], x) + b = 3 * Rank(place, list[d], y) + d
    BY <1>5, <2>1, <2>2 DEF SideBySide
  <2>4. b = d /\ Rank(place, list[b], x) = Rank(place, list[d], y)
    BY <1>2, <2>1, <2>2, <2>3
  <2> QED
    BY <1>1, <2>1, <2>2, <2>4, RankInjective
<1> QED
  BY <1>1, <1>3, <1>4, <1>5 DEF Keyed

\* Where n are taken in turn, and some of a list are left, the n are taken,
\* and of another list at most one more than of this one.
LEMMA TurnsBalance ==
    ASSUME NEW S, NEW place, NEW list, NEW turn, SideBySide(S, place, list, turn),
           NEW n \in Nat, NEW b \in 1..3,
           Cardinality(Lowest(turn, AllOf(list), n) \cap list[b]) < Cardinality(list[b])
    PROVE  /\ Cardinality(Lowest(turn, AllOf(list), n)) = n
           /\ \A d \in 1..3 : Cardinality(Lowest(turn, AllOf(list), n) \cap list[d])
                                <= Cardinality(Lowest(turn, AllOf(list), n) \cap list[b]) + 1
<1> DEFINE U == AllOf(list)
           T == Lowest(turn, U, n)
           k == Cardinality(T \cap list[b])
<1>1. /\ \A d \in 1..3 : Keyed(place, list[d])
      /\ Keyed(turn, U)
  BY TurnsDiffer
<1>2. \A d \in 1..3 : list[d] \subseteq U
  BY DEF AllOf
<1>3. /\ Cardinality(U) \in Nat /\ IsFiniteSet(U)
      /\ IsFiniteSet(T) /\ Cardinality(T) = IF Cardinality(U) < n THEN Cardinality(U) ELSE n
      /\ T \subseteq U
  BY <1>1, LowestCount, FS_CardinalityType DEF Lowest, Keyed
<1>4. \A d \in 1..3 : IsFiniteSet(T \cap list[d]) /\ Cardinality(T \cap list[d]) \in Nat
  BY <1>3, FS_Subset, FS_CardinalityType
<1>5. Cardinality(T) = n
  <2> SUFFICES ASSUME Cardinality(U) < n PROVE FALSE
    BY <1>3
  <2>1. T = U
    BY <1>3, FS_Subset
  <2>2. T \cap list[b] = list[b]
    BY <1>2, <2>1
  <2>3. Cardinality(list[b]) \in Nat
    BY <1>1, RankType
  <2> QED
    BY <2>2, <2>3
<1>6. k \in Nat /\ Cardinality(list[b]) \in Nat /\ k < Cardinality(list[b])
  BY <1>1, <1>4, RankType
<1>7. PICK x \in list[b] : Rank(place, list[b], x) = k
  BY <1>1, <1>6, RankOnto
<1>8. ASSUME NEW d \in 1..3
      PROVE  \A y \in list[d] : Rank(place, list[d], y) \in Nat /\ turn[y] = 3 * Rank(place, list[d], y) + d
  BY <1>1, RankType DEF SideBySide
<1>9. x \notin T
  <2> SUFFICES ASSUME x \in T PROVE FALSE
    OBVIOUS
  <2>1. ASSUME NEW y \in Lowest(place, list[b], k + 1) PROVE y \in T \cap list[b]
    <3>1. y \in list[b] /\ Rank(place, list[b], y) < k + 1
      BY DEF Lowest
    <3>2. CASE y = x
      BY <3>1, <3>2
    <3>3. CASE y # x
      <4>1. Rank(place, list[b], y) # k
        BY <1>1, <1>7, <3>1, <3>3, RankInjective
      <4>2. turn[y] < turn[x]
        BY <1>6, <1>7, <1>8, <3>1, <4>1
      <4>3. y \in U
        BY <1>2, <3>1
      <4> QED
        BY <1>1, <3>1, <4>2, <4>3, LowestClosed
    <3> QED
      BY <3>2, <3>3
  <2>2. Lowest(place, list[b], k + 1) \subseteq T \cap list[b]
    BY <2>1
  <2>3. k + 1 \in Nat /\ ~(Cardinality(list[b]) < k + 1)
    BY <1>6
  <2>4. Cardinality(Lowest(place, list[b], k + 1)) = k + 1
    BY <1>1, <2>3, LowestCount
  <2>5. Cardinality(Lowest(place, list[b], k + 1)) <= k
    BY <1>4, <2>2, FS_Subset
  <2> QED
    BY <1>6, <2>4, <2>5
<1>10. ASSUME NEW d \in 1..3 PROVE Cardinality(T \cap list[d]) <= k + 1
  <2>1. ASSUME NEW y \in T \cap list[d] PROVE y \in Lowest(place, list[d], k + 1)
    <3>1. x \in U /\ y \in U
      BY <1>2
    <3>2. ~(turn[x] < turn[y])
      BY <1>1, <1>9, <3>1, LowestClosed
    <3>3. /\ Rank(place, list[d], y) \in Nat /\ turn[y] = 3 * Rank(place, list[d], y) + d
          /\ turn[x] = 3 * k + b
      BY <1>7, <1>8
    <3>4. Rank(place, list[d], y) < k + 1
      BY <1>6, <3>2, <3>3
    <3> QED
      BY <3>4 DEF Lowest
  <2>2. T \cap list[d] \subseteq Lowest(place, list[d], k + 1)
    BY <2>1
  <2>3. k + 1 \in Nat /\ Cardinality(list[d]) \in Nat
    BY <1>1, <1>6, RankType
  <2>4. /\ IsFiniteSet(Lowest(place, list[d], k + 1))
        /\ Cardinality(Lowest(place, list[d], k + 1)) =
              IF Cardinality(list[d]) < k + 1 THEN Cardinality(list[d]) ELSE k + 1
    BY <1>1, <2>3, LowestCount
  <2>5. Cardinality(T \cap list[d]) <= Cardinality(Lowest(place, list[d], k + 1))
    BY <2>2, <2>4, FS_Subset
  <2> QED
    BY <1>4, <2>3, <2>4, <2>5
<1> QED
  BY <1>5, <1>10

LoopPcs == {"check", "batch", "asleep", "ended"}
RunnerStatuses == R!ToSet(R!Open) \cup R!Closed
Ages == (-MaxRun)..ManualAfter
Times == 0..MaxRun
Leases == 0..LeaseTicks
RunCounts == 0..MaxRuns
RunnerRows == [status: RunnerStatuses, age: Ages, lease: Leases]
Loops == [pc: LoopPcs, batch: Seq(Records), elapsed: Times, sleep: Int, runs: RunCounts]

\* Every record has a place in the order, and there are no more places.
InOrder(o) ==
    /\ o \in Seq(Records) /\ Len(o) = Cardinality(Records)
    /\ \A r \in Records : \E k \in DOMAIN o : o[k] = r

\* A batch within its limit, in a run that max_runs has room for.
LoopWithin(l) ==
    /\ Len(l.batch) <= Limit
    /\ l.pc = "batch" => MaxRuns = 0 \/ l.runs < MaxRuns

\* The inductive invariant of Runner.
RunnerInv ==
    /\ recs \in [Records -> RunnerRows]
    /\ InOrder(order)
    /\ loop \in Loops /\ LoopWithin(loop)
    /\ stop \in BOOLEAN /\ faults \in 0..MaxFaults

LEMMA RunnerCounts ==
    /\ \A U : R!Cardinality(U) = Cardinality(U) /\ (R!IsFiniteSet(U) <=> IsFiniteSet(U))
    /\ \A key, U, x : R!Rank(key, U, x) = Rank(key, U, x)
    /\ \A key, U, n : R!Lowest(key, U, n) = Lowest(key, U, n)
    /\ \A key, U : R!Ranked(key, U) = Ranked(key, U)
<1>1. \A U : R!Cardinality(U) = Cardinality(U)
  BY DEF R!Cardinality, Cardinality
<1>2. \A U : R!IsFiniteSet(U) <=> IsFiniteSet(U)
  BY DEF R!IsFiniteSet, IsFiniteSet
<1>3. \A key, U, x : R!Rank(key, U, x) = Rank(key, U, x)
  BY <1>1 DEF R!Rank, Rank
<1>4. \A key, U, n : R!Lowest(key, U, n) = Lowest(key, U, n)
  BY <1>3 DEF R!Lowest, Lowest
<1>5. \A key, U : R!Ranked(key, U) = Ranked(key, U)
  BY <1>1, <1>3 DEF R!Ranked, Ranked
<1> QED
  BY <1>1, <1>2, <1>3, <1>4, <1>5

LEMMA RunnerConstants ==
    ASSUME R!RunnerAssumption
    PROVE  /\ Records \subseteq Nat /\ IsFiniteSet(Records) /\ Cardinality(Records) \in Nat
           /\ Limit \in Nat /\ Limit # 0 /\ LeaseTicks \in Nat /\ ManualAfter \in Nat
           /\ MaxRun \in Nat /\ MaxRuns \in Nat /\ MaxFaults \in Nat
           /\ \A r \in Records : FirstStatus[r] \in RunnerStatuses
<1>1. IsFiniteSet(Records) /\ Cardinality(Records) \in Nat
  BY RunnerCounts, FS_CardinalityType DEF R!RunnerAssumption
<1> QED
  BY <1>1 DEF R!RunnerAssumption, RunnerStatuses

\* The statuses that are scanned are those of the three lists.
LEMMA OpenStatuses ==
    /\ \A s : s \in R!ToSet(R!Open) <=> \E b \in 1..3 : s = R!Open[b]
    /\ \A b, d \in 1..3 : R!Open[b] = R!Open[d] => b = d
<1>1. \A b \in 1..3 : b = 1 \/ b = 2 \/ b = 3
  OBVIOUS
<1>2. DOMAIN R!Open = 1..3
  BY DEF R!Open
<1>3. \A b, d \in 1..3 : R!Open[b] = R!Open[d] => b = d
  BY <1>1 DEF R!Open
<1> QED
  BY <1>2, <1>3 DEF R!ToSet

\* A place in the order is a record's own.
LEMMA PlaceFacts ==
    ASSUME R!RunnerAssumption, InOrder(order)
    PROVE  /\ \A r \in Records : R!Place[r] \in DOMAIN order /\ order[R!Place[r]] = r
           /\ Keyed(R!Place, Records)
<1>1. \A r \in Records : R!Place[r] \in DOMAIN order /\ order[R!Place[r]] = r
  BY DEF InOrder, R!Place
<1>2. DOMAIN order \subseteq Int
  BY DEF InOrder
<1>3. IsFiniteSet(Records)
  BY RunnerConstants
<1> QED
  BY <1>1, <1>2, <1>3 DEF Keyed

\* The three lists, and the turn that a scan gives to their records.
ListsOf == [b \in 1..3 |-> R!Candidates(R!Open[b])]

LEMMA ListsInTurn ==
    ASSUME R!RunnerAssumption, RunnerInv
    PROVE  /\ SideBySide(Records, R!Place, ListsOf, R!Slot)
           /\ R!Listed = AllOf(ListsOf)
           /\ \A b \in 1..3 : \A r \in ListsOf[b] : r \in Records /\ recs[r].status = R!Open[b]
<1>1. \A b \in 1..3 : ListsOf[b] = R!Candidates(R!Open[b])
  BY DEF ListsOf
<1>2. \A b \in 1..3 : \A r \in R!Candidates(R!Open[b]) : r \in Records /\ recs[r].status = R!Open[b]
  BY RunnerCounts DEF R!Candidates, Lowest
<1>3. R!Listed = AllOf(ListsOf)
  BY <1>1 DEF R!Listed, AllOf
<1>4. ASSUME NEW b \in 1..3, NEW r \in ListsOf[b]
      PROVE  R!Slot[r] = 3 * Rank(R!Place, ListsOf[b], r) + b
  <2>1. r \in R!Listed /\ recs[r].status = R!Open[b]
    BY <1>1, <1>2, <1>3 DEF AllOf
  <2>2. (CHOOSE d \in 1..3 : R!Open[d] = recs[r].status) = b
    BY <2>1, OpenStatuses
  <2>3. R!Slot[r] = 3 * R!Rank(R!Place, R!Candidates(R!Open[b]), r) + b
    BY <2>1, <2>2 DEF R!Slot
  <2> QED
    BY <1>1, <2>3, RunnerCounts
<1>5. \A b, d \in 1..3 : \A r \in ListsOf[b] : r \in ListsOf[d] => b = d
  BY <1>1, <1>2, OpenStatuses
<1>6. Keyed(R!Place, Records)
  BY PlaceFacts DEF RunnerInv
<1> QED
  BY <1>1, <1>2, <1>3, <1>4, <1>5, <1>6 DEF SideBySide

\* What a scan returns: records, each once, no more than Limit, and in balance.
LEMMA ScanBalanced ==
    ASSUME R!RunnerAssumption, RunnerInv
    PROVE  /\ R!Scan \in Seq(Records) /\ Len(R!Scan) <= Limit
           /\ R!BatchBalanced
<1> DEFINE T == Lowest(R!Slot, AllOf(ListsOf), Limit)
           s == Ranked(R!Slot, T)
<1>1. /\ SideBySide(Records, R!Place, ListsOf, R!Slot)
      /\ R!Listed = AllOf(ListsOf)
      /\ \A b \in 1..3 : \A r \in ListsOf[b] : r \in Records /\ recs[r].status = R!Open[b]
  BY ListsInTurn
<1>2. R!Scan = s
  BY <1>1, RunnerCounts DEF R!Scan
<1>3. Limit \in Nat
  BY RunnerConstants
<1>4. Keyed(R!Slot, AllOf(ListsOf)) /\ T \subseteq AllOf(ListsOf)
  BY <1>1, TurnsDiffer DEF Lowest
<1>5. /\ Keyed(R!Slot, T) /\ Cardinality(T) <= Limit /\ Cardinality(T) \in Nat
  <2>1. Keyed(R!Slot, T)
    BY <1>4, KeyedSubset
  <2>2. Cardinality(T) = IF Cardinality(AllOf(ListsOf)) < Limit THEN Cardinality(AllOf(ListsOf)) ELSE Limit
    BY <1>3, <1>4, LowestCount
  <2>3. Cardinality(AllOf(ListsOf)) \in Nat
    BY <1>4, RankType
  <2> QED
    BY <1>3, <2>1, <2>2, <2>3
<1>6. /\ s \in Seq(T) /\ Len(s) = Cardinality(T)
      /\ \A i, j \in DOMAIN s : s[i] = s[j] => i = j
      /\ {s[i] : i \in DOMAIN s} = T
  BY <1>5, RankedSequence
<1>7. T \subseteq Records
  BY <1>1, <1>4 DEF AllOf
<1> HIDE DEF T, s
<1>8. R!Scan \in Seq(Records) /\ Len(R!Scan) <= Limit
  BY <1>2, <1>5, <1>6, <1>7
<1>9. R!IsInjective(R!Scan) /\ R!ToSet(R!Scan) = T
  BY <1>2, <1>6 DEF R!IsInjective, R!ToSet
<1>10. \A b \in 1..3 : {r \in T : recs[r].status = R!Open[b]} = T \cap ListsOf[b]
  BY <1>1, <1>4, OpenStatuses DEF AllOf
<1>11. \A b \in 1..3 : R!Taken(T, R!Open[b]) = Cardinality(T \cap ListsOf[b])
  BY <1>10, RunnerCounts DEF R!Taken
<1>12. ASSUME NEW b \in 1..3, R!Taken(T, R!Open[b]) < R!Cardinality(R!Candidates(R!Open[b]))
       PROVE  /\ Len(R!Scan) = Limit
              /\ \A d \in 1..3 : R!Taken(T, R!Open[d]) <= R!Taken(T, R!Open[b]) + 1
  <2>1. Cardinality(T \cap ListsOf[b]) < Cardinality(ListsOf[b])
    BY <1>11, <1>12, RunnerCounts DEF ListsOf
  <2>2. /\ Cardinality(T) = Limit
        /\ \A d \in 1..3 : Cardinality(T \cap ListsOf[d]) <= Cardinality(T \cap ListsOf[b]) + 1
    BY <1>1, <1>3, <2>1, TurnsBalance DEF T
  <2> QED
    BY <1>2, <1>6, <1>11, <2>2
<1>13. R!BatchBalanced
  BY <1>9, <1>12, OpenStatuses DEF R!BatchBalanced
<1> QED
  BY <1>8, <1>13

LEMMA InitRunner == ASSUME R!RunnerAssumption, R!Init PROVE RunnerInv
<1>0. /\ Records \subseteq Nat /\ IsFiniteSet(Records) /\ Cardinality(Records) \in Nat
      /\ Limit \in Nat /\ LeaseTicks \in Nat /\ ManualAfter \in Nat
      /\ MaxRun \in Nat /\ MaxRuns \in Nat /\ MaxFaults \in Nat
      /\ \A r \in Records : FirstStatus[r] \in RunnerStatuses
  BY RunnerConstants
<1>1. recs \in [Records -> RunnerRows]
  BY <1>0 DEF R!Init, RunnerRows, Ages, Leases
<1>2. InOrder(order)
  <2> DEFINE n == Cardinality(Records)
  <2>1. /\ order \in [1..n -> Records]
        /\ \A i, j \in 1..n : i < j => order[i] < order[j]
    BY RunnerCounts DEF R!Init
  <2>2. \A i, j \in 1..n : order[i] = order[j] => i = j
    <3> SUFFICES ASSUME NEW i \in 1..n, NEW j \in 1..n, order[i] = order[j], i # j PROVE FALSE
      OBVIOUS
    <3>1. order[i] \in Records /\ order[j] \in Records
      BY <2>1
    <3>2. order[i] \in Nat /\ order[j] \in Nat
      BY <1>0, <3>1, Zenon
    <3>3. i \in Int /\ j \in Int
      OBVIOUS
    <3>4. i < j \/ j < i
      BY <3>3
    <3>5. order[i] < order[j] \/ order[j] < order[i]
      BY <2>1, <3>4
    <3> QED
      BY <3>2, <3>5
  <2>3. order \in Injection(1..n, Records)
    BY <2>1, <2>2 DEF Injection, IsInjective
  <2>4. Cardinality(1..n) = n
    <3>1. 1 \in Int /\ n \in Int
      BY <1>0
    <3>2. Cardinality(1..n) = IF 1 > n THEN 0 ELSE n - 1 + 1
      BY <3>1, FS_Interval
    <3> QED
      BY <1>0, <3>2
  <2>5. order \in Surjection(1..n, Records)
    BY <1>0, <2>3, <2>4, FS_Injection
  <2>6. order \in Seq(Records) /\ Len(order) = n /\ DOMAIN order = 1..n
    BY <1>0, <2>1
  <2> QED
    BY <2>5, <2>6 DEF InOrder, Surjection
<1>3. loop \in Loops /\ LoopWithin(loop)
  BY <1>0 DEF R!Init, Loops, LoopPcs, Times, RunCounts, LoopWithin
<1>4. faults \in 0..MaxFaults
  BY <1>0 DEF R!Init
<1>5. stop \in BOOLEAN
  BY DEF R!Init
<1> QED
  BY <1>1, <1>2, <1>3, <1>4, <1>5 DEF RunnerInv

\* Moving a record to the end of the order keeps it an order.
LEMMA OrderMoved ==
    ASSUME R!RunnerAssumption, InOrder(order), NEW r \in Records
    PROVE  InOrder(Append(R!RemoveAt(order, R!Place[r]), r))
<1>1. R!Place[r] \in DOMAIN order /\ order[R!Place[r]] = r
  BY PlaceFacts
<1>2. R!RemoveAt(order, R!Place[r]) = RemoveAt(order, R!Place[r])
  BY DEF R!RemoveAt, RemoveAt
<1> DEFINE t == Append(RemoveAt(order, R!Place[r]), order[R!Place[r]])
<1>3. /\ t \in Seq(Records) /\ Len(t) = Len(order)
      /\ \A i \in DOMAIN order : \E j \in DOMAIN t : t[j] = order[i]
  BY <1>1, MovedToEnd DEF InOrder
<1>4. InOrder(t)
  BY <1>3 DEF InOrder
<1> QED
  BY <1>1, <1>2, <1>4

\* Whatever the provider answers, a status is written.
LEMMA DecidedStatus ==
    ASSUME NEW s \in RunnerStatuses, NEW overdue, NEW a
    PROVE  R!Decided(s, overdue, a) \in RunnerStatuses
<1>1. {"settled", "settle_failed", "unknown", "manual_review"} \subseteq RunnerStatuses
  BY DEF RunnerStatuses, R!ToSet, R!Open, R!Closed
<1> QED
  BY <1>1 DEF R!Decided, R!ManualOrPending

\* A step of the loop alone.
LEMMA LoopMoves ==
    ASSUME R!RunnerAssumption, RunnerInv, loop' \in Loops, LoopWithin(loop'),
           stop' \in BOOLEAN, faults' \in 0..MaxFaults, UNCHANGED <<recs, order>>
    PROVE  RunnerInv'
BY DEF RunnerInv

\* A record of the batch, worked on.
LEMMA HeadFacts ==
    ASSUME RunnerInv, loop.batch # <<>>
    PROVE  /\ Head(loop.batch) \in Records
           /\ Tail(loop.batch) \in Seq(Records) /\ Len(Tail(loop.batch)) = Len(loop.batch) - 1
           /\ Len(loop.batch) \in Nat
<1>1. loop.batch \in Seq(Records)
  BY DEF RunnerInv, Loops
<1> QED
  BY <1>1

LEMMA BatchWorked ==
    ASSUME R!RunnerAssumption, RunnerInv, loop.pc = "batch", loop.batch # <<>>
    PROVE  /\ [loop EXCEPT !.batch = Tail(@)] \in Loops
           /\ LoopWithin([loop EXCEPT !.batch = Tail(@)])
<1>1. /\ Tail(loop.batch) \in Seq(Records) /\ Len(Tail(loop.batch)) = Len(loop.batch) - 1
      /\ Len(loop.batch) \in Nat
  BY HeadFacts
<1>2. Limit \in Nat
  BY RunnerConstants
<1>3. loop \in Loops /\ LoopWithin(loop)
  BY DEF RunnerInv
<1>4. PICK t : t = Tail(loop.batch)
  OBVIOUS
<1>5. t \in Seq(Records) /\ Len(t) <= Limit
  BY <1>1, <1>2, <1>3, <1>4 DEF LoopWithin
<1>6. [loop EXCEPT !.batch = Tail(@)] = [loop EXCEPT !.batch = t]
  BY <1>4
<1>7. [loop EXCEPT !.batch = t] \in Loops
  BY <1>3, <1>5 DEF Loops
<1>8. LoopWithin([loop EXCEPT !.batch = t])
  BY <1>3, <1>5 DEF Loops, LoopWithin
<1> QED
  BY <1>6, <1>7, <1>8

LEMMA WorkKeeps ==
    ASSUME R!RunnerAssumption, RunnerInv, (\E a \in R!Answers \cup {"raises"} : R!Work(a)) \/ R!WriteFails
    PROVE  RunnerInv'
<1> DEFINE r == Head(loop.batch)
<1>1. loop.pc = "batch" /\ loop.batch # <<>> /\ loop' = [loop EXCEPT !.batch = Tail(@)]
      /\ UNCHANGED <<stop, faults>>
  BY DEF R!Work, R!WriteFails
<1>2. loop' \in Loops /\ LoopWithin(loop')
  BY <1>1, BatchWorked
<1>3. r \in Records
  BY <1>1, HeadFacts
<1>4. recs \in [Records -> RunnerRows] /\ InOrder(order) /\ LeaseTicks \in Nat /\ ManualAfter \in Nat
      /\ -loop.elapsed \in Ages
  <2>1. loop.elapsed \in 0..MaxRun
    BY DEF RunnerInv, Loops, Times
  <2> QED
    BY <2>1, RunnerConstants DEF RunnerInv, Ages
<1>5. ASSUME recs' = [recs EXCEPT ![r].lease = LeaseTicks] PROVE recs' \in [Records -> RunnerRows]
  <2>1. recs[r] \in RunnerRows
    BY <1>3, <1>4
  <2>2. [recs[r] EXCEPT !.lease = LeaseTicks] \in RunnerRows
    BY <1>4, <2>1 DEF RunnerRows, Leases
  <2>3. recs' = [recs EXCEPT ![r] = [recs[r] EXCEPT !.lease = LeaseTicks]]
    BY <1>3, <1>4, <1>5
  <2> QED
    BY <1>3, <1>4, <2>2, <2>3
<1>6. ASSUME NEW st \in RunnerStatuses, recs' = [recs EXCEPT ![r] = [status |-> st, age |-> -loop.elapsed, lease |-> 0]]
      PROVE  recs' \in [Records -> RunnerRows]
  <2>1. [status |-> st, age |-> -loop.elapsed, lease |-> 0] \in RunnerRows
    BY <1>4 DEF RunnerRows, Leases
  <2> QED
    BY <1>3, <1>4, <1>6, <2>1
<1>7. recs' \in [Records -> RunnerRows] /\ InOrder(order)'
  <2>1. CASE R!WriteFails
    BY <1>4, <1>5, <2>1 DEF R!WriteFails, InOrder
  <2>2. ASSUME NEW a, R!Work(a) PROVE recs' \in [Records -> RunnerRows] /\ InOrder(order)'
    <3> PICK after : after = IF loop.elapsed >= LeaseTicks THEN recs[r].status
                             ELSE R!Decided(recs[r].status, recs[r].age >= ManualAfter, a)
      OBVIOUS
    <3>1. after \in RunnerStatuses
      <4>1. recs[r].status \in RunnerStatuses
        BY <1>3, <1>4 DEF RunnerRows
      <4> QED
        BY <4>1, DecidedStatus
    <3>2. \/ recs' = [recs EXCEPT ![r].lease = LeaseTicks] /\ order' = order
          \/ /\ recs' = [recs EXCEPT ![r] = [status |-> after, age |-> -loop.elapsed, lease |-> 0]]
             /\ order' = Append(R!RemoveAt(order, R!Place[r]), r)
      BY <2>2 DEF R!Work
    <3>3. CASE recs' = [recs EXCEPT ![r].lease = LeaseTicks] /\ order' = order
      BY <1>4, <1>5, <3>3 DEF InOrder
    <3>4. CASE /\ recs' = [recs EXCEPT ![r] = [status |-> after, age |-> -loop.elapsed, lease |-> 0]]
               /\ order' = Append(R!RemoveAt(order, R!Place[r]), r)
      <4>1. InOrder(Append(R!RemoveAt(order, R!Place[r]), r))
        BY <1>3, <1>4, OrderMoved
      <4>2. InOrder(order')
        BY <3>4, <4>1
      <4> QED
        BY <1>6, <3>1, <3>4, <4>2 DEF InOrder
    <3> QED
      BY <3>2, <3>3, <3>4
  <2> QED
    BY <2>1, <2>2
<1> QED
  BY <1>1, <1>2, <1>7 DEF RunnerInv

\* what follows a run keeps within max_runs
LEMMA AfterRunKeeps ==
    ASSUME R!RunnerAssumption, RunnerInv, NEW ticks \in Int, R!AfterRun(ticks),
           MaxRuns = 0 \/ loop.runs < MaxRuns
    PROVE  loop' \in Loops /\ LoopWithin(loop')
<1>1. loop \in Loops /\ MaxRuns \in Nat /\ Limit \in Nat
  BY RunnerConstants DEF RunnerInv
<1>2. R!Counted(loop.runs) \in RunCounts
  BY <1>1 DEF R!Counted, RunCounts, Loops
<1>3. PICK pc \in {"ended", "asleep"} :
         loop' = [loop EXCEPT !.runs = R!Counted(loop.runs), !.batch = <<>>, !.elapsed = 0,
                              !.pc = pc, !.sleep = ticks]
  BY <1>1 DEF R!AfterRun, Loops
<1>4. <<>> \in Seq(Records) /\ Len(<<>>) = 0 /\ pc \in LoopPcs /\ 0 \in Times
  BY RunnerConstants DEF LoopPcs, Times
<1>5. loop' \in Loops /\ loop'.batch = <<>> /\ loop'.pc = pc
  BY <1>1, <1>2, <1>3, <1>4 DEF Loops
<1> QED
  BY <1>1, <1>4, <1>5 DEF LoopWithin

\* Records keep their domains as time goes by.
LEMMA LaterRows ==
    ASSUME R!RunnerAssumption, RunnerInv, NEW ticks \in Nat
    PROVE  R!Later(ticks) \in [Records -> RunnerRows]
<1>1. recs \in [Records -> RunnerRows] /\ LeaseTicks \in Nat /\ ManualAfter \in Nat /\ MaxRun \in Nat
  BY RunnerConstants DEF RunnerInv
<1>2. ASSUME NEW r \in Records PROVE R!Later(ticks)[r] \in RunnerRows
  <2>1. recs[r] \in RunnerRows
    BY <1>1
  <2>2. PICK a : a = IF recs[r].age + ticks < ManualAfter THEN recs[r].age + ticks ELSE ManualAfter
    OBVIOUS
  <2>3. PICK l : l = IF recs[r].lease > ticks THEN recs[r].lease - ticks ELSE 0
    OBVIOUS
  <2>4. a \in Ages /\ l \in Leases
    <3>1. recs[r].age \in Ages /\ recs[r].lease \in Leases
      BY <2>1 DEF RunnerRows
    <3> QED
      BY <1>1, <2>2, <2>3, <3>1 DEF Ages, Leases
  <2>5. R!Later(ticks)[r] = [recs[r] EXCEPT !.age = a, !.lease = l]
    BY <2>1, <2>2, <2>3 DEF R!Later, RunnerRows
  <2> QED
    BY <2>1, <2>4, <2>5 DEF RunnerRows
<1> QED
  BY <1>2 DEF R!Later

LEMMA SleepKeeps ==
    ASSUME R!RunnerAssumption, RunnerInv, R!Sleep PROVE RunnerInv'
<1>1. loop \in Loops /\ LoopWithin(loop)
  BY DEF RunnerInv
<1>2. recs' \in [Records -> RunnerRows]
  BY LaterRows DEF R!Sleep
<1>3. loop' \in Loops /\ LoopWithin(loop')
  <2>1. PICK p : p = IF loop.sleep = 1 THEN "check" ELSE loop.pc
    OBVIOUS
  <2>2. PICK n : n = loop.sleep - 1
    OBVIOUS
  <2>3. loop.pc = "asleep" /\ loop' = [loop EXCEPT !.sleep = n, !.pc = p]
    BY <1>1, <2>1, <2>2 DEF R!Sleep, Loops
  <2>4. p \in LoopPcs /\ p # "batch" /\ n \in Int
    BY <1>1, <2>1, <2>2, <2>3 DEF Loops, LoopPcs
  <2> QED
    BY <1>1, <2>3, <2>4 DEF Loops, LoopWithin
<1> QED
  BY <1>2, <1>3 DEF R!Sleep, RunnerInv, InOrder

LEMMA BeginKeeps ==
    ASSUME R!RunnerAssumption, RunnerInv, R!Begin PROVE RunnerInv'
<1>1. R!Scan \in Seq(Records) /\ Len(R!Scan) <= Limit
  BY ScanBalanced
<1>2. PICK s \in Seq(Records) : s = R!Scan
  BY <1>1
<1>3. loop' = [loop EXCEPT !.pc = "batch", !.batch = s] /\ UNCHANGED <<recs, order, stop, faults>>
  BY <1>2 DEF R!Begin
<1>4. MaxRuns = 0 \/ loop.runs < MaxRuns
  BY DEF R!Begin, R!MayRun
<1>5. loop \in Loops
  BY DEF RunnerInv
<1>6. loop' \in Loops /\ LoopWithin(loop')
  BY <1>1, <1>2, <1>3, <1>4, <1>5 DEF Loops, LoopPcs, LoopWithin
<1> QED
  BY <1>3, <1>6, LoopMoves DEF RunnerInv

\* Every other step keeps the order, and the records but for the time.
LEMMA LoopKeeps ==
    ASSUME R!RunnerAssumption, RunnerInv,
           \/ R!RunFails \/ R!Leave \/ R!Wait \/ R!Finish \/ R!CallbackRaises
           \/ R!Wake \/ R!Stop \/ R!Start
    PROVE  RunnerInv'
<1>1. /\ loop \in Loops /\ LoopWithin(loop) /\ stop \in BOOLEAN /\ faults \in 0..MaxFaults
      /\ MaxFaults \in Nat /\ MaxRun \in Nat /\ MaxRuns \in Nat /\ Limit \in Nat
      /\ recs \in [Records -> RunnerRows] /\ InOrder(order)
  BY RunnerConstants DEF RunnerInv
<1>2. stop' \in BOOLEAN /\ order' = order
  BY <1>1 DEF R!RunFails, R!Leave, R!Wait, R!Finish, R!CallbackRaises, R!Wake, R!Stop, R!Start
<1>3. faults' \in 0..MaxFaults
  BY <1>1 DEF R!RunFails, R!Leave, R!Wait, R!Finish, R!CallbackRaises, R!Wake, R!Stop, R!Start
<1>4. recs' \in [Records -> RunnerRows]
  <2>1. loop.elapsed \in Nat
    BY <1>1 DEF Loops, Times
  <2>2. recs' = recs \/ recs' = R!Later(loop.elapsed)
    BY DEF R!RunFails, R!AfterRun, R!Leave, R!Wait, R!Finish, R!CallbackRaises, R!Wake, R!Stop, R!Start
  <2> QED
    BY <1>1, <2>1, <2>2, LaterRows
<1>5. loop' \in Loops /\ LoopWithin(loop')
  <2>1. CASE R!RunFails \/ R!Finish
    <3>1. MaxRuns = 0 \/ loop.runs < MaxRuns
      BY <1>1, <2>1 DEF R!RunFails, R!InRunOnce, R!MayRun, R!Finish, LoopWithin
    <3>2. ErrorTicks \in Int /\ 1 \in Int
      BY DEF R!RunnerAssumption
    <3>3. R!AfterRun(ErrorTicks) \/ R!AfterRun(1)
      BY <2>1 DEF R!RunFails, R!Finish
    <3> QED
      BY <3>1, <3>2, <3>3, AfterRunKeeps
  <2>2. CASE R!Leave \/ R!Wake
    <3>1. loop' = [loop EXCEPT !.pc = "ended"]
      BY <2>2 DEF R!Leave, R!Wake
    <3> QED
      BY <1>1, <3>1 DEF Loops, LoopPcs, LoopWithin
  <2>3. CASE R!CallbackRaises
    <3>1. loop' = [loop EXCEPT !.pc = "ended", !.elapsed = 0]
      BY <2>3 DEF R!CallbackRaises
    <3>2. 0 \in Times /\ "ended" \in LoopPcs /\ "ended" # "batch"
      BY <1>1 DEF Times, LoopPcs
    <3> QED
      BY <1>1, <3>1, <3>2 DEF Loops, LoopWithin
  <2>4. CASE R!Wait
    <3>1. PICK t : t = loop.elapsed + 1
      OBVIOUS
    <3>2. t \in Times
      BY <1>1, <2>4, <3>1 DEF R!Wait, Loops, Times
    <3>3. loop' = [loop EXCEPT !.elapsed = t]
      BY <2>4, <3>1 DEF R!Wait
    <3> QED
      BY <1>1, <3>2, <3>3 DEF Loops, LoopWithin
  <2>5. CASE R!Stop
    BY <1>1, <2>5 DEF R!Stop
  <2>6. CASE R!Start
    BY <1>1, <2>6 DEF R!Start, Loops, LoopPcs, Times, RunCounts, LoopWithin
  <2> QED
    BY <2>1, <2>2, <2>3, <2>4, <2>5, <2>6
<1> QED
  BY <1>1, <1>2, <1>3, <1>4, <1>5 DEF RunnerInv

LEMMA NextRunner ==
    ASSUME R!RunnerAssumption, RunnerInv, [R!Next]_(R!vars) PROVE RunnerInv'
<1>1. CASE UNCHANGED R!vars
  BY <1>1 DEF R!vars, RunnerInv, InOrder
<1>2. CASE R!Next
  BY <1>2, BeginKeeps, WorkKeeps, SleepKeeps, LoopKeeps DEF R!Next
<1> QED
  BY <1>1, <1>2

\* A backlog in one status does not shut out the others, however many records
\* there are, whatever the limit, and in whatever order the answers, failures
\* and sleeps have left the records: a batch takes each once, is full unless
\* it takes all there are, and where it leaves records of one status behind
\* it has taken at most one more of another.
THEOREM BatchesBalanced ==
    ASSUME R!RunnerAssumption PROVE R!Spec => []BatchBalanced
<1>1. RunnerInv => BatchBalanced
  <2> SUFFICES ASSUME RunnerInv PROVE BatchBalanced
    OBVIOUS
  <2>1. R!BatchBalanced
    BY ScanBalanced
  <2>2. R!ToSet(order) = Records /\ Len(order) = R!Cardinality(Records)
    <3>1. \A i \in DOMAIN order : order[i] \in Records
      BY DEF RunnerInv, InOrder
    <3> QED
      BY <3>1, RunnerCounts DEF RunnerInv, InOrder, R!ToSet
  <2>3. \A r \in Records :
          /\ recs[r].status \in R!ToSet(R!Open) \cup R!Closed
          /\ recs[r].age \in (-MaxRun)..ManualAfter
          /\ recs[r].lease \in 0..LeaseTicks
    BY DEF RunnerInv, RunnerRows, RunnerStatuses, Ages, Leases
  <2>4. /\ loop.pc \in {"check", "batch", "asleep", "ended"}
        /\ Len(loop.batch) <= Limit
        /\ loop.elapsed \in 0..MaxRun
        /\ loop.runs \in 0..MaxRuns
        /\ stop \in BOOLEAN /\ faults \in 0..MaxFaults
    BY DEF RunnerInv, Loops, LoopPcs, Times, RunCounts, LoopWithin
  <2> QED
    BY <2>1, <2>2, <2>3, <2>4 DEF BatchBalanced, R!RunnerTypeOK
<1>2. R!Init => RunnerInv
  BY InitRunner
<1>3. RunnerInv /\ [R!Next]_(R!vars) => RunnerInv'
  BY NextRunner
<1> QED
  BY <1>1, <1>2, <1>3, PTL DEF R!Spec
=============================================================================
