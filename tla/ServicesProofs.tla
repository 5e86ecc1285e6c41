---------------------------- MODULE ServicesProofs ----------------------------
(***************************************************************************)
(* Proofs about what the routes and the engine stand on: the connection    *)
(* pool, the rate limiters and the exact provider, for any number of       *)
(* users, connections and checks, any requests and limits, any length of   *)
(* the window, and any payments, networks and places of the semaphore.     *)
(*                                                                         *)
(* The components share no state; a theorem about one assumes what its     *)
(* module asks of its constants.                                           *)
(***************************************************************************)
EXTENDS Services, Integers, Sequences, FiniteSets, FiniteSetTheorems, SequenceTheorems, TLAPS

-----------------------------------------------------------------------------
(***************************************************************************)
(* The pool.                                                               *)
(***************************************************************************)
Bare == {"away", "connecting", "waiting"}
Having == {"holding", "putting", "dropping"}
BareUsers == [pc: Bare]
HavingUsers == [pc: Having, conn: Conns]
PoolUsers == BareUsers \cup HavingUsers

Connecting == {u \in Users : user[u].pc = "connecting"}

PoolDomains ==
    /\ oneLoop \in BOOLEAN
    /\ idle \subseteq open /\ open \subseteq Conns
    /\ total \in Nat /\ total <= MaxSize
    /\ closed \in BOOLEAN
    /\ user \in [Users -> PoolUsers]
    /\ closer \in {"before", "draining", "after"}
    /\ closed <=> closer # "before"

\* A connection that is out is one user's and no longer idle, and one that is
\* open is idle or out.
OnePlace ==
    /\ \A u, v \in Users :
          user[u].pc \in Having /\ user[v].pc \in Having /\ user[u].conn = user[v].conn => u = v
    /\ \A u \in Users : user[u].pc \in Having => user[u].conn \in open /\ user[u].conn \notin idle
    /\ \A c \in open : c \in idle \/ \E u \in Users : user[u].pc \in Having /\ user[u].conn = c

\* What is open or being opened is counted.
Counted ==
    /\ IsFiniteSet(open) /\ IsFiniteSet(Connecting)
    /\ Cardinality(open) + Cardinality(Connecting) <= total
    /\ ~closed => total = Cardinality(open) + Cardinality(Connecting)

\* Coroutines have left the pool when it is closed, and later find it closed.
NoneInside ==
    oneLoop /\ closed =>
        /\ \A u \in Users : user[u].pc \notin {"connecting", "waiting", "putting"}
        /\ closer = "after" => idle = {}

\* The inductive invariant of Pool.
PoolInv == PoolDomains /\ OnePlace /\ Counted /\ NoneInside

\* The instance counts as this module does.
LEMMA PoolCounts == ASSUME NEW S PROVE D!Cardinality(S) = Cardinality(S)
BY DEF Cardinality, D!Cardinality

LEMMA InitPool == ASSUME D!PoolAssumption, D!Init PROVE PoolInv
<1>1. D!Away \in PoolUsers /\ D!Away.pc = "away"
  BY DEF D!Away, PoolUsers, BareUsers, Bare
<1>2. \A u \in Users : user[u] = D!Away
  BY DEF D!Init
<1>3. PoolDomains
  <2>1. oneLoop \in BOOLEAN /\ closed \in BOOLEAN /\ ~closed
    BY DEF D!Init
  <2>2. idle = {} /\ open = {} /\ total = 0 /\ closer = "before" /\ user \in [Users -> PoolUsers]
    BY <1>1 DEF D!Init
  <2>3. 0 <= MaxSize
    BY DEF D!PoolAssumption
  <2> QED
    BY <2>1, <2>2, <2>3 DEF PoolDomains
<1>4. OnePlace
  BY <1>1, <1>2 DEF D!Init, OnePlace, Having
<1>5. Connecting = {}
  BY <1>1, <1>2 DEF Connecting
<1>6. Counted
  BY <1>5, FS_EmptySet DEF D!Init, Counted
<1>7. NoneInside
  BY DEF D!Init, NoneInside
<1> QED
  BY <1>3, <1>4, <1>6, <1>7 DEF PoolInv

\* What the domains say of a user.
LEMMA OfUser ==
    ASSUME PoolInv, NEW u \in Users
    PROVE  /\ user[u] \in PoolUsers
           /\ user[u].pc \in Bare \cup Having
           /\ user[u].pc \in Having => user[u] \in HavingUsers /\ user[u].conn \in Conns
<1>1. user[u] \in PoolUsers
  BY DEF PoolInv, PoolDomains
<1>2. user[u] \in BareUsers => user[u].pc \in Bare
  BY DEF BareUsers
<1>3. user[u] \in HavingUsers => user[u].pc \in Having /\ user[u].conn \in Conns
  BY DEF HavingUsers
<1>4. Bare \cap Having = {}
  BY DEF Bare, Having
<1> QED
  BY <1>1, <1>2, <1>3, <1>4 DEF PoolUsers

\* The records of users.
LEMMA UserRecords ==
    /\ \A pc \in Bare : [pc |-> pc] \in PoolUsers /\ [pc |-> pc].pc = pc
    /\ \A pc \in Having, c \in Conns :
          /\ [pc |-> pc, conn |-> c] \in PoolUsers
          /\ [pc |-> pc, conn |-> c].pc = pc /\ [pc |-> pc, conn |-> c].conn = c
    /\ Bare \cap Having = {}
<1>1. \A pc \in Bare : [pc |-> pc] \in BareUsers
  BY DEF BareUsers
<1>2. \A pc \in Having, c \in Conns : [pc |-> pc, conn |-> c] \in HavingUsers
  BY DEF HavingUsers
<1> QED
  BY <1>1, <1>2 DEF PoolUsers, Bare, Having

\* One user moves.
LEMMA UserMoves ==
    ASSUME PoolInv, NEW u \in Users, NEW m \in PoolUsers, user' = [user EXCEPT ![u] = m]
    PROVE  /\ user' \in [Users -> PoolUsers]
           /\ \A v \in Users : user'[v] = IF v = u THEN m ELSE user[v]
           /\ Connecting' = IF m.pc = "connecting" THEN Connecting \cup {u} ELSE Connecting \ {u}
<1>1. user \in [Users -> PoolUsers]
  BY DEF PoolInv, PoolDomains
<1>2. user' \in [Users -> PoolUsers] /\ \A v \in Users : user'[v] = IF v = u THEN m ELSE user[v]
  BY <1>1
<1> QED
  BY <1>2 DEF Connecting

\* A user without a connection moves to another such place, and the count
\* follows.
LEMMA BareMoves ==
    ASSUME PoolInv, NEW u \in Users, NEW pc \in Bare, user[u].pc \in Bare,
           user' = [user EXCEPT ![u] = [pc |-> pc]],
           UNCHANGED <<oneLoop, idle, closed, closer, open>>,
           total' = (IF pc = "connecting" THEN total + 1 ELSE total)
                     - (IF user[u].pc = "connecting" THEN 1 ELSE 0),
           pc # "connecting" \/ user[u].pc # "connecting",
           pc = "connecting" => total < MaxSize,
           MaxSize \in Nat, pc # "away" => ~closed
    PROVE  PoolInv'
<1> PICK m : m = [pc |-> pc]
  OBVIOUS
<1>1. m \in PoolUsers /\ m.pc = pc /\ pc \notin Having /\ user[u].pc \notin Having
  BY UserRecords
<1>2. /\ user' \in [Users -> PoolUsers]
      /\ \A v \in Users : user'[v] = IF v = u THEN m ELSE user[v]
      /\ Connecting' = IF pc = "connecting" THEN Connecting \cup {u} ELSE Connecting \ {u}
  BY <1>1, UserMoves
<1>3. u \in Connecting <=> user[u].pc = "connecting"
  BY DEF Connecting
<1>4. /\ IsFiniteSet(open) /\ IsFiniteSet(Connecting) /\ total \in Nat /\ total <= MaxSize
      /\ Cardinality(open) \in Nat /\ Cardinality(Connecting) \in Nat
      /\ Cardinality(open) + Cardinality(Connecting) <= total
      /\ ~closed => total = Cardinality(open) + Cardinality(Connecting)
  BY FS_CardinalityType DEF PoolInv, PoolDomains, Counted
<1>5. /\ IsFiniteSet(Connecting')
      /\ Cardinality(Connecting') = IF pc = "connecting" THEN Cardinality(Connecting) + 1
                                    ELSE IF user[u].pc = "connecting" THEN Cardinality(Connecting) - 1
                                    ELSE Cardinality(Connecting)
  BY <1>2, <1>3, <1>4, FS_AddElement, FS_RemoveElement
<1>6. u \in Connecting => Cardinality(Connecting) > 0
  BY <1>4, FS_EmptySet
<1>7. total' \in Nat /\ total' <= MaxSize
  BY <1>3, <1>4, <1>6
<1>8. PoolDomains'
  BY <1>2, <1>7 DEF PoolInv, PoolDomains
<1>9. OnePlace'
  BY <1>1, <1>2 DEF PoolInv, OnePlace
<1>10. Counted'
  <2>1. UNCHANGED <<open, closed>>
    OBVIOUS
  <2> QED
    BY <1>3, <1>4, <1>5, <2>1 DEF Counted
<1>11. NoneInside'
  BY <1>1, <1>2 DEF PoolInv, NoneInside, Bare
<1> QED
  BY <1>8, <1>9, <1>10, <1>11 DEF PoolInv

\* A user takes an idle connection.
LEMMA TakesIdle ==
    ASSUME PoolInv, NEW u \in Users, user[u].pc \in {"away", "waiting"}, NEW c \in idle,
           idle' = idle \ {c}, user' = [user EXCEPT ![u] = [pc |-> "holding", conn |-> c]],
           UNCHANGED <<oneLoop, total, closed, closer, open>>
    PROVE  PoolInv'
<1> PICK m : m = [pc |-> "holding", conn |-> c]
  OBVIOUS
<1>1. c \in open /\ c \in Conns /\ idle \subseteq open
  BY DEF PoolInv, PoolDomains
<1>2. m \in PoolUsers /\ m.pc = "holding" /\ m.conn = c /\ user[u].pc \notin Having /\ m.pc \in Having
  BY <1>1, UserRecords DEF Having
<1>3. /\ user' \in [Users -> PoolUsers]
      /\ \A v \in Users : user'[v] = IF v = u THEN m ELSE user[v]
      /\ Connecting' = Connecting \ {u}
  BY <1>2, UserMoves
<1>4. Connecting' = Connecting
  BY <1>3 DEF Connecting
<1>5. PoolDomains'
  BY <1>3 DEF PoolInv, PoolDomains
<1>6. OnePlace'
  <2>1. \A v \in Users : user[v].pc \in Having => user[v].conn # c
    BY DEF PoolInv, OnePlace
  <2>2. \A v, w \in Users :
           user'[v].pc \in Having /\ user'[w].pc \in Having /\ user'[v].conn = user'[w].conn => v = w
    BY <1>2, <1>3, <2>1 DEF PoolInv, OnePlace
  <2>3. \A v \in Users : user'[v].pc \in Having => user'[v].conn \in open' /\ user'[v].conn \notin idle'
    BY <1>1, <1>2, <1>3, <2>1 DEF PoolInv, OnePlace
  <2>4. ASSUME NEW d \in open'
        PROVE  d \in idle' \/ \E v \in Users : user'[v].pc \in Having /\ user'[v].conn = d
    <3>1. CASE d = c
      BY <1>2, <1>3, <3>1
    <3>2. CASE d \in idle /\ d # c
      BY <3>2
    <3>3. CASE d \notin idle
      <4> PICK v \in Users : user[v].pc \in Having /\ user[v].conn = d
        BY <2>4, <3>3 DEF PoolInv, OnePlace
      <4> QED
        BY <1>2, <1>3
    <3> QED
      BY <3>1, <3>2, <3>3
  <2> QED
    BY <2>2, <2>3, <2>4 DEF OnePlace
<1>7. Counted'
  BY <1>4 DEF PoolInv, Counted
<1>8. NoneInside'
  BY <1>2, <1>3 DEF PoolInv, NoneInside
<1> QED
  BY <1>5, <1>6, <1>7, <1>8 DEF PoolInv

\* A connection is opened for a user.
LEMMA ConnectKeeps ==
    ASSUME PoolInv, NEW u \in Users, D!Connect(u), UNCHANGED oneLoop
    PROVE  PoolInv'
<1> PICK c \in Conns \ open : open' = open \cup {c} /\ D!Holds(u, c)
  BY DEF D!Connect
<1> PICK m : m = [pc |-> "holding", conn |-> c]
  OBVIOUS
<1>1. user[u].pc = "connecting" /\ UNCHANGED <<idle, total, closed, closer>> /\ user' = [user EXCEPT ![u] = m]
  BY DEF D!Connect, D!At, D!Holds
<1>2. m \in PoolUsers /\ m.pc = "holding" /\ m.conn = c /\ user[u].pc \notin Having /\ m.pc \in Having
  BY <1>1, UserRecords DEF Having
<1>3. /\ user' \in [Users -> PoolUsers]
      /\ \A v \in Users : user'[v] = IF v = u THEN m ELSE user[v]
      /\ Connecting' = Connecting \ {u}
  BY <1>1, <1>2, UserMoves
<1>4. PoolDomains'
  BY <1>1, <1>3 DEF PoolInv, PoolDomains
<1>5. OnePlace'
  <2>1. c \notin idle /\ \A v \in Users : user[v].pc \in Having => user[v].conn # c
    BY DEF PoolInv, OnePlace, PoolDomains
  <2>2. \A v, w \in Users :
           user'[v].pc \in Having /\ user'[w].pc \in Having /\ user'[v].conn = user'[w].conn => v = w
    BY <1>2, <1>3, <2>1 DEF PoolInv, OnePlace
  <2>3. \A v \in Users : user'[v].pc \in Having => user'[v].conn \in open' /\ user'[v].conn \notin idle'
    BY <1>1, <1>2, <1>3, <2>1 DEF PoolInv, OnePlace
  <2>4. ASSUME NEW d \in open'
        PROVE  d \in idle' \/ \E v \in Users : user'[v].pc \in Having /\ user'[v].conn = d
    <3>1. CASE d = c
      BY <1>2, <1>3, <3>1
    <3>2. CASE d # c /\ d \notin idle
      <4> PICK v \in Users : user[v].pc \in Having /\ user[v].conn = d
        BY <2>4, <3>2 DEF PoolInv, OnePlace
      <4> QED
        BY <1>2, <1>3
    <3> QED
      BY <1>1, <3>1, <3>2
  <2> QED
    BY <2>2, <2>3, <2>4 DEF OnePlace
<1>6. Counted'
  <2>1. u \in Connecting
    BY <1>1 DEF Connecting
  <2>2. /\ IsFiniteSet(open) /\ IsFiniteSet(Connecting) /\ total \in Nat
        /\ Cardinality(open) \in Nat /\ Cardinality(Connecting) \in Nat
        /\ Cardinality(open) + Cardinality(Connecting) <= total
        /\ ~closed => total = Cardinality(open) + Cardinality(Connecting)
    BY FS_CardinalityType DEF PoolInv, PoolDomains, Counted
  <2>3. IsFiniteSet(open') /\ Cardinality(open') = Cardinality(open) + 1
    BY <2>2, FS_AddElement
  <2>4. IsFiniteSet(Connecting') /\ Cardinality(Connecting') = Cardinality(Connecting) - 1
    BY <1>3, <2>1, <2>2, FS_RemoveElement
  <2> QED
    BY <1>1, <2>2, <2>3, <2>4 DEF Counted
<1>7. NoneInside'
  BY <1>1, <1>2, <1>3 DEF PoolInv, NoneInside
<1> QED
  BY <1>4, <1>5, <1>6, <1>7 DEF PoolInv

\* A user begins to give its connection back.
LEMMA ReleaseKeeps ==
    ASSUME PoolInv, NEW u \in Users, D!Release(u), UNCHANGED oneLoop
    PROVE  PoolInv'
<1> PICK pc : pc = IF closed THEN "dropping" ELSE "putting"
  OBVIOUS
<1> PICK m : m = [user[u] EXCEPT !.pc = pc]
  OBVIOUS
<1>1. /\ user[u].pc = "holding" /\ UNCHANGED <<idle, total, closed, closer, open>>
      /\ user' = [user EXCEPT ![u].pc = pc]
  BY DEF D!Release, D!At
<1>2. user[u] \in HavingUsers /\ pc \in Having /\ pc # "connecting" /\ pc # "waiting"
  BY <1>1, OfUser DEF Having
<1>3. m \in HavingUsers /\ m.pc = pc /\ m.conn = user[u].conn
  BY <1>2 DEF HavingUsers
<1>4. m \in PoolUsers /\ user' = [user EXCEPT ![u] = m]
  BY <1>1, <1>3 DEF PoolUsers
<1>5. /\ user' \in [Users -> PoolUsers]
      /\ \A v \in Users : user'[v] = IF v = u THEN m ELSE user[v]
      /\ Connecting' = Connecting \ {u}
  BY <1>2, <1>3, <1>4, UserMoves
<1>6. Connecting' = Connecting
  BY <1>1, <1>5 DEF Connecting
<1>7. user[u].pc \in Having
  BY <1>1 DEF Having
<1>8. \A v \in Users : (user'[v].pc \in Having <=> user[v].pc \in Having) /\ user'[v].conn = user[v].conn
  BY <1>2, <1>3, <1>5, <1>7
<1>9. PoolDomains'
  BY <1>1, <1>5 DEF PoolInv, PoolDomains
<1>10. OnePlace'
  BY <1>1, <1>8 DEF PoolInv, OnePlace
<1>11. Counted'
  BY <1>1, <1>6 DEF PoolInv, Counted
<1>12. NoneInside'
  BY <1>1, <1>2, <1>3, <1>5 DEF PoolInv, NoneInside
<1> QED
  BY <1>9, <1>10, <1>11, <1>12 DEF PoolInv

\* A connection goes back to the queue.
LEMMA PutKeeps ==
    ASSUME PoolInv, NEW u \in Users, D!Put(u), UNCHANGED oneLoop
    PROVE  PoolInv'
<1> PICK m : m = [pc |-> "away"]
  OBVIOUS
<1> PICK c : c = user[u].conn
  OBVIOUS
<1>1. /\ user[u].pc = "putting" /\ UNCHANGED <<total, closed, closer, open>>
      /\ user' = [user EXCEPT ![u] = m] /\ idle' = idle \cup {c}
  BY DEF D!Put, D!At, D!Leave, D!Away
<1>2. m \in PoolUsers /\ m.pc = "away" /\ m.pc \notin Having /\ user[u].pc \in Having
  BY <1>1, UserRecords DEF Bare, Having
<1>3. c \in open
  BY <1>2 DEF PoolInv, OnePlace
<1>4. /\ user' \in [Users -> PoolUsers]
      /\ \A v \in Users : user'[v] = IF v = u THEN m ELSE user[v]
      /\ Connecting' = Connecting \ {u}
  BY <1>1, <1>2, UserMoves
<1>5. Connecting' = Connecting
  BY <1>1, <1>4 DEF Connecting
<1>6. PoolDomains'
  BY <1>1, <1>3, <1>4 DEF PoolInv, PoolDomains
<1>7. OnePlace'
  <2>1. \A v, w \in Users :
           user'[v].pc \in Having /\ user'[w].pc \in Having /\ user'[v].conn = user'[w].conn => v = w
    BY <1>2, <1>4 DEF PoolInv, OnePlace
  <2>2. \A v \in Users : user'[v].pc \in Having => user'[v].conn \in open' /\ user'[v].conn \notin idle'
    BY <1>1, <1>2, <1>4 DEF PoolInv, OnePlace
  <2>3. ASSUME NEW d \in open'
        PROVE  d \in idle' \/ \E v \in Users : user'[v].pc \in Having /\ user'[v].conn = d
    <3>1. CASE d \in idle \/ d = c
      BY <1>1, <3>1
    <3>2. CASE d # c /\ d \notin idle
      <4>1. PICK v \in Users : user[v].pc \in Having /\ user[v].conn = d
        BY <1>1, <2>3, <3>2 DEF PoolInv, OnePlace
      <4> QED
        BY <1>4, <3>2, <4>1
    <3> QED
      BY <3>1, <3>2
  <2> QED
    BY <2>1, <2>2, <2>3 DEF OnePlace
<1>8. Counted'
  BY <1>1, <1>5 DEF PoolInv, Counted
<1>9. NoneInside'
  BY <1>1, <1>2, <1>4 DEF PoolInv, NoneInside
<1> QED
  BY <1>6, <1>7, <1>8, <1>9 DEF PoolInv

\* A connection is closed.
LEMMA DropKeeps ==
    ASSUME D!PoolAssumption, PoolInv, NEW u \in Users, D!Drop(u), UNCHANGED oneLoop
    PROVE  PoolInv'
<1> PICK m : m = [pc |-> "away"]
  OBVIOUS
<1> PICK c : c = user[u].conn
  OBVIOUS
<1>1. /\ user[u].pc = "dropping" /\ UNCHANGED <<idle, closed, closer>> /\ total' = total - 1
      /\ user' = [user EXCEPT ![u] = m] /\ open' = open \ {c}
  BY DEF D!Drop, D!At, D!Leave, D!Away
<1>2. m \in PoolUsers /\ m.pc = "away" /\ m.pc \notin Having /\ user[u].pc \in Having
  BY <1>1, UserRecords DEF Bare, Having
<1>3. c \in open /\ c \notin idle
  BY <1>2 DEF PoolInv, OnePlace
<1>4. /\ user' \in [Users -> PoolUsers]
      /\ \A v \in Users : user'[v] = IF v = u THEN m ELSE user[v]
      /\ Connecting' = Connecting \ {u}
  BY <1>1, <1>2, UserMoves
<1>5. Connecting' = Connecting
  BY <1>1, <1>4 DEF Connecting
<1>6. /\ IsFiniteSet(open) /\ IsFiniteSet(Connecting) /\ total \in Nat
      /\ Cardinality(open) \in Nat /\ Cardinality(Connecting) \in Nat
      /\ Cardinality(open) + Cardinality(Connecting) <= total
      /\ ~closed => total = Cardinality(open) + Cardinality(Connecting)
  BY FS_CardinalityType DEF PoolInv, PoolDomains, Counted
<1>7. IsFiniteSet(open') /\ Cardinality(open') = Cardinality(open) - 1 /\ Cardinality(open) > 0
  <2>1. IsFiniteSet(open') /\ Cardinality(open') = Cardinality(open) - 1
    BY <1>1, <1>3, <1>6, FS_RemoveElement
  <2>2. Cardinality(open) # 0
    BY <1>3, <1>6, FS_EmptySet
  <2> QED
    BY <1>6, <2>1, <2>2
<1>8. PoolDomains'
  <2>1. total' \in Nat /\ total' <= MaxSize
    BY <1>1, <1>6, <1>7 DEF PoolInv, PoolDomains, D!PoolAssumption
  <2> QED
    BY <1>1, <1>3, <1>4, <2>1 DEF PoolInv, PoolDomains
<1>9. OnePlace'
  <2>1. \A v, w \in Users :
           user'[v].pc \in Having /\ user'[w].pc \in Having /\ user'[v].conn = user'[w].conn => v = w
    BY <1>2, <1>4 DEF PoolInv, OnePlace
  <2>2. \A v \in Users : user'[v].pc \in Having => user'[v].conn \in open' /\ user'[v].conn \notin idle'
    BY <1>1, <1>2, <1>4 DEF PoolInv, OnePlace
  <2>3. ASSUME NEW d \in open'
        PROVE  d \in idle' \/ \E v \in Users : user'[v].pc \in Having /\ user'[v].conn = d
    <3>1. CASE d \in idle
      BY <1>1, <3>1
    <3>2. CASE d \notin idle
      <4>1. PICK v \in Users : user[v].pc \in Having /\ user[v].conn = d
        BY <1>1, <2>3, <3>2 DEF PoolInv, OnePlace
      <4> QED
        BY <1>1, <1>4, <2>3, <4>1
    <3> QED
      BY <3>1, <3>2
  <2> QED
    BY <2>1, <2>2, <2>3 DEF OnePlace
<1>10. Counted'
  <2>1. IsFiniteSet(open)' /\ IsFiniteSet(Connecting)'
    BY <1>5, <1>6, <1>7
  <2>2. Cardinality(Connecting') = Cardinality(Connecting) /\ closed' = closed
    BY <1>1, <1>5
  <2>3. Cardinality(open') + Cardinality(Connecting') <= total'
    BY <1>1, <1>6, <1>7, <2>2
  <2>4. total = Cardinality(open) + Cardinality(Connecting) =>
            total' = Cardinality(open') + Cardinality(Connecting')
    BY <1>1, <1>6, <1>7, <2>2
  <2> QED
    BY <1>6, <2>1, <2>2, <2>3, <2>4 DEF Counted
<1>11. NoneInside'
  BY <1>1, <1>2, <1>4 DEF PoolInv, NoneInside
<1> QED
  BY <1>8, <1>9, <1>10, <1>11 DEF PoolInv

\* The pool is closed: coroutines are not inside it.
LEMMA CloseKeeps ==
    ASSUME PoolInv, D!Close, UNCHANGED oneLoop
    PROVE  PoolInv'
<1>1. /\ closed' = TRUE /\ closer' = "draining" /\ UNCHANGED <<idle, total, user, open>>
      /\ oneLoop => \A v \in Users : user[v].pc \in {"away", "holding"}
  BY DEF D!Close, D!CloserRuns, D!Inside
<1>2. closed'
  BY <1>1
<1>3. PoolDomains'
  BY <1>1, <1>2 DEF PoolInv, PoolDomains
<1>4. OnePlace'
  BY <1>1 DEF PoolInv, OnePlace
<1>5. Counted'
  <2>1. Connecting' = Connecting
    BY <1>1 DEF Connecting
  <2> QED
    BY <1>1, <1>2, <2>1 DEF PoolInv, Counted
<1>6. NoneInside'
  BY <1>1 DEF NoneInside
<1> QED
  BY <1>3, <1>4, <1>5, <1>6 DEF PoolInv

\* An idle connection is closed, or there is none any more.
LEMMA DrainKeeps ==
    ASSUME PoolInv, D!Drain, UNCHANGED oneLoop
    PROVE  PoolInv'
<1>1. closer = "draining" /\ UNCHANGED <<total, closed, user>> /\ Connecting' = Connecting /\ closed
  BY DEF D!Drain, Connecting, PoolInv, PoolDomains
<1>2. CASE idle = {} /\ closer' = "after" /\ UNCHANGED <<idle, open>>
  <2>1. PoolDomains'
    BY <1>1, <1>2 DEF PoolInv, PoolDomains
  <2>2. OnePlace' /\ Counted'
    BY <1>1, <1>2 DEF PoolInv, OnePlace, Counted
  <2>3. NoneInside'
    BY <1>1, <1>2 DEF PoolInv, NoneInside
  <2> QED
    BY <2>1, <2>2, <2>3 DEF PoolInv
<1>3. ASSUME NEW c \in idle, idle' = idle \ {c}, open' = open \ {c}, UNCHANGED closer
      PROVE  PoolInv'
  <2>1. PoolDomains'
    BY <1>1, <1>3 DEF PoolInv, PoolDomains
  <2>2. OnePlace'
    <3>1. \A v \in Users : user[v].pc \in Having => user[v].conn # c
      BY DEF PoolInv, OnePlace
    <3> QED
      BY <1>1, <1>3, <3>1 DEF PoolInv, OnePlace
  <2>3. Counted'
    <3>1. /\ IsFiniteSet(open) /\ IsFiniteSet(Connecting) /\ total \in Nat /\ c \in open
          /\ Cardinality(open) \in Nat /\ Cardinality(Connecting) \in Nat
          /\ Cardinality(open) + Cardinality(Connecting) <= total
      BY FS_CardinalityType DEF PoolInv, PoolDomains, Counted
    <3>2. IsFiniteSet(open') /\ Cardinality(open') = Cardinality(open) - 1
      BY <1>3, <3>1, FS_RemoveElement
    <3> QED
      BY <1>1, <3>1, <3>2 DEF Counted
  <2>4. NoneInside'
    BY <1>1, <1>3 DEF PoolInv, NoneInside
  <2> QED
    BY <2>1, <2>2, <2>3, <2>4 DEF PoolInv
<1> QED
  BY <1>2, <1>3 DEF D!Drain

LEMMA CheckoutKeeps ==
    ASSUME D!PoolAssumption, PoolInv, NEW u \in Users, D!Checkout(u), UNCHANGED oneLoop
    PROVE  PoolInv'
<1>1. user[u].pc = "away" /\ ~closed /\ UNCHANGED <<closed, closer, open>> /\ "away" \in Bare
  BY DEF D!Checkout, D!At, Bare
<1>2. ASSUME NEW c \in idle, idle' = idle \ {c}, D!Holds(u, c), UNCHANGED total PROVE PoolInv'
  BY <1>1, <1>2, TakesIdle DEF D!Holds
<1>3. ASSUME total < MaxSize, total' = total + 1, UNCHANGED idle,
             user' = [user EXCEPT ![u] = [pc |-> "connecting"]]
      PROVE  PoolInv'
  <2>1. "connecting" \in Bare /\ MaxSize \in Nat /\ total' = (total + 1) - 0 
    BY <1>3 DEF Bare, D!PoolAssumption, PoolInv, PoolDomains
  <2> QED
    BY <1>1, <1>3, <2>1, BareMoves
<1>4. ASSUME user' = [user EXCEPT ![u] = [pc |-> "waiting"]], UNCHANGED <<idle, total>>
      PROVE  PoolInv'
  <2>1. "waiting" \in Bare /\ MaxSize \in Nat /\ total' = total - 0
    BY <1>4 DEF Bare, D!PoolAssumption, PoolInv, PoolDomains
  <2> QED
    BY <1>1, <1>4, <2>1, BareMoves
<1> QED
  BY <1>2, <1>3, <1>4 DEF D!Checkout

\* A user gives up, in connecting or in waiting.
LEMMA GivesUpKeeps ==
    ASSUME D!PoolAssumption, PoolInv, NEW u \in Users, D!ConnectFails(u) \/ D!TimeOut(u), UNCHANGED oneLoop
    PROVE  PoolInv'
<1>1. "away" \in Bare /\ "connecting" \in Bare /\ "waiting" \in Bare /\ MaxSize \in Nat /\ total \in Nat
  BY DEF Bare, D!PoolAssumption, PoolInv, PoolDomains
<1>2. CASE D!ConnectFails(u)
  BY <1>1, <1>2, BareMoves DEF D!ConnectFails, D!At, D!Leave, D!Away
<1>3. CASE D!TimeOut(u)
  <2>1. total' = total - 0
    BY <1>1, <1>3 DEF D!TimeOut
  <2> QED
    BY <1>1, <1>3, <2>1, BareMoves DEF D!TimeOut, D!At, D!Leave, D!Away
<1> QED
  BY <1>2, <1>3

\* PoolInv is an invariant of Pool.
LEMMA PoolInductive == ASSUME D!PoolAssumption PROVE D!Spec => []PoolInv
<1>1. ASSUME D!Init PROVE PoolInv
  BY <1>1, InitPool
<1>2. ASSUME PoolInv, [D!Next]_<<oneLoop, D!vars>> PROVE PoolInv'
  <2>1. CASE UNCHANGED <<oneLoop, D!vars>>
    BY <1>2, <2>1
    DEF D!vars, PoolInv, PoolDomains, OnePlace, Counted, NoneInside, Connecting
  <2>2. ASSUME NEW u \in Users, D!UserStep(u), UNCHANGED oneLoop PROVE PoolInv'
    <3>1. CASE D!CheckoutClosed(u)
      BY <1>2, <2>1, <2>2, <3>1 DEF D!CheckoutClosed
    <3>2. CASE D!GetWaits(u)
      BY <1>2, <2>2, <3>2, TakesIdle DEF D!GetWaits, D!At, D!Holds
    <3>3. CASE D!Checkout(u)
      BY <1>2, <2>2, <3>3, CheckoutKeeps
    <3>4. CASE D!Connect(u) \/ D!Release(u) \/ D!Put(u) \/ D!Drop(u)
      BY <1>2, <2>2, <3>4, ConnectKeeps, ReleaseKeeps, PutKeeps, DropKeeps
    <3>5. CASE D!ConnectFails(u) \/ D!TimeOut(u)
      BY <1>2, <2>2, <3>5, GivesUpKeeps
    <3> QED
      BY <2>2, <3>1, <3>2, <3>3, <3>4, <3>5 DEF D!UserStep
  <2>3. ASSUME D!Close \/ D!Drain, UNCHANGED oneLoop PROVE PoolInv'
    BY <1>2, <2>3, CloseKeeps, DrainKeeps
  <2> QED
    BY <1>2, <2>1, <2>2, <2>3 DEF D!Next
<1> QED
  BY <1>1, <1>2, PTL DEF D!Spec

\* However many requests use the pool, fail to connect, time out or keep their
\* connection while it is closed, a connection is one request's, no more than
\* max_size are open, the count is exact until the pool is closed, and none of
\* the event loop's is left open then (PostgresSettlementStorePool).
THEOREM PoolIsSound == ASSUME D!PoolAssumption PROVE D!Spec => []PoolSound
<1>1. ASSUME PoolInv PROVE PoolSound
  <2>1. D!Out = {u \in Users : user[u].pc \in Having}
    BY DEF D!Out, Having
  <2>3. D!PoolTypeOK
    BY <1>1, <2>1, OfUser DEF PoolInv, PoolDomains, D!PoolTypeOK
  <2>4. D!NoSharing
    BY <1>1, <2>1 DEF PoolInv, OnePlace, D!NoSharing
  <2>5. D!CountExact
    <3>1. /\ Cardinality(open) \in Nat /\ Cardinality(Connecting) \in Nat /\ total \in Nat
          /\ total <= MaxSize /\ MaxSize \in Nat
          /\ Cardinality(open) + Cardinality(Connecting) <= total
          /\ ~closed => total = Cardinality(open) + Cardinality(Connecting)
      BY <1>1, FS_CardinalityType DEF PoolInv, PoolDomains, Counted, D!PoolAssumption
    <3>2. Cardinality(open) + Cardinality(Connecting) <= MaxSize
      BY <3>1
    <3> QED
      BY <3>1, <3>2, PoolCounts DEF D!CountExact, D!At, Connecting
  <2>6. D!ClosedIsEmpty
    <3>1. SUFFICES ASSUME oneLoop, closer = "after", \A u \in Users : user[u].pc = "away"
                   PROVE  open = {}
      BY DEF D!ClosedIsEmpty, D!At
    <3>2. closed
      BY <1>1, <3>1 DEF PoolInv, PoolDomains
    <3>3. idle = {}
      BY <1>1, <3>1, <3>2 DEF PoolInv, NoneInside
    <3> QED
      BY <1>1, <3>1, <3>3 DEF PoolInv, OnePlace, Having
  <2> QED
    BY <2>3, <2>4, <2>5, <2>6 DEF PoolSound, D!PoolSound
<1> QED
  BY <1>1, PoolInductive, PTL

-----------------------------------------------------------------------------
(***************************************************************************)
(* The rate limiters.                                                      *)
(***************************************************************************)
\* when window w begins
Opens(w) == w * Window

\* The windows follow one another, Window seconds each.
LEMMA WindowFacts ==
    ASSUME L!RateLimitAssumption, NEW t \in Nat
    PROVE  /\ L!WindowId(t) \in Nat /\ Opens(L!WindowId(t)) \in Nat
           /\ Opens(L!WindowId(t)) <= t /\ t < Opens(L!WindowId(t)) + Window
           /\ \A w \in Nat : Opens(w) \in Nat /\ (L!WindowId(t) > w <=> t >= Opens(w) + Window)
<1>1. Window \in Nat \ {0}
  BY DEF L!RateLimitAssumption
<1>2. t \div Window \in Nat /\ (t \div Window) * Window \in Nat
  BY <1>1
<1>3. (t \div Window) * Window <= t
  BY <1>1
<1>4. t < (t \div Window) * Window + Window
  BY <1>1
<1>5. ASSUME NEW w \in Nat, t >= w * Window + Window PROVE t \div Window > w
  BY <1>1, <1>5
<1>6. ASSUME NEW w \in Nat, t \div Window > w PROVE t >= w * Window + Window
  BY <1>1, <1>6
<1>7. \A w \in Nat : w * Window \in Nat
  BY <1>1
<1> QED
  BY <1>2, <1>3, <1>4, <1>5, <1>6, <1>7 DEF L!WindowId, Opens

\* Division leaves less than the divisor.
LEMMA DivFacts ==
    ASSUME NEW n \in Nat, NEW d \in Nat \ {0}
    PROVE  n \div d \in Nat /\ (n \div d) * d <= n /\ n < (n \div d) * d + d
<1>1. n \div d \in Nat
  OBVIOUS
<1>2. (n \div d) * d <= n
  OBVIOUS
<1>3. n < (n \div d) * d + d
  OBVIOUS
<1> QED
  BY <1>1, <1>2, <1>3

\* A time to live is answered to half a second.
LEMMA RoundedFacts ==
    ASSUME L!RateLimitAssumption, NEW t \in Nat
    PROVE  /\ L!Rounded(t) \in Nat /\ L!Rounded(t) <= t + Second
           /\ t <= L!Rounded(t) + Second \div 2
<1>1. Second \in Nat \ {0}
  BY DEF L!RateLimitAssumption
<1> PICK d : d = 2 * Second
  OBVIOUS
<1> PICK n : n = 2 * t + Second
  OBVIOUS
<1>2. d \in Nat \ {0} /\ n \in Nat
  BY <1>1
<1> PICK q : q = n \div d
  OBVIOUS
<1>3. q \in Nat /\ q * d <= n /\ n < q * d + d
  BY <1>2, DivFacts
<1> PICK r : r = q * Second
  OBVIOUS
<1>4. r \in Nat /\ q * d = 2 * r
  BY <1>1, <1>3
<1>5. 2 * r <= 2 * t + Second /\ 2 * t + Second < 2 * r + 2 * Second
  BY <1>3, <1>4
<1>6. r <= t + Second /\ t <= r + Second \div 2
  BY <1>1, <1>4, <1>5
<1> QED
  BY <1>4, <1>6 DEF L!Rounded

\* A time within the bound is in one of the windows.
LEMMA InWindows ==
    ASSUME L!RateLimitAssumption, NEW t \in Nat, t <= MaxTime
    PROVE  L!WindowId(t) \in L!Windows
<1>1. MaxTime \in Nat
  BY DEF L!RateLimitAssumption
<1>2. L!WindowId(t) \in Nat /\ L!WindowId(MaxTime) \in Nat /\ Opens(L!WindowId(MaxTime)) \in Nat
  BY <1>1, WindowFacts
<1>3. MaxTime < Opens(L!WindowId(MaxTime)) + Window
  BY <1>1, WindowFacts
<1>4. ~(L!WindowId(t) > L!WindowId(MaxTime))
  <2>1. L!WindowId(t) > L!WindowId(MaxTime) => t >= Opens(L!WindowId(MaxTime)) + Window
    BY <1>2, WindowFacts
  <2>2. Window \in Nat
    BY DEF L!RateLimitAssumption
  <2> QED
    BY <1>1, <1>2, <1>3, <2>1, <2>2
<1> QED
  BY <1>2, <1>4 DEF L!Windows, L!WindowId

\* A counter in Redis (r) or in memory at time t, of a window that opens at o
\* and a bucket that admits n: its count and its expiry, against what was let
\* through in time and late.  While the first key of the window lives it has
\* counted all of it; a second one can only be made when the window is over,
\* and outlives the last script that may charge it.
Good(r, t, o, n, count, expires, intime, behind) ==
    /\ count <= n /\ expires <= t + Window
    /\ count = 0 => intime = 0 /\ behind = 0
    /\ count > 0 => o + Window <= expires
    /\ \/ intime + behind <= count
       \/ r /\ intime <= n /\ intime + behind <= n + count /\ o + Window + Window <= expires
    /\ ~r => behind = 0

Counter == [count: Nat, expires: Nat]
Passed == [intime: Nat, late: Nat]
Checking == [waits: {TRUE}, req: Requests, read: Nat]
Retries == 0..Window + Second
Decisions == [allowed: BOOLEAN, retry: Retries, win: L!Windows]

LimiterDomains ==
    /\ redis \in BOOLEAN
    /\ clock \in Nat /\ clock <= MaxTime
    /\ counters \in [L!Buckets -> [L!Windows -> Counter]]
    /\ admitted \in [L!Buckets -> [L!Windows -> Passed]]
    /\ pending \in [Checks -> {L!NoCheck} \cup Checking]
    /\ decision \in [Checks -> Decisions]

\* A check that waits read the clock a while ago, and in memory just now.
ReadLately ==
    \A c \in Checks : pending[c].waits =>
        /\ pending[c].read <= clock
        /\ clock <= pending[c].read + MaxDelay
        /\ ~redis => clock = pending[c].read

GoodAt(b, w) ==
    Good(redis, clock, Opens(w), L!Limit(b), counters[b][w].count, counters[b][w].expires,
         admitted[b][w].intime, admitted[b][w].late)

\* The inductive invariant of RateLimit.
LimiterInv ==
    /\ LimiterDomains
    /\ ReadLately
    /\ \A b \in L!Buckets, w \in L!Windows : GoodAt(b, w)

\* The buckets of a request are among the buckets, and each has a limit.
LEMMA BucketFacts ==
    ASSUME L!RateLimitAssumption
    PROVE  /\ \A req \in Requests : L!BucketsFor(req) \subseteq L!Buckets
           /\ \A b \in L!Buckets : L!Limit(b) \in Nat
<1>1. \A req \in Requests : L!BucketsFor(req) \subseteq L!Buckets
  BY DEF L!Buckets
<1>2. ASSUME NEW req \in Requests, NEW b \in L!BucketsFor(req) PROVE L!Limit(b) \in Nat
  <2>1. req.endpoint \in L!Endpoints
    BY DEF L!RateLimitAssumption
  <2>2. /\ L!Endpoints \subseteq L!BucketKinds
        /\ "all" \in L!BucketKinds /\ "ip_all" \in L!BucketKinds /\ "ip_invalid" \in L!BucketKinds
    BY DEF L!BucketKinds
  <2>3. b.kind \in {"ip_all", "all", "ip_invalid", req.endpoint}
    BY <1>2 DEF L!BucketsFor
  <2>4. b.kind \in L!BucketKinds
    BY <2>1, <2>2, <2>3
  <2> QED
    BY <2>4 DEF L!Limit, L!RateLimitAssumption
<1> QED
  BY <1>1, <1>2 DEF L!Buckets

\* What the invariant says of one counter.
LEMMA OfCounter ==
    ASSUME L!RateLimitAssumption, LimiterInv, NEW b \in L!Buckets, NEW w \in L!Windows
    PROVE  /\ counters[b] \in [L!Windows -> Counter] /\ admitted[b] \in [L!Windows -> Passed]
           /\ counters[b][w] \in Counter /\ admitted[b][w] \in Passed
           /\ counters[b][w].count \in Nat /\ counters[b][w].expires \in Nat
           /\ admitted[b][w].intime \in Nat /\ admitted[b][w].late \in Nat
           /\ L!Limit(b) \in Nat /\ w \in Nat /\ Opens(w) \in Nat /\ GoodAt(b, w)
<1>1. counters[b] \in [L!Windows -> Counter] /\ admitted[b] \in [L!Windows -> Passed]
  BY DEF LimiterInv, LimiterDomains
<1>2. counters[b][w] \in Counter /\ admitted[b][w] \in Passed
  BY <1>1
<1>3. w \in Nat /\ Window \in Nat
  BY DEF L!Windows, L!RateLimitAssumption
<1>4. Opens(w) \in Nat
  BY <1>3 DEF Opens
<1> QED
  BY <1>1, <1>2, <1>3, <1>4, BucketFacts DEF LimiterInv, Counter, Passed

\* What the invariant says of a check that waits.
LEMMA OfCheck ==
    ASSUME L!RateLimitAssumption, LimiterInv, NEW c \in Checks, pending[c].waits,
           NEW w, w = L!WindowId(pending[c].read)
    PROVE  /\ pending[c].req \in Requests /\ pending[c].read \in Nat /\ pending[c].read <= clock
           /\ w \in L!Windows /\ w \in Nat /\ Opens(w) \in Nat
           /\ clock \in Nat /\ Opens(w) <= clock /\ clock < Opens(w) + Window + Window
           /\ ~redis => clock < Opens(w) + Window
           /\ L!WindowId(clock) = w <=> clock < Opens(w) + Window
<1>1. pending[c] \in Checking
  <2>1. pending[c] \in {L!NoCheck} \cup Checking
    BY DEF LimiterInv, LimiterDomains
  <2>2. ~L!NoCheck.waits
    BY DEF L!NoCheck
  <2> QED
    BY <2>1, <2>2
<1>2. pending[c].req \in Requests /\ pending[c].read \in Nat
  BY <1>1 DEF Checking
<1>3. /\ pending[c].read <= clock /\ clock <= pending[c].read + MaxDelay
      /\ ~redis => clock = pending[c].read
  BY DEF LimiterInv, ReadLately
<1>4. clock \in Nat /\ clock <= MaxTime /\ Window \in Nat /\ MaxDelay \in Nat /\ MaxDelay < Window
      /\ MaxTime \in Nat
  BY DEF LimiterInv, LimiterDomains, L!RateLimitAssumption
<1>5. pending[c].read <= MaxTime
  BY <1>2, <1>3, <1>4
<1>6. /\ w \in Nat /\ Opens(w) \in Nat /\ Opens(w) <= pending[c].read
      /\ pending[c].read < Opens(w) + Window
  BY <1>2, WindowFacts
<1>7. w \in L!Windows
  BY <1>2, <1>5, InWindows
<1>8. L!WindowId(clock) = w <=> clock < Opens(w) + Window
  <2>1. L!WindowId(clock) \in Nat /\ (L!WindowId(clock) > w <=> clock >= Opens(w) + Window)
    BY <1>4, <1>6, WindowFacts
  <2>2. ~(L!WindowId(clock) < w)
    <3>1. Opens(L!WindowId(clock)) \in Nat /\ clock < Opens(L!WindowId(clock)) + Window
      BY <1>4, WindowFacts
    <3>2. w > L!WindowId(clock) => pending[c].read >= Opens(L!WindowId(clock)) + Window
      BY <1>2, <2>1, WindowFacts
    <3> QED
      BY <1>2, <1>3, <1>4, <1>6, <2>1, <3>1, <3>2
  <2> QED
    BY <1>4, <1>6, <2>1, <2>2
<1> QED
  BY <1>2, <1>3, <1>4, <1>6, <1>7, <1>8

\* A counter that is charged stays good, whether the request is let through or
\* its answer is lost.
LEMMA ChargedGood ==
    ASSUME L!RateLimitAssumption, LimiterInv, NEW c \in Checks, pending[c].waits,
           NEW w, w = L!WindowId(pending[c].read), NEW b \in L!Buckets, ~L!Full(b, w),
           NEW k, k = L!Charged(b, w), NEW a, a \in {admitted[b][w], L!LetThrough(admitted[b][w], w)}
    PROVE  /\ k \in Counter /\ a \in Passed
           /\ Good(redis, clock, Opens(w), L!Limit(b), k.count, k.expires, a.intime, a.late)
<1>1. /\ w \in L!Windows /\ w \in Nat /\ Opens(w) \in Nat
      /\ clock \in Nat /\ Opens(w) <= clock /\ clock < Opens(w) + Window + Window
      /\ ~redis => clock < Opens(w) + Window
      /\ L!WindowId(clock) = w <=> clock < Opens(w) + Window
  BY OfCheck
<1>2. /\ counters[b][w].count \in Nat /\ counters[b][w].expires \in Nat
      /\ admitted[b][w] \in Passed
      /\ admitted[b][w].intime \in Nat /\ admitted[b][w].late \in Nat
      /\ L!Limit(b) \in Nat /\ GoodAt(b, w)
  BY <1>1, OfCounter
<1> PICK count : count = counters[b][w].count
  OBVIOUS
<1> PICK expires : expires = counters[b][w].expires
  OBVIOUS
<1> PICK lives \in BOOLEAN : lives <=> count > 0 /\ (~redis \/ clock < expires)
  OBVIOUS
<1> PICK n : n = IF lives THEN count ELSE 0
  OBVIOUS
<1> PICK e : e = IF lives THEN expires ELSE clock + Window
  OBVIOUS
<1>3. L!Lives(b, w) <=> lives
  BY DEF L!Lives
<1>4. n = L!Count(b, w) /\ n < L!Limit(b) /\ k = [count |-> n + 1, expires |-> e] /\ n \in Nat /\ e \in Nat
  <2>1. n = L!Count(b, w)
    BY <1>3 DEF L!Count
  <2>2. n \in Nat /\ e \in Nat
    BY <1>1, <1>2 DEF L!RateLimitAssumption
  <2>3. n < L!Limit(b)
    BY <1>2, <2>1, <2>2 DEF L!Full
  <2>4. k = [count |-> n + 1, expires |-> e]
    BY <1>3, <2>1 DEF L!Charged
  <2> QED
    BY <2>1, <2>2, <2>3, <2>4
<1>5. k \in Counter /\ k.count = n + 1 /\ k.expires = e
  BY <1>4 DEF Counter
<1> PICK i : i = admitted[b][w].intime
  OBVIOUS
<1> PICK l : l = admitted[b][w].late
  OBVIOUS
<1>6. /\ Good(redis, clock, Opens(w), L!Limit(b), n + 1, e, i, l)
      /\ clock < Opens(w) + Window => Good(redis, clock, Opens(w), L!Limit(b), n + 1, e, i + 1, l)
      /\ clock >= Opens(w) + Window => Good(redis, clock, Opens(w), L!Limit(b), n + 1, e, i, l + 1)
  <2>1. Good(redis, clock, Opens(w), L!Limit(b), count, expires, i, l)
    BY <1>2 DEF GoodAt
  <2>2. redis \in BOOLEAN /\ Window \in Nat
    BY DEF LimiterInv, LimiterDomains, L!RateLimitAssumption
  <2>3. CASE lives
    BY <1>1, <1>2, <1>4, <2>1, <2>2, <2>3 DEF Good
  <2>4. CASE ~lives
    BY <1>1, <1>2, <1>4, <2>1, <2>2, <2>4 DEF Good
  <2> QED
    BY <2>3, <2>4
<1>7. CASE a = admitted[b][w]
  BY <1>2, <1>5, <1>6, <1>7
<1>8. CASE a = L!LetThrough(admitted[b][w], w) /\ L!WindowId(clock) = w
  <2>1. a = [admitted[b][w] EXCEPT !.intime = i + 1]
    BY <1>8 DEF L!LetThrough
  <2>2. a \in Passed /\ a.intime = i + 1 /\ a.late = l
    BY <1>2, <2>1 DEF Passed
  <2> QED
    BY <1>1, <1>5, <1>6, <1>8, <2>2
<1>9. CASE a = L!LetThrough(admitted[b][w], w) /\ L!WindowId(clock) # w
  <2>1. a = [admitted[b][w] EXCEPT !.late = l + 1]
    BY <1>9 DEF L!LetThrough
  <2>2. a \in Passed /\ a.intime = i /\ a.late = l + 1
    BY <1>2, <2>1 DEF Passed
  <2>3. clock >= Opens(w) + Window
    BY <1>1, <1>9 DEF L!RateLimitAssumption
  <2> QED
    BY <1>5, <1>6, <2>2, <2>3
<1> QED
  BY <1>7, <1>8, <1>9

LEMMA InitLimiter == ASSUME L!RateLimitAssumption, L!Init PROVE LimiterInv
<1>1. [count |-> 0, expires |-> 0] \in Counter /\ [intime |-> 0, late |-> 0] \in Passed
  BY DEF Counter, Passed
<1>2. Window \in Nat /\ MaxTime \in Nat /\ 0 \in Retries
  BY DEF L!RateLimitAssumption, Retries
<1>3. 0 \in L!Windows
  <2>1. L!WindowId(MaxTime) \in Nat
    BY <1>2, WindowFacts
  <2> QED
    BY <2>1 DEF L!Windows, L!WindowId
<1>4. L!NoDecision \in Decisions
  <2>1. TRUE \in BOOLEAN
    OBVIOUS
  <2> QED
    BY <1>2, <1>3, <2>1 DEF L!NoDecision, Decisions
<1>5. /\ redis \in BOOLEAN /\ clock = 0
      /\ pending = [c \in Checks |-> L!NoCheck] /\ decision = [c \in Checks |-> L!NoDecision]
      /\ counters = [b \in L!Buckets |-> [w \in L!Windows |-> [count |-> 0, expires |-> 0]]]
      /\ admitted = [b \in L!Buckets |-> [w \in L!Windows |-> [intime |-> 0, late |-> 0]]]
  BY DEF L!Init
<1>6. LimiterDomains
  BY <1>1, <1>2, <1>4, <1>5 DEF LimiterDomains
<1>7. ReadLately
  BY <1>5 DEF ReadLately, L!NoCheck
<1>8. ASSUME NEW b \in L!Buckets, NEW w \in L!Windows PROVE GoodAt(b, w)
  <2>1. /\ counters[b][w].count = 0 /\ counters[b][w].expires = 0
        /\ admitted[b][w].intime = 0 /\ admitted[b][w].late = 0
    BY <1>5
  <2>2. L!Limit(b) \in Nat
    BY BucketFacts
  <2> QED
    BY <1>2, <1>5, <2>1, <2>2 DEF GoodAt, Good
<1> QED
  BY <1>6, <1>7, <1>8 DEF LimiterInv

\* The counters and the clock are left alone.
CountersKept == UNCHANGED <<redis, clock, counters, admitted>>

\* A check moves, and no counter does.
LEMMA CheckMoves ==
    ASSUME LimiterInv, CountersKept,
           pending' \in [Checks -> {L!NoCheck} \cup Checking], decision' \in [Checks -> Decisions],
           \A c \in Checks : pending'[c].waits =>
               \/ pending'[c] = pending[c]
               \/ pending'[c].read = clock /\ clock <= clock + MaxDelay
    PROVE  LimiterInv'
<1>1. L!Buckets' = L!Buckets
  BY DEF CountersKept, L!Buckets, L!BucketsFor, L!Tag
<1>2. LimiterDomains'
  BY <1>1 DEF LimiterInv, LimiterDomains, CountersKept
<1>3. ReadLately'
  <2>1. clock' = clock /\ redis' = redis /\ clock \in Nat
    BY DEF CountersKept, LimiterInv, LimiterDomains
  <2> QED
    BY <2>1 DEF LimiterInv, ReadLately
<1>4. \A b \in L!Buckets, w \in L!Windows : GoodAt(b, w)'
  BY DEF LimiterInv, GoodAt, CountersKept
<1> QED
  BY <1>1, <1>2, <1>3, <1>4 DEF LimiterInv

\* One check ends with an answer or without one.
LEMMA CheckEnds ==
    ASSUME LimiterInv, NEW c \in Checks, pending' = [pending EXCEPT ![c] = L!NoCheck]
    PROVE  /\ pending' \in [Checks -> {L!NoCheck} \cup Checking]
           /\ \A o \in Checks : pending'[o] = IF o = c THEN L!NoCheck ELSE pending[o]
           /\ ~L!NoCheck.waits
BY DEF LimiterInv, LimiterDomains, L!NoCheck

LEMMA StartKeeps ==
    ASSUME L!RateLimitAssumption, LimiterInv, NEW c \in Checks, NEW req \in Requests, L!Start(c, req),
           UNCHANGED redis
    PROVE  LimiterInv'
<1> PICK q : q = L!Waiting(req, clock)
  OBVIOUS
<1>1. /\ pending' = [pending EXCEPT ![c] = q] /\ decision' = [decision EXCEPT ![c] = L!NoDecision]
      /\ CountersKept
  BY DEF L!Start, CountersKept
<1>2. clock \in Nat /\ clock <= clock + MaxDelay
  BY DEF LimiterInv, LimiterDomains, L!RateLimitAssumption
<1>3. q \in Checking /\ q.read = clock
  BY <1>2 DEF L!Waiting, Checking
<1>4. L!NoDecision \in Decisions
  <2>1. 0 \in L!Windows
    <3>1. L!WindowId(MaxTime) \in Nat
      BY WindowFacts DEF L!RateLimitAssumption
    <3> QED
      BY <3>1 DEF L!Windows, L!WindowId
  <2>2. 0 \in Retries /\ TRUE \in BOOLEAN
    BY DEF L!RateLimitAssumption, Retries
  <2> QED
    BY <2>1, <2>2 DEF L!NoDecision, Decisions
<1>5. pending' \in [Checks -> {L!NoCheck} \cup Checking] /\ decision' \in [Checks -> Decisions]
  BY <1>1, <1>3, <1>4 DEF LimiterInv, LimiterDomains
<1>6. \A o \in Checks : pending'[o] = IF o = c THEN q ELSE pending[o]
  BY <1>1 DEF LimiterInv, LimiterDomains
<1> QED
  BY <1>1, <1>2, <1>3, <1>5, <1>6, CheckMoves

\* A refusal charges nothing, and tells to come back when the window is over, on
\* Redis to half a second.
LEMMA RejectFacts ==
    ASSUME L!RateLimitAssumption, LimiterInv, NEW c \in Checks, L!Reject(c), UNCHANGED redis
    PROVE  /\ LimiterInv'
           /\ CountersKept
           /\ L!WindowId(clock + decision'[c].retry + L!Slack) > decision'[c].win
<1> PICK w : w = L!WindowId(pending[c].read)
  OBVIOUS
<1>1. PICK b \in L!BucketsFor(pending[c].req) :
          decision' = [decision EXCEPT ![c] = [allowed |-> FALSE, retry |-> L!TimeToLive(b, w), win |-> w]]
  BY DEF L!Reject
<1>2. pending[c].waits /\ pending' = [pending EXCEPT ![c] = L!NoCheck] /\ CountersKept
  BY DEF L!Reject, CountersKept
<1>3. /\ pending[c].req \in Requests /\ w \in L!Windows /\ w \in Nat /\ Opens(w) \in Nat
      /\ clock \in Nat /\ Opens(w) <= clock
  BY <1>2, OfCheck
<1>4. b \in L!Buckets
  BY <1>1, <1>3, BucketFacts
<1>5. /\ counters[b][w].count \in Nat /\ counters[b][w].expires \in Nat /\ GoodAt(b, w)
  BY <1>3, <1>4, OfCounter
<1> PICK retry : retry = L!TimeToLive(b, w)
  OBVIOUS
<1>6. Window \in Nat /\ Second \in Nat /\ L!Slack \in Nat
  BY DEF L!RateLimitAssumption, L!Slack
<1>7. /\ retry \in Nat /\ retry <= Window + Second
      /\ clock + retry + L!Slack >= Opens(w) + Window
  <2>1. CASE redis /\ L!Lives(b, w)
    <3>1. counters[b][w].count > 0 /\ clock < counters[b][w].expires
      BY <2>1 DEF L!Lives
    <3>2. /\ counters[b][w].expires <= clock + Window
          /\ Opens(w) + Window <= counters[b][w].expires
      BY <1>5, <3>1 DEF GoodAt, Good
    <3> PICK left : left = counters[b][w].expires - clock
      OBVIOUS
    <3>3. left \in Nat /\ left <= Window /\ clock + left >= Opens(w) + Window
      BY <1>3, <1>5, <1>6, <3>1, <3>2
    <3>4. retry = L!Rounded(left) /\ L!Slack = Second \div 2
      BY <2>1 DEF L!TimeToLive, L!Slack
    <3>5. retry \in Nat /\ retry <= left + Second /\ left <= retry + L!Slack
      BY <3>3, <3>4, RoundedFacts
    <3> QED
      BY <1>3, <1>6, <3>3, <3>5
  <2>2. CASE ~(redis /\ L!Lives(b, w))
    <3>1. retry = Window
      BY <2>2 DEF L!TimeToLive
    <3> QED
      BY <1>3, <1>6, <3>1
  <2> QED
    BY <2>1, <2>2
<1> PICK no : no = FALSE
  OBVIOUS
<1> PICK d : d = [allowed |-> no, retry |-> retry, win |-> w]
  OBVIOUS
<1>8. d \in Decisions /\ d.retry = retry /\ d.win = w
  <2>1. retry \in Retries
    BY <1>6, <1>7 DEF Retries
  <2>2. no \in BOOLEAN
    OBVIOUS
  <2> QED
    BY <1>3, <2>1, <2>2 DEF Decisions
<1>9. decision' \in [Checks -> Decisions] /\ decision'[c] = d
  <2>1. decision' = [decision EXCEPT ![c] = d] /\ decision \in [Checks -> Decisions]
    BY <1>1 DEF LimiterInv, LimiterDomains
  <2> QED
    BY <1>8, <2>1
<1>10. LimiterInv'
  BY <1>2, <1>9, CheckEnds, CheckMoves
<1>11. L!WindowId(clock + retry + L!Slack) > w
  BY <1>3, <1>6, <1>7, WindowFacts
<1> QED
  BY <1>2, <1>8, <1>9, <1>10, <1>11

\* The buckets of a check that waits are charged, and no other.
Charges(c) ==
    LET w == L!WindowId(pending[c].read)
    IN  /\ \A b \in L!BucketsFor(pending[c].req) : ~L!Full(b, w)
        /\ counters' = [b \in DOMAIN counters |->
                          IF b \in L!BucketsFor(pending[c].req)
                          THEN [counters[b] EXCEPT ![w] = L!Charged(b, w)] ELSE counters[b]]

LEMMA ChargesKeeps ==
    ASSUME L!RateLimitAssumption, LimiterInv, NEW c \in Checks, pending[c].waits, Charges(c),
           UNCHANGED <<redis, clock>>, pending' = [pending EXCEPT ![c] = L!NoCheck],
           decision' \in [Checks -> Decisions],
           NEW w, w = L!WindowId(pending[c].read),
           \/ UNCHANGED admitted
           \/ admitted' = [b \in DOMAIN counters |->
                             IF b \in L!BucketsFor(pending[c].req)
                             THEN [admitted[b] EXCEPT ![w] = L!LetThrough(admitted[b][w], w)]
                             ELSE admitted[b]]
    PROVE  /\ LimiterInv'
           /\ {b \in DOMAIN counters : counters'[b] # counters[b]} = L!BucketsFor(pending[c].req)
<1>1. L!Buckets' = L!Buckets /\ DOMAIN counters = L!Buckets
  BY DEF L!Buckets, L!BucketsFor, L!Tag, LimiterInv, LimiterDomains
<1>2. /\ pending[c].req \in Requests /\ w \in L!Windows /\ clock \in Nat
      /\ L!BucketsFor(pending[c].req) \subseteq L!Buckets
  BY OfCheck, BucketFacts
<1>3. ASSUME NEW b \in L!Buckets
      PROVE  /\ counters'[b] \in [L!Windows -> Counter] /\ admitted'[b] \in [L!Windows -> Passed]
             /\ \A v \in L!Windows : GoodAt(b, v)'
             /\ counters'[b] # counters[b] <=> b \in L!BucketsFor(pending[c].req)
  <2>1. /\ counters[b] \in [L!Windows -> Counter] /\ admitted[b] \in [L!Windows -> Passed]
        /\ \A v \in L!Windows : GoodAt(b, v)
    BY OfCounter DEF LimiterInv, LimiterDomains
  <2>2. CASE b \notin L!BucketsFor(pending[c].req)
    <3>1. counters'[b] = counters[b] /\ admitted'[b] = admitted[b]
      BY <1>1, <2>2 DEF Charges
    <3> QED
      BY <2>1, <2>2, <3>1 DEF GoodAt, L!Limit
  <2>3. CASE b \in L!BucketsFor(pending[c].req)
    <3> PICK k : k = L!Charged(b, w)
      OBVIOUS
    <3>1. ~L!Full(b, w) /\ counters'[b] = [counters[b] EXCEPT ![w] = k]
      BY <1>1, <2>3 DEF Charges
    <3>2. PICK a : /\ a \in {admitted[b][w], L!LetThrough(admitted[b][w], w)}
                   /\ admitted'[b] = [admitted[b] EXCEPT ![w] = a]
      BY <1>1, <1>2, <2>1, <2>3
    <3>3. /\ k \in Counter /\ a \in Passed
          /\ Good(redis, clock, Opens(w), L!Limit(b), k.count, k.expires, a.intime, a.late)
      BY <3>1, <3>2, ChargedGood
    <3>4. /\ counters'[b] \in [L!Windows -> Counter] /\ admitted'[b] \in [L!Windows -> Passed]
          /\ \A v \in L!Windows : /\ counters'[b][v] = IF v = w THEN k ELSE counters[b][v]
                                  /\ admitted'[b][v] = IF v = w THEN a ELSE admitted[b][v]
      BY <1>2, <2>1, <3>1, <3>2, <3>3
    <3>5. \A v \in L!Windows : GoodAt(b, v)'
      BY <2>1, <3>3, <3>4 DEF GoodAt, L!Limit
    <3>6. k # counters[b][w]
      <4>1. counters[b][w].count \in Nat /\ counters[b][w].expires \in Nat /\ Window \in Nat \ {0}
        BY <1>2, OfCounter DEF L!RateLimitAssumption
      <4>2. CASE L!Lives(b, w)
        <5>1. k.count = counters[b][w].count + 1
          BY <4>2 DEF L!Charged, L!Count
        <5> QED
          BY <4>1, <5>1
      <4>3. CASE ~L!Lives(b, w)
        <5>1. k.count = 0 + 1 /\ k.expires = clock + Window
          BY <4>3 DEF L!Charged, L!Count
        <5>2. counters[b][w].count = 0 \/ counters[b][w].expires <= clock
          BY <1>2, <4>1, <4>3 DEF L!Lives
        <5> QED
          BY <1>2, <4>1, <5>1, <5>2
      <4> QED
        BY <4>2, <4>3
    <3> QED
      BY <1>2, <2>3, <3>4, <3>5, <3>6
  <2> QED
    BY <2>2, <2>3
<1>4. counters' \in [L!Buckets -> [L!Windows -> Counter]]
  <2>1. DOMAIN counters' = L!Buckets /\ counters' = [b \in L!Buckets |-> counters'[b]]
    BY <1>1 DEF Charges
  <2> QED
    BY <1>3, <2>1
<1>5. admitted' \in [L!Buckets -> [L!Windows -> Passed]]
  <2>1. admitted' = [b \in L!Buckets |-> admitted'[b]]
    BY <1>1 DEF LimiterInv, LimiterDomains
  <2> QED
    BY <1>3, <2>1
<1>6. LimiterDomains'
  BY <1>1, <1>4, <1>5, CheckEnds DEF LimiterInv, LimiterDomains
<1>7. ReadLately'
  BY CheckEnds DEF LimiterInv, ReadLately
<1>8. {b \in DOMAIN counters : counters'[b] # counters[b]} = L!BucketsFor(pending[c].req)
  BY <1>1, <1>2, <1>3
<1> QED
  BY <1>1, <1>3, <1>6, <1>7, <1>8 DEF LimiterInv

LEMMA AdmitFacts ==
    ASSUME L!RateLimitAssumption, LimiterInv, NEW c \in Checks, L!Admit(c), UNCHANGED redis
    PROVE  /\ LimiterInv' /\ decision'[c].allowed
           /\ {b \in DOMAIN counters : counters'[b] # counters[b]} = L!BucketsFor(pending[c].req)
<1> PICK w : w = L!WindowId(pending[c].read)
  OBVIOUS
<1>1. /\ pending[c].waits /\ Charges(c) /\ UNCHANGED <<redis, clock>>
      /\ pending' = [pending EXCEPT ![c] = L!NoCheck]
      /\ admitted' = [b \in DOMAIN counters |->
                        IF b \in L!BucketsFor(pending[c].req)
                        THEN [admitted[b] EXCEPT ![w] = L!LetThrough(admitted[b][w], w)]
                        ELSE admitted[b]]
  BY DEF L!Admit, Charges
<1> PICK yes : yes = TRUE
  OBVIOUS
<1> PICK zero : zero = 0
  OBVIOUS
<1> PICK d : d = [allowed |-> yes, retry |-> zero, win |-> w]
  OBVIOUS
<1>2. d \in Decisions /\ d.allowed = TRUE
  <2>1. w \in L!Windows
    BY <1>1, OfCheck
  <2>2. zero \in Retries /\ yes \in BOOLEAN
    BY DEF L!RateLimitAssumption, Retries
  <2> QED
    BY <2>1, <2>2 DEF Decisions
<1>3. decision' = [decision EXCEPT ![c] = d] /\ decision \in [Checks -> Decisions]
  BY DEF L!Admit, LimiterInv, LimiterDomains
<1>4. decision' \in [Checks -> Decisions] /\ decision'[c] = d
  BY <1>2, <1>3
<1>5. decision'[c].allowed
  BY <1>2, <1>4
<1> QED
  BY <1>1, <1>4, <1>5, ChargesKeeps

LEMMA LostFacts ==
    ASSUME L!RateLimitAssumption, LimiterInv, NEW c \in Checks, L!Lost(c), UNCHANGED redis
    PROVE  /\ LimiterInv' /\ decision' = decision
           /\ {b \in DOMAIN counters : counters'[b] # counters[b]} \in {{}, L!BucketsFor(pending[c].req)}
<1>1. /\ pending[c].waits /\ UNCHANGED <<redis, clock, decision, admitted>>
      /\ pending' = [pending EXCEPT ![c] = L!NoCheck] /\ decision \in [Checks -> Decisions]
      /\ UNCHANGED counters \/ Charges(c)
  BY DEF L!Lost, Charges, LimiterInv, LimiterDomains
<1>2. CASE UNCHANGED counters
  <2>1. LimiterInv'
    BY <1>1, <1>2, CheckEnds, CheckMoves DEF CountersKept
  <2> QED
    BY <1>1, <1>2, <2>1
<1>3. CASE Charges(c)
  BY <1>1, <1>3, ChargesKeeps
<1> QED
  BY <1>1, <1>2, <1>3

LEMMA LimiterTickKeeps ==
    ASSUME L!RateLimitAssumption, LimiterInv, L!Tick, UNCHANGED redis PROVE LimiterInv'
<1>1. /\ clock < MaxTime /\ clock' = clock + 1 /\ UNCHANGED <<redis, counters, pending, decision, admitted>>
      /\ \A c \in Checks : pending[c].waits => clock < pending[c].read + (IF redis THEN MaxDelay ELSE 0)
  BY DEF L!Tick
<1>2. clock \in Nat /\ MaxTime \in Nat /\ MaxDelay \in Nat /\ Window \in Nat
  BY DEF LimiterInv, LimiterDomains, L!RateLimitAssumption
<1>3. L!Buckets' = L!Buckets
  BY <1>1 DEF L!Buckets, L!BucketsFor, L!Tag
<1>4. LimiterDomains'
  BY <1>1, <1>2, <1>3 DEF LimiterInv, LimiterDomains
<1>5. ReadLately'
  <2> SUFFICES ASSUME NEW c \in Checks, pending[c].waits
               PROVE  /\ pending[c].read <= clock + 1 /\ clock + 1 <= pending[c].read + MaxDelay
                      /\ ~redis => clock + 1 = pending[c].read
    BY <1>1 DEF ReadLately
  <2>1. pending[c].read \in Nat /\ pending[c].read <= clock
    BY OfCheck
  <2>2. redis
    BY <1>1, <1>2, <2>1
  <2> QED
    BY <1>1, <1>2, <2>1, <2>2
<1>6. ASSUME NEW b \in L!Buckets, NEW w \in L!Windows PROVE GoodAt(b, w)'
  <2>1. /\ GoodAt(b, w) /\ counters[b][w].expires \in Nat
    BY OfCounter
  <2> QED
    BY <1>1, <1>2, <2>1 DEF GoodAt, Good, L!Limit
<1> QED
  BY <1>3, <1>4, <1>5, <1>6 DEF LimiterInv

\* LimiterInv is an invariant of RateLimit.
LEMMA LimiterInductive == ASSUME L!RateLimitAssumption PROVE L!Spec => []LimiterInv
<1>1. ASSUME L!Init PROVE LimiterInv
  BY <1>1, InitLimiter
<1>2. ASSUME LimiterInv, [L!Next]_(L!vars) PROVE LimiterInv'
  <2>1. CASE UNCHANGED L!vars
    <3>1. CountersKept /\ UNCHANGED <<pending, decision>>
      BY <2>1 DEF L!vars, CountersKept
    <3>2. pending \in [Checks -> {L!NoCheck} \cup Checking] /\ decision \in [Checks -> Decisions]
      BY <1>2 DEF LimiterInv, LimiterDomains
    <3> QED
      BY <1>2, <3>1, <3>2, CheckMoves
  <2>2. CASE L!Next
    BY <1>2, <2>2, StartKeeps, RejectFacts, AdmitFacts, LostFacts, LimiterTickKeeps DEF L!Next
  <2> QED
    BY <1>2, <2>1, <2>2
<1> QED
  BY <1>1, <1>2, PTL DEF L!Spec

\* Whatever checks overlap, are late or lose their answer, a bucket lets no more
\* than its limit through while its window lasts, and all in all no more than
\* twice; in memory nothing is late (check of both limiters of hosted/limits.py).
THEOREM WindowsBounded ==
    ASSUME L!RateLimitAssumption PROVE L!Spec => []WindowBound
<1>1. ASSUME LimiterInv PROVE L!RateLimitTypeOK
  <2>1. clock \in 0 .. MaxTime /\ decision \in [Checks -> Decisions] /\ Retries = 0 .. Window + Second
    BY <1>1 DEF LimiterInv, LimiterDomains, L!RateLimitAssumption, Retries
  <2>2. counters \in [L!Buckets -> [L!Windows -> [count: Nat, expires: 0 .. MaxTime + Window]]]
    <3>1. ASSUME NEW b \in L!Buckets, NEW w \in L!Windows
          PROVE  counters[b][w] \in [count: Nat, expires: 0 .. MaxTime + Window]
      <4>1. counters[b][w] \in Counter /\ counters[b][w].expires \in Nat /\ GoodAt(b, w)
        BY <1>1, OfCounter
      <4>2. counters[b][w].expires <= clock + Window
        BY <4>1 DEF GoodAt, Good
      <4>3. counters[b][w].expires \in 0 .. MaxTime + Window
        BY <2>1, <4>1, <4>2 DEF L!RateLimitAssumption
      <4> QED
        BY <4>1, <4>3 DEF Counter
    <3>2. counters \in [L!Buckets -> [L!Windows -> Counter]]
      BY <1>1 DEF LimiterInv, LimiterDomains
    <3> QED
      BY <3>1, <3>2
  <2>3. ASSUME NEW c \in Checks
        PROVE  \/ pending[c] = L!NoCheck
               \/ \E req \in Requests, t \in 0 .. MaxTime : pending[c] = L!Waiting(req, t)
    <3>1. CASE pending[c] \in Checking
      <4>1. pending[c].waits /\ pending[c].waits = TRUE
        BY <3>1 DEF Checking
      <4>2. pending[c].req \in Requests /\ pending[c].read \in Nat /\ pending[c].read <= clock
        BY <1>1, <4>1, OfCheck
      <4>3. pending[c].read \in 0 .. MaxTime
        BY <2>1, <4>2 DEF L!RateLimitAssumption
      <4>4. pending[c] = L!Waiting(pending[c].req, pending[c].read)
        BY <3>1 DEF Checking, L!Waiting
      <4> QED
        BY <4>2, <4>3, <4>4
    <3> QED
      BY <1>1, <3>1 DEF LimiterInv, LimiterDomains
  <2> QED
    BY <1>1, <2>1, <2>2, <2>3 DEF L!RateLimitTypeOK, LimiterInv, LimiterDomains, Decisions, Passed
<1>2. ASSUME LimiterInv PROVE L!WindowBound
  <2> SUFFICES ASSUME NEW b \in L!Buckets, NEW w \in L!Windows
               PROVE  /\ admitted[b][w].intime <= L!Limit(b)
                      /\ admitted[b][w].intime + admitted[b][w].late <= 2 * L!Limit(b)
                      /\ ~redis => admitted[b][w].late = 0
    BY <1>2 DEF L!WindowBound, LimiterInv, LimiterDomains
  <2>1. /\ counters[b][w].count \in Nat /\ admitted[b][w].intime \in Nat
        /\ admitted[b][w].late \in Nat /\ L!Limit(b) \in Nat /\ GoodAt(b, w)
    BY <1>2, OfCounter
  <2> QED
    BY <2>1 DEF GoodAt, Good
<1>3. LimiterInv => WindowBound
  BY <1>1, <1>2 DEF WindowBound
<1> QED
  BY <1>3, LimiterInductive, PTL

\* A check charges all the buckets of its request or none, none when it is
\* refused, and who comes back when Retry-After is over, on Redis half a second
\* later, is counted in a later window.
THEOREM DecisionsAreSound == ASSUME L!RateLimitAssumption PROVE L!Spec => DecisionsSound
<1> DEFINE Whole ==
        \A c \in Checks : (pending[c].waits /\ ~pending'[c].waits) =>
            LET w == L!WindowId(pending[c].read)
                charged == {b \in DOMAIN counters : counters'[b] # counters[b]}
            IN  /\ charged \in {{}, L!BucketsFor(pending[c].req)}
                /\ ~decision'[c].allowed /\ decision'[c] # decision[c] => charged = {}
           Later ==
        \A c \in Checks : (~decision'[c].allowed /\ pending[c].waits /\ ~pending'[c].waits
                             /\ decision'[c] # decision[c]) =>
            L!WindowId(clock + decision'[c].retry + L!Slack) > decision'[c].win
<1>1. ASSUME LimiterInv, [L!Next]_(L!vars) PROVE [Whole]_(L!vars) /\ [Later]_(L!vars)
  <2> SUFFICES ASSUME L!Next, NEW c \in Checks, pending[c].waits, ~pending'[c].waits
               PROVE  /\ {b \in DOMAIN counters : counters'[b] # counters[b]}
                            \in {{}, L!BucketsFor(pending[c].req)}
                      /\ ~decision'[c].allowed /\ decision'[c] # decision[c] =>
                            /\ {b \in DOMAIN counters : counters'[b] # counters[b]} = {}
                            /\ L!WindowId(clock + decision'[c].retry + L!Slack) > decision'[c].win
    BY <1>1
  <2>1. UNCHANGED redis /\ (L!Reject(c) \/ L!Admit(c) \/ L!Lost(c))
    <3>1. ASSUME NEW o \in Checks, o # c, L!Reject(o) \/ L!Admit(o) \/ L!Lost(o) PROVE FALSE
      <4>1. pending' = [pending EXCEPT ![o] = L!NoCheck]
        BY <3>1 DEF L!Reject, L!Admit, L!Lost
      <4> QED
        BY <1>1, <3>1, <4>1, CheckEnds
    <3>2. ASSUME NEW o \in Checks, NEW req \in Requests, L!Start(o, req) PROVE FALSE
      <4>1. ~pending[o].waits /\ pending' = [pending EXCEPT ![o] = L!Waiting(req, clock)]
        BY <3>2 DEF L!Start
      <4> QED
        BY <1>1, <4>1 DEF LimiterInv, LimiterDomains
    <3>3. ~L!Tick
      BY DEF L!Tick
    <3> QED
      BY <3>1, <3>2, <3>3 DEF L!Next
  <2>2. CASE L!Reject(c)
    BY <1>1, <2>1, <2>2, RejectFacts DEF CountersKept
  <2>3. CASE L!Admit(c)
    BY <1>1, <2>1, <2>3, AdmitFacts
  <2>4. CASE L!Lost(c)
    BY <1>1, <2>1, <2>4, LostFacts
  <2> QED
    BY <2>1, <2>2, <2>3, <2>4
<1> QED
  BY <1>1, LimiterInductive, PTL
  DEF DecisionsSound, L!Spec, L!DecisionsSound, L!AllOrNothing, L!RetryAfterSuffices

-----------------------------------------------------------------------------
(***************************************************************************)
(* The exact provider: what it says for certain.                           *)
(***************************************************************************)
Calls == {"new", "claimed", "queued", "calling", "over"}
Works == {"none", "built", "pending", "ok", "failed", "dropped", "refused"}
Answers == {"none", "unavailable", "settled", "failed_final", "unknown", "exception"}

\* An answer ends its call, and a definite one agrees with the chain.
AnswersInv ==
    /\ call \in [Payments -> Calls]
    /\ work \in [Payments -> Works]
    /\ answer \in [Payments -> Answers]
    /\ \A p \in Payments : answer[p] # "none" => call[p] = "over"
    /\ E!AnswersTrue

\* A call ends.
LEMMA OutcomeAnswers ==
    ASSUME AnswersInv, NEW p \in Payments, NEW r \in Answers, E!Outcome(p, r),
           r = "settled" => work[p] = "ok",
           r = "failed_final" => work[p] \notin {"built", "pending", "ok"}
    PROVE  AnswersInv'
<1>1. call' = [call EXCEPT ![p] = "over"] /\ answer' = [answer EXCEPT ![p] = r] /\ UNCHANGED work
  BY DEF E!Outcome
<1>2. "over" \in Calls
  BY DEF Calls
<1> QED
  BY <1>1, <1>2 DEF AnswersInv, E!AnswersTrue

\* The words of settle are words of the provider, and a definite one is true.
LEMMA AnswerWords ==
    ASSUME NEW p \in Payments, NEW r \in E!ResponsesFor(p), NEW s, s = E!SettlementStatus(r)
    PROVE  /\ s \in Answers /\ s # "none"
           /\ s = "settled" => work[p] = "ok"
           /\ s = "failed_final" => work[p] \notin {"built", "pending", "ok"}
<1>1. /\ r \in E!Responses
      /\ r.success = "true" => work[p] = "ok"
      /\ r.success = "false" /\ r.reason = "definite" => work[p] \notin {"built", "pending", "ok"}
  BY DEF E!ResponsesFor
<1>2. CASE r.success = "true"
  BY <1>1, <1>2 DEF E!SettlementStatus, Answers
<1>3. CASE r.success = "false"
  BY <1>1, <1>3 DEF E!SettlementStatus, E!FailureStatus, Answers
<1>4. CASE r.success # "true" /\ r.success # "false"
  BY <1>4 DEF E!SettlementStatus, Answers
<1> QED
  BY <1>2, <1>3, <1>4

\* A step of the chain leaves what was answered true.
LEMMA ChainAnswers ==
    ASSUME AnswersInv, NEW p \in Payments, E!Build(p) \/ E!Send(p) \/ E!SendRefused(p) \/ E!Mine(p)
    PROVE  AnswersInv'
<1>1. work \in [Payments -> Works] /\ UNCHANGED <<call, answer>>
  BY DEF AnswersInv, E!Build, E!Send, E!SendRefused, E!Mine
<1>2. /\ "built" \in Works /\ "pending" \in Works /\ "ok" \in Works /\ "failed" \in Works
      /\ "dropped" \in Works /\ "refused" \in Works
  BY DEF Works
<1>3. /\ work' \in [Payments -> Works]
      /\ \A q \in Payments :
            /\ work[q] = "ok" => work'[q] = "ok"
            /\ work[q] \notin {"built", "pending", "ok"} =>
                  call[q] = "calling" \/ work'[q] \notin {"built", "pending", "ok"}
  <2>1. CASE E!Build(p)
    BY <1>1, <1>2, <2>1 DEF E!Build
  <2>2. CASE E!Send(p)
    <3>1. /\ work[p] = "built"
          /\ work' = [q \in Payments |-> IF q = p THEN "pending"
                                        ELSE IF q \in E!SameNonce(p) THEN "dropped" ELSE work[q]]
      BY <2>2 DEF E!Send, E!SameNonce
    <3>2. \A q \in E!SameNonce(p) : work[q] = "pending"
      BY DEF E!SameNonce
    <3> QED
      BY <1>1, <1>2, <3>1, <3>2
  <2>3. CASE E!SendRefused(p)
    BY <1>1, <1>2, <2>3 DEF E!SendRefused
  <2>4. CASE E!Mine(p)
    BY <1>1, <1>2, <2>4 DEF E!Mine
  <2> QED
    BY <2>1, <2>2, <2>3, <2>4
<1>4. \A q \in Payments : answer[q] # "none" => call[q] # "calling"
  BY DEF AnswersInv
<1> QED
  BY <1>1, <1>3, <1>4 DEF AnswersInv, E!AnswersTrue

\* AnswersInv is an invariant of ExactProvider.
LEMMA AnswersInductive == E!Spec => []AnswersInv
<1>1. ASSUME E!Init PROVE AnswersInv
  BY <1>1 DEF E!Init, AnswersInv, E!AnswersTrue, Calls, Works, Answers
<1>2. ASSUME AnswersInv, [E!Next]_(E!vars) PROVE AnswersInv'
  <2>1. CASE UNCHANGED E!vars
    BY <1>2, <2>1 DEF E!vars, AnswersInv, E!AnswersTrue
  <2>2. ASSUME NEW p \in Payments, E!PreflightOk(p) \/ E!Enter(p) \/ E!Begin(p) PROVE AnswersInv'
    <3>1. /\ call[p] # "over" /\ UNCHANGED <<work, answer>>
          /\ \E c \in Calls : call' = [call EXCEPT ![p] = c]
      BY <2>2 DEF E!PreflightOk, E!Enter, E!Begin, Calls
    <3> QED
      BY <1>2, <3>1 DEF AnswersInv, E!AnswersTrue
  <2>3. ASSUME NEW p \in Payments, E!PreflightRefused(p) PROVE AnswersInv'
    <3>1. "over" \in Calls /\ "unavailable" \in Answers
      BY DEF Calls, Answers
    <3> QED
      BY <1>2, <2>3, <3>1 DEF E!PreflightRefused, AnswersInv, E!AnswersTrue
  <2>4. ASSUME NEW p \in Payments, E!Timeout(p) \/ E!Cancel(p) PROVE AnswersInv'
    <3>1. "unknown" \in Answers /\ "exception" \in Answers
      BY DEF Answers
    <3> QED
      BY <1>2, <2>4, <3>1, OutcomeAnswers DEF E!Timeout, E!Cancel
  <2>5. ASSUME NEW p \in Payments, E!Answer(p) PROVE AnswersInv'
    <3>1. PICK r \in E!ResponsesFor(p) : E!Outcome(p, E!SettlementStatus(r))
      BY <2>5 DEF E!Answer
    <3> PICK s : s = E!SettlementStatus(r)
      OBVIOUS
    <3>2. /\ s \in Answers /\ E!Outcome(p, s)
          /\ s = "settled" => work[p] = "ok"
          /\ s = "failed_final" => work[p] \notin {"built", "pending", "ok"}
      BY <3>1, AnswerWords
    <3> QED
      BY <1>2, <3>2, OutcomeAnswers
  <2> QED
    BY <1>2, <2>1, <2>2, <2>3, <2>4, <2>5, ChainAnswers DEF E!Next
<1> QED
  BY <1>1, <1>2, PTL DEF E!Spec

\* A transaction is called settled only on its own receipt of a transfer of the
\* payment's terms.
LEMMA ReconciledTransaction ==
    ASSUME NEW p \in Payments, NEW s, NEW t \in Payments \cup {None},
           NEW result \in E!ReconcileTransaction(p, s, t), result.status = "settled"
    PROVE  result.tx # None /\ work[result.tx] = "ok" /\ Terms[result.tx] = Terms[p]
<1>1. t # None
  BY DEF E!ReconcileTransaction, E!Result
<1>2. PICK r \in E!ReceiptsFor(t) :
          result = E!Result(p, CASE r.matches /\ r.status = "1" ->
                                      IF r.transfers = Terms[p] THEN "settled" ELSE "pending"
                                 [] r.matches /\ r.status = "0" ->
                                      IF s = "submitted" THEN "unknown" ELSE "failed_final"
                                 [] OTHER -> "pending", t)
  BY <1>1 DEF E!ReconcileTransaction, E!Result
<1>3. result.tx = t
  BY <1>2 DEF E!Result
<1>4. r.matches /\ r.status = "1" /\ r.transfers = Terms[p]
  BY <1>2 DEF E!Result
<1>5. work[t] = "ok" /\ r.transfers = Terms[t]
  BY <1>2, <1>4 DEF E!ReceiptsFor
<1> QED
  BY <1>1, <1>3, <1>4, <1>5

\* Whatever the facilitator, the node and the hook answer, and whatever happens
\* after a call was given up: settled is said only of a payment whose
\* transaction succeeded, failed_final only of one that none will pay, and
\* reconciliation says settled only with a mined transaction that makes the
\* transfer (HostedExactProvider.settle and reconcile_settlement).
THEOREM ProviderIsTruthful == E!Spec => []ProviderTruthful
<1>1. E!SettledProved
  <2> SUFFICES ASSUME NEW p \in Payments, NEW s \in {"settle_in_progress", "unknown"},
                      NEW result \in E!Reconcile(p, s), result.status = "settled"
               PROVE  result.tx # None /\ work[result.tx] = "ok" /\ Terms[result.tx] = Terms[p]
    BY DEF E!SettledProved
  <2>1. PICK t \in Payments \cup {None} : result \in E!ReconcileTransaction(p, s, t)
    <3>1. CASE HasHook
      <4>1. PICK outcome \in E!Hooked : result \in E!Validate(p, s, outcome)
        BY <3>1 DEF E!Reconcile, E!Result
      <4>2. outcome.tx \in Payments \cup {None}
        BY DEF E!Hooked
      <4>3. result \in E!ReconcileTransaction(p, s, outcome.tx)
        BY <4>1 DEF E!Validate, E!Result
      <4> QED
        BY <4>2, <4>3
    <3>2. CASE ~HasHook
      BY <3>2 DEF E!Reconcile
    <3> QED
      BY <3>1, <3>2
  <2> QED
    BY <2>1, ReconciledTransaction
<1>2. AnswersInv => ProviderTruthful
  BY <1>1 DEF AnswersInv, ProviderTruthful, E!ProviderTruthful
<1> QED
  BY <1>2, AnswersInductive, PTL

-----------------------------------------------------------------------------
(***************************************************************************)
(* The exact provider: the semaphore and the locks of the networks.        *)
(***************************************************************************)
In(q, p) == \E i \in 1..Len(q) : q[i] = p

Distinct(q) == \A i, j \in 1..Len(q) : q[i] = q[j] => i = j

Queue == Seq(Payments)

\* Who is in a queue that one has joined,
LEMMA Joined ==
    ASSUME NEW q \in Queue, NEW p \in Payments, Distinct(q), ~In(q, p)
    PROVE  /\ Append(q, p) \in Queue /\ Distinct(Append(q, p)) /\ Append(q, p) # <<>>
           /\ \A o : In(Append(q, p), o) <=> In(q, o) \/ o = p
<1> PICK t : t = Append(q, p)
  OBVIOUS
<1>1. Len(q) \in Nat /\ t \in Queue /\ t # <<>> /\ Len(t) = Len(q) + 1
  BY DEF Queue
<1>2. t[Len(q) + 1] = p /\ \A i \in 1..Len(q) : t[i] = q[i]
  BY DEF Queue
<1>3. 1..Len(t) = (1..Len(q)) \cup {Len(q) + 1}
  BY <1>1
<1>4. \A o : In(t, o) <=> In(q, o) \/ o = p
  BY <1>2, <1>3 DEF In
<1>5. Distinct(t)
  BY <1>2, <1>3 DEF Distinct, In
<1> QED
  BY <1>1, <1>4, <1>5

\* that the first has left,
LEMMA Advanced ==
    ASSUME NEW q \in Queue, Distinct(q), q # <<>>
    PROVE  /\ Tail(q) \in Queue /\ Distinct(Tail(q)) /\ Head(q) \in Payments /\ In(q, Head(q))
           /\ \A o : In(Tail(q), o) <=> In(q, o) /\ o # Head(q)
<1> PICK t : t = Tail(q)
  OBVIOUS
<1>1. /\ Len(q) \in Nat /\ Len(q) >= 1 /\ t \in Queue /\ Len(t) = Len(q) - 1
      /\ Head(q) = q[1] /\ Head(q) \in Payments
  BY DEF Queue
<1>2. \A i \in 1..Len(t) : t[i] = q[i + 1]
  BY DEF Queue
<1>3. \A i \in 1..Len(q) : i = 1 \/ (i - 1 \in 1..Len(t) /\ (i - 1) + 1 = i)
  BY <1>1
<1>4. \A i \in 1..Len(t) : i + 1 \in 1..Len(q) /\ i + 1 # 1
  BY <1>1
<1>5. 1 \in 1..Len(q)
  BY <1>1
<1>6. ASSUME NEW o PROVE In(t, o) <=> In(q, o) /\ o # Head(q)
  <2>1. ASSUME NEW i \in 1..Len(t), t[i] = o PROVE In(q, o) /\ o # Head(q)
    BY <1>1, <1>2, <1>4, <1>5, <2>1 DEF In, Distinct
  <2>2. ASSUME NEW i \in 1..Len(q), q[i] = o, o # Head(q) PROVE In(t, o)
    <3>1. i - 1 \in 1..Len(t) /\ t[i - 1] = o
      BY <1>1, <1>2, <1>3, <2>2
    <3> QED
      BY <3>1 DEF In
  <2> QED
    BY <2>1, <2>2 DEF In
<1>7. Distinct(t)
  <2> SUFFICES ASSUME NEW i \in 1..Len(t), NEW j \in 1..Len(t), t[i] = t[j] PROVE i = j
    BY DEF Distinct
  <2>1. i + 1 = j + 1
    BY <1>2, <1>4 DEF Distinct
  <2> QED
    BY <2>1
<1>8. In(q, Head(q))
  BY <1>1, <1>5 DEF In
<1> QED
  BY <1>1, <1>6, <1>7, <1>8

\* and that one in it has left.
LEMMA Removed ==
    ASSUME NEW q \in Queue, NEW k \in 1..Len(q)
    PROVE  /\ E!RemoveAt(q, k) \in Queue /\ Len(E!RemoveAt(q, k)) = Len(q) - 1
           /\ \A i \in 1..(Len(q) - 1) : E!RemoveAt(q, k)[i] = IF i <= k - 1 THEN q[i] ELSE q[i + 1]
<1> DEFINE a == SubSeq(q, 1, k - 1)
           b == SubSeq(q, k + 1, Len(q))
<1>1. Len(q) \in Nat
  BY DEF Queue
<1>2. a \in Seq(Payments) /\ Len(a) = k - 1 /\ \A i \in 1..(k - 1) : a[i] = q[i]
  BY <1>1 DEF Queue
<1>3. b \in Seq(Payments) /\ Len(b) = Len(q) - k /\ \A i \in 1..(Len(q) - k) : b[i] = q[i + k]
  BY <1>1 DEF Queue
<1>4. E!RemoveAt(q, k) = a \o b
  BY DEF E!RemoveAt
<1> HIDE DEF a, b
<1>5. /\ a \o b \in Seq(Payments) /\ Len(a \o b) = Len(a) + Len(b)
      /\ \A i \in 1..(Len(a) + Len(b)) : (a \o b)[i] =
            IF i <= Len(a) THEN a[i] ELSE b[i - Len(a)]
  BY <1>2, <1>3, ConcatProperties
<1>6. Len(a) + Len(b) = Len(q) - 1
  BY <1>1, <1>2, <1>3
<1> PICK t : t = a \o b
  OBVIOUS
<1>7. ASSUME NEW i \in 1..(Len(q) - 1) PROVE t[i] = IF i <= k - 1 THEN q[i] ELSE q[i + 1]
  <2>1. t[i] = IF i <= k - 1 THEN a[i] ELSE b[i - (k - 1)]
    BY <1>2, <1>5, <1>6
  <2>2. CASE i <= k - 1
    <3>1. i \in 1..(k - 1)
      BY <1>1, <2>2
    <3> QED
      BY <1>2, <2>1, <2>2, <3>1
  <2>3. CASE ~(i <= k - 1)
    <3>1. i - (k - 1) \in 1..(Len(q) - k) /\ (i - (k - 1)) + k = i + 1
      BY <1>1, <2>3
    <3>2. b[i - (k - 1)] = q[i + 1]
      BY <1>3, <3>1
    <3> QED
      BY <2>1, <2>3, <3>2
  <2> QED
    BY <2>2, <2>3
<1> QED
  BY <1>4, <1>5, <1>6, <1>7 DEF Queue

LEMMA Cancelled ==
    ASSUME NEW q \in Queue, NEW p, Distinct(q), In(q, p)
    PROVE  /\ E!Without(q, p) \in Queue /\ Distinct(E!Without(q, p))
           /\ \A o : In(E!Without(q, p), o) <=> In(q, o) /\ o # p
<1>1. Len(q) \in Nat /\ DOMAIN q = 1..Len(q)
  BY DEF Queue
<1>2. PICK k \in 1..Len(q) : q[k] = p /\ E!Without(q, p) = E!RemoveAt(q, k)
  <2>1. PICK i \in DOMAIN q : q[i] = p
    BY <1>1 DEF In
  <2>2. (CHOOSE j \in DOMAIN q : q[j] = p) \in DOMAIN q /\ q[CHOOSE j \in DOMAIN q : q[j] = p] = p
    BY <2>1
  <2> QED
    BY <1>1, <2>2 DEF E!Without
<1>3. PICK t : t = E!Without(q, p)
  OBVIOUS
<1>6. /\ t \in Queue /\ Len(t) = Len(q) - 1
      /\ \A i \in 1..(Len(q) - 1) : t[i] = IF i <= k - 1 THEN q[i] ELSE q[i + 1]
  BY <1>2, <1>3, Removed
\* where the element at i of t was in q
<1> DEFINE Was(i) == IF i <= k - 1 THEN i ELSE i + 1
<1>7. \A i \in 1..Len(t) : Was(i) \in 1..Len(q) /\ Was(i) # k /\ t[i] = q[Was(i)]
  <2> SUFFICES ASSUME NEW i \in 1..Len(t)
               PROVE  Was(i) \in 1..Len(q) /\ Was(i) # k /\ t[i] = q[Was(i)]
    OBVIOUS
  <2>1. i \in 1..(Len(q) - 1)
    BY <1>6
  <2>2. Was(i) \in 1..Len(q) /\ Was(i) # k
    BY <1>1, <2>1
  <2> QED
    BY <1>6, <2>1, <2>2
<1>8. \A j \in 1..Len(q) : j # k => \E i \in 1..Len(t) : Was(i) = j
  <2> SUFFICES ASSUME NEW j \in 1..Len(q), j # k PROVE \E i \in 1..Len(t) : Was(i) = j
    OBVIOUS
  <2>1. CASE j < k
    <3>1. j \in 1..Len(t) /\ Was(j) = j
      BY <1>1, <1>2, <1>6, <2>1
    <3> QED
      BY <3>1
  <2>2. CASE j > k
    <3>1. j - 1 \in 1..Len(t) /\ Was(j - 1) = j
      BY <1>1, <1>2, <1>6, <2>2
    <3> QED
      BY <3>1
  <2> QED
    BY <1>1, <2>1, <2>2
<1>9. \A i, j \in 1..Len(t) : Was(i) = Was(j) => i = j
  BY <1>1, <1>2, <1>6
<1> HIDE DEF Was
<1>10. Distinct(t)
  BY <1>7, <1>9 DEF Distinct
<1>11. ASSUME NEW o PROVE In(t, o) <=> In(q, o) /\ o # p
  <2>1. ASSUME NEW i \in 1..Len(t), t[i] = o PROVE In(q, o) /\ o # p
    BY <1>2, <1>7, <2>1 DEF In, Distinct
  <2>2. ASSUME NEW j \in 1..Len(q), q[j] = o, o # p PROVE In(t, o)
    <3>1. PICK i \in 1..Len(t) : Was(i) = j
      BY <1>2, <1>8, <2>2
    <3> QED
      BY <1>7, <2>2, <3>1 DEF In
  <2> QED
    BY <2>1, <2>2 DEF In
<1> QED
  BY <1>3, <1>6, <1>10, <1>11

Owner == Payments \cup {None}
Holders == [Networks -> Owner]
Queues == [Networks -> Queue]
SlotRecords == [free: Nat, waiting: Queue, holder: Holders, queue: Queues]

\* p has a place of the semaphore
Has(s, p) == s.holder[NetworkOf[p]] = p \/ In(s.queue[NetworkOf[p]], p)

Places(s) == {p \in Payments : Has(s, p)}

\* The lock of a network and its queue.
LinedAt(s, n) ==
    /\ Distinct(s.queue[n])
    /\ s.holder[n] = None => s.queue[n] = <<>>
    /\ s.holder[n] # None => NetworkOf[s.holder[n]] = n
    /\ ~In(s.queue[n], s.holder[n])
    /\ \A p \in Payments : In(s.queue[n], p) => NetworkOf[p] = n

Lined(s) ==
    /\ s \in SlotRecords
    /\ Distinct(s.waiting)
    /\ s.free > 0 => s.waiting = <<>>
    /\ \A n \in Networks : LinedAt(s, n)

\* The payments of S are those that wait for a place or have one, not both.
Who(s, S) ==
    \A p \in Payments :
        /\ p \in S <=> In(s.waiting, p) \/ Has(s, p)
        /\ ~(In(s.waiting, p) /\ Has(s, p))

\* Semaphore and locks with the payments of S in them, and k places in the
\* hands of a coroutine that is about to pass them on.
Fit(s, S, k) ==
    /\ Lined(s)
    /\ Who(s, S)
    /\ IsFiniteSet(Places(s))
    /\ s.free + Cardinality(Places(s)) + k = MaxConcurrent

\* Who has a lock of s keeps it in t.
Kept(s, t, p) ==
    \A o \in Payments : o # p /\ s.holder[NetworkOf[o]] = o => t.holder[NetworkOf[o]] = o

\* Nobody is in an empty queue.
LEMMA NobodyIn == <<>> \in Queue /\ Distinct(<<>>) /\ \A p : ~In(<<>>, p)
BY DEF Queue, Distinct, In

\* Fields of the record of slots.
LEMMA SlotFields ==
    ASSUME NEW s \in SlotRecords, NEW p \in Payments, E!ExactProviderAssumption
    PROVE  /\ s.free \in Nat /\ s.waiting \in Queue /\ s.holder \in Holders /\ s.queue \in Queues
           /\ NetworkOf[p] \in Networks
           /\ \A n \in Networks : s.holder[n] \in Owner /\ s.queue[n] \in Queue
           /\ p # None
<1>1. s.free \in Nat /\ s.waiting \in Queue /\ s.holder \in Holders /\ s.queue \in Queues
  BY DEF SlotRecords
<1>2. NetworkOf[p] \in Networks /\ p # None
  BY DEF E!ExactProviderAssumption
<1> QED
  BY <1>1, <1>2 DEF Holders, Queues

\* From s to t the lock of n goes to h, with q behind it.
Moved(s, t, n, h, q) ==
    /\ t \in SlotRecords /\ t.waiting = s.waiting /\ t.free = s.free
    /\ \A m \in Networks : /\ t.holder[m] = IF m = n THEN h ELSE s.holder[m]
                           /\ t.queue[m] = IF m = n THEN q ELSE s.queue[m]
    /\ Distinct(q)
    /\ h = None => q = <<>>
    /\ h # None => NetworkOf[h] = n
    /\ ~In(q, h)
    /\ \A p \in Payments : In(q, p) => NetworkOf[p] = n

\* The lock of one network and its queue change.
LEMMA NetworkMoves ==
    ASSUME NEW s, NEW t, NEW n \in Networks, NEW h, NEW q, Lined(s), Moved(s, t, n, h, q),
           E!ExactProviderAssumption
    PROVE  /\ Lined(t)
           /\ \A p \in Payments : Has(t, p) <=> IF NetworkOf[p] = n THEN p = h \/ In(q, p) ELSE Has(s, p)
<1>1. \A m \in Networks : LinedAt(t, m)
  <2> SUFFICES ASSUME NEW m \in Networks PROVE LinedAt(t, m)
    OBVIOUS
  <2>1. CASE m = n
    <3>1. t.holder[m] = h /\ t.queue[m] = q
      BY <2>1 DEF Moved
    <3> QED
      BY <2>1, <3>1 DEF LinedAt, Moved
  <2>2. CASE m # n
    <3>1. t.holder[m] = s.holder[m] /\ t.queue[m] = s.queue[m] /\ LinedAt(s, m)
      BY <2>2 DEF Lined, Moved
    <3> QED
      BY <3>1 DEF LinedAt
  <2> QED
    BY <2>1, <2>2
<1>2. \A p \in Payments : NetworkOf[p] \in Networks
  BY DEF E!ExactProviderAssumption
<1> QED
  BY <1>1, <1>2 DEF Lined, Has, Moved

\* A payment that is in nothing takes the lock of its network, or joins its
\* queue, with the place in hand.
LEMMA TakeLockFits ==
    ASSUME E!ExactProviderAssumption, NEW s, NEW S, NEW p \in Payments, p \notin S, Fit(s, S, 1),
           NEW t, t = E!TakeLock(s, p), NEW T, T = S \cup {p}
    PROVE  Fit(t, T, 0) /\ Kept(s, t, p)
<1> PICK n : n = NetworkOf[p]
  OBVIOUS
<1>1. s \in SlotRecords /\ Lined(s) /\ Who(s, S)
  BY DEF Fit, Lined
<1>2. /\ s.free \in Nat /\ s.waiting \in Queue /\ s.holder \in Holders /\ s.queue \in Queues
      /\ n \in Networks /\ s.holder[n] \in Owner /\ s.queue[n] \in Queue /\ p # None
  BY <1>1, SlotFields
<1>3. ~Has(s, p) /\ ~In(s.waiting, p) /\ s.holder[n] # p /\ ~In(s.queue[n], p)
  BY <1>1 DEF Who, Has
<1>4. LinedAt(s, n)
  BY <1>1, <1>2 DEF Lined
<1>5. /\ t \in SlotRecords /\ t.waiting = s.waiting /\ t.free = s.free
      /\ Lined(t) /\ Kept(s, t, p)
      /\ \A o \in Payments : Has(t, o) <=> Has(s, o) \/ o = p
  <2>1. CASE s.holder[n] = None
    <3> PICK h : h = [s.holder EXCEPT ![n] = p]
      OBVIOUS
    <3>1. t = [s EXCEPT !.holder = h]
      BY <2>1 DEF E!TakeLock
    <3>2. h \in Holders /\ \A m \in Networks : h[m] = IF m = n THEN p ELSE s.holder[m]
      BY <1>2 DEF Holders, Owner
    <3>3. /\ t \in SlotRecords /\ t.waiting = s.waiting /\ t.free = s.free
          /\ t.holder = h /\ t.queue = s.queue
      BY <1>1, <3>1, <3>2 DEF SlotRecords
    <3>4. s.queue[n] = <<>>
      BY <1>4, <2>1 DEF LinedAt
    <3>5. \A m \in Networks : /\ t.holder[m] = IF m = n THEN p ELSE s.holder[m]
                              /\ t.queue[m] = IF m = n THEN <<>> ELSE s.queue[m]
      BY <3>2, <3>3, <3>4
    <3>6. /\ Lined(t)
          /\ \A o \in Payments : Has(t, o) <=> IF NetworkOf[o] = n THEN o = p \/ In(<<>>, o) ELSE Has(s, o)
      <4>1. Moved(s, t, n, p, <<>>)
        BY <1>2, <3>3, <3>5, NobodyIn DEF Moved
      <4> QED
        BY <1>1, <1>2, <4>1, NetworkMoves
    <3>7. \A o \in Payments : NetworkOf[o] = n => ~Has(s, o)
      BY <2>1, <3>4, NobodyIn, SlotFields, <1>1 DEF Has
    <3>8. Kept(s, t, p)
      BY <2>1, <3>3, <3>5, SlotFields, <1>1 DEF Kept
    <3> QED
      BY <3>3, <3>6, <3>7, <3>8, NobodyIn
  <2>2. CASE s.holder[n] # None
    <3>q. PICK q : q = Append(s.queue[n], p)
      OBVIOUS
    <3>g. PICK g : g = [s.queue EXCEPT ![n] = q]
      OBVIOUS
    <3>1. t = [s EXCEPT !.queue = g]
      BY <2>2, <3>q, <3>g DEF E!TakeLock
    <3>2. q \in Queue /\ Distinct(q) /\ \A o : In(q, o) <=> In(s.queue[n], o) \/ o = p
      BY <1>2, <1>3, <1>4, <3>q, Joined DEF LinedAt
    <3>3. g \in Queues /\ \A m \in Networks : g[m] = IF m = n THEN q ELSE s.queue[m]
      BY <1>2, <3>g, <3>2 DEF Queues
    <3>4. /\ t \in SlotRecords /\ t.waiting = s.waiting /\ t.free = s.free
          /\ t.holder = s.holder /\ t.queue = g
      BY <1>1, <3>1, <3>3 DEF SlotRecords
    <3>5. \A m \in Networks : /\ t.holder[m] = IF m = n THEN s.holder[n] ELSE s.holder[m]
                              /\ t.queue[m] = IF m = n THEN q ELSE s.queue[m]
      BY <3>3, <3>4
    <3>6. /\ s.holder[n] # None => NetworkOf[s.holder[n]] = n
          /\ ~In(q, s.holder[n])
          /\ \A o \in Payments : In(q, o) => NetworkOf[o] = n
      BY <1>3, <1>4, <3>2 DEF LinedAt
    <3>7. /\ Lined(t)
          /\ \A o \in Payments :
                Has(t, o) <=> IF NetworkOf[o] = n THEN o = s.holder[n] \/ In(q, o) ELSE Has(s, o)
      <4>h. PICK h : h = s.holder[n]
        OBVIOUS
      <4>1. Moved(s, t, n, h, q) /\ n \in Networks
        BY <1>2, <2>2, <3>2, <3>4, <3>5, <3>6, <4>h DEF Moved
      <4>2. Lined(t) /\ \A o \in Payments :
               Has(t, o) <=> IF NetworkOf[o] = n THEN o = h \/ In(q, o) ELSE Has(s, o)
        BY <1>1, <4>1, NetworkMoves
      <4> QED
        BY <4>h, <4>2
    <3>8. \A o \in Payments : Has(t, o) <=> Has(s, o) \/ o = p
      BY <3>2, <3>7 DEF Has
    <3>9. Kept(s, t, p)
      BY <3>4 DEF Kept
    <3> QED
      BY <3>4, <3>7, <3>8, <3>9
  <2> QED
    BY <2>1, <2>2
<1>6. Who(t, T)
  BY <1>1, <1>3, <1>5 DEF Who
<1>7. Places(t) = Places(s) \cup {p} /\ p \notin Places(s)
  BY <1>3, <1>5 DEF Places
<1>8. /\ IsFiniteSet(Places(s)) /\ Cardinality(Places(s)) \in Nat
      /\ s.free + Cardinality(Places(s)) + 1 = MaxConcurrent
  BY FS_CardinalityType DEF Fit
<1>9. IsFiniteSet(Places(t)) /\ Cardinality(Places(t)) = Cardinality(Places(s)) + 1
  BY <1>7, <1>8, FS_AddElement
<1>10. t.free + Cardinality(Places(t)) + 0 = MaxConcurrent
  BY <1>2, <1>5, <1>8, <1>9
<1> QED
  BY <1>5, <1>6, <1>9, <1>10 DEF Fit

\* Locks and queues that are the same hold the same.
LEMMA SameLocks ==
    ASSUME NEW s, NEW t, t.holder = s.holder, t.queue = s.queue
    PROVE  /\ \A n : LinedAt(s, n) => LinedAt(t, n)
           /\ \A p : Has(t, p) <=> Has(s, p)
           /\ Places(t) = Places(s)
           /\ \A p : Kept(s, t, p)
<1>1. \A p : Has(t, p) <=> Has(s, p)
  BY DEF Has
<1> QED
  BY <1>1 DEF LinedAt, Places, Kept

\* The semaphore on the way in.
LEMMA TakeSlotFits ==
    ASSUME E!ExactProviderAssumption, NEW s, NEW S, NEW p \in Payments, p \notin S, Fit(s, S, 0),
           NEW t, t = E!TakeSlot(s, p), NEW T, T = S \cup {p}
    PROVE  Fit(t, T, 0) /\ Kept(s, t, p)
<1>1. s \in SlotRecords /\ Lined(s) /\ Who(s, S)
  BY DEF Fit, Lined
<1>2. s.free \in Nat /\ s.waiting \in Queue
  BY <1>1, SlotFields
<1>3. /\ IsFiniteSet(Places(s)) /\ Cardinality(Places(s)) \in Nat
      /\ s.free + Cardinality(Places(s)) + 0 = MaxConcurrent
  BY FS_CardinalityType DEF Fit
<1>4. CASE s.free > 0
  <2>f. PICK f : f = s.free - 1
    OBVIOUS
  <2>u. PICK u : u = [s EXCEPT !.free = f]
    OBVIOUS
  <2>1. f \in Nat /\ t = E!TakeLock(u, p)
    BY <1>2, <1>4, <2>f, <2>u DEF E!TakeSlot
  <2>2. /\ u \in SlotRecords /\ u.free = f /\ u.waiting = s.waiting
        /\ u.holder = s.holder /\ u.queue = s.queue
    BY <1>1, <2>1, <2>u DEF SlotRecords
  <2>3. /\ \A n : LinedAt(s, n) => LinedAt(u, n)
        /\ \A o : Has(u, o) <=> Has(s, o)
        /\ Places(u) = Places(s)
    BY <2>2, SameLocks
  <2>4. Lined(u)
    BY <1>1, <1>4, <2>2, <2>3 DEF Lined
  <2>5. Who(u, S)
    BY <1>1, <2>2, <2>3 DEF Who
  <2>6. IsFiniteSet(Places(u)) /\ u.free + Cardinality(Places(u)) + 1 = MaxConcurrent
    BY <1>2, <1>3, <2>2, <2>3, <2>f
  <2>7. Fit(u, S, 1)
    BY <2>4, <2>5, <2>6 DEF Fit
  <2>8. Fit(t, T, 0) /\ Kept(u, t, p)
    BY <2>1, <2>7, TakeLockFits
  <2> QED
    BY <2>2, <2>8 DEF Kept
<1>5. CASE ~(s.free > 0)
  <2>1. ~In(s.waiting, p) /\ ~Has(s, p) /\ Distinct(s.waiting)
    BY <1>1 DEF Who, Lined
  <2>w. PICK w : w = Append(s.waiting, p)
    OBVIOUS
  <2>2. w \in Queue /\ Distinct(w) /\ \A o : In(w, o) <=> In(s.waiting, o) \/ o = p
    BY <1>2, <2>1, <2>w, Joined
  <2>3. t = [s EXCEPT !.waiting = w]
    BY <1>5, <2>w DEF E!TakeSlot
  <2>4. /\ t \in SlotRecords /\ t.free = s.free /\ t.waiting = w
        /\ t.holder = s.holder /\ t.queue = s.queue
    BY <1>1, <2>2, <2>3 DEF SlotRecords
  <2>5. /\ \A n : LinedAt(s, n) => LinedAt(t, n)
        /\ \A o : Has(t, o) <=> Has(s, o)
        /\ Places(t) = Places(s) /\ Kept(s, t, p)
    BY <2>4, SameLocks
  <2>6. Lined(t)
    BY <1>1, <1>5, <2>2, <2>4, <2>5 DEF Lined
  <2>7. Who(t, T)
    BY <1>1, <2>1, <2>2, <2>4, <2>5 DEF Who
  <2> QED
    BY <1>3, <2>4, <2>5, <2>6, <2>7 DEF Fit
<1> QED
  BY <1>4, <1>5

\* p gives up its lock, or its place in the queue, and nobody else's changes.
Gives(s, t, p, h, q) ==
    /\ Moved(s, t, NetworkOf[p], h, q)
    /\ s.holder[NetworkOf[p]] = p \/ h = s.holder[NetworkOf[p]]
    /\ \A o \in Payments : NetworkOf[o] = NetworkOf[p] =>
          ((o = h \/ In(q, o)) <=> Has(s, o) /\ o # p)

\* What is left then.
LEMMA GivenBack ==
    ASSUME E!ExactProviderAssumption, NEW s, NEW S, NEW p \in Payments, Fit(s, S, 0), Has(s, p),
           NEW t, NEW h, NEW q, Gives(s, t, p, h, q), NEW T, T = S \ {p}
    PROVE  Fit(t, T, 1) /\ Kept(s, t, p)
<1>n. PICK n : n = NetworkOf[p]
  OBVIOUS
<1>1. s \in SlotRecords /\ Lined(s) /\ Who(s, S) /\ n \in Networks /\ s.free \in Nat
  BY <1>n, SlotFields DEF Fit, Lined
<1>2. Moved(s, t, n, h, q)
  BY <1>n DEF Gives
<1>3. /\ Lined(t)
      /\ \A o \in Payments : Has(t, o) <=> IF NetworkOf[o] = n THEN o = h \/ In(q, o) ELSE Has(s, o)
  BY <1>1, <1>2, NetworkMoves
<1>4. \A o \in Payments : Has(t, o) <=> Has(s, o) /\ o # p
  BY <1>n, <1>3 DEF Gives
<1>5. t.waiting = s.waiting /\ t.free = s.free
  BY <1>2 DEF Moved
<1>6. Who(t, T)
  BY <1>1, <1>4, <1>5 DEF Who
<1>7. Places(t) = Places(s) \ {p} /\ p \in Places(s)
  BY <1>4 DEF Places
<1>8. /\ IsFiniteSet(Places(s)) /\ Cardinality(Places(s)) \in Nat
      /\ s.free + Cardinality(Places(s)) + 0 = MaxConcurrent
  BY FS_CardinalityType DEF Fit
<1>9. IsFiniteSet(Places(t)) /\ Cardinality(Places(t)) = Cardinality(Places(s)) - 1
  BY <1>7, <1>8, FS_RemoveElement
<1>10. t.free + Cardinality(Places(t)) + 1 = MaxConcurrent
  BY <1>1, <1>5, <1>8, <1>9
<1>11. Kept(s, t, p)
  <2> SUFFICES ASSUME NEW o \in Payments, o # p, s.holder[NetworkOf[o]] = o
               PROVE  t.holder[NetworkOf[o]] = o
    BY DEF Kept
  <2>1. /\ NetworkOf[o] \in Networks
        /\ t.holder[NetworkOf[o]] = IF NetworkOf[o] = n THEN h ELSE s.holder[NetworkOf[o]]
    BY <1>2 DEF Moved, E!ExactProviderAssumption
  <2> QED
    BY <1>n, <2>1 DEF Gives
<1> QED
  BY <1>3, <1>6, <1>9, <1>10, <1>11 DEF Fit

\* The lock of a network is given back, and goes to the first who waits.
LEMMA ReleaseLockFits ==
    ASSUME E!ExactProviderAssumption, NEW s, NEW S, NEW p \in Payments, Fit(s, S, 0),
           s.holder[NetworkOf[p]] = p, NEW t, t = E!ReleaseLock(s, NetworkOf[p]), NEW T, T = S \ {p}
    PROVE  Fit(t, T, 1) /\ Kept(s, t, p)
<1>n. PICK n : n = NetworkOf[p]
  OBVIOUS
<1>1. s \in SlotRecords /\ Lined(s) /\ n \in Networks
  BY <1>n, SlotFields DEF Fit, Lined
<1>2. /\ s.free \in Nat /\ s.waiting \in Queue /\ s.holder \in Holders /\ s.queue \in Queues
      /\ s.holder[n] = p /\ s.queue[n] \in Queue /\ p # None
  BY <1>n, <1>1, SlotFields
<1>3. LinedAt(s, n) /\ Has(s, p)
  BY <1>1, <1>2, <1>n DEF Lined, Has
<1>4. CASE s.queue[n] = <<>>
  <2>h. PICK h : h = [s.holder EXCEPT ![n] = None]
    OBVIOUS
  <2>1. t = [s EXCEPT !.holder = h]
    BY <1>4, <1>n, <2>h DEF E!ReleaseLock
  <2>2. h \in Holders /\ \A m \in Networks : h[m] = IF m = n THEN None ELSE s.holder[m]
    BY <1>2, <2>h DEF Holders, Owner
  <2>3. /\ t \in SlotRecords /\ t.waiting = s.waiting /\ t.free = s.free
        /\ t.holder = h /\ t.queue = s.queue
    BY <1>1, <2>1, <2>2 DEF SlotRecords
  <2>4. Moved(s, t, n, None, <<>>)
    BY <1>4, <2>2, <2>3, NobodyIn DEF Moved
  <2>5. ASSUME NEW o \in Payments, NetworkOf[o] = n
        PROVE  (o = None \/ In(<<>>, o)) <=> Has(s, o) /\ o # p
    BY <1>1, <1>2, <1>4, <2>5, NobodyIn, SlotFields DEF Has
  <2> QED
    <3>1. Gives(s, t, p, None, <<>>)
      BY <1>2, <1>n, <2>4, <2>5 DEF Gives
    <3> QED
      BY <1>3, <3>1, GivenBack
<1>5. CASE s.queue[n] # <<>>
  <2>x. PICK x : x = Head(s.queue[n])
    OBVIOUS
  <2>q. PICK q : q = Tail(s.queue[n])
    OBVIOUS
  <2>h. PICK h : h = [s.holder EXCEPT ![n] = x]
    OBVIOUS
  <2>g. PICK g : g = [s.queue EXCEPT ![n] = q]
    OBVIOUS
  <2>1. t = [s EXCEPT !.holder = h, !.queue = g]
    BY <1>5, <1>n, <2>h, <2>g, <2>x, <2>q DEF E!ReleaseLock
  <2>2. /\ q \in Queue /\ Distinct(q) /\ x \in Payments /\ In(s.queue[n], x)
        /\ \A o : In(q, o) <=> In(s.queue[n], o) /\ o # x
    BY <1>2, <1>3, <1>5, <2>x, <2>q, Advanced DEF LinedAt
  <2>3. h \in Holders /\ \A m \in Networks : h[m] = IF m = n THEN x ELSE s.holder[m]
    BY <1>2, <2>2, <2>h DEF Holders, Owner
  <2>4. g \in Queues /\ \A m \in Networks : g[m] = IF m = n THEN q ELSE s.queue[m]
    BY <1>2, <2>2, <2>g DEF Queues
  <2>5. /\ t \in SlotRecords /\ t.waiting = s.waiting /\ t.free = s.free
        /\ t.holder = h /\ t.queue = g
    BY <1>1, <2>1, <2>3, <2>4 DEF SlotRecords
  <2>6. x # None /\ x # p /\ NetworkOf[x] = n /\ \A o \in Payments : In(q, o) => NetworkOf[o] = n
    BY <1>2, <1>3, <2>2 DEF LinedAt, E!ExactProviderAssumption
  <2>7. Moved(s, t, n, x, q)
    BY <2>2, <2>3, <2>4, <2>5, <2>6 DEF Moved
  <2>8. ASSUME NEW o \in Payments, NetworkOf[o] = n
        PROVE  (o = x \/ In(q, o)) <=> Has(s, o) /\ o # p
    BY <1>2, <1>3, <2>2, <2>8 DEF Has, LinedAt
  <2> QED
    <3>1. Gives(s, t, p, x, q)
      BY <1>2, <1>n, <2>7, <2>8 DEF Gives
    <3> QED
      BY <1>3, <3>1, GivenBack
<1> QED
  BY <1>4, <1>5

\* Who is cancelled in the queue of a lock leaves it, with a place in hand.
LEMMA LeaveQueueFits ==
    ASSUME E!ExactProviderAssumption, NEW s, NEW S, NEW p \in Payments, Fit(s, S, 0),
           s.holder[NetworkOf[p]] # p, In(s.queue[NetworkOf[p]], p),
           NEW t, t = [s EXCEPT !.queue[NetworkOf[p]] = E!Without(@, p)], NEW T, T = S \ {p}
    PROVE  Fit(t, T, 1) /\ Kept(s, t, p)
<1>n. PICK n : n = NetworkOf[p]
  OBVIOUS
<1>1. s \in SlotRecords /\ Lined(s) /\ n \in Networks
  BY <1>n, SlotFields DEF Fit, Lined
<1>2. /\ s.free \in Nat /\ s.waiting \in Queue /\ s.holder \in Holders /\ s.queue \in Queues
      /\ s.holder[n] \in Owner /\ s.queue[n] \in Queue /\ p # None
  BY <1>n, <1>1, SlotFields
<1>3. LinedAt(s, n) /\ Has(s, p) /\ s.holder[n] # p /\ In(s.queue[n], p)
  BY <1>1, <1>n DEF Lined, Has
<1>q. PICK q : q = E!Without(s.queue[n], p)
  OBVIOUS
<1>g. PICK g : g = [s.queue EXCEPT ![n] = q]
  OBVIOUS
<1>4. t = [s EXCEPT !.queue = g]
  BY <1>n, <1>q, <1>g
<1>5. q \in Queue /\ Distinct(q) /\ \A o : In(q, o) <=> In(s.queue[n], o) /\ o # p
  BY <1>2, <1>3, <1>q, Cancelled DEF LinedAt
<1>6. g \in Queues /\ \A m \in Networks : g[m] = IF m = n THEN q ELSE s.queue[m]
  BY <1>2, <1>5, <1>g DEF Queues
<1>7. /\ t \in SlotRecords /\ t.waiting = s.waiting /\ t.free = s.free
      /\ t.holder = s.holder /\ t.queue = g
  BY <1>1, <1>4, <1>6 DEF SlotRecords
<1>h. PICK h : h = s.holder[n]
  OBVIOUS
<1>8. h # None
  BY <1>3, <1>h, NobodyIn DEF LinedAt
<1>9. Moved(s, t, n, h, q)
  <2>1. NetworkOf[h] = n /\ ~In(q, h) /\ \A o \in Payments : In(q, o) => NetworkOf[o] = n
    BY <1>3, <1>5, <1>8, <1>h DEF LinedAt
  <2>2. \A m \in Networks : /\ t.holder[m] = IF m = n THEN h ELSE s.holder[m]
                            /\ t.queue[m] = IF m = n THEN q ELSE s.queue[m]
    <3>1. \A m \in Networks : g[m] = IF m = n THEN q ELSE s.queue[m]
      BY <1>6
    <3>2. t.holder = s.holder /\ t.queue = g
      BY <1>7
    <3> SUFFICES ASSUME NEW m \in Networks
                 PROVE  /\ t.holder[m] = IF m = n THEN h ELSE s.holder[m]
                        /\ t.queue[m] = IF m = n THEN q ELSE s.queue[m]
      OBVIOUS
    <3>3. t.queue[m] = IF m = n THEN q ELSE s.queue[m]
      BY <3>1, <3>2
    <3>4. t.holder[m] = IF m = n THEN h ELSE s.holder[m]
      BY <1>h, <3>2
    <3> QED
      BY <3>3, <3>4
  <2> QED
    BY <1>5, <1>7, <1>8, <2>1, <2>2 DEF Moved
<1>10. ASSUME NEW o \in Payments, NetworkOf[o] = n
       PROVE  (o = h \/ In(q, o)) <=> Has(s, o) /\ o # p
  BY <1>3, <1>5, <1>h, <1>10 DEF Has
<1>11. Gives(s, t, p, h, q)
  BY <1>h, <1>n, <1>9, <1>10 DEF Gives
<1> QED
  BY <1>3, <1>11, GivenBack

\* A place that is given back goes to the first who waits for one.
LEMMA ReleaseSlotFits ==
    ASSUME E!ExactProviderAssumption, NEW s, NEW S, Fit(s, S, 1), NEW t, t = E!ReleaseSlot(s)
    PROVE  Fit(t, S, 0) /\ Kept(s, t, None)
<1>1. s \in SlotRecords /\ Lined(s) /\ Who(s, S) /\ Distinct(s.waiting)
  BY DEF Fit, Lined
<1>2. s.free \in Nat /\ s.waiting \in Queue
  BY <1>1 DEF SlotRecords
<1>3. /\ IsFiniteSet(Places(s)) /\ Cardinality(Places(s)) \in Nat
      /\ s.free + Cardinality(Places(s)) + 1 = MaxConcurrent
  BY FS_CardinalityType DEF Fit
<1>4. CASE s.waiting = <<>>
  <2>f. PICK f : f = s.free + 1
    OBVIOUS
  <2>1. f \in Nat /\ t = [s EXCEPT !.free = f]
    BY <1>2, <1>4, <2>f DEF E!ReleaseSlot
  <2>2. /\ t \in SlotRecords /\ t.free = f /\ t.waiting = s.waiting
        /\ t.holder = s.holder /\ t.queue = s.queue
    BY <1>1, <2>1 DEF SlotRecords
  <2>3. /\ \A n : LinedAt(s, n) => LinedAt(t, n)
        /\ \A o : Has(t, o) <=> Has(s, o)
        /\ Places(t) = Places(s) /\ Kept(s, t, None)
    BY <2>2, SameLocks
  <2>4. Lined(t)
    BY <1>1, <1>4, <2>2, <2>3 DEF Lined
  <2>5. Who(t, S)
    BY <1>1, <2>2, <2>3 DEF Who
  <2>6. IsFiniteSet(Places(t)) /\ t.free + Cardinality(Places(t)) + 0 = MaxConcurrent
    BY <1>2, <1>3, <2>2, <2>3, <2>f
  <2> QED
    BY <2>3, <2>4, <2>5, <2>6 DEF Fit
<1>5. CASE s.waiting # <<>>
  <2>x. PICK x : x = Head(s.waiting)
    OBVIOUS
  <2>w. PICK w : w = Tail(s.waiting)
    OBVIOUS
  <2>u. PICK u : u = [s EXCEPT !.waiting = w]
    OBVIOUS
  <2>S. PICK R : R = S \ {x}
    OBVIOUS
  <2>1. t = E!TakeLock(u, x)
    BY <1>5, <2>x, <2>w, <2>u DEF E!ReleaseSlot
  <2>2. /\ w \in Queue /\ Distinct(w) /\ x \in Payments /\ In(s.waiting, x)
        /\ \A o : In(w, o) <=> In(s.waiting, o) /\ o # x
    BY <1>1, <1>2, <1>5, <2>x, <2>w, Advanced
  <2>3. /\ u \in SlotRecords /\ u.free = s.free /\ u.waiting = w
        /\ u.holder = s.holder /\ u.queue = s.queue
    BY <1>1, <2>2, <2>u DEF SlotRecords
  <2>4. /\ \A n : LinedAt(s, n) => LinedAt(u, n)
        /\ \A o : Has(u, o) <=> Has(s, o)
        /\ Places(u) = Places(s)
    BY <2>3, SameLocks
  <2>5. ~(s.free > 0) /\ x \in S /\ ~Has(s, x)
    BY <1>1, <1>5, <2>2 DEF Lined, Who
  <2>6. Lined(u)
    BY <1>1, <2>2, <2>3, <2>4, <2>5 DEF Lined
  <2>7. Who(u, R)
    BY <1>1, <2>2, <2>3, <2>4, <2>5, <2>S DEF Who
  <2>8. Fit(u, R, 1)
    BY <1>3, <2>3, <2>4, <2>6, <2>7 DEF Fit
  <2>9. Fit(t, S, 0) /\ Kept(u, t, x)
    <3>1. x \notin R /\ S = R \cup {x}
      BY <2>5, <2>S
    <3> QED
      BY <2>1, <2>2, <2>8, <3>1, TakeLockFits
  <2>10. Kept(s, t, None)
    BY <2>3, <2>5, <2>9 DEF Kept, Has
  <2> QED
    BY <2>9, <2>10
<1> QED
  BY <1>4, <1>5

\* The way out, from the lock, its queue or the semaphore's.
LEMMA LeaveSlotFits ==
    ASSUME E!ExactProviderAssumption, NEW s, NEW S, NEW p \in Payments, p \in S, Fit(s, S, 0),
           NEW t, t = E!LeaveSlot(s, p), NEW T, T = S \ {p}
    PROVE  Fit(t, T, 0) /\ Kept(s, t, p)
<1>1. s \in SlotRecords /\ Lined(s) /\ Who(s, S) /\ p # None
  BY DEF Fit, Lined, E!ExactProviderAssumption
<1>2. \A q, o : E!Contains(q, o) <=> In(q, o)
  BY DEF E!Contains, In
<1>3. ASSUME NEW u, Fit(u, T, 1), Kept(s, u, p), t = E!ReleaseSlot(u) PROVE Fit(t, T, 0) /\ Kept(s, t, p)
  <2>1. Fit(t, T, 0) /\ Kept(u, t, None)
    BY <1>3, ReleaseSlotFits
  <2>2. \A o \in Payments : o # None
    BY DEF E!ExactProviderAssumption
  <2> QED
    BY <1>3, <2>1, <2>2 DEF Kept
<1>4. CASE s.holder[NetworkOf[p]] = p
  <2>1. PICK u : u = E!ReleaseLock(s, NetworkOf[p])
    OBVIOUS
  <2>2. Fit(u, T, 1) /\ Kept(s, u, p)
    BY <1>4, <2>1, ReleaseLockFits
  <2>3. t = E!ReleaseSlot(u)
    BY <1>4, <2>1 DEF E!LeaveSlot
  <2> QED
    BY <1>3, <2>2, <2>3
<1>5. CASE s.holder[NetworkOf[p]] # p /\ In(s.queue[NetworkOf[p]], p)
  <2>1. PICK u : u = [s EXCEPT !.queue[NetworkOf[p]] = E!Without(@, p)]
    OBVIOUS
  <2>2. Fit(u, T, 1) /\ Kept(s, u, p)
    BY <1>5, <2>1, LeaveQueueFits
  <2>3. t = E!ReleaseSlot(u)
    BY <1>2, <1>5, <2>1 DEF E!LeaveSlot
  <2> QED
    BY <1>3, <2>2, <2>3
<1>6. CASE ~Has(s, p)
  <2>w. PICK w : w = E!Without(s.waiting, p)
    OBVIOUS
  <2>1. t = [s EXCEPT !.waiting = w]
    BY <1>2, <1>6, <2>w DEF E!LeaveSlot, Has
  <2>2. In(s.waiting, p) /\ s.waiting \in Queue /\ Distinct(s.waiting)
    BY <1>1, <1>6, SlotFields DEF Who, Lined
  <2>3. w \in Queue /\ Distinct(w) /\ \A o : In(w, o) <=> In(s.waiting, o) /\ o # p
    BY <2>2, <2>w, Cancelled
  <2>4. /\ t \in SlotRecords /\ t.free = s.free /\ t.waiting = w
        /\ t.holder = s.holder /\ t.queue = s.queue
    BY <1>1, <2>1, <2>3 DEF SlotRecords
  <2>5. /\ \A n : LinedAt(s, n) => LinedAt(t, n)
        /\ \A o : Has(t, o) <=> Has(s, o)
        /\ Places(t) = Places(s) /\ Kept(s, t, p)
    BY <2>4, SameLocks
  <2>6. ~(s.free > 0)
    BY <1>1, <2>2, NobodyIn DEF Lined
  <2>7. Lined(t)
    BY <1>1, <2>3, <2>4, <2>5, <2>6 DEF Lined
  <2>8. Who(t, T)
    BY <1>1, <1>6, <2>3, <2>4, <2>5 DEF Who
  <2> QED
    BY <2>4, <2>5, <2>7, <2>8 DEF Fit
<1> QED
  BY <1>4, <1>5, <1>6 DEF Has

\* The calls that have entered and not ended.
Inside == {p \in Payments : call[p] \in {"queued", "calling"}}

\* The calls inside are those that the semaphore and the locks know, and one
\* that goes on has the lock of its network.
SlotsInv ==
    /\ call \in [Payments -> Calls]
    /\ Fit(slots, Inside, 0)
    /\ \A p \in Payments : call[p] = "calling" => slots.holder[NetworkOf[p]] = p

\* At first every place is free.
LEMMA InitSlots == ASSUME E!ExactProviderAssumption, E!Init PROVE SlotsInv
<1>h. PICK h : h = [n \in Networks |-> None]
  OBVIOUS
<1>g. PICK g : g = [n \in Networks |-> <<>>]
  OBVIOUS
<1>1. slots = [free |-> MaxConcurrent, waiting |-> <<>>, holder |-> h, queue |-> g]
  BY <1>h, <1>g DEF E!Init
<1>2. h \in Holders /\ g \in Queues /\ MaxConcurrent \in Nat /\ <<>> \in Queue
  BY <1>h, <1>g, NobodyIn DEF Holders, Owner, Queues, E!ExactProviderAssumption
<1>3. /\ slots \in SlotRecords /\ slots.free = MaxConcurrent /\ slots.waiting = <<>>
      /\ slots.holder = h /\ slots.queue = g
  BY <1>1, <1>2 DEF SlotRecords
<1>4. \A n \in Networks : slots.holder[n] = None /\ slots.queue[n] = <<>>
  BY <1>3, <1>h, <1>g
<1>5. \A n \in Networks : LinedAt(slots, n)
  BY <1>4, NobodyIn DEF LinedAt
<1>6. Lined(slots)
  BY <1>3, <1>5, NobodyIn DEF Lined
<1>7. \A p \in Payments : ~Has(slots, p) /\ ~In(slots.waiting, p)
  BY <1>3, <1>4, NobodyIn DEF Has, E!ExactProviderAssumption
<1>8. call \in [Payments -> Calls] /\ \A p \in Payments : call[p] = "new"
  BY DEF E!Init, Calls
<1>9. Inside = {}
  BY <1>8 DEF Inside
<1>10. Who(slots, Inside)
  BY <1>7, <1>9 DEF Who
<1>11. Places(slots) = {}
  BY <1>7 DEF Places
<1>12. IsFiniteSet(Places(slots)) /\ slots.free + Cardinality(Places(slots)) + 0 = MaxConcurrent
  BY <1>2, <1>3, <1>11, FS_EmptySet
<1> QED
  BY <1>6, <1>8, <1>10, <1>12 DEF Fit, SlotsInv

\* A call comes to its semaphore,
LEMMA EnterSlots ==
    ASSUME E!ExactProviderAssumption, SlotsInv, NEW p \in Payments, E!Enter(p) PROVE SlotsInv'
<1>1. call[p] = "claimed" /\ call' = [call EXCEPT ![p] = "queued"] /\ call \in [Payments -> Calls]
  BY DEF E!Enter, SlotsInv
<1>2. "queued" \in Calls
  BY DEF Calls
<1>3. call' \in [Payments -> Calls] /\ \A o \in Payments : call'[o] = IF o = p THEN "queued" ELSE call[o]
  BY <1>1, <1>2
<1>4. p \notin Inside /\ Inside' = Inside \cup {p}
  BY <1>1, <1>3 DEF Inside
<1>t. PICK t : t = E!TakeSlot(slots, p)
  OBVIOUS
<1>T. PICK T : T = Inside \cup {p}
  OBVIOUS
<1>s. PICK s : s = slots
  OBVIOUS
<1>S. PICK S : S = Inside
  OBVIOUS
<1>5. Fit(t, T, 0) /\ Kept(s, t, p)
  <2>1. Fit(s, S, 0) /\ p \notin S /\ t = E!TakeSlot(s, p) /\ T = S \cup {p}
    BY <1>4, <1>t, <1>T, <1>s, <1>S DEF SlotsInv
  <2> QED
    BY <2>1, TakeSlotFits
<1>6. slots' = t /\ Inside' = T
  BY <1>4, <1>t, <1>T DEF E!Enter
<1>7. Fit(slots, Inside, 0)'
  BY <1>5, <1>6
<1>8. \A o \in Payments : call'[o] = "calling" => slots'.holder[NetworkOf[o]] = o
  BY <1>3, <1>5, <1>6, <1>s DEF Kept, SlotsInv
<1> QED
  BY <1>3, <1>7, <1>8 DEF SlotsInv

\* and ends, by an answer, the time-out or a cancellation.
LEMMA OutcomeSlots ==
    ASSUME E!ExactProviderAssumption, SlotsInv, NEW p \in Payments, NEW r,
           call[p] \in {"queued", "calling"}, E!Outcome(p, r)
    PROVE  SlotsInv'
<1>1. call' = [call EXCEPT ![p] = "over"] /\ call \in [Payments -> Calls]
  BY DEF E!Outcome, SlotsInv
<1>2. "over" \in Calls
  BY DEF Calls
<1>3. call' \in [Payments -> Calls] /\ \A o \in Payments : call'[o] = IF o = p THEN "over" ELSE call[o]
  BY <1>1, <1>2
<1>4. p \in Inside /\ Inside' = Inside \ {p}
  BY <1>3 DEF Inside
<1>t. PICK t : t = E!LeaveSlot(slots, p)
  OBVIOUS
<1>T. PICK T : T = Inside \ {p}
  OBVIOUS
<1>s. PICK s : s = slots
  OBVIOUS
<1>S. PICK S : S = Inside
  OBVIOUS
<1>5. Fit(t, T, 0) /\ Kept(s, t, p)
  <2>1. Fit(s, S, 0) /\ p \in S /\ t = E!LeaveSlot(s, p) /\ T = S \ {p}
    BY <1>4, <1>t, <1>T, <1>s, <1>S DEF SlotsInv
  <2> QED
    BY <2>1, LeaveSlotFits
<1>6. slots' = t /\ Inside' = T
  BY <1>4, <1>t, <1>T DEF E!Outcome
<1>7. Fit(slots, Inside, 0)'
  BY <1>5, <1>6
<1>8. \A o \in Payments : call'[o] = "calling" => slots'.holder[NetworkOf[o]] = o
  BY <1>3, <1>5, <1>6, <1>s DEF Kept, SlotsInv
<1> QED
  BY <1>3, <1>7, <1>8 DEF SlotsInv

\* SlotsInv is an invariant of ExactProvider.
LEMMA SlotsInductive == ASSUME E!ExactProviderAssumption PROVE E!Spec => []SlotsInv
<1>1. ASSUME SlotsInv, [E!Next]_(E!vars) PROVE SlotsInv'
  <2>1. ASSUME UNCHANGED slots, call' \in [Payments -> Calls], Inside' = Inside,
               \A p \in Payments : call'[p] = "calling" =>
                   call[p] = "calling" \/ slots.holder[NetworkOf[p]] = p
        PROVE  SlotsInv'
    <3>1. Fit(slots, Inside, 0)'
      BY <1>1, <2>1 DEF SlotsInv
    <3> QED
      BY <1>1, <2>1, <3>1 DEF SlotsInv
  <2>2. call \in [Payments -> Calls]
    BY <1>1 DEF SlotsInv
  <2>3. CASE UNCHANGED <<slots, call>>
    BY <2>1, <2>2, <2>3 DEF Inside
  <2>4. ASSUME NEW p \in Payments, E!PreflightOk(p) \/ E!PreflightRefused(p) \/ E!Begin(p)
        PROVE  SlotsInv'
    <3>1. PICK c \in Calls : /\ call' = [call EXCEPT ![p] = c] /\ UNCHANGED slots
                             /\ \/ call[p] = "new" /\ c \in {"claimed", "over"}
                                \/ call[p] = "queued" /\ c = "calling" /\ slots.holder[NetworkOf[p]] = p
      BY <2>4 DEF E!PreflightOk, E!PreflightRefused, E!Begin, Calls
    <3>2. call' \in [Payments -> Calls] /\ \A o \in Payments : call'[o] = IF o = p THEN c ELSE call[o]
      BY <2>2, <3>1
    <3>3. Inside' = Inside
      BY <3>1, <3>2 DEF Inside
    <3> QED
      BY <2>1, <3>1, <3>2, <3>3
  <2>5. ASSUME NEW p \in Payments, E!Answer(p) \/ E!Timeout(p) \/ E!Cancel(p) PROVE SlotsInv'
    <3>1. call[p] \in {"queued", "calling"} /\ \E r : E!Outcome(p, r)
      BY <2>5 DEF E!Answer, E!Timeout, E!Cancel
    <3> QED
      BY <1>1, <3>1, OutcomeSlots
  <2>6. ASSUME NEW p \in Payments, E!Build(p) \/ E!Send(p) \/ E!SendRefused(p) \/ E!Mine(p)
        PROVE  SlotsInv'
    BY <2>3, <2>6 DEF E!Build, E!Send, E!SendRefused, E!Mine
  <2>7. CASE UNCHANGED E!vars
    BY <2>3, <2>7 DEF E!vars
  <2> QED
    BY <1>1, <2>4, <2>5, <2>6, <2>7, EnterSlots DEF E!Next
<1> QED
  BY <1>1, InitSlots, PTL DEF E!Spec

-----------------------------------------------------------------------------
(***************************************************************************)
(* The exact provider: the nonces of its signer.                           *)
(***************************************************************************)
Open == {"built", "pending"}
Closed == {"ok", "failed"}
Spoilt == {"refused", "dropped"}

\* The transactions that are mined on n.
MinedOn(n) == {p \in Payments : NetworkOf[p] = n /\ work[p] \in Closed}

ChainDomains ==
    /\ work \in [Payments -> Works]
    /\ nonce \in [Payments -> Nat]
    /\ mined \in [Networks -> Nat]
    /\ late \in [Networks -> BOOLEAN]

\* While no call of its network ended early, a transaction that is open has a
\* call, and the next nonce.
InTurn(p) ==
    ~late[NetworkOf[p]] =>
        /\ work[p] \in Open => call[p] = "calling" /\ nonce[p] = mined[NetworkOf[p]]
        /\ work[p] \notin Spoilt

NoncesInv ==
    /\ ChainDomains
    /\ \A n \in Networks : mined[n] = Cardinality(MinedOn(n))
    /\ \A p \in Payments : InTurn(p)

\* The instance counts as this module does.
LEMMA ProviderCounts ==
    ASSUME NEW S PROVE E!Cardinality(S) = Cardinality(S) /\ (E!IsFiniteSet(S) <=> IsFiniteSet(S))
BY DEF Cardinality, E!Cardinality, IsFiniteSet, E!IsFiniteSet

\* A call that goes on is alone on its network.
LEMMA Alone ==
    ASSUME SlotsInv, NEW p \in Payments, NEW q \in Payments, NetworkOf[p] = NetworkOf[q],
           call[p] = "calling", call[q] = "calling"
    PROVE  p = q
BY DEF SlotsInv

\* Calls change, and transactions do not: no call that goes on ends, unless its
\* transaction is no longer open or late is set for it.
LEMMA CallsMove ==
    ASSUME E!ExactProviderAssumption, NoncesInv, UNCHANGED <<work, nonce, mined>>,
           late' \in [Networks -> BOOLEAN],
           \A n \in Networks : late[n] => late'[n],
           \A p \in Payments : call[p] = "calling" /\ work[p] \in Open =>
               call'[p] = "calling" \/ late'[NetworkOf[p]]
    PROVE  NoncesInv'
<1>1. ChainDomains'
  BY DEF NoncesInv, ChainDomains
<1>2. \A n \in Networks : MinedOn(n)' = MinedOn(n)
  BY DEF MinedOn
<1>3. \A n \in Networks : (mined[n] = Cardinality(MinedOn(n)))'
  BY <1>2 DEF NoncesInv
<1>4. ASSUME NEW p \in Payments PROVE InTurn(p)'
  <2>1. InTurn(p) /\ NetworkOf[p] \in Networks
    BY DEF NoncesInv, E!ExactProviderAssumption
  <2> QED
    BY <2>1 DEF InTurn
<1> QED
  BY <1>1, <1>3, <1>4 DEF NoncesInv

\* A call that ends sets late when its transaction is open.
LEMMA OutcomeNonces ==
    ASSUME E!ExactProviderAssumption, NoncesInv, call \in [Payments -> Calls], NEW p \in Payments,
           NEW r, E!Outcome(p, r)
    PROVE  NoncesInv'
<1>1. /\ UNCHANGED <<work, nonce, mined>> /\ call' = [call EXCEPT ![p] = "over"]
      /\ late' = [late EXCEPT ![NetworkOf[p]] = late[NetworkOf[p]] \/ work[p] \in {"built", "pending"}]
  BY DEF E!Outcome
<1>2. NetworkOf[p] \in Networks /\ late \in [Networks -> BOOLEAN]
  BY DEF E!ExactProviderAssumption, NoncesInv, ChainDomains
<1>b. PICK b \in BOOLEAN : b = (late[NetworkOf[p]] \/ work[p] \in {"built", "pending"})
  OBVIOUS
<1>3. late' = [late EXCEPT ![NetworkOf[p]] = b]
  BY <1>1, <1>b
<1>4. late' \in [Networks -> BOOLEAN]
  BY <1>2, <1>3
<1>5. /\ \A n \in Networks : n # NetworkOf[p] => late'[n] = late[n]
      /\ late'[NetworkOf[p]] = b
  BY <1>2, <1>3
<1>6. \A n \in Networks : late[n] => late'[n]
  BY <1>2, <1>5, <1>b
<1>7. work[p] \in Open => late'[NetworkOf[p]]
  BY <1>5, <1>b DEF Open
<1>8. \A o \in Payments : o # p => call'[o] = call[o]
  BY <1>1
<1> QED
  BY <1>1, <1>4, <1>6, <1>7, <1>8, CallsMove

\* A transaction of p goes on from one state to another, in its turn.
LEMMA WorkMoves ==
    ASSUME E!ExactProviderAssumption, NoncesInv, UNCHANGED <<call, late>>, NEW p \in Payments,
           ChainDomains',
           \A n \in Networks : mined'[n] = Cardinality(MinedOn(n)'),
           \A o \in Payments : o # p /\ ~late[NetworkOf[o]] =>
               /\ work'[o] = work[o] /\ nonce'[o] = nonce[o]
               /\ work[o] \in Open => mined'[NetworkOf[o]] = mined[NetworkOf[o]],
           InTurn(p)'
    PROVE  NoncesInv'
<1>1. ASSUME NEW o \in Payments, o # p PROVE InTurn(o)'
  <2>1. InTurn(o)
    BY DEF NoncesInv
  <2> QED
    BY <1>1, <2>1 DEF InTurn
<1> QED
  BY <1>1 DEF NoncesInv

LEMMA BuildNonces ==
    ASSUME E!ExactProviderAssumption, NoncesInv, NEW p \in Payments, E!Build(p) PROVE NoncesInv'
<1>1. /\ work[p] = "none" /\ work' = [work EXCEPT ![p] = "built"]
      /\ nonce' = [nonce EXCEPT ![p] = mined[NetworkOf[p]]]
      /\ UNCHANGED <<call, mined, late>> /\ call[p] = "calling"
  BY DEF E!Build
<1>2. ChainDomains /\ NetworkOf[p] \in Networks /\ "built" \in Works
  BY DEF NoncesInv, E!ExactProviderAssumption, Works
<1>3. ChainDomains'
  BY <1>1, <1>2 DEF ChainDomains
<1>4. /\ \A o \in Payments : o # p => work'[o] = work[o] /\ nonce'[o] = nonce[o]
      /\ work'[p] = "built" /\ nonce'[p] = mined[NetworkOf[p]]
  BY <1>1, <1>2 DEF ChainDomains
<1>5. \A n \in Networks : MinedOn(n)' = MinedOn(n)
  BY <1>1, <1>4 DEF MinedOn, Closed
<1>6. \A n \in Networks : mined'[n] = Cardinality(MinedOn(n)')
  BY <1>1, <1>5 DEF NoncesInv
<1>7. InTurn(p)'
  BY <1>1, <1>4 DEF InTurn, Spoilt
<1> QED
  BY <1>1, <1>3, <1>4, <1>6, <1>7, WorkMoves

\* While no call of its network ended early, the nonce of an open transaction
\* is nobody else's.
LEMMA NobodyElse ==
    ASSUME E!ExactProviderAssumption, SlotsInv, NoncesInv, NEW p \in Payments,
           ~late[NetworkOf[p]], work[p] \in Open
    PROVE  /\ E!SameNonce(p) = {}
           /\ \A q \in Payments : q # p /\ NetworkOf[q] = NetworkOf[p] => work[q] \notin Open
<1>1. ASSUME NEW q \in Payments, q # p, NetworkOf[q] = NetworkOf[p], work[q] \in Open PROVE FALSE
  <2>1. InTurn(p) /\ InTurn(q)
    BY DEF NoncesInv
  <2> QED
    BY <1>1, <2>1, Alone DEF InTurn
<1> QED
  BY <1>1 DEF E!SameNonce, Open

LEMMA SendNonces ==
    ASSUME E!ExactProviderAssumption, SlotsInv, NoncesInv, NEW p \in Payments, E!Send(p)
    PROVE  NoncesInv'
<1>1. /\ work[p] = "built" /\ nonce[p] = mined[NetworkOf[p]]
      /\ work' = [q \in Payments |-> IF q = p THEN "pending"
                                    ELSE IF q \in E!SameNonce(p) THEN "dropped" ELSE work[q]]
      /\ UNCHANGED <<call, nonce, mined, late>>
  BY DEF E!Send, E!SameNonce
<1>2. ChainDomains /\ "pending" \in Works /\ "dropped" \in Works
  BY DEF NoncesInv, Works
<1>3. ChainDomains'
  BY <1>1, <1>2 DEF ChainDomains
<1>4. \A q \in E!SameNonce(p) : work[q] = "pending" /\ NetworkOf[q] = NetworkOf[p]
  BY DEF E!SameNonce
<1>5. \A n \in Networks : MinedOn(n)' = MinedOn(n)
  BY <1>1, <1>4 DEF MinedOn, Closed
<1>6. \A n \in Networks : mined'[n] = Cardinality(MinedOn(n)')
  BY <1>1, <1>5 DEF NoncesInv
<1>7. \A o \in Payments : o # p /\ ~late[NetworkOf[o]] => work'[o] = work[o]
  <2> SUFFICES ASSUME NEW o \in Payments, o # p, ~late[NetworkOf[o]] PROVE work'[o] = work[o]
    OBVIOUS
  <2>1. o \notin E!SameNonce(p)
    BY <1>1, <1>4, NobodyElse DEF Open
  <2> QED
    BY <1>1, <2>1
<1>8. InTurn(p)'
  <2>1. InTurn(p) /\ work'[p] = "pending"
    BY <1>1 DEF NoncesInv
  <2> QED
    BY <1>1, <2>1 DEF InTurn, Open, Spoilt
<1> QED
  BY <1>1, <1>3, <1>6, <1>7, <1>8, WorkMoves

LEMMA SendRefusedNonces ==
    ASSUME E!ExactProviderAssumption, SlotsInv, NoncesInv, NEW p \in Payments, E!SendRefused(p)
    PROVE  NoncesInv'
<1>1. /\ work[p] = "built"
      /\ nonce[p] < mined[NetworkOf[p]] \/ E!SameNonce(p) # {}
      /\ work' = [work EXCEPT ![p] = "refused"] /\ UNCHANGED <<call, nonce, mined, late>>
  BY DEF E!SendRefused
<1>2. ChainDomains /\ "refused" \in Works /\ NetworkOf[p] \in Networks
  BY DEF NoncesInv, Works, E!ExactProviderAssumption
<1>3. ChainDomains'
  BY <1>1, <1>2 DEF ChainDomains
<1>4. \A o \in Payments : o # p => work'[o] = work[o]
  BY <1>1
<1>5. \A n \in Networks : MinedOn(n)' = MinedOn(n)
  BY <1>1, <1>2 DEF MinedOn, Closed, ChainDomains
<1>6. \A n \in Networks : mined'[n] = Cardinality(MinedOn(n)')
  BY <1>1, <1>5 DEF NoncesInv
<1>7. late[NetworkOf[p]]
  <2> SUFFICES ASSUME ~late[NetworkOf[p]] PROVE FALSE
    OBVIOUS
  <2>1. E!SameNonce(p) = {}
    BY <1>1, NobodyElse DEF Open
  <2>2. nonce[p] = mined[NetworkOf[p]]
    BY <1>1 DEF NoncesInv, InTurn, Open
  <2>3. nonce[p] \in Nat
    BY <1>2 DEF ChainDomains
  <2> QED
    BY <1>1, <2>1, <2>2, <2>3
<1>8. InTurn(p)'
  BY <1>1, <1>7 DEF InTurn
<1> QED
  BY <1>1, <1>3, <1>4, <1>6, <1>8, WorkMoves

LEMMA MineNonces ==
    ASSUME E!ExactProviderAssumption, SlotsInv, NoncesInv, NEW p \in Payments, E!Mine(p)
    PROVE  NoncesInv'
<1>1. PICK result \in {"ok", "failed"} : work' = [work EXCEPT ![p] = result]
  BY DEF E!Mine
<1>2. /\ work[p] = "pending" /\ UNCHANGED <<call, nonce, late>>
      /\ mined' = [mined EXCEPT ![NetworkOf[p]] = mined[NetworkOf[p]] + 1]
  BY DEF E!Mine
<1>3. /\ ChainDomains /\ NetworkOf[p] \in Networks
      /\ result \in Works /\ result \in Closed /\ result \notin Open /\ result \notin Spoilt
  BY DEF NoncesInv, Works, Closed, Open, Spoilt, E!ExactProviderAssumption
<1>4. /\ work' \in [Payments -> Works]
      /\ \A o \in Payments : work'[o] = IF o = p THEN result ELSE work[o]
  BY <1>1, <1>3 DEF ChainDomains
<1>5. /\ mined' \in [Networks -> Nat]
      /\ \A n \in Networks : mined'[n] = IF n = NetworkOf[p] THEN mined[n] + 1 ELSE mined[n]
  BY <1>2, <1>3 DEF ChainDomains
<1>6. ChainDomains'
  BY <1>2, <1>3, <1>4, <1>5 DEF ChainDomains
<1>7. ASSUME NEW n \in Networks PROVE mined'[n] = Cardinality(MinedOn(n)')
  <2>1. CASE n # NetworkOf[p]
    <3>1. MinedOn(n)' = MinedOn(n)
      BY <1>4, <2>1 DEF MinedOn
    <3> QED
      BY <1>5, <2>1, <3>1 DEF NoncesInv
  <2>2. CASE n = NetworkOf[p]
    <3>1. MinedOn(n)' = MinedOn(n) \cup {p} /\ p \notin MinedOn(n)
      BY <1>2, <1>3, <1>4, <2>2 DEF MinedOn, Closed
    <3>2. IsFiniteSet(Payments) /\ MinedOn(n) \subseteq Payments
      BY ProviderCounts DEF E!ExactProviderAssumption, MinedOn
    <3>3. IsFiniteSet(MinedOn(n))
      BY <3>2, FS_Subset
    <3>4. Cardinality(MinedOn(n)') = Cardinality(MinedOn(n)) + 1
      BY <3>1, <3>3, FS_AddElement
    <3> QED
      BY <1>5, <2>2, <3>4 DEF NoncesInv
  <2> QED
    BY <2>1, <2>2
<1>8. ASSUME NEW o \in Payments, o # p, ~late[NetworkOf[o]]
      PROVE  /\ work'[o] = work[o] /\ nonce'[o] = nonce[o]
             /\ work[o] \in Open => mined'[NetworkOf[o]] = mined[NetworkOf[o]]
  <2>1. work[o] \in Open => NetworkOf[o] # NetworkOf[p]
    BY <1>2, <1>8, NobodyElse DEF Open
  <2>2. NetworkOf[o] \in Networks
    BY DEF E!ExactProviderAssumption
  <2> QED
    BY <1>2, <1>4, <1>5, <1>8, <2>1, <2>2
<1>9. InTurn(p)'
  BY <1>3, <1>4 DEF InTurn
<1> QED
  BY <1>2, <1>6, <1>7, <1>8, <1>9, WorkMoves

\* SlotsInv and NoncesInv are invariants of ExactProvider.
LEMMA NoncesInductive == ASSUME E!ExactProviderAssumption PROVE E!Spec => [](SlotsInv /\ NoncesInv)
<1>1. ASSUME E!Init PROVE NoncesInv
  <2>1. ChainDomains
    BY <1>1 DEF E!Init, ChainDomains, Works
  <2>2. \A p \in Payments : work[p] = "none"
    BY <1>1 DEF E!Init
  <2>3. \A n \in Networks : MinedOn(n) = {} /\ mined[n] = 0
    BY <1>1, <2>2 DEF E!Init, MinedOn, Closed
  <2>4. \A n \in Networks : mined[n] = Cardinality(MinedOn(n))
    BY <2>3, FS_EmptySet
  <2>5. \A p \in Payments : InTurn(p)
    BY <2>2 DEF InTurn, Open, Spoilt
  <2> QED
    BY <2>1, <2>4, <2>5 DEF NoncesInv
<1>2. ASSUME SlotsInv, NoncesInv, [E!Next]_(E!vars) PROVE NoncesInv'
  <2>1. call \in [Payments -> Calls] /\ late \in [Networks -> BOOLEAN]
    BY <1>2 DEF SlotsInv, NoncesInv, ChainDomains
  <2>2. CASE UNCHANGED E!vars
    BY <1>2, <2>1, <2>2, CallsMove DEF E!vars
  <2>3. ASSUME NEW p \in Payments,
               E!PreflightOk(p) \/ E!PreflightRefused(p) \/ E!Enter(p) \/ E!Begin(p)
        PROVE  NoncesInv'
    <3>1. /\ call[p] # "calling" /\ UNCHANGED <<work, nonce, mined, late>>
          /\ \E c : call' = [call EXCEPT ![p] = c]
      BY <2>3 DEF E!PreflightOk, E!PreflightRefused, E!Enter, E!Begin
    <3>2. \A o \in Payments : o # p => call'[o] = call[o]
      BY <2>1, <3>1
    <3> QED
      BY <1>2, <2>1, <3>1, <3>2, CallsMove
  <2>4. ASSUME NEW p \in Payments, E!Answer(p) \/ E!Timeout(p) \/ E!Cancel(p) PROVE NoncesInv'
    <3>1. \E r : E!Outcome(p, r)
      BY <2>4 DEF E!Answer, E!Timeout, E!Cancel
    <3> QED
      BY <1>2, <2>1, <3>1, OutcomeNonces
  <2> QED
    BY <1>2, <2>2, <2>3, <2>4, BuildNonces, SendNonces, SendRefusedNonces, MineNonces DEF E!Next
<1> QED
  BY <1>1, <1>2, SlotsInductive, PTL DEF E!Spec

\* No place of the semaphore is lost or made, whatever ends a call and wherever
\* it waits; nobody waits while a place is free; on a network one call goes on
\* at a time; and no transaction of the signer is refused or replaced for its
\* nonce unless a call of its network ended before its transaction did
\* (_settlement_slot, settlement_slot of HostedSignerGuard, the web3 signer).
THEOREM CallsOneAtATime == ASSUME E!ExactProviderAssumption PROVE E!Spec => []OneAtATime
<1>1. ASSUME AnswersInv, SlotsInv, NoncesInv PROVE E!ExactTypeOK
  <2>1. slots.free \in 0..MaxConcurrent
    <3>1. slots.free \in Nat /\ IsFiniteSet(Places(slots))
      BY <1>1 DEF SlotsInv, Fit, Lined, SlotRecords
    <3>2. Cardinality(Places(slots)) \in Nat /\ MaxConcurrent \in Nat
      BY <3>1, FS_CardinalityType DEF E!ExactProviderAssumption
    <3>3. slots.free + Cardinality(Places(slots)) + 0 = MaxConcurrent
      BY <1>1 DEF SlotsInv, Fit
    <3> QED
      BY <3>1, <3>2, <3>3
  <2>2. mined \in [Networks -> 0..Cardinality(Payments)]
    <3>1. mined \in [Networks -> Nat] /\ IsFiniteSet(Payments)
      BY <1>1, ProviderCounts DEF NoncesInv, ChainDomains, E!ExactProviderAssumption
    <3>2. Cardinality(Payments) \in Nat
      BY <3>1, FS_CardinalityType
    <3>3. \A n \in Networks : MinedOn(n) \subseteq Payments
      BY DEF MinedOn
    <3>4. \A n \in Networks : Cardinality(MinedOn(n)) <= Cardinality(Payments)
      BY <3>1, <3>3, FS_Subset
    <3>5. \A n \in Networks : mined[n] \in 0..Cardinality(Payments)
      BY <1>1, <3>1, <3>2, <3>4 DEF NoncesInv
    <3> QED
      BY <3>1, <3>5
  <2> QED
    BY <1>1, <2>1, <2>2, ProviderCounts DEF E!ExactTypeOK, AnswersInv, Calls, Works, Answers
<1>2. ASSUME SlotsInv PROVE E!SlotsKept
  <2>1. /\ Lined(slots) /\ Who(slots, Inside)
        /\ slots.free + Cardinality(Places(slots)) + 0 = MaxConcurrent
    BY <1>2 DEF SlotsInv, Fit
  <2>2. \A q, o : E!Contains(q, o) <=> In(q, o)
    BY DEF E!Contains, In
  <2>3. ASSUME NEW n \in Networks, NEW p \in Payments
        PROVE  p \in E!Placed(n) <=> NetworkOf[p] = n /\ Has(slots, p)
    <3>1. LinedAt(slots, n) /\ p # None
      BY <2>1 DEF Lined, E!ExactProviderAssumption
    <3>2. p \in E!Placed(n) <=> p = slots.holder[n] \/ In(slots.queue[n], p)
      BY <2>2 DEF E!Placed
    <3> QED
      BY <3>1, <3>2 DEF LinedAt, Has
  <2>4. \A p \in Payments : NetworkOf[p] \in Networks
    BY DEF E!ExactProviderAssumption
  <2>5. UNION {E!Placed(n) : n \in Networks} = Places(slots)
    <3>1. \A n \in Networks : E!Placed(n) \subseteq Payments
      BY DEF E!Placed
    <3> QED
      BY <2>3, <2>4, <3>1 DEF Places
  <2>6. slots.free + E!Cardinality(UNION {E!Placed(n) : n \in Networks}) = MaxConcurrent
    <3>1. slots.free \in Nat /\ Cardinality(Places(slots)) \in Nat
      BY <1>2, FS_CardinalityType DEF SlotsInv, Fit, Lined, SlotRecords
    <3>2. E!Cardinality(UNION {E!Placed(n) : n \in Networks}) = Cardinality(Places(slots))
      BY <2>5, ProviderCounts
    <3> QED
      BY <2>1, <3>1, <3>2
  <2>7. slots.free > 0 => slots.waiting = <<>>
    BY <2>1 DEF Lined
  <2>8. ASSUME NEW n \in Networks
        PROVE  /\ slots.holder[n] = None => slots.queue[n] = <<>>
               /\ E!Cardinality({p \in Payments : call[p] = "calling" /\ NetworkOf[p] = n}) <= 1
    <3>1. slots.holder[n] = None => slots.queue[n] = <<>>
      BY <2>1 DEF Lined, LinedAt
    <3>C. PICK C : C = {p \in Payments : call[p] = "calling" /\ NetworkOf[p] = n}
      OBVIOUS
    <3>h. PICK h : h = slots.holder[n]
      OBVIOUS
    <3>2. C \subseteq {h}
      BY <1>2, <3>C, <3>h DEF SlotsInv
    <3>3. IsFiniteSet({h}) /\ Cardinality({h}) = 1
      BY FS_Singleton
    <3>4. Cardinality(C) <= 1
      BY <3>2, <3>3, FS_Subset
    <3> QED
      BY <3>1, <3>4, <3>C, ProviderCounts
  <2>9. ASSUME NEW p \in Payments
        PROVE  call[p] \in {"queued", "calling"} <=>
                   E!Contains(slots.waiting, p) \/ p \in E!Placed(NetworkOf[p])
    BY <2>1, <2>2, <2>3, <2>4 DEF Who, Inside
  <2> QED
    BY <2>6, <2>7, <2>8, <2>9 DEF E!SlotsKept
<1>3. ASSUME NoncesInv PROVE E!NoncesApart
  BY <1>3 DEF NoncesInv, InTurn, Spoilt, E!NoncesApart
<1>4. AnswersInv /\ SlotsInv /\ NoncesInv => OneAtATime
  BY <1>1, <1>2, <1>3 DEF OneAtATime, E!OneAtATime
<1> QED
  BY <1>4, AnswersInductive, NoncesInductive, PTL
=============================================================================
