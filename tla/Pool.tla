-------------------------------- MODULE Pool --------------------------------
(***************************************************************************)
(* PostgresSettlementStorePool: a bounded pool of connections.  A user     *)
(* checks a connection out, keeps it while it awaits the provider, and     *)
(* gives it back; the pool is closed once, with connections still out.     *)
(*                                                                         *)
(* The users of the facilitator are coroutines of one event loop, where a  *)
(* call of the pool runs to its end before anything else runs, also when   *)
(* it blocks (oneLoop).  The class itself is written for threads, which    *)
(* may switch wherever its lock is not held.                               *)
(***************************************************************************)
EXTENDS Integers, FiniteSets

CONSTANTS
    Users,      \* requests that may use the pool at the same time
    Conns,      \* connections that may be opened, of which any may be reopened
    MaxSize     \* max_size

PoolAssumption == MaxSize \in Nat \ {0}

VARIABLES
    oneLoop,    \* are the users coroutines of one event loop? does not change
    idle,       \* the connections in the queue
    total,      \* _total
    closed,     \* _closed
    user,       \* user[u]: where u is in its call, and its connection
    closer,     \* the call of close: "before", "draining" or "after"
    open        \* the connections open at the server

vars == <<idle, total, closed, user, closer, open>>

Away == [pc |-> "away"]

Init ==
    /\ oneLoop \in BOOLEAN
    /\ idle = {}
    /\ total = 0
    /\ closed = FALSE
    /\ user = [u \in Users |-> Away]
    /\ closer = "before"
    /\ open = {}

-----------------------------------------------------------------------------
At(u, pc) == user[u].pc = pc

\* is u inside a call of the pool?
Inside(u) == user[u].pc \notin {"away", "holding"}

\* may u, or the closer, run now?
Runs(u) == oneLoop => closer # "draining" /\ \A v \in Users \ {u} : ~Inside(v)
CloserRuns == oneLoop => \A v \in Users : ~Inside(v)

Holds(u, c) == user' = [user EXCEPT ![u] = [pc |-> "holding", conn |-> c]]

Leave(u) == user' = [user EXCEPT ![u] = Away]

\* _checkout, under the lock: an idle connection, a new one, or a wait
Checkout(u) ==
    /\ At(u, "away") /\ Runs(u) /\ ~closed
    /\ \/ /\ \E c \in idle : idle' = idle \ {c} /\ Holds(u, c)
          /\ UNCHANGED total
       \/ /\ idle = {} /\ total < MaxSize
          /\ total' = total + 1
          /\ user' = [user EXCEPT ![u] = [pc |-> "connecting"]]
          /\ UNCHANGED idle
       \/ /\ idle = {} /\ total >= MaxSize
          /\ user' = [user EXCEPT ![u] = [pc |-> "waiting"]]
          /\ UNCHANGED <<idle, total>>
    /\ UNCHANGED <<closed, closer, open>>

\* raised without a change: "Postgres settlement store pool is closed"
CheckoutClosed(u) == At(u, "away") /\ Runs(u) /\ closed /\ UNCHANGED vars

Connect(u) ==
    /\ At(u, "connecting") /\ Runs(u)
    /\ \E c \in Conns \ open :
          /\ open' = open \cup {c}
          /\ Holds(u, c)
    /\ UNCHANGED <<idle, total, closed, closer>>

\* nobody who waits is told that there is room for a connection again
ConnectFails(u) ==
    /\ At(u, "connecting") /\ Runs(u)
    /\ total' = total - 1
    /\ Leave(u)
    /\ UNCHANGED <<idle, closed, closer, open>>

\* the queue's blocking get, which does not look at closed
GetWaits(u) ==
    /\ At(u, "waiting") /\ Runs(u)
    /\ \E c \in idle : idle' = idle \ {c} /\ Holds(u, c)
    /\ UNCHANGED <<total, closed, closer, open>>

\* a wait that has timed out is begun again
MutantTimeOut(u) == At(u, "waiting") /\ Runs(u) /\ UNCHANGED vars

TimeOut(u) ==
    /\ At(u, "waiting") /\ Runs(u)
    /\ Leave(u)
    /\ UNCHANGED <<idle, total, closed, closer, open>>

-----------------------------------------------------------------------------
\* _release is called twice for one connection
MutantRelease(u) ==
    /\ At(u, "holding") /\ Runs(u)
    /\ \/ user' = [user EXCEPT ![u].pc = IF closed THEN "dropping" ELSE "putting"] /\ UNCHANGED idle
       \/ ~closed /\ idle' = idle \cup {user[u].conn} /\ UNCHANGED user
    /\ UNCHANGED <<total, closed, closer, open>>

\* _PooledPostgresConnection.close and _release: closed is read under the
\* lock and acted upon outside it
Release(u) ==
    /\ At(u, "holding") /\ Runs(u)
    /\ user' = [user EXCEPT ![u].pc = IF closed THEN "dropping" ELSE "putting"]
    /\ UNCHANGED <<idle, total, closed, closer, open>>

\* put_nowait, which is never full: idle connections are among the counted
Put(u) ==
    /\ At(u, "putting") /\ Runs(u)
    /\ idle' = idle \cup {user[u].conn}
    /\ Leave(u)
    /\ UNCHANGED <<total, closed, closer, open>>

Drop(u) ==
    /\ At(u, "dropping") /\ Runs(u)
    /\ open' = open \ {user[u].conn}
    /\ total' = total - 1
    /\ Leave(u)
    /\ UNCHANGED <<idle, closed, closer>>

Close ==
    /\ closer = "before" /\ CloserRuns
    /\ closed' = TRUE
    /\ closer' = "draining"
    /\ UNCHANGED <<idle, total, user, open>>

\* the drained connections stay in the count
Drain ==
    /\ closer = "draining" /\ CloserRuns
    /\ IF idle = {}
       THEN closer' = "after" /\ UNCHANGED <<idle, open>>
       ELSE \E c \in idle : idle' = idle \ {c} /\ open' = open \ {c} /\ UNCHANGED closer
    /\ UNCHANGED <<total, closed, user>>

UserStep(u) ==
    \/ Checkout(u) \/ CheckoutClosed(u) \/ Connect(u) \/ ConnectFails(u)
    \/ GetWaits(u) \/ TimeOut(u) \/ Release(u) \/ Put(u) \/ Drop(u)

Next ==
    /\ Close \/ Drain \/ \E u \in Users : UserStep(u)
    /\ UNCHANGED oneLoop

\* what a user of the pool is waiting for, or does without waiting
UserGoesOn(u) ==
    Connect(u) \/ ConnectFails(u) \/ TimeOut(u) \/ Release(u) \/ Put(u) \/ Drop(u)

\* Calls end: a connect returns or raises, a wait has a time-out, requests
\* end and give their connection back, and close runs to its end.
Fairness == WF_vars(Drain) /\ \A u \in Users : WF_vars(UserGoesOn(u))

Spec == Init /\ [][Next]_<<oneLoop, vars>> /\ Fairness

-----------------------------------------------------------------------------
Out == {u \in Users : user[u].pc \in {"holding", "putting", "dropping"}}

\* Domains of the state: the count never exceeds max_size.
PoolTypeOK ==
    /\ oneLoop \in BOOLEAN
    /\ idle \subseteq Conns /\ open \subseteq Conns
    /\ total \in 0..MaxSize
    /\ closed \in BOOLEAN
    /\ \A u \in Out : user[u].conn \in Conns

(***************************************************************************)
(* A connection, and with it a transaction, belongs to one request: never  *)
(* to two, nor to one and the queue; and what is out is open.              *)
(***************************************************************************)
NoSharing ==
    /\ \A u, v \in Out : user[u].conn = user[v].conn => u = v
    /\ \A u \in Out : user[u].conn \in open \ idle

(***************************************************************************)
(* The pool never opens more than max_size connections, and until it is    *)
(* closed the count is exact, so that failed connects and time-outs do not *)
(* shrink it.                                                              *)
(***************************************************************************)
CountExact ==
    /\ Cardinality(open) + Cardinality({u \in Users : At(u, "connecting")}) <= MaxSize
    /\ ~closed => total = Cardinality(open) + Cardinality({u \in Users : At(u, "connecting")})

(***************************************************************************)
(* Nothing is left behind at the server: when close has ended and every    *)
(* request has given its connection back, none is open.  It holds because  *)
(* the users are coroutines: a thread that has read closed before it was   *)
(* set puts its connection into a queue that is drained already.           *)
(***************************************************************************)
ClosedIsEmpty ==
    oneLoop /\ closer = "after" /\ (\A u \in Users : At(u, "away")) => open = {}

(***************************************************************************)
(* Nobody stays in the pool: a checkout ends, with a connection or an      *)
(* error, and so does giving it back, whatever the others do.              *)
(***************************************************************************)
CheckoutEnds == \A u \in Users : []<>~Inside(u)

(***************************************************************************)
(* Each connection is in one place and counted, and none is left behind.   *)
(***************************************************************************)
PoolSound == PoolTypeOK /\ NoSharing /\ CountExact /\ ClosedIsEmpty
=============================================================================
