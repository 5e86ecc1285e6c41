-------------------------- MODULE ControlPlaneProofs --------------------------
(***************************************************************************)
(* Proofs about the control plane: the pauses and their audit, the         *)
(* migrations and their ledger, the sellers and their keys, for any number *)
(* of operators, processes, targets, tenants, accounts and keys.           *)
(*                                                                         *)
(* The components share no state; a theorem about one assumes what its     *)
(* module asks of its constants.                                           *)
(***************************************************************************)
EXTENDS ControlPlane, Migrations, FiniteSetTheorems, SequenceTheorems, TLAPS

-----------------------------------------------------------------------------
(***************************************************************************)
(* The pauses.                                                             *)
(***************************************************************************)
PauseEvent == [target: Targets, before: BOOLEAN, after: BOOLEAN]

\* Left of the first i events of q.
LeftBy(q, t, i) ==
    \E j \in 1..i : /\ q[j].target = t /\ q[j].after
                    /\ \A k \in (j + 1)..i : q[k].target # t

\* An event is written: what the events before it left stays, and it leaves
\* its own value.
Written(q, e, r) ==
    /\ r \in Seq(PauseEvent) /\ Len(q) \in Nat /\ Len(r) = Len(q) + 1
    /\ r[Len(r)] = e /\ \A i \in 1..Len(q) : r[i] = q[i]
    /\ DOMAIN r = 1..Len(r) /\ DOMAIN q = 1..Len(q)
    /\ \A t : \A i \in 0..Len(q) : LeftBy(r, t, i) <=> LeftBy(q, t, i)
    /\ \A t : LeftBy(r, t, Len(r)) <=> IF e.target = t THEN e.after ELSE LeftBy(q, t, Len(q))

LEMMA EventWritten ==
    ASSUME NEW q \in Seq(PauseEvent), NEW e \in PauseEvent, NEW r, r = Append(q, e)
    PROVE  Written(q, e, r)
<1>1. /\ r \in Seq(PauseEvent) /\ Len(q) \in Nat /\ Len(r) = Len(q) + 1
      /\ r[Len(r)] = e /\ \A i \in 1..Len(q) : r[i] = q[i]
      /\ DOMAIN r = 1..Len(r) /\ DOMAIN q = 1..Len(q)
  OBVIOUS
<1>2. ASSUME NEW t, NEW i \in 0..Len(q) PROVE LeftBy(r, t, i) <=> LeftBy(q, t, i)
  <2>1. i \in Nat /\ \A j \in 1..i : r[j] = q[j]
    BY <1>1
  <2>2. \A j \in 1..i : \A k \in (j + 1)..i : k \in 1..i
    BY <2>1
  <2> QED
    BY <2>1, <2>2 DEF LeftBy
<1>3. ASSUME NEW t PROVE LeftBy(r, t, Len(r)) <=> IF e.target = t THEN e.after ELSE LeftBy(q, t, Len(q))
  <2>n. PICK n : n = Len(q)
    OBVIOUS
  <2>1. n \in Nat /\ Len(r) = n + 1 /\ r[n + 1] = e /\ \A i \in 1..n : r[i] = q[i]
    BY <1>1, <2>n
  <2>2. CASE e.target = t
    <3>1. \A k \in ((n + 1) + 1)..(n + 1) : FALSE
      BY <2>1
    <3>2. e.after => LeftBy(r, t, n + 1)
      BY <2>1, <2>2, <3>1 DEF LeftBy
    <3>3. ASSUME NEW j \in 1..(n + 1), r[j].target = t, r[j].after,
                 \A k \in (j + 1)..(n + 1) : r[k].target # t
          PROVE  e.after
      <4>1. j = n + 1 \/ n + 1 \in (j + 1)..(n + 1)
        BY <2>1
      <4> QED
        BY <2>1, <2>2, <3>3, <4>1
    <3> QED
      BY <2>1, <2>2, <3>2, <3>3 DEF LeftBy
  <2>3. CASE e.target # t
    <3>1. ASSUME NEW j \in 1..n PROVE (j + 1)..(n + 1) = ((j + 1)..n) \cup {n + 1} /\ j \in 1..(n + 1)
      BY <2>1
    <3>2. \A j \in 1..n : \A k \in (j + 1)..n : k \in 1..n
      BY <2>1
    <3>3. \A j \in 1..(n + 1) : j = n + 1 \/ j \in 1..n
      BY <2>1
    <3>4. LeftBy(q, t, n) => LeftBy(r, t, n + 1)
      BY <2>1, <2>3, <3>1, <3>2 DEF LeftBy
    <3>5. LeftBy(r, t, n + 1) => LeftBy(q, t, n)
      BY <2>1, <2>3, <3>1, <3>2, <3>3 DEF LeftBy
    <3> QED
      BY <2>1, <2>3, <2>n, <3>4, <3>5
  <2> QED
    BY <2>2, <2>3
<1> QED
  BY <1>1, <1>2, <1>3 DEF Written

Rows == {P!Absent, "paused", "open"}
IdleOp == [pc: {"idle"}, status: {0, 200, 400, 500}]
WriteOp == [pc: {"write"}, target: Targets, pause: BOOLEAN, before: BOOLEAN]
OpRecords == IdleOp \cup WriteOp
LockOwners == Operators \cup {NoOperator}

\* q is a chain for each target, and ends at what the rows f say.
ChainOf(q, f) ==
    \A t \in Targets :
        /\ \A i \in DOMAIN q : q[i].target = t => (q[i].before <=> LeftBy(q, t, i - 1))
        /\ f[t] = "paused" <=> LeftBy(q, t, Len(q))

\* The row that a request will write is locked by it, and is as it has read it.
ReadUnderLock(o) ==
    op[o].pc = "write" =>
        /\ durable /\ rowLock[op[o].target] = o
        /\ op[o].before <=> row[op[o].target] = "paused"

\* The inductive invariant of Pauses.
PausesInv ==
    /\ row \in [Targets -> Rows]
    /\ rowLock \in [Targets -> LockOwners]
    /\ pauses \in Seq(PauseEvent)
    /\ op \in [Operators -> OpRecords]
    /\ \A o \in Operators : ReadUnderLock(o)
    /\ ChainOf(pauses, row)

\* What set_pause writes to the events q and the rows f: an event that starts
\* from what is in force, and its row.
Extends(q, f, e, r, g) ==
    /\ q \in Seq(PauseEvent) /\ f \in [Targets -> Rows] /\ e \in PauseEvent /\ ChainOf(q, f)
    /\ e.before <=> f[e.target] = "paused"
    /\ Written(q, e, r)
    /\ g \in [Targets -> Rows]
    /\ \A t \in Targets : g[t] = IF t = e.target THEN P!RowOf(e.after) ELSE f[t]

LEMMA ChainExtends ==
    ASSUME NEW q, NEW f, NEW e, NEW r, NEW g, Extends(q, f, e, r, g)
    PROVE  ChainOf(r, g)
<1>1. /\ Len(q) \in Nat /\ Len(r) = Len(q) + 1
      /\ r[Len(r)] = e /\ \A i \in 1..Len(q) : r[i] = q[i]
      /\ DOMAIN r = 1..Len(r) /\ DOMAIN q = 1..Len(q)
      /\ \A t : \A i \in 0..Len(q) : LeftBy(r, t, i) <=> LeftBy(q, t, i)
      /\ \A t : LeftBy(r, t, Len(r)) <=> IF e.target = t THEN e.after ELSE LeftBy(q, t, Len(q))
  BY DEF Extends, Written
<1>2. e.target \in Targets /\ e.after \in BOOLEAN /\ e.before \in BOOLEAN
  BY DEF Extends, PauseEvent
<1>3. P!RowOf(e.after) = "paused" <=> e.after
  BY <1>2 DEF P!RowOf
<1>4. /\ \A t \in Targets : g[t] = IF t = e.target THEN P!RowOf(e.after) ELSE f[t]
      /\ ChainOf(q, f)
      /\ e.before <=> f[e.target] = "paused"
  BY DEF Extends
<1>5. ASSUME NEW t \in Targets, NEW i \in DOMAIN r, r[i].target = t
      PROVE  r[i].before <=> LeftBy(r, t, i - 1)
  <2>1. CASE i \in DOMAIN q
    <3>1. i - 1 \in 0..Len(q) /\ r[i] = q[i]
      BY <1>1, <2>1
    <3>2. q[i].before <=> LeftBy(q, t, i - 1)
      BY <1>4, <1>5, <2>1, <3>1 DEF ChainOf
    <3> QED
      BY <1>1, <3>1, <3>2
  <2>2. CASE i = Len(r)
    <3>1. i - 1 = Len(q) /\ Len(q) \in 0..Len(q) /\ r[i] = e
      BY <1>1, <2>2
    <3>2. e.target = t /\ (LeftBy(r, t, Len(q)) <=> LeftBy(q, t, Len(q)))
      BY <1>1, <1>5, <3>1
    <3>3. f[t] = "paused" <=> LeftBy(q, t, Len(q))
      BY <1>4 DEF ChainOf
    <3> QED
      BY <1>4, <3>1, <3>2, <3>3
  <2> QED
    BY <1>1, <2>1, <2>2
<1>6. ASSUME NEW t \in Targets PROVE g[t] = "paused" <=> LeftBy(r, t, Len(r))
  <2>1. f[t] = "paused" <=> LeftBy(q, t, Len(q))
    BY <1>4 DEF ChainOf
  <2> QED
    BY <1>1, <1>3, <1>4, <2>1
<1> QED
  BY <1>5, <1>6 DEF ChainOf

\* So do the steps that write.
LEMMA SetPauseExtends ==
    ASSUME NEW q \in Seq(PauseEvent), NEW f \in [Targets -> Rows], ChainOf(q, f),
           NEW e \in PauseEvent, e.before <=> f[e.target] = "paused"
    PROVE  /\ ChainOf(Append(q, e), [f EXCEPT ![e.target] = P!RowOf(e.after)])
           /\ Append(q, e) \in Seq(PauseEvent)
           /\ [f EXCEPT ![e.target] = P!RowOf(e.after)] \in [Targets -> Rows]
<1>r. PICK r : r = Append(q, e)
  OBVIOUS
<1>g. PICK g : g = [f EXCEPT ![e.target] = P!RowOf(e.after)]
  OBVIOUS
<1>1. Written(q, e, r)
  BY <1>r, EventWritten
<1>2. e.target \in Targets /\ P!RowOf(e.after) \in Rows
  BY DEF PauseEvent, P!RowOf, Rows
<1>3. /\ g \in [Targets -> Rows]
      /\ \A t \in Targets : g[t] = IF t = e.target THEN P!RowOf(e.after) ELSE f[t]
  BY <1>2, <1>g
<1>4. Extends(q, f, e, r, g)
  BY <1>1, <1>3 DEF Extends
<1>5. ChainOf(r, g) /\ r \in Seq(PauseEvent)
  BY <1>1, <1>4, ChainExtends DEF Written
<1> QED
  BY <1>3, <1>5, <1>g, <1>r

\* Records of requests.
LEMMA OpFields ==
    /\ \A s \in {0, 200, 400, 500} : [pc |-> "idle", status |-> s] \in IdleOp
    /\ \A r \in IdleOp : r \in OpRecords /\ r.pc = "idle"
    /\ \A r \in OpRecords : r.pc = "write" =>
          r.target \in Targets /\ r.pause \in BOOLEAN /\ r.before \in BOOLEAN
    /\ \A t \in Targets : \A pause, before \in BOOLEAN :
          [pc |-> "write", target |-> t, pause |-> pause, before |-> before] \in OpRecords
<1>1. \A s \in {0, 200, 400, 500} : [pc |-> "idle", status |-> s] \in IdleOp
  BY DEF IdleOp
<1>2. \A r \in IdleOp : r.pc = "idle"
  BY DEF IdleOp
<1>3. \A r \in WriteOp : r.target \in Targets /\ r.pause \in BOOLEAN /\ r.before \in BOOLEAN
  BY DEF WriteOp
<1>4. \A t \in Targets : \A pause, before \in BOOLEAN :
          [pc |-> "write", target |-> t, pause |-> pause, before |-> before] \in WriteOp
  BY DEF WriteOp
<1> QED
  BY <1>1, <1>2, <1>3, <1>4 DEF OpRecords

LEMMA InitPauses == ASSUME P!PausesAssumption, P!Init PROVE PausesInv
<1>1. P!Idle \in OpRecords /\ P!Idle.pc = "idle"
  BY OpFields DEF P!Idle
<1>2. op \in [Operators -> OpRecords] /\ \A o \in Operators : op[o].pc = "idle"
  BY <1>1 DEF P!Init
<1>3. row \in [Targets -> Rows] /\ \A t \in Targets : row[t] # "paused"
  BY DEF P!Init, Rows, P!Absent
<1>4. rowLock \in [Targets -> LockOwners]
  BY DEF P!Init, LockOwners
<1>5. pauses = <<>> /\ pauses \in Seq(PauseEvent) /\ Len(pauses) = 0 /\ DOMAIN pauses = {}
  BY DEF P!Init
<1>6. \A t : ~LeftBy(pauses, t, 0)
  BY DEF LeftBy
<1>7. ChainOf(pauses, row)
  BY <1>3, <1>5, <1>6 DEF ChainOf
<1> QED
  BY <1>2, <1>3, <1>4, <1>5, <1>7 DEF PausesInv, ReadUnderLock

\* A request is over: it is answered, and with it go its locks.
LEMMA OverPauses ==
    ASSUME P!PausesAssumption, PausesInv, NEW o \in Operators, NEW r \in IdleOp,
           op' = [op EXCEPT ![o] = r], rowLock' = P!Unlocked(o), UNCHANGED durable,
           row' \in [Targets -> Rows], pauses' \in Seq(PauseEvent), ChainOf(pauses', row'),
           \A t \in Targets : row'[t] = row[t] \/ (op[o].pc = "write" /\ t = op[o].target)
    PROVE  PausesInv'
<1>1. /\ op \in [Operators -> OpRecords] /\ rowLock \in [Targets -> LockOwners]
      /\ r \in OpRecords /\ r.pc = "idle"
  BY OpFields DEF PausesInv
<1>2. op' \in [Operators -> OpRecords] /\ op'[o] = r /\ \A x \in Operators : x # o => op'[x] = op[x]
  BY <1>1
<1>3. /\ rowLock' \in [Targets -> LockOwners]
      /\ \A t \in Targets : rowLock[t] # o => rowLock'[t] = rowLock[t]
  BY <1>1 DEF P!Unlocked, LockOwners
<1>4. ASSUME NEW x \in Operators PROVE ReadUnderLock(x)'
  <2>1. CASE x = o
    BY <1>1, <1>2, <2>1 DEF ReadUnderLock
  <2>2. CASE x # o /\ op[x].pc # "write"
    BY <1>2, <2>2 DEF ReadUnderLock
  <2>3. CASE x # o /\ op[x].pc = "write"
    <3>t. PICK t : t = op[x].target
      OBVIOUS
    <3>1. /\ t \in Targets /\ durable /\ rowLock[t] = x
          /\ op[x].before <=> row[t] = "paused"
      BY <1>1, <2>3, <3>t, OpFields DEF PausesInv, ReadUnderLock
    <3>2. op[o].pc = "write" => rowLock[op[o].target] = o
      BY DEF PausesInv, ReadUnderLock
    <3>3. row'[t] = row[t]
      BY <2>3, <3>1, <3>2
    <3>4. rowLock'[t] = x /\ op'[x] = op[x]
      BY <1>2, <1>3, <2>3, <3>1
    <3> QED
      BY <3>1, <3>3, <3>4, <3>t DEF ReadUnderLock
  <2> QED
    BY <2>1, <2>2, <2>3
<1> QED
  BY <1>2, <1>3, <1>4 DEF PausesInv

LEMMA WritePauses == ASSUME P!PausesAssumption, PausesInv, NEW o \in Operators, P!Write(o), UNCHANGED durable
                     PROVE  PausesInv'
<1>1. /\ op[o].pc = "write" /\ rowLock' = P!Unlocked(o)
      /\ row' = [row EXCEPT ![op[o].target] = P!RowOf(op[o].pause)]
      /\ pauses' = Append(pauses, P!Event(op[o].target, op[o].before, op[o].pause))
      /\ op' = [op EXCEPT ![o] = [pc |-> "idle", status |-> 200]]
  BY DEF P!Write, P!At, P!Answer
<1>2. /\ op[o].target \in Targets /\ op[o].pause \in BOOLEAN /\ op[o].before \in BOOLEAN
      /\ op[o].before <=> row[op[o].target] = "paused"
  BY <1>1, OpFields DEF PausesInv, ReadUnderLock
<1>e. PICK e : e = P!Event(op[o].target, op[o].before, op[o].pause)
  OBVIOUS
<1>3. /\ e \in PauseEvent /\ e.target = op[o].target
      /\ e.before = op[o].before /\ e.after = op[o].pause
  BY <1>2, <1>e DEF PauseEvent, P!Event
<1>4. ChainOf(pauses', row') /\ pauses' \in Seq(PauseEvent) /\ row' \in [Targets -> Rows]
  <2>1. row' = [row EXCEPT ![e.target] = P!RowOf(e.after)] /\ pauses' = Append(pauses, e)
    BY <1>1, <1>3, <1>e
  <2>2. e.before <=> row[e.target] = "paused"
    BY <1>2, <1>3
  <2>3. pauses \in Seq(PauseEvent) /\ row \in [Targets -> Rows] /\ ChainOf(pauses, row)
    BY DEF PausesInv
  <2>4. /\ ChainOf(Append(pauses, e), [row EXCEPT ![e.target] = P!RowOf(e.after)])
        /\ Append(pauses, e) \in Seq(PauseEvent)
        /\ [row EXCEPT ![e.target] = P!RowOf(e.after)] \in [Targets -> Rows]
    BY <1>3, <2>2, <2>3, SetPauseExtends
  <2> QED
    BY <2>1, <2>4
<1>5. \A t \in Targets : row'[t] = row[t] \/ (op[o].pc = "write" /\ t = op[o].target)
  <2>1. row \in [Targets -> Rows]
    BY DEF PausesInv
  <2>2. \A t \in Targets : t # op[o].target => row'[t] = row[t]
    BY <1>1, <2>1
  <2> QED
    BY <1>1, <2>2
<1>r. PICK r : r = [pc |-> "idle", status |-> 200]
  OBVIOUS
<1>6. r \in IdleOp /\ op' = [op EXCEPT ![o] = r]
  BY <1>1, <1>r, OpFields
<1> QED
  BY <1>1, <1>4, <1>5, <1>6, OverPauses

LEMMA SetPauseInMemoryPauses ==
    ASSUME P!PausesAssumption, PausesInv, NEW o \in Operators, NEW t \in Targets, NEW pause \in BOOLEAN,
           P!SetPauseInMemory(o, t, pause), UNCHANGED durable
    PROVE  PausesInv'
<1>1. /\ ~durable /\ UNCHANGED rowLock
      /\ row' = [row EXCEPT ![t] = P!RowOf(pause)]
      /\ pauses' = Append(pauses, P!Event(t, P!Paused(t), pause))
      /\ op' = [op EXCEPT ![o] = [pc |-> "idle", status |-> 200]]
  BY DEF P!SetPauseInMemory, P!Answer
<1>b. PICK b \in BOOLEAN : b = P!Paused(t)
  BY DEF P!Paused
<1>e. PICK e : e = P!Event(t, b, pause)
  OBVIOUS
<1>2. e \in PauseEvent /\ e.target = t /\ e.before = b /\ e.after = pause
  BY <1>e DEF PauseEvent, P!Event
<1>3. ChainOf(pauses', row') /\ pauses' \in Seq(PauseEvent) /\ row' \in [Targets -> Rows]
  <2>1. row' = [row EXCEPT ![e.target] = P!RowOf(e.after)] /\ pauses' = Append(pauses, e)
    BY <1>1, <1>2, <1>b, <1>e
  <2>2. e.before <=> row[e.target] = "paused"
    BY <1>2, <1>b DEF P!Paused
  <2>3. pauses \in Seq(PauseEvent) /\ row \in [Targets -> Rows] /\ ChainOf(pauses, row)
    BY DEF PausesInv
  <2>4. /\ ChainOf(Append(pauses, e), [row EXCEPT ![e.target] = P!RowOf(e.after)])
        /\ Append(pauses, e) \in Seq(PauseEvent)
        /\ [row EXCEPT ![e.target] = P!RowOf(e.after)] \in [Targets -> Rows]
    BY <1>2, <2>2, <2>3, SetPauseExtends
  <2> QED
    BY <2>1, <2>4
<1>r. PICK r : r = [pc |-> "idle", status |-> 200]
  OBVIOUS
<1>4. r \in OpRecords /\ r.pc = "idle" /\ op' = [op EXCEPT ![o] = r]
  BY <1>1, <1>r, OpFields
<1>5. op \in [Operators -> OpRecords] /\ \A x \in Operators : op[x].pc # "write"
  BY <1>1 DEF PausesInv, ReadUnderLock
<1>6. op' \in [Operators -> OpRecords] /\ \A x \in Operators : op'[x].pc # "write"
  BY <1>4, <1>5
<1> QED
  BY <1>1, <1>3, <1>6 DEF PausesInv, ReadUnderLock

LEMMA LockRowPauses ==
    ASSUME P!PausesAssumption, PausesInv, NEW o \in Operators, NEW t \in Targets, NEW pause \in BOOLEAN,
           P!LockRow(o, t, pause), UNCHANGED durable
    PROVE  PausesInv'
<1>b. PICK b \in BOOLEAN : b = P!Paused(t)
  BY DEF P!Paused
<1>r. PICK r : r = [pc |-> "write", target |-> t, pause |-> pause, before |-> b]
  OBVIOUS
<1>1. /\ durable /\ rowLock[t] = NoOperator /\ rowLock' = [rowLock EXCEPT ![t] = o]
      /\ op' = [op EXCEPT ![o] = r] /\ UNCHANGED <<row, pauses>>
  BY <1>b, <1>r DEF P!LockRow
<1>2. r \in OpRecords /\ r.target = t /\ r.before = b
  BY <1>r, OpFields
<1>3. /\ op \in [Operators -> OpRecords] /\ rowLock \in [Targets -> LockOwners] /\ o \in LockOwners
      /\ \A x \in Operators : x # NoOperator
  BY DEF PausesInv, LockOwners, P!PausesAssumption
<1>4. op' \in [Operators -> OpRecords] /\ op'[o] = r /\ \A x \in Operators : x # o => op'[x] = op[x]
  BY <1>1, <1>2, <1>3
<1>5. /\ rowLock' \in [Targets -> LockOwners] /\ rowLock'[t] = o
      /\ \A u \in Targets : u # t => rowLock'[u] = rowLock[u]
  BY <1>1, <1>3
<1>6. ASSUME NEW x \in Operators PROVE ReadUnderLock(x)'
  <2>1. CASE x = o
    BY <1>1, <1>2, <1>4, <1>5, <1>b, <2>1 DEF ReadUnderLock, P!Paused
  <2>2. CASE x # o /\ op[x].pc # "write"
    BY <1>4, <2>2 DEF ReadUnderLock
  <2>3. CASE x # o /\ op[x].pc = "write"
    <3>u. PICK u : u = op[x].target
      OBVIOUS
    <3>1. u \in Targets /\ rowLock[u] = x /\ (op[x].before <=> row[u] = "paused")
      BY <1>3, <2>3, <3>u, OpFields DEF PausesInv, ReadUnderLock
    <3>2. rowLock'[u] = x /\ op'[x] = op[x]
      BY <1>1, <1>3, <1>4, <1>5, <2>3, <3>1
    <3> QED
      BY <1>1, <3>1, <3>2, <3>u DEF ReadUnderLock
  <2> QED
    BY <2>1, <2>2, <2>3
<1> QED
  BY <1>1, <1>4, <1>5, <1>6 DEF PausesInv

\* A request that is refused, or rolled back, has written nothing.
LEMMA NothingWritten ==
    ASSUME P!PausesAssumption, PausesInv, NEW o \in Operators, P!Refuse(o) \/ P!Rollback(o), UNCHANGED durable
    PROVE  PausesInv'
<1>1. PICK r \in IdleOp : op' = [op EXCEPT ![o] = r]
  <2>1. op' = [op EXCEPT ![o] = [pc |-> "idle", status |-> 400]]
            \/ op' = [op EXCEPT ![o] = [pc |-> "idle", status |-> 500]]
    BY DEF P!Refuse, P!Rollback, P!Answer
  <2> QED
    BY <2>1, OpFields
<1>2. r \in IdleOp /\ op' = [op EXCEPT ![o] = r] /\ UNCHANGED <<row, pauses>>
  BY <1>1 DEF P!Refuse, P!Rollback
<1>3. row' \in [Targets -> Rows] /\ pauses' \in Seq(PauseEvent) /\ ChainOf(pauses', row')
  BY <1>2 DEF PausesInv
<1>4. CASE P!Rollback(o)
  <2>1. rowLock' = P!Unlocked(o)
    BY <1>4 DEF P!Rollback
  <2> QED
    BY <1>2, <1>3, <2>1, OverPauses
<1>5. CASE P!Refuse(o)
  <2>1. UNCHANGED rowLock /\ op \in [Operators -> OpRecords] /\ r \in OpRecords /\ r.pc = "idle"
    BY <1>2, <1>5, OpFields DEF P!Refuse, PausesInv
  <2>2. op' \in [Operators -> OpRecords] /\ \A x \in Operators : op'[x] = IF x = o THEN r ELSE op[x]
    BY <1>2, <2>1
  <2>3. \A x \in Operators : ReadUnderLock(x)'
    BY <1>2, <2>1, <2>2 DEF PausesInv, ReadUnderLock
  <2> QED
    BY <1>3, <2>1, <2>2, <2>3 DEF PausesInv
<1> QED
  BY <1>4, <1>5

\* The audit of each target is a chain from "not paused" to what is in force,
\* whoever pauses and resumes at the same time, in memory or in several
\* processes on Postgres, and however transactions end (set_pause with its
\* audit event).
THEOREM PausesFormAChain ==
    ASSUME P!PausesAssumption PROVE P!Spec => []AuditChain
<1>1. ASSUME PausesInv, [P!Next]_(P!vars) PROVE PausesInv'
  <2>1. CASE UNCHANGED P!vars
    BY <1>1, <2>1 DEF P!vars, PausesInv, ReadUnderLock
  <2>2. CASE P!Next
    BY <1>1, <2>2, SetPauseInMemoryPauses, LockRowPauses, WritePauses, NothingWritten DEF P!Next
  <2> QED
    BY <1>1, <2>1, <2>2
<1>2. ASSUME PausesInv PROVE P!PausesTypeOK
  BY <1>2 DEF PausesInv, P!PausesTypeOK, Rows, LockOwners, PauseEvent, OpRecords, IdleOp, WriteOp
<1>3. ASSUME PausesInv PROVE P!AuditChain
  <2>1. \A t, i : P!Left(t, i) <=> LeftBy(pauses, t, i)
    BY DEF P!Left, LeftBy
  <2> QED
    BY <1>3, <2>1 DEF PausesInv, ChainOf, P!AuditChain, P!Paused
<1>4. PausesInv => AuditChain
  BY <1>2, <1>3 DEF AuditChain
<1> QED
  BY <1>1, <1>4, InitPauses, PTL DEF P!Spec

-----------------------------------------------------------------------------
(***************************************************************************)
(* The migrations.                                                         *)
(***************************************************************************)
Versions(s) == ToSet(Migrations(s))

\* A process whose record is r holds the lock of s.
Holds(p, r, s) == r.pc \in {"locked", "running", "committing"} /\ Plan(p)[r.at] = s

\* A record of process p: within its plan, and with nothing run outside of a
\* transaction.
ProcRecord(p, r) ==
    /\ r = [pc |-> r.pc, at |-> r.at, due |-> r.due, ran |-> r.ran, work |-> r.work]
    /\ r.at \in Nat
    /\ r.pc # "down" => 1 <= r.at /\ r.at <= Len(Plan(p))
    /\ r.pc \notin {"running", "committing"} => r.ran = {}

\* What is due or was run is not in a ledger of versions held.
NotYet(r, held) == r.pc # "locked" => \A v \in r.due \cup r.ran : v \notin held

\* Who holds the lock of s is alone, and has what is not in the ledger before it.
LockedScope(s) ==
    /\ \A p, q \in Procs : Holds(p, proc[p], s) /\ Holds(q, proc[q], s) => p = q
    /\ \A p \in Procs : Holds(p, proc[p], s) => NotYet(proc[p], DOMAIN ledger[s])

\* A migration that was run is in the ledger.
Recorded(s) ==
    /\ DOMAIN runs[s] = Versions(s)
    /\ \A v \in Versions(s) :
          runs[s][v] = 0 \/ (runs[s][v] = 1 /\ v \in DOMAIN ledger[s])

\* The inductive invariant of Migrations, as far as the ledger goes.
LedgerInv ==
    /\ DOMAIN proc = Procs /\ DOMAIN ledger = ScopeNames /\ DOMAIN runs = ScopeNames
    /\ \A p \in Procs : ProcRecord(p, proc[p])
    /\ \A s \in ScopeNames : LockedScope(s) /\ Recorded(s)

\* A plan is of scopes.
LEMMA PlanFacts ==
    ASSUME NEW p
    PROVE  /\ Len(Plan(p)) \in Nat /\ 1 <= Len(Plan(p))
           /\ \A i \in Nat : 1 <= i /\ i <= Len(Plan(p)) => Plan(p)[i] \in ScopeNames
<1>s. PICK Z : Z = ScopeNames
  OBVIOUS
<1>1. ReconcilerStore \in Seq(Z) /\ Len(ReconcilerStore) = 1
  BY <1>s DEF ReconcilerStore, ScopeNames
<1>2. Preflight \in Seq(Z) /\ Len(Preflight) = 3
  BY <1>s DEF Preflight, ScopeNames
<1>3. StartUp \in Seq(Z) /\ Len(StartUp) = 3
  BY <1>s DEF StartUp, ScopeNames
<1>4. Preflight \o StartUp \in Seq(Z) /\ Len(Preflight \o StartUp) = 6
  <2>a. PICK a, b : a = Preflight /\ b = StartUp
    OBVIOUS
  <2>1. a \in Seq(Z) /\ b \in Seq(Z) /\ Len(a) = 3 /\ Len(b) = 3
    BY <1>2, <1>3, <2>a
  <2>2. a \o b \in Seq(Z) /\ Len(a \o b) = Len(a) + Len(b)
    BY <2>1, ConcatProperties
  <2> QED
    BY <2>1, <2>2, <2>a
<1>5. Plan(p) \in Seq(Z) /\ Len(Plan(p)) >= 1
  <2>1. CASE p \in Reconcilers
    <3>1. Plan(p) = ReconcilerStore
      BY <2>1 DEF Plan
    <3> QED
      BY <1>1, <3>1
  <2>2. CASE p \notin Reconcilers
    <3>1. Plan(p) = Preflight \o StartUp
      BY <2>2 DEF Plan
    <3> QED
      BY <1>4, <3>1
  <2> QED
    BY <2>1, <2>2
<1> QED
  BY <1>5, <1>s

\* A process that is away has run nothing and holds nothing.
LEMMA AwayFacts ==
    ASSUME NEW p, NEW pc \in {"down", "create", "up"}, NEW at \in Nat, NEW r, r = Away(pc, at),
           pc # "down" => 1 <= at /\ at <= Len(Plan(p))
    PROVE  ProcRecord(p, r) /\ \A s : ~Holds(p, r, s)
BY DEF Away, ProcRecord, Holds

LEMMA InitLedger == ASSUME MigrationsAssumption, Init PROVE LedgerInv
<1>1. DOMAIN proc = Procs /\ \A p \in Procs : proc[p] = Away("down", 0)
  BY DEF Init, Down
<1>2. \A p \in Procs : ProcRecord(p, proc[p]) /\ \A s : ~Holds(p, proc[p], s)
  BY <1>1, AwayFacts
<1>3. DOMAIN ledger = ScopeNames
  BY DEF Init, MigrationsAssumption
<1>4. /\ DOMAIN runs = ScopeNames
      /\ \A s \in ScopeNames : Recorded(s)
  BY DEF Init, Recorded, Versions
<1> QED
  BY <1>1, <1>2, <1>3, <1>4 DEF LedgerInv, LockedScope

\* p goes on, and keeps or takes a lock that nobody else has.
GoesOn(p, r) ==
    /\ ProcRecord(p, r) /\ Becomes(p, r) /\ UNCHANGED <<ledger, runs>>
    /\ \A s \in ScopeNames : Holds(p, r, s) =>
          /\ NotYet(r, DOMAIN ledger[s])
          /\ Holds(p, proc[p], s) \/ \A q \in Procs : ~Holds(q, proc[q], s)

LEMMA GoesOnKeeps ==
    ASSUME LedgerInv, NEW p \in Procs, NEW r, GoesOn(p, r) PROVE LedgerInv'
<1>1. /\ DOMAIN proc' = Procs /\ \A q \in Procs : proc'[q] = IF q = p THEN r ELSE proc[q]
      /\ ledger' = ledger /\ runs' = runs
  BY DEF LedgerInv, GoesOn, Becomes
<1>2. \A q \in Procs : ProcRecord(q, proc'[q])
  BY <1>1 DEF LedgerInv, GoesOn
<1>3. ASSUME NEW s \in ScopeNames PROVE LockedScope(s)'
  <2>1. LockedScope(s)
    BY DEF LedgerInv
  <2>2. Holds(p, r, s) => /\ NotYet(r, DOMAIN ledger[s])
                          /\ Holds(p, proc[p], s) \/ \A q \in Procs : ~Holds(q, proc[q], s)
    BY DEF GoesOn
  <2>4. ASSUME NEW q \in Procs, NEW o \in Procs, Holds(q, proc'[q], s), Holds(o, proc'[o], s)
        PROVE  q = o
    BY <1>1, <2>1, <2>2, <2>4 DEF LockedScope
  <2>5. ASSUME NEW q \in Procs, Holds(q, proc'[q], s) PROVE NotYet(proc'[q], DOMAIN ledger'[s])
    BY <1>1, <2>1, <2>2, <2>5 DEF LockedScope
  <2> QED
    BY <2>4, <2>5 DEF LockedScope
<1>4. \A s \in ScopeNames : Recorded(s)'
  BY <1>1 DEF LedgerInv, Recorded
<1> QED
  BY <1>1, <1>2, <1>3, <1>4 DEF LedgerInv, ProcRecord

\* A transaction that leaves nothing, and its process, end.
LEMMA EndKeeps ==
    ASSUME LedgerInv, NEW p \in Procs, End(p), UNCHANGED <<ledger, runs>> PROVE LedgerInv'
<1>r. PICK r : r = Away("down", 0)
  OBVIOUS
<1>1. Becomes(p, r)
  BY <1>r DEF End, Down
<1>2. ProcRecord(p, r) /\ \A s : ~Holds(p, r, s)
  BY <1>r, AwayFacts
<1>3. GoesOn(p, r)
  BY <1>1, <1>2 DEF GoesOn
<1> QED
  BY <1>3, GoesOnKeeps

LEMMA StartKeeps ==
    ASSUME LedgerInv, NEW p \in Procs, Start(p) PROVE LedgerInv'
<1>r. PICK r : r = Away("create", 1)
  OBVIOUS
<1>1. Becomes(p, r) /\ UNCHANGED <<ledger, runs>>
  BY <1>r DEF Start
<1>2. ProcRecord(p, r) /\ \A s : ~Holds(p, r, s)
  <2>1. 1 <= Len(Plan(p)) /\ 1 <= 1 /\ 1 \in Nat
    BY PlanFacts
  <2> QED
    BY <1>r, <2>1, AwayFacts
<1>3. GoesOn(p, r)
  BY <1>1, <1>2 DEF GoesOn
<1> QED
  BY <1>3, GoesOnKeeps

\* The record of p with another pc.
LEMMA AtAnother ==
    ASSUME LedgerInv, NEW p \in Procs, NEW c, NEW r, r = [proc[p] EXCEPT !.pc = c],
           proc[p].pc # "down", c \notin {"running", "committing"} => proc[p].ran = {}
    PROVE  /\ ProcRecord(p, r)
           /\ r.pc = c /\ r.at = proc[p].at /\ r.due = proc[p].due /\ r.ran = proc[p].ran
<1>q. PICK q : q = proc[p]
  OBVIOUS
<1>1. ProcRecord(p, q)
  BY <1>q DEF LedgerInv
<1>2. q = [pc |-> q.pc, at |-> q.at, due |-> q.due, ran |-> q.ran, work |-> q.work]
  BY <1>1 DEF ProcRecord
<1>3. r = [pc |-> c, at |-> q.at, due |-> q.due, ran |-> q.ran, work |-> q.work]
  BY <1>2, <1>q
<1>4. /\ r.pc = c /\ r.at = q.at /\ r.due = q.due /\ r.ran = q.ran /\ r.work = q.work
      /\ r = [pc |-> r.pc, at |-> r.at, due |-> r.due, ran |-> r.ran, work |-> r.work]
  BY <1>3
<1> QED
  BY <1>1, <1>4, <1>q DEF ProcRecord

\* p goes to a place where it holds no lock.
LEMMA UnlockedKeeps ==
    ASSUME LedgerInv, NEW p \in Procs, NEW c \in {"lock", "blocked"}, GoTo(p, c),
           proc[p].pc \in {"create", "blocked"}, UNCHANGED <<ledger, runs>>
    PROVE  LedgerInv'
<1>r. PICK r : r = [proc[p] EXCEPT !.pc = c]
  OBVIOUS
<1>1. proc[p].ran = {}
  BY DEF LedgerInv, ProcRecord
<1>2. ProcRecord(p, r) /\ r.pc = c
  BY <1>1, <1>r, AtAnother
<1>3. Becomes(p, r) /\ \A s : ~Holds(p, r, s)
  BY <1>2, <1>r DEF GoTo, Holds
<1>4. GoesOn(p, r)
  BY <1>2, <1>3 DEF GoesOn
<1> QED
  BY <1>4, GoesOnKeeps

LEMMA LockKeeps ==
    ASSUME LedgerInv, NEW p \in Procs, Lock(p) PROVE LedgerInv'
<1>r. PICK r : r = [proc[p] EXCEPT !.pc = "locked"]
  OBVIOUS
<1>1. proc[p].pc = "lock" /\ Becomes(p, r) /\ UNCHANGED <<ledger, runs>>
  BY <1>r DEF Lock, At, GoTo
<1>2. proc[p].ran = {}
  BY <1>1 DEF LedgerInv, ProcRecord
<1>3. ProcRecord(p, r) /\ r.pc = "locked" /\ r.at = proc[p].at
  BY <1>1, <1>2, <1>r, AtAnother
<1>4. \A q \in Procs : ~Holds(q, proc[q], Scope(p))
  BY DEF Lock, Holders, Scope, Holds
<1>5. ASSUME NEW s, Holds(p, r, s) PROVE s = Scope(p) /\ NotYet(r, DOMAIN ledger[s])
  BY <1>3, <1>5 DEF Holds, Scope, NotYet
<1>6. GoesOn(p, r)
  BY <1>1, <1>3, <1>4, <1>5 DEF GoesOn
<1> QED
  BY <1>6, GoesOnKeeps

\* p goes on with its transaction.
LEMMA InTransaction ==
    ASSUME LedgerInv, NEW p \in Procs, NEW r, Becomes(p, r), UNCHANGED <<ledger, runs>>,
           proc[p].pc \in {"locked", "running"}, ProcRecord(p, r),
           r.pc \in {"running", "committing"}, r.at = proc[p].at,
           NotYet(r, DOMAIN ledger[Scope(p)])
    PROVE  LedgerInv'
<1>1. ASSUME NEW s, Holds(p, r, s) PROVE s = Scope(p) /\ Holds(p, proc[p], s)
  BY <1>1 DEF Holds, Scope
<1>2. GoesOn(p, r)
  BY <1>1 DEF GoesOn
<1> QED
  BY <1>2, GoesOnKeeps

\* What p has in its transaction is not in the ledger.
LEMMA NotYetRun ==
    ASSUME LedgerInv, NEW p \in Procs, proc[p].pc \in {"locked", "running", "committing"}
    PROVE  /\ Scope(p) \in ScopeNames /\ Holds(p, proc[p], Scope(p))
           /\ NotYet(proc[p], DOMAIN ledger[Scope(p)])
<1>1. ProcRecord(p, proc[p])
  BY DEF LedgerInv
<1>2. Scope(p) \in ScopeNames
  BY <1>1, PlanFacts DEF ProcRecord, Scope
<1>3. Holds(p, proc[p], Scope(p))
  BY DEF Holds, Scope
<1> QED
  BY <1>2, <1>3 DEF LedgerInv, LockedScope

LEMMA ReadKeeps ==
    ASSUME LedgerInv, NEW p \in Procs, Read(p) PROVE LedgerInv'
<1>1. proc[p].pc = "locked" /\ UNCHANGED <<ledger, runs>>
  BY DEF Read, At
<1>w. PICK w : w = db[Scope(p)]
  OBVIOUS
<1>d. PICK d : d = Knows(p, Scope(p)) \ DOMAIN ledger[Scope(p)]
  OBVIOUS
<1>r. PICK r : r = [proc[p] EXCEPT !.pc = "running", !.work = w, !.due = d]
  OBVIOUS
<1>2. CASE End(p)
  BY <1>1, <1>2, EndKeeps
<1>3. CASE Becomes(p, r)
  <2>q. PICK q : q = proc[p]
    OBVIOUS
  <2>1. ProcRecord(p, q) /\ q.ran = {}
    BY <1>1, <2>q DEF LedgerInv, ProcRecord
  <2>2. q = [pc |-> q.pc, at |-> q.at, due |-> q.due, ran |-> q.ran, work |-> q.work]
    BY <2>1 DEF ProcRecord
  <2>3. r = [pc |-> "running", at |-> q.at, due |-> d, ran |-> q.ran, work |-> w]
    BY <1>r, <2>2, <2>q
  <2>4. /\ r.pc = "running" /\ r.at = q.at /\ r.due = d /\ r.ran = {}
        /\ r = [pc |-> r.pc, at |-> r.at, due |-> r.due, ran |-> r.ran, work |-> r.work]
    BY <2>1, <2>3
  <2>5. ProcRecord(p, r)
    BY <1>1, <2>1, <2>4, <2>q DEF ProcRecord
  <2>6. NotYet(r, DOMAIN ledger[Scope(p)])
    BY <1>d, <2>4 DEF NotYet
  <2> QED
    BY <1>1, <1>3, <2>4, <2>5, <2>6, <2>q, InTransaction
<1> QED
  BY <1>2, <1>3, <1>d, <1>r, <1>w DEF Read

LEMMA RunKeeps ==
    ASSUME LedgerInv, NEW p \in Procs, Run(p) PROVE LedgerInv'
<1>1. proc[p].pc = "running" /\ UNCHANGED <<ledger, runs>>
  BY DEF Run, At
<1>2. PICK v \in proc[p].due :
          \/ Becomes(p, [proc[p] EXCEPT !.due = proc[p].due \ {v}, !.ran = proc[p].ran \cup {v},
                                          !.work = Sql(Scope(p), v, proc[p].work)])
          \/ End(p)
  BY DEF Run, First
<1>w. PICK w : w = Sql(Scope(p), v, proc[p].work)
  OBVIOUS
<1>d. PICK d : d = proc[p].due \ {v}
  OBVIOUS
<1>n. PICK n : n = proc[p].ran \cup {v}
  OBVIOUS
<1>r. PICK r : r = [proc[p] EXCEPT !.due = d, !.ran = n, !.work = w]
  OBVIOUS
<1>3. CASE End(p)
  BY <1>1, <1>3, EndKeeps
<1>4. CASE Becomes(p, r)
  <2>q. PICK q : q = proc[p]
    OBVIOUS
  <2>1. ProcRecord(p, q)
    BY <2>q DEF LedgerInv
  <2>2. q = [pc |-> q.pc, at |-> q.at, due |-> q.due, ran |-> q.ran, work |-> q.work]
    BY <2>1 DEF ProcRecord
  <2>3. r = [pc |-> q.pc, at |-> q.at, due |-> d, ran |-> n, work |-> w]
    BY <1>r, <2>2, <2>q
  <2>4. /\ r.pc = q.pc /\ r.at = q.at /\ r.due = d /\ r.ran = n
        /\ r = [pc |-> r.pc, at |-> r.at, due |-> r.due, ran |-> r.ran, work |-> r.work]
    BY <2>3
  <2>5. ProcRecord(p, r)
    BY <1>1, <2>1, <2>4, <2>q DEF ProcRecord
  <2>6. NotYet(q, DOMAIN ledger[Scope(p)])
    BY <1>1, <2>q, NotYetRun
  <2>7. NotYet(r, DOMAIN ledger[Scope(p)])
    BY <1>1, <1>2, <1>d, <1>n, <2>4, <2>6, <2>q DEF NotYet
  <2> QED
    BY <1>1, <1>4, <2>4, <2>5, <2>7, <2>q, InTransaction
<1> QED
  BY <1>2, <1>3, <1>4, <1>d, <1>n, <1>r, <1>w

LEMMA ValidateKeeps ==
    ASSUME LedgerInv, NEW p \in Procs, Validate(p) PROVE LedgerInv'
<1>1. proc[p].pc = "running" /\ UNCHANGED <<ledger, runs>> /\ (GoTo(p, "committing") \/ End(p))
  BY DEF Validate, At
<1>2. CASE End(p)
  BY <1>1, <1>2, EndKeeps
<1>3. CASE GoTo(p, "committing")
  <2>r. PICK r : r = [proc[p] EXCEPT !.pc = "committing"]
    OBVIOUS
  <2>1. /\ ProcRecord(p, r) /\ r.pc = "committing" /\ r.at = proc[p].at
        /\ r.due = proc[p].due /\ r.ran = proc[p].ran
    BY <1>1, <2>r, AtAnother
  <2>2. NotYet(proc[p], DOMAIN ledger[Scope(p)])
    BY <1>1, NotYetRun
  <2>3. NotYet(r, DOMAIN ledger[Scope(p)])
    BY <1>1, <2>1, <2>2 DEF NotYet
  <2>4. Becomes(p, r)
    BY <1>3, <2>r DEF GoTo
  <2> QED
    BY <1>1, <2>1, <2>3, <2>4, InTransaction
<1> QED
  BY <1>1, <1>2, <1>3

\* What p has run is recorded, and seen, when it commits.
LEMMA CommitKeeps ==
    ASSUME LedgerInv, NEW p \in Procs, Commit(p) PROVE LedgerInv'
<1>x. PICK x : x = Scope(p)
  OBVIOUS
<1>n. PICK n : n = proc[p].ran
  OBVIOUS
<1>1. /\ proc[p].pc = "committing"
      /\ ledger' = [ledger EXCEPT ![x] =
            [v \in DOMAIN ledger[x] \cup n |-> IF v \in n THEN "own" ELSE ledger[x][v]]]
      /\ runs' = [runs EXCEPT ![x] =
            [v \in DOMAIN runs[x] |-> IF v \in n THEN runs[x][v] + 1 ELSE runs[x][v]]]
      /\ Becomes(p, IF proc[p].at = Len(Plan(p)) THEN Away("up", proc[p].at)
                      ELSE Away("create", proc[p].at + 1))
  BY <1>n, <1>x DEF Commit, At
<1>2. /\ x \in ScopeNames /\ Holds(p, proc[p], x) /\ NotYet(proc[p], DOMAIN ledger[x])
      /\ \A v \in n : v \notin DOMAIN ledger[x]
  BY <1>1, <1>n, <1>x, NotYetRun DEF NotYet
<1>3. PICK r : Becomes(p, r) /\ ProcRecord(p, r) /\ \A s : ~Holds(p, r, s)
  <2>1. /\ proc[p].at \in Nat /\ 1 <= proc[p].at /\ proc[p].at <= Len(Plan(p))
        /\ Len(Plan(p)) \in Nat
    BY <1>1, PlanFacts DEF LedgerInv, ProcRecord
  <2>2. CASE proc[p].at = Len(Plan(p))
    <3>r. PICK r : r = Away("up", proc[p].at)
      OBVIOUS
    <3>1. ProcRecord(p, r) /\ \A s : ~Holds(p, r, s)
      BY <2>1, <3>r, AwayFacts
    <3> QED
      BY <1>1, <2>2, <3>1, <3>r
  <2>3. CASE proc[p].at # Len(Plan(p))
    <3>i. PICK i : i = proc[p].at + 1
      OBVIOUS
    <3>r. PICK r : r = Away("create", i)
      OBVIOUS
    <3>1. i \in Nat /\ 1 <= i /\ i <= Len(Plan(p))
      BY <2>1, <2>3, <3>i
    <3>2. ProcRecord(p, r) /\ \A s : ~Holds(p, r, s)
      BY <3>1, <3>r, AwayFacts
    <3> QED
      BY <1>1, <2>3, <3>2, <3>i, <3>r
  <2> QED
    BY <2>2, <2>3
<1>4. DOMAIN proc' = Procs /\ \A q \in Procs : proc'[q] = IF q = p THEN r ELSE proc[q]
  BY <1>3 DEF LedgerInv, Becomes
<1>5. \A q \in Procs : ProcRecord(q, proc'[q])
  BY <1>3, <1>4 DEF LedgerInv
<1>6. /\ DOMAIN ledger' = ScopeNames /\ DOMAIN runs' = ScopeNames
      /\ \A s \in ScopeNames : s # x => ledger'[s] = ledger[s] /\ runs'[s] = runs[s]
  BY <1>1 DEF LedgerInv
<1>7. DOMAIN ledger'[x] = DOMAIN ledger[x] \cup n
  BY <1>1, <1>2 DEF LedgerInv
<1>8. /\ DOMAIN runs'[x] = DOMAIN runs[x]
      /\ \A v \in DOMAIN runs[x] : runs'[x][v] = IF v \in n THEN runs[x][v] + 1 ELSE runs[x][v]
  BY <1>1, <1>2 DEF LedgerInv
<1>9. ASSUME NEW s \in ScopeNames PROVE LockedScope(s)'
  <2>1. LockedScope(s)
    BY DEF LedgerInv
  <2>2. ASSUME NEW q \in Procs, NEW o \in Procs, Holds(q, proc'[q], s), Holds(o, proc'[o], s)
        PROVE  q = o
    BY <1>3, <1>4, <2>1, <2>2 DEF LockedScope
  <2>3. ASSUME NEW q \in Procs, Holds(q, proc'[q], s) PROVE NotYet(proc'[q], DOMAIN ledger'[s])
    <3>1. q # p /\ proc'[q] = proc[q] /\ Holds(q, proc[q], s)
      BY <1>3, <1>4, <2>3
    <3>2. s # x
      BY <1>2, <2>1, <3>1 DEF LockedScope
    <3>3. NotYet(proc[q], DOMAIN ledger[s])
      BY <2>1, <3>1 DEF LockedScope
    <3> QED
      BY <1>6, <3>1, <3>2, <3>3
  <2> QED
    BY <2>2, <2>3 DEF LockedScope
<1>10. ASSUME NEW s \in ScopeNames PROVE Recorded(s)'
  <2>1. Recorded(s)
    BY DEF LedgerInv
  <2>2. CASE s # x
    BY <1>6, <2>1, <2>2 DEF Recorded
  <2>3. CASE s = x
    <3>1. DOMAIN runs[x] = Versions(x)
      BY <2>1, <2>3 DEF Recorded
    <3>2. ASSUME NEW v \in Versions(x)
          PROVE  runs'[x][v] = 0 \/ (runs'[x][v] = 1 /\ v \in DOMAIN ledger'[x])
      <4>1. runs[x][v] = 0 \/ (runs[x][v] = 1 /\ v \in DOMAIN ledger[x])
        BY <2>1, <2>3 DEF Recorded
      <4>2. runs'[x][v] = IF v \in n THEN runs[x][v] + 1 ELSE runs[x][v]
        BY <1>8, <3>1
      <4> QED
        BY <1>2, <1>7, <4>1, <4>2
    <3> QED
      BY <1>8, <2>3, <3>1, <3>2 DEF Recorded
  <2> QED
    BY <2>2, <2>3
<1> QED
  BY <1>4, <1>5, <1>6, <1>9, <1>10 DEF LedgerInv

LEMMA LedgerStep == ASSUME LedgerInv, [Next]_(vars) PROVE LedgerInv'
<1>1. CASE UNCHANGED vars
  BY <1>1 DEF vars, LedgerInv, LockedScope, Recorded
<1>2. ASSUME NEW p \in Procs, Create(p) \/ Unblock(p) PROVE LedgerInv'
  <2>1. UNCHANGED <<ledger, runs>> /\ proc[p].pc \in {"create", "blocked"}
    BY <1>2 DEF Create, Unblock, At
  <2>2. GoTo(p, "lock") \/ GoTo(p, "blocked") \/ End(p)
    BY <1>2 DEF Create, Unblock
  <2> QED
    BY <2>1, <2>2, UnlockedKeeps, EndKeeps
<1>3. ASSUME NEW p \in Procs, Crash(p) PROVE LedgerInv'
  <2>1. End(p) /\ UNCHANGED <<ledger, runs>>
    BY <1>3 DEF Crash
  <2> QED
    BY <2>1, EndKeeps
<1>4. CASE Idle
  BY <1>1, <1>4 DEF Idle
<1> QED
  BY <1>1, <1>2, <1>3, <1>4, StartKeeps, LockKeeps, ReadKeeps, RunKeeps, ValidateKeeps, CommitKeeps
  DEF Next, Step

\* The SQL of a migration is run by one process at a time and takes effect
\* once, however many processes start together, of whatever releases, on
\* whatever database, and are killed on the way
\* (apply_hosted_postgres_migrations).
THEOREM MigrationsRunOnce == ASSUME MigrationsAssumption PROVE Spec => []OneRunner
<1>1. ASSUME LedgerInv PROVE OneRunner
  <2> SUFFICES ASSUME NEW s \in ScopeNames, NEW v \in Versions(s)
               PROVE  runs[s][v] + Cardinality({p \in Holders(s) : v \in proc[p].ran}) <= 1
    BY DEF OneRunner, Versions
  <2>C. PICK C : C = {p \in Holders(s) : v \in proc[p].ran}
    OBVIOUS
  <2>1. \A p \in Holders(s) : p \in Procs /\ Holds(p, proc[p], s)
    BY DEF Holders, Scope, Holds
  <2>2. \A p \in C : p \in Procs /\ Holds(p, proc[p], s) /\ v \in proc[p].ran
    BY <2>1, <2>C
  <2>3. LockedScope(s) /\ Recorded(s)
    BY <1>1 DEF LedgerInv
  <2>4. \A p, q \in C : p = q
    BY <2>2, <2>3 DEF LockedScope
  <2>5. Cardinality(C) = Cardinality(C)
    BY DEF Cardinality, Cardinality
  <2>6. CASE C = {}
    <3>1. Cardinality(C) = 0
      BY <2>6, FS_EmptySet
    <3>2. runs[s][v] = 0 \/ runs[s][v] = 1
      BY <2>3 DEF Recorded
    <3> QED
      BY <2>5, <2>C, <3>1, <3>2
  <2>7. CASE C # {}
    <3>1. PICK p : C = {p} /\ p \in C
      BY <2>4, <2>7
    <3>2. Cardinality(C) = 1
      BY <3>1, FS_Singleton
    <3>3. proc[p].pc # "locked"
      BY <1>1, <2>2, <3>1 DEF LedgerInv, ProcRecord
    <3>4. v \notin DOMAIN ledger[s]
      BY <2>2, <2>3, <3>1, <3>3 DEF LockedScope, NotYet
    <3>5. runs[s][v] = 0
      BY <2>3, <3>4 DEF Recorded
    <3> QED
      BY <2>5, <2>C, <3>2, <3>5
  <2> QED
    BY <2>6, <2>7
<1>2. LedgerInv => OneRunner
  BY <1>1
<1> QED
  BY <1>2, InitLedger, LedgerStep, PTL DEF Spec

-----------------------------------------------------------------------------
(***************************************************************************)
(* What the SQL of the migrations makes of the tables of settlement.       *)
(***************************************************************************)
\* Who owns a record.
Owners(r) == {r.project, r.seller} \ {NoOne}

\* The tables e keep the records of d and their owners, and have two columns of
\* owners only if d has.
SettlementFrom(d, e) ==
    /\ HalfMoved(e) => HalfMoved(d)
    /\ \A r \in d.rows : \E s \in e.rows : s.id = r.id /\ s.print = r.print /\ Owners(s) = Owners(r)

\* What the SQL of version v makes of the settlement tables d, when it does
\* not raise.
SettlementMade(d, e, held, v) ==
    e.ok =>
       /\ SettlementAgrees(e, held \cup {v}) /\ SettlementFrom(d, e)
       /\ v # "2026052000011" /\ Ambiguous(d) => Ambiguous(e)

\* More columns and objects change nothing else.
LEMMA SettlementWidened ==
    ASSUME NEW d, NEW held, NEW v, SettlementAgrees(d, held),
           v \notin {"2026052000011"} \cup ProfileVersions \cup LookupVersions,
           NEW e, SettlementFields(e), d.cols \subseteq e.cols, e.required = d.required,
           \A c \in e.cols \cap {"project_id", "seller_account_id"} : c \in d.cols,
           "uniq_provider_fingerprint" \in e.objects => "uniq_provider_fingerprint" \in d.objects,
           e.uniq = d.uniq, e.lookup = d.lookup, e.rows = d.rows
    PROVE  SettlementMade(d, e, held, v)
<1>1. SettlementFrom(d, e)
  BY DEF SettlementFrom, HalfMoved, Has
<1>2. /\ "2026052000011" \in held \cup {v} => "2026052000011" \in held
      /\ (held \cup {v}) \cap ProfileVersions # {} => held \cap ProfileVersions # {}
      /\ (held \cup {v}) \cap LookupVersions # {} => held \cap LookupVersions # {}
  OBVIOUS
<1>3. \A c : Has(d, c) => Has(e, c)
  BY DEF Has
<1>4. SettlementAgrees(e, held \cup {v})
  BY <1>2, <1>3 DEF SettlementAgrees
<1>5. Ambiguous(d) => Ambiguous(e)
  BY <1>3 DEF Ambiguous
<1> QED
  BY <1>1, <1>4, <1>5 DEF SettlementMade

\* The SQL that looks at the column of sellers raises without it.
LEMMA RaisedSettlement ==
    ASSUME NEW d, NEW held, NEW v, SettlementFields(d), NEW e, e = Raised(d)
    PROVE  SettlementMade(d, e, held, v)
BY DEF SettlementMade, Raised, SettlementFields

LEMMA LegacyKeeps ==
    ASSUME NEW d, NEW held, SettlementAgrees(d, held), NEW e, e = LegacyProjectSchema(d)
    PROVE  SettlementMade(d, e, held, "202605170001")
<1>t. PICK t : t = LegacyRecordTable(d)
  OBVIOUS
<1>f. SettlementFields(d)
  BY DEF SettlementAgrees
<1>v. "202605170001" \notin {"2026052000011"} \cup ProfileVersions \cup LookupVersions
  BY DEF ProfileVersions, LookupVersions
<1>1. /\ SettlementFields(t) /\ t.objects = d.objects
      /\ t.lookup = d.lookup /\ t.rows = d.rows
      /\ IF d.cols # {} THEN t.cols = d.cols /\ t.required = d.required /\ t.uniq = d.uniq
         ELSE t.cols = {"project_id"} /\ t.required = {"project_id"}
              /\ t.uniq = {Unique("project_id_fingerprint_key", ByProject)}
  BY <1>t, <1>f DEF LegacyRecordTable, SettlementFields
<1>m. PICK more : more = {"settlement_attempts", "status_updated_index",
                         "provider_network_status_index", "reconciliation_lease_index",
                         "attempts_record_started_index"}
  OBVIOUS
<1>2. "uniq_provider_fingerprint" \notin more
  BY <1>m
<1>3. e = [t EXCEPT !.cols = @ \cup {"reconciliation"}, !.objects = @ \cup more]
  BY <1>t, <1>m DEF LegacyProjectSchema
<1>4. /\ SettlementFields(e) /\ e.cols = t.cols \cup {"reconciliation"} /\ e.required = t.required
      /\ e.objects = t.objects \cup more /\ e.uniq = t.uniq /\ e.lookup = t.lookup /\ e.rows = t.rows
  BY <1>1, <1>3 DEF SettlementFields
<1>5. CASE d.cols # {}
  BY <1>v, <1>1, <1>2, <1>4, <1>5, SettlementWidened
<1>6. CASE d.cols = {}
  <2>3. "2026052000011" \notin held /\ held \cap ProfileVersions = {}
    BY <1>6 DEF SettlementAgrees, Has
  <2>4. \A r \in d.rows : r.project = NoOne /\ r.seller = NoOne
    BY <1>6 DEF SettlementAgrees, Has
  <2>5. \A u \in e.uniq : u.over = ByProject /\ ByProject # ByProfile
    BY <1>1, <1>4, <1>6 DEF Unique, ByProject, ByProfile
  <2>6. /\ "2026052000011" \notin held \cup {"202605170001"}
        /\ (held \cup {"202605170001"}) \cap ProfileVersions = {}
        /\ (held \cup {"202605170001"}) \cap LookupVersions # {} => held \cap LookupVersions # {}
    BY <1>v, <2>3
  <2>7. SettlementAgrees(e, held \cup {"202605170001"})
    BY <1>1, <1>2, <1>4, <2>4, <2>5, <2>6 DEF SettlementAgrees
  <2>8. ~Ambiguous(d)
    BY <1>6 DEF Ambiguous, Has
  <2> QED
    BY <1>1, <1>4, <1>6, <2>7, <2>8 DEF SettlementMade, SettlementFrom, HalfMoved, Has
<1> QED
  BY <1>5, <1>6

LEMMA DuplicatesKeep ==
    ASSUME NEW d, NEW held, SettlementAgrees(d, held), NEW e, e = DuplicateMetrics(d)
    PROVE  SettlementMade(d, e, held, "202605200001")
<1>1. SettlementFields(d)
  BY DEF SettlementAgrees
<1>2. /\ SettlementFields(e) /\ d.cols \subseteq e.cols /\ e.required = d.required
      /\ \A c \in e.cols \cap {"project_id", "seller_account_id"} : c \in d.cols
      /\ e.objects = d.objects \cup {"last_duplicate_at_index"} /\ e.uniq = d.uniq
      /\ e.lookup = d.lookup /\ e.rows = d.rows
  BY <1>1 DEF DuplicateMetrics, SettlementFields
<1>3. "202605200001" \notin {"2026052000011"} \cup ProfileVersions \cup LookupVersions
  BY DEF ProfileVersions, LookupVersions
<1> QED
  BY <1>2, <1>3, SettlementWidened

LEMMA StatusIndexKeeps ==
    ASSUME NEW d, NEW held, SettlementAgrees(d, held), NEW e, e = SellerStatusUpdatedIndex(d)
    PROVE  SettlementMade(d, e, held, "202605280002")
<1>1. SettlementFields(d)
  BY DEF SettlementAgrees
<1>2. CASE ~Has(d, "seller_account_id")
  BY <1>1, <1>2, RaisedSettlement DEF SellerStatusUpdatedIndex
<1>3. CASE Has(d, "seller_account_id")
  <2>1. /\ SettlementFields(e) /\ e.cols = d.cols /\ e.required = d.required
        /\ e.objects = d.objects \cup {"seller_status_updated_index"} /\ e.uniq = d.uniq
        /\ e.lookup = d.lookup /\ e.rows = d.rows
    BY <1>1, <1>3 DEF SellerStatusUpdatedIndex, SettlementFields
  <2>2. "202605280002" \notin {"2026052000011"} \cup ProfileVersions \cup LookupVersions
    BY DEF ProfileVersions, LookupVersions
  <2> QED
    BY <2>1, <2>2, SettlementWidened
<1> QED
  BY <1>2, <1>3

LEMMA LookupKeeps ==
    ASSUME NEW d, NEW held, NEW v \in LookupVersions, SettlementAgrees(d, held),
           NEW e, e = ProviderFingerprintLookup(d)
    PROVE  SettlementMade(d, e, held, v)
<1>1. SettlementFields(d)
  BY DEF SettlementAgrees
<1>2. CASE ~Has(d, "seller_account_id")
  BY <1>1, <1>2, RaisedSettlement DEF ProviderFingerprintLookup
<1>3. CASE Has(d, "seller_account_id")
  <2>2. /\ SettlementFields(e) /\ e.required = d.required
        /\ e.cols = d.cols /\ e.uniq = d.uniq /\ e.rows = d.rows /\ e.lookup = "current"
        /\ "uniq_provider_fingerprint" \notin e.objects
    BY <1>1, <1>3 DEF ProviderFingerprintLookup, SettlementFields
  <2>3. v \notin {"2026052000011"} \cup ProfileVersions
    BY DEF ProfileVersions, LookupVersions
  <2>4. /\ "2026052000011" \in held \cup {v} => "2026052000011" \in held
        /\ (held \cup {v}) \cap ProfileVersions # {} => held \cap ProfileVersions # {}
    BY <2>3
  <2>5. SettlementAgrees(e, held \cup {v})
    BY <2>2, <2>4 DEF SettlementAgrees, Has
  <2>6. Ambiguous(d) => Ambiguous(e)
    BY <2>2 DEF Ambiguous, Has
  <2> QED
    BY <2>2, <2>5, <2>6 DEF SettlementMade, SettlementFrom, HalfMoved, Has
<1> QED
  BY <1>2, <1>3

\* A migration of two steps.
LEMMA SettlementTransitive ==
    ASSUME NEW c, NEW d, NEW e, SettlementFrom(c, d), SettlementFrom(d, e)
    PROVE  SettlementFrom(c, e)
BY DEF SettlementFrom

\* The fields of a record of which the owner is written.
RecordFields(r) ==
    r = [id |-> r.id, project |-> r.project, seller |-> r.seller,
         profile |-> r.profile, print |-> r.print]

LEMMA RenamedOver ==
    ASSUME NEW over \in {ByProject, BySeller, ByProfile}, NEW new,
           new = [i \in DOMAIN over |->
                    IF over[i] = "project_id" THEN "seller_account_id" ELSE over[i]]
    PROVE  new \in {BySeller, ByProfile} /\ (new = ByProfile => over = ByProfile)
<1>1. CASE over = ByProject
  <2>1. new = BySeller /\ BySeller # ByProfile
    BY <1>1 DEF ByProject, BySeller, ByProfile
  <2> QED
    BY <2>1
<1>2. CASE over = BySeller
  <2>1. new = BySeller /\ BySeller # ByProfile
    BY <1>2 DEF BySeller, ByProfile
  <2> QED
    BY <2>1
<1>3. CASE over = ByProfile
  <2>1. new = ByProfile
    BY <1>3 DEF ByProfile
  <2> QED
    BY <2>1, <1>3
<1> QED
  BY <1>1, <1>2, <1>3

LEMMA RenameKeeps ==
    ASSUME NEW d, NEW held, SettlementAgrees(d, held), NEW e, e = RenameProject(d)
    PROVE  /\ SettlementAgrees(e, held) /\ SettlementFrom(d, e)
           /\ e.ok = d.ok
           /\ Has(e, "project_id") => Has(e, "seller_account_id")
           /\ ~Ambiguous(d) => ~Ambiguous(e)
<1>1. CASE ~Has(d, "project_id") \/ Has(d, "seller_account_id")
  <2>1. e = d
    BY <1>1 DEF RenameProject
  <2> QED
    BY <1>1, <2>1 DEF SettlementFrom
<1>2. CASE Has(d, "project_id") /\ ~Has(d, "seller_account_id")
  <2> DEFINE new(over) == [i \in DOMAIN over |->
                             IF over[i] = "project_id" THEN "seller_account_id" ELSE over[i]]
  <2>c. PICK c : c = (d.cols \ {"project_id"}) \cup {"seller_account_id"}
    OBVIOUS
  <2>u. PICK u : u = {Unique(x.name, new(x.over)) : x \in d.uniq}
    OBVIOUS
  <2>w. PICK w : w = {[r EXCEPT !.seller = r.project, !.project = NoOne] : r \in d.rows}
    OBVIOUS
  <2>q. PICK q : q = IF "project_id" \in d.required THEN {"seller_account_id"} ELSE {}
    OBVIOUS
  <2>1. e = [d EXCEPT !.cols = c, !.required = q, !.uniq = u, !.rows = w]
    BY <1>2, <2>c, <2>q, <2>u, <2>w DEF RenameProject
  <2>2. SettlementFields(d)
    BY DEF SettlementAgrees
  <2>3. /\ SettlementFields(e) /\ e.cols = c /\ e.required = q /\ e.uniq = u /\ e.rows = w
        /\ e.objects = d.objects /\ e.lookup = d.lookup /\ e.ok = d.ok
    BY <2>1, <2>2 DEF SettlementFields
  <2>4. "2026052000011" \notin held /\ held \cap ProfileVersions = {}
    BY <1>2 DEF SettlementAgrees
  <2>5. Has(e, "seller_account_id") /\ ~Has(e, "project_id")
    BY <2>c, <2>3 DEF Has
  <2>6. ASSUME NEW r \in d.rows, NEW s, s = [r EXCEPT !.seller = r.project, !.project = NoOne]
        PROVE  /\ RecordFields(s) /\ s.project = NoOne /\ s.seller = r.project
               /\ s.id = r.id /\ s.print = r.print /\ Owners(s) = Owners(r)
    <3>1. RecordFields(r) /\ r.seller = NoOne
      BY <1>2 DEF SettlementAgrees, RecordFields
    <3>2. /\ RecordFields(s) /\ s.project = NoOne /\ s.seller = r.project
          /\ s.id = r.id /\ s.print = r.print
      BY <2>6, <3>1 DEF RecordFields
    <3> QED
      BY <3>1, <3>2 DEF Owners
  <2>7. SettlementFrom(d, e)
    BY <2>3, <2>5, <2>6, <2>w DEF SettlementFrom, HalfMoved
  <2>8. ASSUME NEW s \in e.rows PROVE RecordFields(s) /\ s.project = NoOne
    <3>1. PICK r \in d.rows : s = [r EXCEPT !.seller = r.project, !.project = NoOne]
      BY <2>3, <2>w
    <3> QED
      BY <2>6, <3>1
  <2>9. ASSUME NEW x \in d.uniq
        PROVE  LET y == Unique(x.name, new(x.over))
               IN  y.over \in {BySeller, ByProfile} /\ (y.over = ByProfile => y.name # "project_id_fingerprint_key")
    <3>1. x.over \in {ByProject, BySeller, ByProfile} /\ (x.over = ByProfile => x.name # "project_id_fingerprint_key")
      BY DEF SettlementAgrees
    <3>2. PICK n : n = new(x.over)
      OBVIOUS
    <3>3. n \in {BySeller, ByProfile} /\ (n = ByProfile => x.over = ByProfile)
      BY <3>1, <3>2, RenamedOver
    <3>4. PICK y : y = Unique(x.name, n)
      OBVIOUS
    <3>5. y.over = n /\ y.name = x.name
      BY <3>4 DEF Unique
    <3> QED
      BY <3>1, <3>2, <3>3, <3>4, <3>5
  <2>10. ASSUME NEW y \in e.uniq
         PROVE  y.over \in {BySeller, ByProfile} /\ (y.over = ByProfile => y.name # "project_id_fingerprint_key")
    <3>1. PICK x \in d.uniq : y = Unique(x.name, new(x.over))
      BY <2>3, <2>u
    <3> QED
      BY <2>9, <3>1
  <2>11. held \cap LookupVersions # {} =>
             e.lookup = "current" /\ "uniq_provider_fingerprint" \notin e.objects
    BY <2>3 DEF SettlementAgrees
  <2>r. e.required \subseteq {"project_id", "seller_account_id"} \cap e.cols
    BY <2>c, <2>q, <2>3
  <2>12. SettlementAgrees(e, held)
    BY <2>3, <2>4, <2>5, <2>8, <2>10, <2>11, <2>r DEF SettlementAgrees, RecordFields
  <2> QED
    BY <2>3, <2>5, <2>7, <2>12 DEF Ambiguous
<1> QED
  BY <1>1, <1>2

LEMMA BackfillKeeps ==
    ASSUME NEW d, NEW held, SettlementAgrees(d, held), NEW e, e = BackfillSeller(d),
           Has(d, "project_id") => Has(d, "seller_account_id"), ~Ambiguous(d)
    PROVE  /\ SettlementAgrees(e, held) /\ SettlementFrom(d, e)
           /\ e.ok = d.ok /\ Has(e, "seller_account_id")
           /\ \A r \in e.rows : r.project \in {NoOne, r.seller}
<1>w. PICK w : w = IF ~Has(d, "project_id") THEN d.rows
                   ELSE {[r EXCEPT !.seller = IF @ = NoOne THEN r.project ELSE @] : r \in d.rows}
  OBVIOUS
<1>1. e = [d EXCEPT !.cols = @ \cup {"seller_account_id"}, !.rows = w]
  BY <1>w DEF BackfillSeller
<1>2. SettlementFields(d)
  BY DEF SettlementAgrees
<1>3. /\ SettlementFields(e) /\ e.cols = d.cols \cup {"seller_account_id"} /\ e.rows = w
      /\ e.required = d.required
      /\ e.objects = d.objects /\ e.uniq = d.uniq /\ e.lookup = d.lookup /\ e.ok = d.ok
  BY <1>1, <1>2 DEF SettlementFields
<1>4. Has(e, "seller_account_id") /\ (Has(d, "project_id") <=> Has(e, "project_id"))
  BY <1>3 DEF Has
<1>r. \A r \in d.rows : RecordFields(r)
  BY DEF SettlementAgrees, RecordFields
<1>5. CASE ~Has(d, "project_id")
  <2>1. e.rows = d.rows /\ \A r \in d.rows : r.project = NoOne
    BY <1>3, <1>5, <1>w DEF SettlementAgrees
  <2>2. SettlementAgrees(e, held)
    BY <1>3, <1>4, <1>r, <2>1 DEF SettlementAgrees, RecordFields
  <2> QED
    BY <1>3, <1>4, <1>5, <2>1, <2>2 DEF SettlementFrom, HalfMoved
<1>6. CASE Has(d, "project_id")
  <2>1. w = {[r EXCEPT !.seller = IF @ = NoOne THEN r.project ELSE @] : r \in d.rows}
    BY <1>6, <1>w
  <2>2. ASSUME NEW r \in d.rows, NEW s, s = [r EXCEPT !.seller = IF @ = NoOne THEN r.project ELSE @]
        PROVE  /\ RecordFields(s) /\ s.project = r.project /\ s.seller = r.project
               /\ s.id = r.id /\ s.print = r.print /\ Owners(s) = Owners(r)
               /\ r.seller # NoOne => s.seller # NoOne
    <3>1. r.seller \in {NoOne, r.project}
      BY <1>6 DEF Ambiguous
    <3>2. RecordFields(r)
      BY <1>r
    <3>3. /\ RecordFields(s) /\ s.project = r.project /\ s.seller = IF r.seller = NoOne THEN r.project ELSE r.seller
          /\ s.id = r.id /\ s.print = r.print
      BY <2>2, <3>2 DEF RecordFields
    <3> QED
      BY <3>1, <3>3 DEF Owners
  <2>3. SettlementFrom(d, e)
    <3> SUFFICES ASSUME NEW r \in d.rows
                 PROVE  \E s \in e.rows : s.id = r.id /\ s.print = r.print /\ Owners(s) = Owners(r)
      BY <1>6 DEF SettlementFrom, HalfMoved
    <3>1. PICK s : s = [r EXCEPT !.seller = IF @ = NoOne THEN r.project ELSE @]
      OBVIOUS
    <3>2. s \in e.rows
      BY <1>3, <2>1, <3>1
    <3> QED
      BY <2>2, <3>1, <3>2
  <2>4. \A s \in e.rows : RecordFields(s) /\ s.project = s.seller
    BY <1>3, <2>1, <2>2
  <2>5. (\A r \in d.rows : r.seller # NoOne) => \A s \in e.rows : s.seller # NoOne
    BY <1>3, <2>1, <2>2
  <2>6. \A s \in e.rows : s.project = NoOne \/ Has(e, "project_id")
    BY <1>4, <1>6
  <2>7. "2026052000011" \in held => \A r \in d.rows : r.seller # NoOne
    BY DEF SettlementAgrees
  <2>8. SettlementAgrees(e, held)
    BY <1>3, <1>4, <2>4, <2>5, <2>6, <2>7 DEF SettlementAgrees, RecordFields
  <2> QED
    BY <1>3, <1>4, <2>3, <2>4, <2>8
<1> QED
  BY <1>5, <1>6

LEMMA SellerAccountsKeeps ==
    ASSUME NEW d, NEW held, SettlementAgrees(d, held), NEW e, e = SettlementSellerAccounts(d)
    PROVE  SettlementMade(d, e, held, "2026052000011") /\ (Ambiguous(d) => ~e.ok)
<1>n. PICK n : n = RenameProject(d)
  OBVIOUS
<1>t. PICK t : t = BackfillSeller(n)
  OBVIOUS
<1>w. PICK w : w = DropUnique(t, "project_id_fingerprint_key", ByProject)
  OBVIOUS
<1>1. e = IF Ambiguous(d) \/ \E r \in t.rows : r.seller = NoOne
          THEN Raised(d)
          ELSE [w EXCEPT !.objects = @ \ {"uniq_provider_fingerprint"},
                         !.required = @ \cup {"seller_account_id"}]
  BY <1>n, <1>t, <1>w DEF SettlementSellerAccounts
<1>f. SettlementFields(d)
  BY DEF SettlementAgrees
<1>2. CASE Ambiguous(d) \/ \E r \in t.rows : r.seller = NoOne
  <2>1. e = Raised(d)
    BY <1>1, <1>2
  <2>2. ~e.ok
    BY <2>1, <1>f DEF Raised, SettlementFields
  <2> QED
    BY <2>2 DEF SettlementMade
<1>3. CASE ~Ambiguous(d) /\ \A r \in t.rows : r.seller # NoOne
  <2>1. /\ SettlementAgrees(n, held) /\ SettlementFrom(d, n) /\ ~Ambiguous(n)
        /\ Has(n, "project_id") => Has(n, "seller_account_id")
    BY <1>3, <1>n, RenameKeeps
  <2>2. /\ SettlementAgrees(t, held) /\ SettlementFrom(n, t) /\ Has(t, "seller_account_id")
        /\ \A r \in t.rows : r.project \in {NoOne, r.seller}
    BY <2>1, <1>t, BackfillKeeps
  <2>3. SettlementFields(t)
    BY <2>2 DEF SettlementAgrees
  <2>4. /\ SettlementFields(w) /\ w.cols = t.cols /\ w.rows = t.rows /\ w.lookup = t.lookup
        /\ w.objects = t.objects /\ w.required = t.required
        /\ w.uniq = {u \in t.uniq : u.name # "project_id_fingerprint_key" /\ u.over # ByProject}
    BY <1>w, <2>3 DEF DropUnique, SettlementFields
  <2>5. e = [w EXCEPT !.objects = @ \ {"uniq_provider_fingerprint"},
                      !.required = @ \cup {"seller_account_id"}]
    BY <1>1, <1>3
  <2>6. /\ SettlementFields(e) /\ e.cols = t.cols /\ e.rows = t.rows /\ e.lookup = t.lookup
        /\ e.objects = t.objects \ {"uniq_provider_fingerprint"}
        /\ e.required = t.required \cup {"seller_account_id"} /\ e.uniq = w.uniq
    BY <2>4, <2>5 DEF SettlementFields
  <2>7. \A u \in e.uniq : u \in t.uniq /\ u.over # ByProject
    BY <2>4, <2>6
  <2>8. \A u \in t.uniq : u.over = ByProfile => u \in e.uniq
    <3>1. ByProject # ByProfile
      BY DEF ByProject, ByProfile
    <3> QED
      BY <2>2, <2>4, <2>6, <3>1 DEF SettlementAgrees
  <2>9. \A c : Has(t, c) <=> Has(e, c)
    BY <2>6 DEF Has
  <2>10. /\ (held \cup {"2026052000011"}) \cap ProfileVersions # {} => held \cap ProfileVersions # {}
         /\ (held \cup {"2026052000011"}) \cap LookupVersions # {} => held \cap LookupVersions # {}
    BY DEF ProfileVersions, LookupVersions
  <2>r. e.required \subseteq {"project_id", "seller_account_id"} \cap e.cols
    BY <2>2, <2>6 DEF SettlementAgrees, Has
  <2>11. SettlementAgrees(e, held \cup {"2026052000011"})
    BY <1>3, <2>2, <2>6, <2>7, <2>8, <2>9, <2>10, <2>r DEF SettlementAgrees
  <2>12. SettlementFrom(d, t)
    BY <2>1, <2>2, SettlementTransitive
  <2>13. SettlementFrom(d, e)
    BY <2>6, <2>12 DEF SettlementFrom, HalfMoved, Has
  <2> QED
    BY <1>3, <2>11, <2>13 DEF SettlementMade
<1> QED
  BY <1>2, <1>3

LEMMA ProfilesKeep ==
    ASSUME NEW d, NEW held, NEW v \in ProfileVersions, SettlementAgrees(d, held),
           NEW e, e = SettlementPaymentProfiles(d)
    PROVE  SettlementMade(d, e, held, v)
<1>w. PICK w : w = IF Has(d, "payment_profile_id") THEN d
                   ELSE [d EXCEPT !.cols = @ \cup {"payment_profile_id"},
                                  !.rows = {[r EXCEPT !.profile = "default"] : r \in @}]
  OBVIOUS
<1>t. PICK t : t = DropUnique(w, "seller_account_id_fingerprint_key", BySeller)
  OBVIOUS
<1>h. PICK there \in BOOLEAN : there <=> \E u \in t.uniq : u.over = ByProfile
  OBVIOUS
<1>u. PICK u : u = IF there THEN t.uniq
                   ELSE t.uniq \cup {Unique("seller_profile_fingerprint_key", ByProfile)}
  OBVIOUS
<1>l. PICK l : l = IF t.lookup = "absent" THEN "current" ELSE t.lookup
  OBVIOUS
<1>1. e = IF ~Has(d, "seller_account_id") \/ (~there /\ ~Distinct(t.rows))
          THEN Raised(d)
          ELSE [t EXCEPT !.uniq = u, !.objects = @ \cup {"seller_profile_index"}, !.lookup = l]
  BY <1>w, <1>t, <1>h, <1>u, <1>l DEF SettlementPaymentProfiles
<1>f. SettlementFields(d)
  BY DEF SettlementAgrees
<1>r. \A r \in d.rows : RecordFields(r)
  BY DEF SettlementAgrees, RecordFields
<1>2. CASE ~Has(d, "seller_account_id") \/ (~there /\ ~Distinct(t.rows))
  BY <1>1, <1>2, <1>f, RaisedSettlement
<1>3. CASE Has(d, "seller_account_id") /\ ~(~there /\ ~Distinct(t.rows))
  <2>1. /\ SettlementFields(w) /\ w.uniq = d.uniq /\ w.objects = d.objects /\ w.lookup = d.lookup
        /\ w.required = d.required
        /\ d.cols \subseteq w.cols /\ (Has(w, "project_id") => Has(d, "project_id"))
        /\ w.rows = d.rows \/ w.rows = {[r EXCEPT !.profile = "default"] : r \in d.rows}
    BY <1>w, <1>f DEF SettlementFields, Has
  <2>2. /\ SettlementFields(t) /\ t.cols = w.cols /\ t.rows = w.rows /\ t.lookup = d.lookup
        /\ t.objects = d.objects /\ t.required = d.required
        /\ t.uniq = {x \in d.uniq : x.name # "seller_account_id_fingerprint_key" /\ x.over # BySeller}
    BY <1>t, <2>1 DEF DropUnique, SettlementFields
  <2>3. e = [t EXCEPT !.uniq = u, !.objects = @ \cup {"seller_profile_index"}, !.lookup = l]
    BY <1>1, <1>3
  <2>4. /\ SettlementFields(e) /\ e.cols = w.cols /\ e.rows = w.rows /\ e.lookup = l
        /\ e.required = d.required
        /\ e.objects = d.objects \cup {"seller_profile_index"} /\ e.uniq = u
    BY <2>2, <2>3 DEF SettlementFields
  <2>5. ASSUME NEW r \in d.rows, NEW s, s = r \/ s = [r EXCEPT !.profile = "default"]
        PROVE  RecordFields(s) /\ s.id = r.id /\ s.print = r.print /\ s.project = r.project /\ s.seller = r.seller
    BY <1>r, <2>5 DEF RecordFields
  <2>6. ASSUME NEW s \in e.rows
        PROVE  RecordFields(s) /\ \E r \in d.rows : s.project = r.project /\ s.seller = r.seller
    <3>1. PICK r \in d.rows : s = r \/ s = [r EXCEPT !.profile = "default"]
      BY <2>1, <2>4
    <3> QED
      BY <2>5, <3>1
  <2>7. ASSUME NEW r \in d.rows
        PROVE  \E s \in e.rows : s.id = r.id /\ s.print = r.print /\ s.project = r.project /\ s.seller = r.seller
    <3>1. PICK x : x = [r EXCEPT !.profile = "default"]
      OBVIOUS
    <3>2. r \in e.rows \/ x \in e.rows
      BY <2>1, <2>4, <3>1
    <3> QED
      BY <2>5, <3>1, <3>2
  <2>8. SettlementFrom(d, e)
    BY <1>3, <2>1, <2>4, <2>7 DEF SettlementFrom, Owners, HalfMoved, Has
  <2>9. PICK y : y = Unique("seller_profile_fingerprint_key", ByProfile)
    OBVIOUS
  <2>10. y.over = ByProfile /\ y.name # "project_id_fingerprint_key"
    BY <2>9 DEF Unique
  <2>11. /\ BySeller # ByProfile /\ ByProject # ByProfile
    BY DEF ByProject, ByProfile, BySeller
  <2>12. \A x \in e.uniq : x = y \/ (x \in d.uniq /\ x.over # BySeller)
    BY <1>u, <2>2, <2>4, <2>9
  <2>13. \E x \in e.uniq : x.over = ByProfile
    BY <1>h, <1>u, <2>4, <2>9, <2>10
  <2>14. \A x \in e.uniq : /\ x.over \in {ByProject, BySeller, ByProfile} /\ x.over # BySeller
                           /\ x.over = ByProfile => x.name # "project_id_fingerprint_key"
    BY <2>10, <2>11, <2>12 DEF SettlementAgrees
  <2>15. Has(e, "seller_account_id") /\ (Has(d, "project_id") <=> Has(e, "project_id"))
    BY <1>3, <2>1, <2>4 DEF Has
  <2>16. v # "2026052000011" /\ v \notin LookupVersions
    BY DEF ProfileVersions, LookupVersions
  <2>17. "2026052000011" \in held \cup {v} => \A x \in e.uniq : x.over # ByProject
    BY <2>10, <2>11, <2>12, <2>16 DEF SettlementAgrees
  <2>18. (held \cup {v}) \cap LookupVersions # {} =>
             e.lookup = "current" /\ "uniq_provider_fingerprint" \notin e.objects
    <3>1. (held \cup {v}) \cap LookupVersions # {} => held \cap LookupVersions # {}
      BY <2>16
    <3> QED
      BY <1>l, <2>2, <2>4, <3>1 DEF SettlementAgrees
  <2>19. "2026052000011" \in held \cup {v} =>
             \A s \in e.rows : s.seller # NoOne /\ s.project \in {NoOne, s.seller}
    BY <2>6, <2>16 DEF SettlementAgrees
  <2>20. \A s \in e.rows : s.project = NoOne \/ Has(e, "project_id")
    BY <2>6, <2>15 DEF SettlementAgrees
  <2>r. e.required \subseteq {"project_id", "seller_account_id"} \cap e.cols
    BY <2>1, <2>4 DEF SettlementAgrees
  <2>21. SettlementAgrees(e, held \cup {v})
    BY <2>4, <2>6, <2>13, <2>14, <2>15, <2>17, <2>18, <2>19, <2>20, <2>r DEF SettlementAgrees, RecordFields
  <2>22. Ambiguous(d) => Ambiguous(e)
    BY <2>7, <2>15 DEF Ambiguous
  <2> QED
    BY <2>8, <2>21, <2>22 DEF SettlementMade
<1> QED
  BY <1>2, <1>3

\* The SQL of each settlement migration leaves tables that agree with a ledger
\* in which it is recorded, with the records and their owners, or raises; only
\* the migration of owners can end that a record has two.
LEMMA SettlementSql ==
    ASSUME NEW d, NEW held, SettlementAgrees(d, held), NEW v \in ToSet(Migrations("settlement")),
           NEW e, e = Sql("settlement", v, d)
    PROVE  /\ SettlementMade(d, e, held, v)
           /\ v = "2026052000011" /\ Ambiguous(d) => ~e.ok
<1>1. v \in {"202605170001", "202605200001", "2026052000011", "202605200002", "202605200003",
             "202605200004", "202605200005", "202605200006", "202605280002"}
  BY DEF Migrations, SettlementMigrations, ToSet
<1>2. CASE v = "202605170001"
  <2>1. e = LegacyProjectSchema(d)
    BY <1>2 DEF Sql
  <2> QED
    BY <1>2, <2>1, LegacyKeeps
<1>3. CASE v = "202605200001"
  <2>1. e = DuplicateMetrics(d)
    BY <1>3 DEF Sql
  <2> QED
    BY <1>3, <2>1, DuplicatesKeep
<1>4. CASE v = "2026052000011"
  <2>1. e = SettlementSellerAccounts(d)
    BY <1>4 DEF Sql
  <2> QED
    BY <1>4, <2>1, SellerAccountsKeeps
<1>5. CASE v \in ProfileVersions
  <2>1. e = SettlementPaymentProfiles(d)
    BY <1>5 DEF Sql, ProfileVersions
  <2>2. v # "2026052000011"
    BY <1>5 DEF ProfileVersions
  <2> QED
    BY <1>5, <2>1, <2>2, ProfilesKeep
<1>6. CASE v \in LookupVersions
  <2>1. e = ProviderFingerprintLookup(d)
    BY <1>6 DEF Sql, LookupVersions
  <2>2. v # "2026052000011"
    BY <1>6 DEF LookupVersions
  <2> QED
    BY <1>6, <2>1, <2>2, LookupKeeps
<1>7. CASE v = "202605280002"
  <2>1. e = SellerStatusUpdatedIndex(d)
    BY <1>7 DEF Sql
  <2> QED
    BY <1>7, <2>1, StatusIndexKeeps
<1> QED
  BY <1>1, <1>2, <1>3, <1>4, <1>5, <1>6, <1>7 DEF ProfileVersions, LookupVersions

-----------------------------------------------------------------------------
(***************************************************************************)
(* What the SQL makes of the tables of control_plane.                      *)
(***************************************************************************)
\* The name of an audit target in this release.
Target(t) == IF t = "project" THEN "seller" ELSE t

\* The tables e keep the events of d, under the names of this release.
ControlFrom(d, e) ==
    \A x \in DOMAIN d.events : d.events[x] # "invalid" =>
        x \in DOMAIN e.events /\ Target(e.events[x]) = Target(d.events[x])

ControlMade(d, e, held, v) ==
    e.ok => ControlAgrees(e, held \cup {v}) /\ ControlFrom(d, e)

LEMMA CreateControlTable ==
    ASSUME NEW d, NEW tab, NEW brings, ControlFields(d), NEW e, e = CreateTable(d, tab, brings)
    PROVE  ControlFields(e) /\ e.admits = d.admits /\ e.events = d.events /\ e.ok = d.ok
<1>1. PICK o : o = d.objects \cup {tab} \cup brings
  OBVIOUS
<1>2. e = d \/ e = [d EXCEPT !.objects = o]
  BY <1>1 DEF CreateTable
<1> QED
  BY <1>2 DEF ControlFields

LEMMA ControlSchemaKeeps ==
    ASSUME NEW d, NEW held, ControlAgrees(d, held), NEW e, e = ControlPlaneSchema(d)
    PROVE  ControlMade(d, e, held, "202605170001")
<1>1. PICK t : t = CreateTable(d, "control_plane_pause_targets", {"pause_targets_primary_key"})
  OBVIOUS
<1>2. PICK w : w = CreateTable(t, "control_plane_audit_events", {})
  OBVIOUS
<1>3. e = [w EXCEPT !.objects = @ \cup ControlPlaneObjects]
  BY <1>1, <1>2 DEF ControlPlaneSchema
<1>4. ControlFields(t) /\ t.admits = d.admits /\ t.events = d.events
  BY <1>1, CreateControlTable DEF ControlAgrees
<1>5. ControlFields(w) /\ w.admits = d.admits /\ w.events = d.events
  BY <1>2, <1>4, CreateControlTable
<1>6. ControlFields(e) /\ e.admits = d.admits /\ e.events = d.events
  BY <1>3, <1>5 DEF ControlFields
<1>7. ControlAgrees(e, held \cup {"202605170001"})
  BY <1>6 DEF ControlAgrees
<1> QED
  BY <1>6, <1>7 DEF ControlMade, ControlFrom

LEMMA AuditTargetsKeep ==
    ASSUME NEW d, NEW held, ControlAgrees(d, held), NEW e, e = SellerAuditTargets(d)
    PROVE  ControlMade(d, e, held, "202605200001")
<1>1. PICK n : n = [x \in DOMAIN d.events |-> IF d.events[x] = "project" THEN "seller" ELSE d.events[x]]
  OBVIOUS
<1>2. e = [d EXCEPT !.events = n]
  BY <1>1 DEF SellerAuditTargets
<1>3. ControlFields(e) /\ e.admits = d.admits /\ e.events = n
  BY <1>2 DEF ControlAgrees, ControlFields
<1>4. DOMAIN n = DOMAIN d.events /\ \A x \in DOMAIN n : n[x] = Target(d.events[x])
  BY <1>1 DEF Target
<1>5. \A t \in AnyType : /\ Target(t) \in AnyType /\ Target(t) # "project" /\ Target(Target(t)) = Target(t)
                         /\ Target(t) = "settlement" => t = "settlement"
  BY DEF Target, AnyType, TargetTypes
<1>6. ControlFrom(d, e)
  BY <1>3, <1>4, <1>5 DEF ControlFrom, ControlAgrees
<1>7. ControlAgrees(e, held \cup {"202605200001"})
  BY <1>3, <1>4, <1>5 DEF ControlAgrees
<1> QED
  BY <1>6, <1>7 DEF ControlMade

LEMMA TargetConstraintKeeps ==
    ASSUME NEW d, NEW held, ControlAgrees(d, held), NEW e, e = TargetTypeConstraint(d),
           "202605200001" \in held, "202605200002" \notin held
    PROVE  ControlMade(d, e, held, "202605200002")
<1>k. PICK kept : kept = {x \in DOMAIN d.events : d.events[x] \in TargetTypes}
  OBVIOUS
<1>n. PICK n : n = [x \in kept |-> d.events[x]]
  OBVIOUS
<1>a. PICK a : a = IF d.admits = AnyType THEN TargetTypes ELSE d.admits
  OBVIOUS
<1>1. e = [d EXCEPT !.events = n, !.admits = a]
  BY <1>k, <1>n, <1>a DEF TargetTypeConstraint
<1>2. ControlFields(e) /\ e.admits = a /\ e.events = n
  BY <1>1 DEF ControlAgrees, ControlFields
<1>3. DOMAIN n = kept /\ \A x \in kept : n[x] = d.events[x] /\ x \in DOMAIN d.events
  BY <1>n, <1>k
<1>4. \A x \in DOMAIN d.events : d.events[x] # "invalid" => d.events[x] \in TargetTypes
  BY DEF ControlAgrees, AnyType
<1>5. ControlFrom(d, e)
  BY <1>2, <1>3, <1>4, <1>k DEF ControlFrom
<1>6. TargetTypes \cup {"settlement"} # AnyType
  BY DEF AnyType, TargetTypes
<1>7. "202605280001" \in held \cup {"202605200002"} => e.admits = TargetTypes \cup {"settlement"}
  BY <1>2, <1>6, <1>a DEF ControlAgrees
<1>8. ControlAgrees(e, held \cup {"202605200002"})
  BY <1>2, <1>3, <1>7 DEF ControlAgrees
<1> QED
  BY <1>5, <1>8 DEF ControlMade

LEMMA SettlementTargetKeeps ==
    ASSUME NEW d, NEW held, ControlAgrees(d, held), NEW e, e = SettlementAuditTarget(d)
    PROVE  ControlMade(d, e, held, "202605280001")
<1>1. PICK types : types = TargetTypes \cup {"settlement"}
  OBVIOUS
<1>2. e = Raised(d) \/ e = [d EXCEPT !.admits = types]
  BY <1>1 DEF SettlementAuditTarget
<1>3. CASE e = Raised(d)
  <2>1. ~e.ok
    BY <1>3 DEF Raised, ControlAgrees, ControlFields
  <2> QED
    BY <2>1 DEF ControlMade
<1>4. CASE e = [d EXCEPT !.admits = types]
  <2>1. ControlFields(e) /\ e.admits = types /\ e.events = d.events
    BY <1>4 DEF ControlAgrees, ControlFields
  <2>2. ControlAgrees(e, held \cup {"202605280001"})
    BY <1>1, <2>1 DEF ControlAgrees
  <2> QED
    BY <2>1, <2>2 DEF ControlMade, ControlFrom
<1> QED
  BY <1>2, <1>3, <1>4

\* The same of the control plane's migrations, if events are renamed before
\* those of unknown targets are deleted.
LEMMA ControlSql ==
    ASSUME NEW d, NEW held, ControlAgrees(d, held), NEW v \in ToSet(Migrations("control_plane")),
           v \notin held, v = "202605200002" => "202605200001" \in held,
           NEW e, e = Sql("control_plane", v, d)
    PROVE  ControlMade(d, e, held, v)
<1>1. v \in {"202605170001", "202605200001", "202605200002", "202605280001"}
  BY DEF Migrations, ControlPlaneMigrations, ToSet
<1>2. CASE v = "202605170001"
  <2>1. e = ControlPlaneSchema(d)
    BY <1>2 DEF Sql
  <2> QED
    BY <1>2, <2>1, ControlSchemaKeeps
<1>3. CASE v = "202605200001"
  <2>1. e = SellerAuditTargets(d)
    BY <1>3 DEF Sql
  <2> QED
    BY <1>3, <2>1, AuditTargetsKeep
<1>4. CASE v = "202605200002"
  <2>1. e = TargetTypeConstraint(d)
    BY <1>4 DEF Sql
  <2> QED
    BY <1>4, <2>1, TargetConstraintKeeps
<1>5. CASE v = "202605280001"
  <2>1. e = SettlementAuditTarget(d)
    BY <1>5 DEF Sql
  <2> QED
    BY <1>5, <2>1, SettlementTargetKeeps
<1> QED
  BY <1>1, <1>2, <1>3, <1>4, <1>5

LEMMA ControlTransitive ==
    ASSUME NEW c, NEW d, NEW e, ControlFrom(c, d), ControlFrom(d, e)
    PROVE  ControlFrom(c, e)
<1>1. \A t, u : Target(t) = Target(u) /\ t # "invalid" => u # "invalid"
  BY DEF Target
<1> QED
  BY <1>1 DEF ControlFrom

-----------------------------------------------------------------------------
(***************************************************************************)
(* What the SQL makes of the tables of seller_accounts.                    *)
(***************************************************************************)
\* A profile made of a project.
ProfileOf(p) == [seller |-> p.id, limits |-> CarriedLimits(p.limits)]

\* The tables e keep the projects and profiles of d, and add profiles only for
\* projects that had none.
SellersFrom(d, e) ==
    /\ e.projects = d.projects /\ d.profiles \subseteq e.profiles
    /\ \A f \in e.profiles : f \in d.profiles \/
          \E p \in d.projects : p.id \notin {g.seller : g \in d.profiles} /\ f = ProfileOf(p)

SellersMade(d, e, held, v) ==
    e.ok => SellersAgree(e, held \cup {v}) /\ SellersFrom(d, e)

LEMMA CreateSellerTable ==
    ASSUME NEW d, NEW tab, NEW brings, SellerFields(d), NEW e, e = CreateTable(d, tab, brings)
    PROVE  /\ SellerFields(e) /\ e.projects = d.projects /\ e.accounts = d.accounts
           /\ e.profiles = d.profiles /\ e.keys = d.keys /\ e.ok = d.ok
<1>1. PICK o : o = d.objects \cup {tab} \cup brings
  OBVIOUS
<1>2. e = d \/ e = [d EXCEPT !.objects = o]
  BY <1>1 DEF CreateTable
<1> QED
  BY <1>2 DEF SellerFields

LEMMA SellerTablesKeep ==
    ASSUME NEW d, SellerFields(d), NEW e, e = SellerTables(d)
    PROVE  /\ SellerFields(e) /\ e.projects = d.projects /\ e.accounts = d.accounts
           /\ e.profiles = d.profiles /\ e.keys = d.keys /\ e.ok = d.ok
<1>1. PICK a : a = CreateTable(d, "hosted_tenants", {"tenants_primary_key"})
  OBVIOUS
<1>2. PICK b : b = CreateTable(a, "hosted_seller_accounts",
                       {"seller_accounts_primary_key", "seller_accounts_tenant_foreign_key"})
  OBVIOUS
<1>3. PICK c : c = CreateTable(b, "hosted_seller_payment_profiles", {"payment_profiles_primary_key"})
  OBVIOUS
<1>4. e = CreateTable(c, "hosted_seller_api_keys",
            {"key_id", "payment_profile_id", "api_key_hash_primary_key", "api_key_id_unique",
             "api_keys_payment_profile_foreign_key"})
  BY <1>1, <1>2, <1>3 DEF SellerTables
<1>5. /\ SellerFields(a) /\ a.projects = d.projects /\ a.accounts = d.accounts
      /\ a.profiles = d.profiles /\ a.keys = d.keys /\ a.ok = d.ok
  BY <1>1, CreateSellerTable
<1>6. /\ SellerFields(b) /\ b.projects = d.projects /\ b.accounts = d.accounts
      /\ b.profiles = d.profiles /\ b.keys = d.keys /\ b.ok = d.ok
  BY <1>2, <1>5, CreateSellerTable
<1>7. /\ SellerFields(c) /\ c.projects = d.projects /\ c.accounts = d.accounts
      /\ c.profiles = d.profiles /\ c.keys = d.keys /\ c.ok = d.ok
  BY <1>3, <1>6, CreateSellerTable
<1> QED
  BY <1>4, <1>7, CreateSellerTable

\* More objects change nothing else.
LEMMA SellersWidened ==
    ASSUME NEW d, NEW held, NEW v, SellersAgree(d, held),
           v \notin {"202605200002", "202605200003"},
           NEW e, SellerFields(e), e.projects = d.projects, e.accounts = d.accounts,
           e.profiles = d.profiles, e.keys = d.keys
    PROVE  SellersMade(d, e, held, v)
<1>1. SellersAgree(e, held \cup {v})
  BY DEF SellersAgree
<1>2. SellersFrom(d, e)
  BY DEF SellersFrom
<1> QED
  BY <1>1, <1>2 DEF SellersMade

LEMMA SellerSchemaKeeps ==
    ASSUME NEW d, NEW held, SellersAgree(d, held), NEW e,
           \/ e = SellerAccountsSchema(d)
           \/ e = SellerPaymentProfiles(d),
           NEW v \in {"202605170001", "202605200001"}
    PROVE  SellersMade(d, e, held, v)
<1>1. PICK t : t = SellerTables(d)
  OBVIOUS
<1>2. SellerFields(d)
  BY DEF SellersAgree
<1>3. /\ SellerFields(t) /\ t.projects = d.projects /\ t.accounts = d.accounts
      /\ t.profiles = d.profiles /\ t.keys = d.keys /\ t.ok = d.ok
  BY <1>1, <1>2, SellerTablesKeep
<1>4. CASE e = Raised(d)
  <2>1. ~e.ok
    BY <1>2, <1>4 DEF Raised, SellerFields
  <2> QED
    BY <2>1 DEF SellersMade
<1>5. ASSUME NEW more, e = [t EXCEPT !.objects = @ \cup more]
      PROVE  SellersMade(d, e, held, v)
  <2>1. /\ SellerFields(e) /\ e.projects = t.projects /\ e.accounts = t.accounts
        /\ e.profiles = t.profiles /\ e.keys = t.keys
    BY <1>3, <1>5 DEF SellerFields
  <2>3. v \notin {"202605200002", "202605200003"}
    OBVIOUS
  <2> QED
    BY <1>3, <2>1, <2>3, SellersWidened
<1>6. CASE e = SellerAccountsSchema(d)
  <2>1. e = Raised(d) \/ e = [t EXCEPT !.objects = @ \cup SellerIndexes]
    BY <1>1, <1>6 DEF SellerAccountsSchema
  <2> QED
    BY <1>4, <1>5, <2>1
<1>7. CASE e = SellerPaymentProfiles(d)
  <2>1. PICK more : more = {"key_id", "payment_profile_id"} \cup SellerIndexes
    OBVIOUS
  <2>2. e = [t EXCEPT !.objects = @ \cup more]
    <3>1. t.objects \cup more = t.objects \cup {"key_id", "payment_profile_id"} \cup SellerIndexes
      BY <2>1
    <3> QED
      BY <1>1, <1>7, <3>1 DEF SellerPaymentProfiles
  <2> QED
    BY <1>5, <2>2
<1> QED
  BY <1>6, <1>7

LEMMA CompatibilityKeeps ==
    ASSUME NEW d, NEW held, SellersAgree(d, held), NEW e, e = SellerProjectCompatibility(d)
    PROVE  SellersMade(d, e, held, "202605200002")
<1>1. PICK known : known = {f.seller : f \in d.profiles}
  OBVIOUS
<1>2. PICK a : a = d.accounts \cup {p.id : p \in d.projects}
  OBVIOUS
<1>3. PICK f : f = d.profiles \cup {ProfileOf(p) : p \in {q \in d.projects : q.id \notin known}}
  OBVIOUS
<1>4. e = [d EXCEPT !.accounts = a, !.profiles = f]
  BY <1>1, <1>2, <1>3 DEF SellerProjectCompatibility, ProfileOf
<1>5. /\ SellerFields(e) /\ e.projects = d.projects /\ e.accounts = a
      /\ e.profiles = f /\ e.keys = d.keys /\ e.objects = d.objects
  BY <1>4 DEF SellersAgree, SellerFields
<1>6. \A p : ProfileOf(p).seller = p.id
  BY DEF ProfileOf
<1>7. \A g \in f : g \in d.profiles \/ \E p \in d.projects : p.id \notin known /\ g = ProfileOf(p)
  BY <1>3
<1>8. SellersFrom(d, e)
  BY <1>1, <1>3, <1>5, <1>7 DEF SellersFrom
<1>9. ASSUME NEW p \in d.projects PROVE p.id \in a /\ \E g \in f : g.seller = p.id
  <2>1. p.id \in a
    BY <1>2
  <2>2. CASE p.id \in known
    BY <1>1, <1>3, <2>1, <2>2
  <2>3. CASE p.id \notin known
    <3>1. ProfileOf(p) \in f
      BY <1>3, <2>3
    <3> QED
      BY <1>6, <2>1, <3>1
  <2> QED
    BY <2>2, <2>3
<1>10. ASSUME NEW g \in f, NEW h \in f, g.seller = h.seller PROVE g = h
  <2>1. \A x \in d.profiles : x.seller \in known
    BY <1>1
  <2>2. CASE g \in d.profiles /\ h \in d.profiles
    BY <1>10, <2>2 DEF SellersAgree
  <2>3. CASE g \notin d.profiles
    <3>1. PICK p \in d.projects : p.id \notin known /\ g = ProfileOf(p)
      BY <1>7, <2>3
    <3>2. h \notin d.profiles
      BY <1>6, <1>10, <2>1, <3>1
    <3>3. PICK q \in d.projects : q.id \notin known /\ h = ProfileOf(q)
      BY <1>7, <3>2
    <3>4. p = q
      BY <1>6, <1>10, <3>1, <3>3 DEF SellersAgree
    <3> QED
      BY <3>1, <3>3, <3>4
  <2>4. CASE h \notin d.profiles
    <3>1. PICK p \in d.projects : p.id \notin known /\ h = ProfileOf(p)
      BY <1>7, <2>4
    <3>2. g \notin d.profiles
      BY <1>6, <1>10, <2>1, <3>1
    <3> QED
      BY <2>3, <3>2
  <2> QED
    BY <2>2, <2>3, <2>4
<1>11. SellersAgree(e, held \cup {"202605200002"})
  BY <1>5, <1>9, <1>10 DEF SellersAgree
<1> QED
  BY <1>8, <1>11 DEF SellersMade

LEMMA RevokeKeeps ==
    ASSUME NEW d, NEW held, SellersAgree(d, held), NEW e, e = RevokeProjectApiKeys(d)
    PROVE  SellersMade(d, e, held, "202605200003")
<1>1. PICK k : k = {x \in d.keys : ~x.imported}
  OBVIOUS
<1>2. e = [d EXCEPT !.keys = k]
  BY <1>1 DEF RevokeProjectApiKeys
<1>3. /\ SellerFields(e) /\ e.projects = d.projects /\ e.accounts = d.accounts
      /\ e.profiles = d.profiles /\ e.keys = k /\ e.objects = d.objects
  BY <1>2 DEF SellersAgree, SellerFields
<1>4. SellersAgree(e, held \cup {"202605200003"})
  BY <1>1, <1>3 DEF SellersAgree
<1> QED
  BY <1>3, <1>4 DEF SellersMade, SellersFrom

\* The same of the seller accounts' migrations.
LEMMA SellersSql ==
    ASSUME NEW d, NEW held, SellersAgree(d, held), NEW v \in ToSet(Migrations("seller_accounts")),
           NEW e, e = Sql("seller_accounts", v, d)
    PROVE  SellersMade(d, e, held, v)
<1>1. v \in {"202605170001", "202605200001", "202605200002", "202605200003"}
  BY DEF Migrations, SellerAccountsMigrations, ToSet
<1>2. CASE v = "202605170001"
  <2>1. e = SellerAccountsSchema(d)
    BY <1>2 DEF Sql
  <2> QED
    BY <1>2, <2>1, SellerSchemaKeeps
<1>3. CASE v = "202605200001"
  <2>1. e = SellerPaymentProfiles(d)
    BY <1>3 DEF Sql
  <2> QED
    BY <1>3, <2>1, SellerSchemaKeeps
<1>4. CASE v = "202605200002"
  <2>1. e = SellerProjectCompatibility(d)
    BY <1>4 DEF Sql
  <2> QED
    BY <1>4, <2>1, CompatibilityKeeps
<1>5. CASE v = "202605200003"
  <2>1. e = RevokeProjectApiKeys(d)
    BY <1>5 DEF Sql
  <2> QED
    BY <1>5, <2>1, RevokeKeeps
<1> QED
  BY <1>1, <1>2, <1>3, <1>4, <1>5

LEMMA SellersTransitive ==
    ASSUME NEW c, NEW d, NEW e, SellersFrom(c, d), SellersFrom(d, e)
    PROVE  SellersFrom(c, e)
BY DEF SellersFrom

-----------------------------------------------------------------------------
(***************************************************************************)
(* The processes on the database.                                          *)
(***************************************************************************)
\* The tables e of scope s are made of d.
From(s, d, e) ==
    /\ s = "settlement" => SettlementFrom(d, e)
    /\ s = "control_plane" => ControlFrom(d, e)
    /\ s = "seller_accounts" => SellersFrom(d, e)

LEMMA FromItself == ASSUME NEW s, NEW d PROVE From(s, d, d)
BY DEF From, SettlementFrom, ControlFrom, SellersFrom

\* The tables of scope s as committed: in agreement with the ledger, made of
\* what was there at first, and untouched if they must not be migrated.
TablesSound(s) ==
    /\ db[s].ok
    /\ DOMAIN ledger[s] \subseteq Versions(s)
    /\ Agrees(s, db[s], DOMAIN ledger[s])
    /\ From(s, origin.db[s], db[s])
    /\ origin.wrong = s => db[s] = origin.db[s] /\ ledger[s] = origin.ledger[s]

\* Why a transaction on tables that must not be migrated will fail.
Hopeless(s, r) ==
    /\ r.pc = "running"
    /\ s = "settlement" /\ Ambiguous(r.work) /\ "2026052000011" \in r.due

\* A transaction that has read the ledger: what it sees is what is committed,
\* changed by the migrations that it ran.
TxSound(p, r, s) ==
    /\ r.due \cup r.ran = Knows(p, s) \ DOMAIN ledger[s]
    /\ r.due \cap r.ran = {}
    /\ Accepted(p, s)
    /\ r.ran = {} => r.work = db[s]
    /\ r.work.ok
    /\ Agrees(s, r.work, DOMAIN ledger[s] \cup r.ran)
    /\ From(s, origin.db[s], r.work)
    /\ r.pc = "committing" => r.due = {} /\ SchemaHealthCheck(s, r.work, LackedObjects(p))
    /\ origin.wrong = s => Hopeless(s, r)

\* Where a process is.
ProcSound(p, r) ==
    /\ r.pc \in {"down", "create", "blocked", "lock", "locked", "running", "committing", "up"}
    /\ r.pc = "down" => r.at = 0
    /\ IF r.pc \in {"running", "committing"} THEN TxSound(p, r, Plan(p)[r.at])
       ELSE r.due = {} /\ r.ran = {}

\* A scope that p has brought up to date: it stays so.
Ready(p, s) ==
    /\ s # origin.wrong
    /\ Lacks[p] = {} =>
          /\ DOMAIN ledger[s] = Versions(s)
          /\ \A v \in Versions(s) : ledger[s][v] # "drifted"
          /\ SchemaHealthCheck(s, db[s], {})

Done(p, r, i) == i \in 1..Len(Plan(p)) /\ (i < r.at \/ r.pc = "up")

\* The inductive invariant of Migrations.
MigratedInv ==
    /\ LedgerInv
    /\ DOMAIN db = ScopeNames /\ origin \in Databases
    /\ table \in {"absent", "present"} \cup Procs
    /\ crashes \in 0..MaxCrashes
    /\ \A s \in ScopeNames : TablesSound(s)
    /\ \A p \in Procs : ProcSound(p, proc[p])
    /\ \A p \in Procs : \A i \in Nat : Done(p, proc[p], i) => Ready(p, Plan(p)[i])

\* p moves within its transaction, or out of it, and nothing is committed.
LEMMA MoveKeeps ==
    ASSUME MigratedInv, LedgerInv', NEW p \in Procs, NEW r, Becomes(p, r), ProcSound(p, r),
           \A i \in Nat : Done(p, r, i) => Done(p, proc[p], i),
           UNCHANGED <<db, ledger, origin>>,
           table' \in {"absent", "present"} \cup Procs, crashes' \in 0..MaxCrashes
    PROVE  MigratedInv'
<1>1. DOMAIN proc = Procs
  BY DEF MigratedInv, LedgerInv
<1>2. \A q \in Procs : proc'[q] = IF q = p THEN r ELSE proc[q]
  BY <1>1 DEF Becomes
<1>3. ASSUME NEW q, NEW x, ProcSound(q, x) PROVE ProcSound(q, x)'
  <2>1. ASSUME NEW s, TxSound(q, x, s) PROVE TxSound(q, x, s)'
    BY <2>1 DEF TxSound, Accepted
  <2> QED
    BY <1>3, <2>1 DEF ProcSound
<1>4. ASSUME NEW q \in Procs PROVE ProcSound(q, proc[q])'
  <2>1. PICK x : x = proc'[q]
    OBVIOUS
  <2>2. ProcSound(q, x)'
    BY <1>2, <1>3, <2>1 DEF MigratedInv
  <2> QED
    BY <2>1, <2>2 DEF ProcSound, TxSound, Accepted
<1>5. \A s \in ScopeNames : TablesSound(s)'
  BY DEF MigratedInv, TablesSound
<1>6. \A q, s : Ready(q, s)' <=> Ready(q, s)
  BY DEF Ready
<1>7. \A q \in Procs : \A i \in Nat : Done(q, proc'[q], i) => Ready(q, Plan(q)[i])'
  BY <1>2, <1>6 DEF MigratedInv
<1>8. DOMAIN db' = ScopeNames /\ origin' \in Databases
  BY DEF MigratedInv
<1> QED
  BY <1>4, <1>5, <1>7, <1>8 DEF MigratedInv

LEMMA InitMigrated ==
    ASSUME MigrationsAssumption, DatabasesAssumption, Init
    PROVE  MigratedInv
<1>1. LedgerInv
  BY InitLedger
<1>2. origin \in Databases /\ db = origin.db /\ ledger = origin.ledger /\ crashes = 0
  BY DEF Init
<1>3. DOMAIN db = ScopeNames
  BY <1>2 DEF DatabasesAssumption
<1>4. table \in {"absent", "present"} /\ crashes \in 0..MaxCrashes
  BY <1>2 DEF Init, MigrationsAssumption
<1>5. ASSUME NEW s \in ScopeNames PROVE TablesSound(s)
  <2>1. DOMAIN ledger[s] \subseteq Versions(s)
    BY <1>2 DEF MigrationsAssumption, Versions
  <2>2. db[s].ok /\ Agrees(s, db[s], DOMAIN ledger[s])
    BY <1>2 DEF DatabasesAssumption
  <2> QED
    BY <1>2, <2>1, <2>2, FromItself DEF TablesSound
<1>6. \A p \in Procs : proc[p] = Away("down", 0)
  BY DEF Init, Down
<1>7. \A p \in Procs : ProcSound(p, proc[p])
  BY <1>6 DEF ProcSound, Away
<1>8. \A p \in Procs : \A i \in Nat : ~Done(p, proc[p], i)
  BY <1>6, PlanFacts DEF Done, Away
<1> QED
  BY <1>1, <1>2, <1>3, <1>4, <1>5, <1>7, <1>8 DEF MigratedInv

\* The end of a transaction.
LEMMA EndMigrated ==
    ASSUME MigratedInv, LedgerInv', NEW p \in Procs, End(p),
           UNCHANGED <<db, ledger, origin>>, crashes' \in 0..MaxCrashes
    PROVE  MigratedInv'
<1>1. PICK r : r = Away("down", 0)
  OBVIOUS
<1>2. Becomes(p, r)
  BY <1>1 DEF End, Down
<1>3. r.pc = "down" /\ r.at = 0 /\ r.due = {} /\ r.ran = {}
  BY <1>1 DEF Away
<1>4. ProcSound(p, r)
  BY <1>3 DEF ProcSound
<1>5. \A i \in Nat : ~Done(p, r, i)
  BY <1>3, PlanFacts DEF Done
<1>6. table' \in {"absent", "present"} \cup Procs
  BY DEF End, MigratedInv
<1> QED
  BY <1>2, <1>4, <1>5, <1>6, MoveKeeps

\* A step before or into the lock.
LEMMA WaitMigrated ==
    ASSUME MigratedInv, LedgerInv', NEW p \in Procs, NEW pc \in {"blocked", "lock", "locked"},
           proc[p].pc \in {"create", "blocked", "lock"}, GoTo(p, pc),
           UNCHANGED <<db, ledger, origin, crashes>>, table' \in {"absent", "present"} \cup Procs
    PROVE  MigratedInv'
<1>1. PICK r : r = [proc[p] EXCEPT !.pc = pc]
  OBVIOUS
<1>2. Becomes(p, r)
  BY <1>1 DEF GoTo
<1>3. ProcRecord(p, proc[p]) /\ ProcSound(p, proc[p])
  BY DEF MigratedInv, LedgerInv
<1>4. r.pc = pc /\ r.at = proc[p].at /\ r.due = proc[p].due /\ r.ran = proc[p].ran
  BY <1>1, <1>3 DEF ProcRecord
<1>5. ProcSound(p, r)
  BY <1>3, <1>4 DEF ProcSound
<1>6. \A i \in Nat : Done(p, r, i) => Done(p, proc[p], i)
  BY <1>4 DEF Done
<1>7. crashes' \in 0..MaxCrashes
  BY DEF MigratedInv
<1> QED
  BY <1>2, <1>5, <1>6, <1>7, MoveKeeps

LEMMA StartMigrated ==
    ASSUME MigratedInv, LedgerInv', NEW p \in Procs, Start(p)
    PROVE  MigratedInv'
<1>1. PICK r : r = Away("create", 1)
  OBVIOUS
<1>2. Becomes(p, r) /\ UNCHANGED <<db, ledger, table, crashes, origin>>
  BY <1>1 DEF Start
<1>3. r.pc = "create" /\ r.at = 1 /\ r.due = {} /\ r.ran = {}
  BY <1>1 DEF Away
<1>4. ProcSound(p, r)
  BY <1>3 DEF ProcSound
<1>5. \A i \in Nat : ~Done(p, r, i)
  BY <1>3, PlanFacts DEF Done
<1>6. table' \in {"absent", "present"} \cup Procs /\ crashes' \in 0..MaxCrashes
  BY <1>2 DEF MigratedInv
<1> QED
  BY <1>2, <1>4, <1>5, <1>6, MoveKeeps

LEMMA CreateMigrated ==
    ASSUME MigratedInv, LedgerInv', NEW p \in Procs, Create(p) \/ Unblock(p)
    PROVE  MigratedInv'
<1>1. /\ UNCHANGED <<db, ledger, crashes, origin>> /\ proc[p].pc \in {"create", "blocked"}
  BY DEF Create, Unblock, At
<1>2. \/ End(p)
      \/ (GoTo(p, "lock") \/ GoTo(p, "blocked")) /\ table' \in {table, p}
  BY DEF Create, Unblock
<1>3. crashes' \in 0..MaxCrashes /\ table \in {"absent", "present"} \cup Procs
  BY <1>1 DEF MigratedInv
<1> QED
  BY <1>1, <1>2, <1>3, EndMigrated, WaitMigrated

LEMMA LockMigrated ==
    ASSUME MigratedInv, LedgerInv', NEW p \in Procs, Lock(p)
    PROVE  MigratedInv'
<1>1. /\ UNCHANGED <<db, ledger, table, crashes, origin>> /\ proc[p].pc = "lock" /\ GoTo(p, "locked")
  BY DEF Lock, At
<1>2. table' \in {"absent", "present"} \cup Procs
  BY <1>1 DEF MigratedInv
<1> QED
  BY <1>1, <1>2, WaitMigrated

LEMMA CrashMigrated ==
    ASSUME MigrationsAssumption, MigratedInv, LedgerInv', NEW p \in Procs, Crash(p)
    PROVE  MigratedInv'
<1>1. End(p) /\ UNCHANGED <<db, ledger, origin>> /\ crashes < MaxCrashes /\ crashes' = crashes + 1
  BY DEF Crash
<1>2. crashes \in 0..MaxCrashes /\ MaxCrashes \in Nat
  BY DEF MigratedInv, MigrationsAssumption
<1>3. crashes' \in 0..MaxCrashes
  BY <1>1, <1>2
<1> QED
  BY <1>1, <1>3, EndMigrated

\* A transaction that goes on in its scope.
LEMMA TxMoves ==
    ASSUME MigratedInv, LedgerInv', NEW p \in Procs, NEW r, Becomes(p, r),
           r.at = proc[p].at, r.pc \in {"running", "committing"},
           TxSound(p, r, Plan(p)[r.at]),
           UNCHANGED <<db, ledger, table, crashes, origin>>
    PROVE  MigratedInv'
<1>1. ProcSound(p, r)
  BY DEF ProcSound
<1>2. \A i \in Nat : Done(p, r, i) => Done(p, proc[p], i)
  BY DEF Done
<1>3. table' \in {"absent", "present"} \cup Procs /\ crashes' \in 0..MaxCrashes
  BY DEF MigratedInv
<1> QED
  BY <1>1, <1>2, <1>3, MoveKeeps

LEMMA ReadMigrated ==
    ASSUME DatabasesAssumption, MigratedInv, LedgerInv', NEW p \in Procs, Read(p)
    PROVE  MigratedInv'
<1>s. PICK s : s = Scope(p)
  OBVIOUS
<1>1. UNCHANGED <<db, ledger, runs, crashes, origin>> /\ proc[p].pc = "locked"
  BY DEF Read, At
<1>2. CASE End(p)
  <2>1. crashes' \in 0..MaxCrashes
    BY <1>1 DEF MigratedInv
  <2> QED
    BY <1>1, <1>2, <2>1, EndMigrated
<1>3. CASE ~End(p)
  <2>1. PICK r : r = [proc[p] EXCEPT !.pc = "running", !.work = db[s], !.due = Knows(p, s) \ DOMAIN ledger[s]]
    OBVIOUS
  <2>2. Accepted(p, s) /\ Becomes(p, r) /\ UNCHANGED table
    BY <1>3, <1>s, <2>1 DEF Read
  <2>3. ProcRecord(p, proc[p]) /\ ProcSound(p, proc[p])
    BY DEF MigratedInv, LedgerInv
  <2>4. /\ r.pc = "running" /\ r.at = proc[p].at /\ r.due = Knows(p, s) \ DOMAIN ledger[s]
        /\ r.ran = {} /\ r.work = db[s]
    BY <1>1, <2>1, <2>3 DEF ProcRecord
  <2>5. s = Plan(p)[r.at] /\ s \in ScopeNames
    BY <1>1, <1>s, <2>3, <2>4, PlanFacts DEF ProcRecord, Scope
  <2>6. TablesSound(s)
    BY <2>5 DEF MigratedInv
  <2>7. ASSUME origin.wrong = s PROVE Hopeless(s, r)
    <3>1. db[s] = origin.db[s] /\ ledger[s] = origin.ledger[s] /\ DOMAIN ledger[s] \subseteq Versions(s)
      BY <2>6, <2>7 DEF TablesSound
    <3>2. Refusable(s, db[s], ledger[s])
      BY <2>5, <2>7, <3>1 DEF MigratedInv, DatabasesAssumption
    <3>3. ASSUME NEW v \in DOMAIN ledger[s], ledger[s][v] = "drifted", v \notin Lacks[p] PROVE FALSE
      BY <2>2, <3>1, <3>3 DEF Accepted, Knows, Versions
    <3>4. CASE /\ s = "settlement" /\ Ambiguous(db[s]) /\ "2026052000011" \notin DOMAIN ledger[s]
               /\ "2026052000011" \notin Lacks[p]
      <4>1. "2026052000011" \in Versions("settlement")
        BY DEF Versions, Migrations, SettlementMigrations, ToSet
      <4> QED
        BY <2>4, <3>4, <4>1 DEF Hopeless, Knows, Versions
    <3> QED
      BY <3>2, <3>3, <3>4 DEF Refusable
  <2>8. DOMAIN ledger[s] \cup r.ran = DOMAIN ledger[s] /\ r.due \cup r.ran = r.due /\ r.due \cap r.ran = {}
    BY <2>4
  <2>9. TxSound(p, r, s)
    BY <2>2, <2>4, <2>6, <2>7, <2>8 DEF TxSound, TablesSound
  <2> QED
    BY <1>1, <2>2, <2>4, <2>5, <2>9, TxMoves
<1> QED
  BY <1>2, <1>3

\* The SQL of a migration, whatever the scope.
LEMMA SqlKeeps ==
    ASSUME NEW s \in ScopeNames, NEW d, NEW held, Agrees(s, d, held), NEW v \in Versions(s),
           v \notin held, s = "control_plane" /\ v = "202605200002" => "202605200001" \in held,
           NEW e, e = Sql(s, v, d), e.ok
    PROVE  /\ Agrees(s, e, held \cup {v}) /\ From(s, d, e)
           /\ s = "settlement" /\ Ambiguous(d) => Ambiguous(e) /\ v # "2026052000011"
<1>1. CASE s = "settlement"
  <2>1. /\ SettlementMade(d, e, held, v)
        /\ v = "2026052000011" /\ Ambiguous(d) => ~e.ok
    BY <1>1, SettlementSql DEF Agrees, Versions
  <2> QED
    BY <1>1, <2>1 DEF SettlementMade, Agrees, From
<1>2. CASE s = "control_plane"
  <2>1. ControlMade(d, e, held, v)
    BY <1>2, ControlSql DEF Agrees, Versions
  <2> QED
    BY <1>2, <2>1 DEF ControlMade, Agrees, From
<1>3. CASE s = "seller_accounts"
  <2>1. SellersMade(d, e, held, v)
    BY <1>3, SellersSql DEF Agrees, Versions
  <2> QED
    BY <1>3, <2>1 DEF SellersMade, Agrees, From
<1> QED
  BY <1>1, <1>2, <1>3 DEF ScopeNames

LEMMA FromTransitive ==
    ASSUME NEW s, NEW c, NEW d, NEW e, From(s, c, d), From(s, d, e)
    PROVE  From(s, c, e)
BY SettlementTransitive, ControlTransitive, SellersTransitive DEF From

\* The migrations before the first one that is due were run before.
LEMMA RunInOrder ==
    ASSUME NEW due, "202605200002" \in First("control_plane", due)
    PROVE  "202605200001" \notin due
<1>1. PICK i \in DOMAIN ControlPlaneMigrations :
        /\ ControlPlaneMigrations[i] = "202605200002"
        /\ \A j \in 1..(i - 1) : ControlPlaneMigrations[j] \notin due
  BY DEF First, Migrations
<1>2. /\ DOMAIN ControlPlaneMigrations = 1..4 /\ ControlPlaneMigrations[1] = "202605170001"
      /\ ControlPlaneMigrations[2] = "202605200001" /\ ControlPlaneMigrations[3] = "202605200002"
      /\ ControlPlaneMigrations[4] = "202605280001"
  BY DEF ControlPlaneMigrations
<1>3. i = 3
  BY <1>1, <1>2
<1> QED
  BY <1>1, <1>2, <1>3

LEMMA RunMigrated ==
    ASSUME DatabasesAssumption, MigratedInv, LedgerInv', NEW p \in Procs, Run(p)
    PROVE  MigratedInv'
<1>s. PICK s : s = Scope(p)
  OBVIOUS
<1>w. PICK w : w = proc[p].work
  OBVIOUS
<1>1. UNCHANGED <<db, ledger, runs, crashes, origin>> /\ proc[p].pc = "running"
  BY DEF Run, At
<1>2. CASE End(p)
  <2>1. crashes' \in 0..MaxCrashes
    BY <1>1 DEF MigratedInv
  <2> QED
    BY <1>1, <1>2, <2>1, EndMigrated
<1>3. CASE ~End(p)
  <2>1. PICK v \in First(s, proc[p].due) :
           /\ Sql(s, v, w).ok /\ UNCHANGED table
           /\ Becomes(p, [proc[p] EXCEPT !.due = proc[p].due \ {v}, !.ran = proc[p].ran \cup {v},
                                         !.work = Sql(s, v, w)])
    BY <1>3, <1>s, <1>w DEF Run
  <2>e. PICK e : e = Sql(s, v, w)
    OBVIOUS
  <2>r. PICK r : r = [proc[p] EXCEPT !.due = proc[p].due \ {v}, !.ran = proc[p].ran \cup {v}, !.work = e]
    OBVIOUS
  <2>2. Becomes(p, r) /\ e.ok
    BY <2>1, <2>e, <2>r
  <2>3. ProcRecord(p, proc[p]) /\ ProcSound(p, proc[p])
    BY DEF MigratedInv, LedgerInv
  <2>4. /\ r.pc = "running" /\ r.at = proc[p].at /\ r.due = proc[p].due \ {v}
        /\ r.ran = proc[p].ran \cup {v} /\ r.work = e
    BY <1>1, <2>r, <2>3 DEF ProcRecord
  <2>5. s = Plan(p)[r.at] /\ s \in ScopeNames
    BY <1>1, <1>s, <2>3, <2>4, PlanFacts DEF ProcRecord, Scope
  <2>6. TxSound(p, proc[p], s)
    BY <1>1, <2>3, <2>4, <2>5 DEF ProcSound
  <2>7. v \in proc[p].due
    BY <2>1 DEF First
  <2>h. PICK held : held = DOMAIN ledger[s] \cup proc[p].ran
    OBVIOUS
  <2>8. v \in Versions(s) /\ v \notin held /\ v \in Knows(p, s)
    BY <2>6, <2>7, <2>h DEF TxSound, Knows, Versions
  <2>9. ASSUME s = "control_plane", v = "202605200002" PROVE "202605200001" \in held
    <3>1. "202605200001" \notin proc[p].due
      BY <2>1, <2>9, RunInOrder
    <3>2. "202605200001" \in Versions(s)
      BY <2>9 DEF Versions, Migrations, ControlPlaneMigrations, ToSet
    <3>3. "202605200001" \notin Lacks[p]
      BY <2>8, <2>9 DEF Knows, DatabasesAssumption
    <3> QED
      BY <2>6, <2>h, <3>1, <3>2, <3>3 DEF TxSound, Knows, Versions
  <2>10. Agrees(s, w, held) /\ From(s, origin.db[s], w)
    BY <1>w, <2>6, <2>h DEF TxSound
  <2>11. /\ Agrees(s, e, held \cup {v}) /\ From(s, w, e)
         /\ s = "settlement" /\ Ambiguous(w) => Ambiguous(e) /\ v # "2026052000011"
    BY <2>e, <2>2, <2>5, <2>8, <2>9, <2>10, SqlKeeps
  <2>12. From(s, origin.db[s], e)
    BY <2>10, <2>11, FromTransitive
  <2>13. held \cup {v} = DOMAIN ledger[s] \cup r.ran
    BY <2>h, <2>4
  <2>14. /\ r.due \cup r.ran = proc[p].due \cup proc[p].ran /\ r.due \cap r.ran = {} /\ r.ran # {}
    BY <2>4, <2>6, <2>7 DEF TxSound
  <2>15. origin.wrong = s => Hopeless(s, r)
    <3>1. origin.wrong = s => Hopeless(s, proc[p])
      BY <2>6 DEF TxSound
    <3> QED
      BY <1>w, <2>4, <2>11, <3>1 DEF Hopeless
  <2>16. TxSound(p, r, s)
    BY <2>2, <2>4, <2>6, <2>11, <2>12, <2>13, <2>14, <2>15 DEF TxSound
  <2> QED
    BY <1>1, <2>1, <2>2, <2>4, <2>5, <2>16, TxMoves
<1> QED
  BY <1>2, <1>3

LEMMA ValidateMigrated ==
    ASSUME MigratedInv, LedgerInv', NEW p \in Procs, Validate(p)
    PROVE  MigratedInv'
<1>s. PICK s : s = Scope(p)
  OBVIOUS
<1>1. /\ UNCHANGED <<db, ledger, runs, crashes, origin>> /\ proc[p].pc = "running" /\ proc[p].due = {}
  BY DEF Validate, At
<1>2. CASE End(p)
  <2>1. crashes' \in 0..MaxCrashes
    BY <1>1 DEF MigratedInv
  <2> QED
    BY <1>1, <1>2, <2>1, EndMigrated
<1>3. CASE ~End(p)
  <2>1. /\ SchemaHealthCheck(s, proc[p].work, LackedObjects(p)) /\ GoTo(p, "committing") /\ UNCHANGED table
    BY <1>3, <1>s DEF Validate
  <2>r. PICK r : r = [proc[p] EXCEPT !.pc = "committing"]
    OBVIOUS
  <2>2. Becomes(p, r)
    BY <2>1, <2>r DEF GoTo
  <2>3. ProcRecord(p, proc[p]) /\ ProcSound(p, proc[p])
    BY DEF MigratedInv, LedgerInv
  <2>4. /\ r.pc = "committing" /\ r.at = proc[p].at /\ r.due = proc[p].due
        /\ r.ran = proc[p].ran /\ r.work = proc[p].work
    BY <2>r, <2>3 DEF ProcRecord
  <2>5. s = Plan(p)[r.at] /\ s \in ScopeNames
    BY <1>1, <1>s, <2>3, <2>4, PlanFacts DEF ProcRecord, Scope
  <2>6. TxSound(p, proc[p], s)
    BY <1>1, <2>3, <2>4, <2>5 DEF ProcSound
  <2>8. origin.wrong # s
    BY <1>1, <2>6 DEF TxSound, Hopeless
  <2>9. TxSound(p, r, s)
    BY <1>1, <2>1, <2>4, <2>6, <2>8 DEF TxSound
  <2> QED
    BY <1>1, <2>1, <2>2, <2>4, <2>5, <2>9, TxMoves
<1> QED
  BY <1>2, <1>3

\* A commit of p in scope s, of the tables work and the migrations ran.
LEMMA CommitMigrated ==
    ASSUME MigratedInv, LedgerInv', NEW p \in Procs, Commit(p)
    PROVE  MigratedInv'
<1>s. PICK s : s = Scope(p)
  OBVIOUS
<1>o. PICK o : o = proc[p]
  OBVIOUS
<1>r. PICK r : r = IF o.at = Len(Plan(p)) THEN Away("up", o.at) ELSE Away("create", o.at + 1)
  OBVIOUS
<1>1. /\ o.pc = "committing" /\ Becomes(p, r) /\ UNCHANGED <<crashes, origin>> /\ table' = "present"
      /\ db' = [db EXCEPT ![s] = o.work]
      /\ ledger' = [ledger EXCEPT ![s] =
            [v \in DOMAIN ledger[s] \cup o.ran |-> IF v \in o.ran THEN "own" ELSE ledger[s][v]]]
  BY <1>s, <1>o, <1>r DEF Commit, At
<1>2. /\ ProcRecord(p, o) /\ ProcSound(p, o) /\ DOMAIN proc = Procs /\ DOMAIN db = ScopeNames
      /\ DOMAIN ledger = ScopeNames
  BY <1>o DEF MigratedInv, LedgerInv
<1>3. o.at \in Nat /\ 1 <= o.at /\ o.at <= Len(Plan(p)) /\ Len(Plan(p)) \in Nat
  BY <1>1, <1>2, PlanFacts DEF ProcRecord
<1>4. s = Plan(p)[o.at] /\ s \in ScopeNames /\ Holds(p, o, s)
  BY <1>1, <1>3, <1>s, <1>o, PlanFacts DEF Scope, Holds
<1>5. TxSound(p, o, s)
  BY <1>1, <1>2, <1>4 DEF ProcSound
<1>6. TablesSound(s)
  BY <1>4 DEF MigratedInv
<1>7. /\ o.due = {} /\ o.ran = Knows(p, s) \ DOMAIN ledger[s] /\ origin.wrong # s
      /\ SchemaHealthCheck(s, o.work, LackedObjects(p)) /\ Accepted(p, s)
  BY <1>1, <1>5 DEF TxSound, Hopeless
<1>8. Knows(p, s) \subseteq Versions(s) /\ (Lacks[p] = {} => Knows(p, s) = Versions(s))
  BY DEF Knows, Versions
<1>9. /\ db'[s] = o.work /\ DOMAIN db' = ScopeNames
      /\ \A x \in ScopeNames : x # s => db'[x] = db[x] /\ ledger'[x] = ledger[x]
      /\ DOMAIN ledger'[s] = DOMAIN ledger[s] \cup o.ran
      /\ \A v \in DOMAIN ledger'[s] : ledger'[s][v] = IF v \in o.ran THEN "own" ELSE ledger[s][v]
  BY <1>1, <1>2, <1>4
<1>10. origin' = origin
  BY <1>1
<1>11. ASSUME NEW x \in ScopeNames PROVE TablesSound(x)'
  <2>1. CASE x # s
    <3>1. TablesSound(x)
      BY DEF MigratedInv
    <3> QED
      BY <1>9, <1>10, <2>1, <3>1 DEF TablesSound
  <2>2. CASE x = s
    <3>1. DOMAIN ledger'[s] \subseteq Versions(s)
      BY <1>6, <1>7, <1>8, <1>9 DEF TablesSound
    <3>2. Agrees(s, db'[s], DOMAIN ledger'[s]) /\ db'[s].ok /\ From(s, origin'.db[s], db'[s])
      BY <1>5, <1>9, <1>10 DEF TxSound
    <3> QED
      BY <1>7, <1>10, <2>2, <3>1, <3>2 DEF TablesSound
  <2> QED
    BY <2>1, <2>2
<1>12. r.pc \in {"up", "create"} /\ r.at \in Nat /\ r.due = {} /\ r.ran = {}
  BY <1>3, <1>r DEF Away
<1>13. \A q \in Procs : proc'[q] = IF q = p THEN r ELSE proc[q]
  BY <1>1, <1>2 DEF Becomes
<1>14. ASSUME NEW q \in Procs PROVE ProcSound(q, proc[q])'
  <2>1. CASE q = p
    <3>1. proc'[q] = r
      BY <1>13, <2>1
    <3> QED
      BY <1>12, <3>1 DEF ProcSound
  <2>2. CASE q # p
    <3>x. PICK x : x = proc[q] /\ x = proc'[q]
      BY <1>13, <2>2
    <3>1. ProcSound(q, x) /\ ProcRecord(q, x)
      BY <3>x DEF MigratedInv, LedgerInv
    <3>2. CASE x.pc \notin {"running", "committing"}
      BY <3>1, <3>2, <3>x DEF ProcSound
    <3>3. CASE x.pc \in {"running", "committing"}
      <4>1. PICK y : y = Plan(q)[x.at]
        OBVIOUS
      <4>2. y \in ScopeNames /\ Holds(q, x, y)
        BY <3>1, <3>3, <4>1, PlanFacts DEF ProcRecord, Holds
      <4>3. y # s
        BY <1>4, <1>o, <2>2, <3>x, <4>2 DEF MigratedInv, LedgerInv, LockedScope
      <4>4. TxSound(q, x, y)
        BY <3>1, <3>3, <4>1 DEF ProcSound
      <4>5. TxSound(q, x, y)'
        BY <1>9, <1>10, <4>2, <4>3, <4>4 DEF TxSound, Accepted
      <4> QED
        BY <3>1, <3>3, <3>x, <4>1, <4>5 DEF ProcSound, TxSound, Accepted
    <3> QED
      BY <3>2, <3>3
  <2> QED
    BY <2>1, <2>2
<1>15. ASSUME NEW q \in Procs, NEW x \in ScopeNames, Ready(q, x) PROVE Ready(q, x)'
  <2>1. CASE x # s
    BY <1>9, <1>10, <1>15, <2>1 DEF Ready
  <2>2. CASE x = s
    <3>1. CASE Lacks[q] # {}
      BY <1>7, <1>10, <2>2, <3>1 DEF Ready
    <3>2. CASE Lacks[q] = {}
      <4>1. DOMAIN ledger[s] = Versions(s) /\ \A v \in Versions(s) : ledger[s][v] # "drifted"
        BY <1>15, <2>2, <3>2 DEF Ready
      <4>2. o.ran = {}
        BY <1>7, <1>8, <4>1
      <4>3. db'[s] = db[s]
        BY <1>5, <1>9, <4>2 DEF TxSound
      <4>4. DOMAIN ledger'[s] = Versions(s) /\ \A v \in Versions(s) : ledger'[s][v] # "drifted"
        BY <1>9, <4>1, <4>2
      <4> QED
        BY <1>10, <1>15, <2>2, <3>2, <4>3, <4>4 DEF Ready
    <3> QED
      BY <3>1, <3>2
  <2> QED
    BY <2>1, <2>2
<1>16. Ready(p, s)'
  <2>1. ASSUME Lacks[p] = {}
        PROVE  /\ DOMAIN ledger'[s] = Versions(s)
               /\ \A v \in Versions(s) : ledger'[s][v] # "drifted"
               /\ SchemaHealthCheck(s, db'[s], {})
    <3>1. LackedObjects(p) = {}
      BY <2>1 DEF LackedObjects
    <3>2. DOMAIN ledger[s] \subseteq Versions(s)
      BY <1>6 DEF TablesSound
    <3>3. DOMAIN ledger'[s] = Versions(s)
      BY <1>7, <1>8, <1>9, <2>1, <3>2
    <3>4. \A v \in DOMAIN ledger[s] : ledger[s][v] # "drifted"
      BY <1>7, <1>8, <2>1, <3>2 DEF Accepted
    <3>5. \A v \in Versions(s) : ledger'[s][v] # "drifted"
      BY <1>9, <3>3, <3>4
    <3> QED
      BY <1>7, <1>9, <3>1, <3>3, <3>5
  <2> QED
    BY <1>7, <1>10, <2>1 DEF Ready
<1>17. ASSUME NEW q \in Procs, NEW i \in Nat, Done(q, proc'[q], i) PROVE Ready(q, Plan(q)[i])'
  <2>1. Plan(q)[i] \in ScopeNames
    BY <1>17, PlanFacts DEF Done
  <2>2. CASE q # p
    BY <1>13, <1>15, <1>17, <2>1, <2>2 DEF MigratedInv
  <2>3. CASE q = p
    <3>1. Done(p, r, i)
      BY <1>13, <1>17, <2>3
    <3>2. i \in 1..Len(Plan(p)) /\ i <= o.at
      BY <1>3, <1>r, <3>1 DEF Done, Away
    <3>3. CASE i = o.at
      BY <1>4, <1>16, <2>3, <3>3
    <3>4. CASE i # o.at
      <4>1. Done(p, o, i)
        BY <1>3, <3>2, <3>4 DEF Done
      <4>2. Ready(p, Plan(p)[i])
        BY <1>o, <4>1 DEF MigratedInv
      <4> QED
        BY <1>15, <2>1, <2>3, <4>2
    <3> QED
      BY <3>3, <3>4
  <2> QED
    BY <2>2, <2>3
<1>18. table' \in {"absent", "present"} \cup Procs /\ crashes' \in 0..MaxCrashes /\ origin' \in Databases
  BY <1>1 DEF MigratedInv
<1> QED
  BY <1>9, <1>11, <1>14, <1>17, <1>18 DEF MigratedInv

LEMMA MigratedStep ==
    ASSUME MigrationsAssumption, DatabasesAssumption, MigratedInv, [Next]_(vars)
    PROVE  MigratedInv'
<1>1. LedgerInv'
  BY LedgerStep DEF MigratedInv
<1>2. CASE UNCHANGED vars
  <2>1. UNCHANGED <<db, ledger, table, proc, crashes, origin>>
    BY <1>2 DEF vars
  <2>2. \A s \in ScopeNames : TablesSound(s)'
    BY <2>1 DEF MigratedInv, TablesSound
  <2>3. \A p \in Procs : ProcSound(p, proc[p])'
    BY <2>1 DEF MigratedInv, ProcSound, TxSound, Accepted
  <2>4. \A p \in Procs : \A i \in Nat : Done(p, proc'[p], i) => Ready(p, Plan(p)[i])'
    BY <2>1 DEF MigratedInv, Ready
  <2> QED
    BY <1>1, <2>1, <2>2, <2>3, <2>4 DEF MigratedInv
<1>3. CASE Idle
  BY <1>2, <1>3 DEF Idle
<1> QED
  BY <1>1, <1>2, <1>3, StartMigrated, CreateMigrated, LockMigrated, ReadMigrated, RunMigrated,
     ValidateMigrated, CommitMigrated, CrashMigrated
  DEF Next, Step

\* What the invariant says when processes serve.
LEMMA PlanCovers ==
    ASSUME NEW p
    PROVE  /\ ToSet(Plan(p)) = {Plan(p)[i] : i \in 1..Len(Plan(p))}
           /\ "settlement" \in ToSet(Plan(p))
           /\ p \notin Reconcilers => ScopeNames \subseteq ToSet(Plan(p))
<1>s. PICK Z : Z = ScopeNames
  OBVIOUS
<1>1. CASE p \in Reconcilers
  <2>1. Plan(p) = <<"settlement">>
    BY <1>1 DEF Plan, ReconcilerStore
  <2> QED
    BY <1>1, <2>1 DEF ToSet
<1>2. CASE p \notin Reconcilers
  <2>1. Plan(p) = Preflight \o StartUp
    BY <1>2 DEF Plan
  <2>2. /\ Preflight = <<"settlement", "control_plane", "seller_accounts">>
        /\ Preflight \in Seq(Z) /\ Len(Preflight) = 3
        /\ StartUp \in Seq(Z) /\ Len(StartUp) = 3
    BY <1>s DEF Preflight, StartUp, ScopeNames
  <2>a. PICK a, b : a = Preflight /\ b = StartUp
    OBVIOUS
  <2>3. /\ a \in Seq(Z) /\ b \in Seq(Z) /\ Len(a) = 3 /\ Len(b) = 3
        /\ a[1] = "settlement" /\ a[2] = "control_plane" /\ a[3] = "seller_accounts"
    BY <2>2, <2>a
  <2>c. PICK c : c = a \o b
    OBVIOUS
  <2>d. /\ c \in Seq(Z) /\ Len(c) = Len(a) + Len(b)
        /\ \A i \in 1..(Len(a) + Len(b)) : c[i] = IF i <= Len(a) THEN a[i] ELSE b[i - Len(a)]
    BY <2>3, <2>c, ConcatProperties
  <2>4. c \in Seq(Z) /\ Len(c) = 6 /\ \A i \in 1..3 : c[i] = a[i]
    BY <2>3, <2>d
  <2>5. DOMAIN c = 1..6
    BY <2>4, LenProperties
  <2>6. ToSet(c) = {c[i] : i \in 1..6}
    BY <2>5 DEF ToSet
  <2>7. 1 \in 1..6 /\ 2 \in 1..6 /\ 3 \in 1..6
    OBVIOUS
  <2>8. c[1] = "settlement" /\ c[2] = "control_plane" /\ c[3] = "seller_accounts"
    BY <2>3, <2>4
  <2>9. \A z \in ScopeNames : z \in ToSet(c)
    BY <2>6, <2>7, <2>8 DEF ScopeNames
  <2>10. Plan(p) = c
    BY <2>1, <2>a, <2>c
  <2>11. "settlement" \in ScopeNames
    BY DEF ScopeNames
  <2> QED
    BY <1>2, <2>4, <2>6, <2>9, <2>10, <2>11
<1> QED
  BY <1>1, <1>2

LEMMA ServingReady ==
    ASSUME MigratedInv, NEW p \in Procs, At(p, "up"), NEW s \in ToSet(Plan(p))
    PROVE  Ready(p, s) /\ s \in ScopeNames
<1>1. PICK i \in 1..Len(Plan(p)) : s = Plan(p)[i]
  BY PlanCovers
<1>2. Len(Plan(p)) \in Nat
  BY PlanFacts
<1>3. Done(p, proc[p], i) /\ i \in Nat
  BY <1>2 DEF Done, At
<1> QED
  BY <1>1, <1>2, <1>3, PlanFacts DEF MigratedInv

LEMMA OwnersAreKept == ASSUME MigratedInv PROVE OwnersKept
<1> SUFFICES ASSUME NEW p \in Serving, NEW r \in origin.db["settlement"].rows
             PROVE  \E s \in db["settlement"].rows :
                       /\ s.id = r.id /\ s.print = r.print
                       /\ {r.project, r.seller} \ {NoOne} = {s.seller}
  BY DEF OwnersKept
<1>1. p \in Procs /\ At(p, "up") /\ Lacks[p] = {}
  BY DEF Serving
<1>2. Ready(p, "settlement") /\ "settlement" \in ScopeNames
  BY <1>1, PlanCovers, ServingReady
<1>3. "2026052000011" \in DOMAIN ledger["settlement"]
  BY <1>1, <1>2 DEF Ready, Versions, Migrations, SettlementMigrations, ToSet
<1>4. SettlementAgrees(db["settlement"], DOMAIN ledger["settlement"])
  BY <1>2 DEF MigratedInv, TablesSound, Agrees
<1>5. SettlementFrom(origin.db["settlement"], db["settlement"])
  BY <1>2 DEF MigratedInv, TablesSound, From
<1>6. PICK s \in db["settlement"].rows : s.id = r.id /\ s.print = r.print /\ Owners(s) = Owners(r)
  BY <1>5 DEF SettlementFrom
<1>7. s.seller # NoOne /\ s.project \in {NoOne, s.seller}
  BY <1>3, <1>4 DEF SettlementAgrees
<1>8. Owners(s) = {s.seller}
  BY <1>7 DEF Owners
<1> QED
  BY <1>6, <1>8 DEF Owners

LEMMA ClaimsAreUnhindered == ASSUME MigratedInv PROVE ClaimsUnhindered
<1> SUFFICES ASSUME NEW p \in Serving
             PROVE  /\ {u.over : u \in db["settlement"].uniq} = {ByProfile}
                    /\ "uniq_provider_fingerprint" \notin db["settlement"].objects
                    /\ db["settlement"].lookup = "current"
                    /\ Inserts(db["settlement"]) \/ HalfMoved(origin.db["settlement"])
  BY DEF ClaimsUnhindered
<1>1. p \in Procs /\ At(p, "up") /\ Lacks[p] = {}
  BY DEF Serving
<1>2. Ready(p, "settlement") /\ "settlement" \in ScopeNames
  BY <1>1, PlanCovers, ServingReady
<1>3. PICK held : held = DOMAIN ledger["settlement"]
  OBVIOUS
<1>4. "2026052000011" \in held /\ "202605200002" \in held /\ "202605200006" \in held
  BY <1>1, <1>2, <1>3 DEF Ready, Versions, Migrations, SettlementMigrations, ToSet
<1>5. held \cap ProfileVersions # {} /\ held \cap LookupVersions # {}
  BY <1>4 DEF ProfileVersions, LookupVersions
<1>6. SettlementAgrees(db["settlement"], held)
  BY <1>2, <1>3 DEF MigratedInv, TablesSound, Agrees
<1>7. PICK q : q = db["settlement"].uniq
  OBVIOUS
<1>8. (\A u \in q : u.over = ByProfile) /\ \E u \in q : u.over = ByProfile
  BY <1>4, <1>5, <1>6, <1>7 DEF SettlementAgrees
<1>9. {u.over : u \in q} = {ByProfile}
  BY <1>8
<1>10. Inserts(db["settlement"]) \/ HalfMoved(db["settlement"])
  BY <1>4, <1>6 DEF SettlementAgrees, Inserts, ClaimColumns, HalfMoved, Has
<1>11. HalfMoved(db["settlement"]) => HalfMoved(origin.db["settlement"])
  BY <1>2 DEF MigratedInv, TablesSound, From, SettlementFrom
<1> QED
  BY <1>5, <1>6, <1>7, <1>9, <1>10, <1>11 DEF SettlementAgrees

LEMMA AuditIsKept == ASSUME MigratedInv PROVE AuditKept
<1> SUFFICES ASSUME NEW p \in Facilitating
             PROVE  LET old == origin.db["control_plane"].events
                        new == db["control_plane"].events
                    IN  /\ \A e \in DOMAIN old : old[e] # "invalid" =>
                              e \in DOMAIN new /\ new[e] = (IF old[e] = "project" THEN "seller" ELSE old[e])
                        /\ TargetTypes \cup {"settlement"} \subseteq db["control_plane"].admits
  BY DEF AuditKept
<1>1. p \in Procs /\ At(p, "up") /\ Lacks[p] = {} /\ p \notin Reconcilers
  BY DEF Serving, Facilitating
<1>s. "control_plane" \in ScopeNames
  BY DEF ScopeNames
<1>2. Ready(p, "control_plane")
  BY <1>1, <1>s, PlanCovers, ServingReady
<1>3. PICK held : held = DOMAIN ledger["control_plane"]
  OBVIOUS
<1>4. "202605200001" \in held /\ "202605280001" \in held
  BY <1>1, <1>2, <1>3 DEF Ready, Versions, Migrations, ControlPlaneMigrations, ToSet
<1>5. ControlAgrees(db["control_plane"], held)
  BY <1>s, <1>3 DEF MigratedInv, TablesSound, Agrees
<1>6. ControlFrom(origin.db["control_plane"], db["control_plane"])
  BY <1>s DEF MigratedInv, TablesSound, From
<1>7. PICK old, new : old = origin.db["control_plane"].events /\ new = db["control_plane"].events
  OBVIOUS
<1>8. \A e \in DOMAIN old : old[e] # "invalid" => e \in DOMAIN new /\ Target(new[e]) = Target(old[e])
  BY <1>6, <1>7 DEF ControlFrom
<1>9. \A e \in DOMAIN new : Target(new[e]) = new[e]
  BY <1>4, <1>5, <1>7 DEF ControlAgrees, Target
<1>10. \A e \in DOMAIN old : old[e] # "invalid" =>
           e \in DOMAIN new /\ new[e] = (IF old[e] = "project" THEN "seller" ELSE old[e])
  BY <1>8, <1>9 DEF Target
<1>11. TargetTypes \cup {"settlement"} \subseteq db["control_plane"].admits
  BY <1>4, <1>5 DEF ControlAgrees
<1> QED
  BY <1>7, <1>10, <1>11

LEMMA SellersAreCarriedOver ==
    ASSUME MigratedInv PROVE SellersCarriedOver
<1> SUFFICES ASSUME NEW w \in Facilitating
             PROVE  LET old == origin.db["seller_accounts"]
                        new == db["seller_accounts"]
                    IN  /\ old.profiles \subseteq new.profiles
                        /\ \A p \in old.projects :
                              /\ p.id \in new.accounts
                              /\ Cardinality({f \in new.profiles : f.seller = p.id}) = 1
                              /\ p.id \notin {f.seller : f \in old.profiles} =>
                                   \E f \in new.profiles :
                                      f.seller = p.id /\ f.limits.seller \in {p.limits.project, p.limits.seller} \ {NoOne}
                        /\ \A k \in new.keys : ~k.imported
  BY DEF SellersCarriedOver
<1>1. w \in Procs /\ At(w, "up") /\ Lacks[w] = {} /\ w \notin Reconcilers
  BY DEF Serving, Facilitating
<1>s. "seller_accounts" \in ScopeNames
  BY DEF ScopeNames
<1>2. Ready(w, "seller_accounts")
  BY <1>1, <1>s, PlanCovers, ServingReady
<1>3. PICK held : held = DOMAIN ledger["seller_accounts"]
  OBVIOUS
<1>4. "202605200002" \in held /\ "202605200003" \in held
  BY <1>1, <1>2, <1>3 DEF Ready, Versions, Migrations, SellerAccountsMigrations, ToSet
<1>5. PICK old, new : old = origin.db["seller_accounts"] /\ new = db["seller_accounts"]
  OBVIOUS
<1>6. SellersAgree(new, held)
  BY <1>s, <1>3, <1>5 DEF MigratedInv, TablesSound, Agrees
<1>7. SellersFrom(old, new)
  BY <1>s, <1>5 DEF MigratedInv, TablesSound, From
<1>8. old.profiles \subseteq new.profiles /\ new.projects = old.projects
  BY <1>7 DEF SellersFrom
<1>9. \A k \in new.keys : ~k.imported
  BY <1>4, <1>6 DEF SellersAgree
<1>10. ASSUME NEW p \in old.projects
       PROVE  /\ p.id \in new.accounts
              /\ Cardinality({f \in new.profiles : f.seller = p.id}) = 1
              /\ p.id \notin {f.seller : f \in old.profiles} =>
                   \E f \in new.profiles :
                      f.seller = p.id /\ f.limits.seller \in {p.limits.project, p.limits.seller} \ {NoOne}
  <2>1. PICK f \in new.profiles : f.seller = p.id /\ p.id \in new.accounts
    BY <1>4, <1>6, <1>8 DEF SellersAgree
  <2>2. {g \in new.profiles : g.seller = p.id} = {f}
    BY <1>6, <2>1 DEF SellersAgree
  <2>3. Cardinality({f}) = 1
    BY FS_Singleton
  <2>4. ASSUME p.id \notin {g.seller : g \in old.profiles}
        PROVE  f.limits.seller \in {p.limits.project, p.limits.seller} \ {NoOne}
    <3>1. f \notin old.profiles
      BY <2>1, <2>4
    <3>2. PICK q \in old.projects : f = ProfileOf(q)
      BY <1>7, <3>1 DEF SellersFrom
    <3>3. f.seller = q.id /\ f.limits = CarriedLimits(q.limits)
      BY <3>2 DEF ProfileOf
    <3>4. q = p
      BY <1>6, <1>8, <2>1, <3>3 DEF SellersAgree
    <3>5. p.limits.seller # NoOne \/ p.limits.project # NoOne
      BY <1>6, <1>8 DEF SellersAgree
    <3> QED
      BY <3>3, <3>4, <3>5 DEF CarriedLimits
  <2> QED
    BY <2>1, <2>2, <2>3, <2>4
<1> QED
  BY <1>5, <1>8, <1>9, <1>10

LEMMA ServingIsReady == ASSUME MigratedInv PROVE ServingIsHealthy
<1> SUFFICES ASSUME NEW p \in Serving, NEW s \in ToSet(Plan(p))
             PROVE  /\ SchemaHealthCheck(s, db[s], LackedObjects(p))
                    /\ DOMAIN ledger[s] = Knows(p, s) /\ Accepted(p, s)
  BY DEF ServingIsHealthy, Healthy, Current
<1>1. p \in Procs /\ At(p, "up") /\ Lacks[p] = {}
  BY DEF Serving
<1>2. Ready(p, s)
  BY <1>1, ServingReady
<1>3. LackedObjects(p) = {} /\ Knows(p, s) = Versions(s)
  BY <1>1 DEF LackedObjects, Knows, Versions
<1> QED
  BY <1>1, <1>2, <1>3 DEF Ready, Accepted

LEMMA RefusedIsUntouched == ASSUME MigratedInv PROVE RefusedUntouched
<1> SUFFICES ASSUME origin.wrong \in ScopeNames
             PROVE  Facilitating = {} /\ db[origin.wrong] = origin.db[origin.wrong]
  BY DEF RefusedUntouched
<1>1. TablesSound(origin.wrong)
  BY DEF MigratedInv
<1>2. ASSUME NEW p \in Facilitating PROVE FALSE
  <2>1. p \in Procs /\ At(p, "up") /\ p \notin Reconcilers
    BY DEF Serving, Facilitating
  <2>2. Ready(p, origin.wrong)
    BY <2>1, PlanCovers, ServingReady
  <2> QED
    BY <2>2 DEF Ready
<1> QED
  BY <1>1, <1>2 DEF TablesSound

LEMMA MigrationsTyped == ASSUME MigratedInv PROVE MigrationsTypeOK
<1>1. ASSUME NEW p \in Procs
      PROVE  /\ proc[p].pc \in {"down", "create", "blocked", "lock", "locked", "running", "committing", "up"}
             /\ proc[p].at \in 0..Len(Plan(p))
             /\ ~At(p, "down") => proc[p].due \cup proc[p].ran \subseteq Knows(p, Scope(p))
  <2>1. ProcRecord(p, proc[p]) /\ ProcSound(p, proc[p])
    BY DEF MigratedInv, LedgerInv
  <2>2. proc[p].at \in 0..Len(Plan(p))
    BY <2>1, PlanFacts DEF ProcRecord, ProcSound
  <2>3. CASE proc[p].pc \in {"running", "committing"}
    BY <2>1, <2>2, <2>3 DEF ProcSound, TxSound, Scope
  <2>4. CASE proc[p].pc \notin {"running", "committing"}
    BY <2>1, <2>2, <2>4 DEF ProcSound
  <2> QED
    BY <2>3, <2>4
<1>2. ASSUME NEW s \in ScopeNames
      PROVE  DOMAIN ledger[s] \subseteq ToSet(Migrations(s)) /\ db[s].ok
  BY DEF MigratedInv, TablesSound, Versions
<1> QED
  BY <1>1, <1>2 DEF MigrationsTypeOK, MigratedInv

\* A database is migrated with all its data or refused as it was
\* (apply_hosted_postgres_migrations and the SQL of every scope), for any
\* processes, releases, kills and databases that agree with their ledgers.
THEOREM DatabasesMigratedWhole ==
    ASSUME MigrationsAssumption, DatabasesAssumption
    PROVE  Spec => []MigratedWhole
<1>1. ASSUME MigratedInv PROVE MigratedWhole
  BY <1>1, MigrationsTyped, ServingIsReady, OwnersAreKept, ClaimsAreUnhindered, AuditIsKept,
     SellersAreCarriedOver, RefusedIsUntouched DEF MigratedWhole
<1>2. MigratedInv => MigratedWhole
  BY <1>1
<1> QED
  BY <1>2, InitMigrated, MigratedStep, PTL DEF Spec

-----------------------------------------------------------------------------
(***************************************************************************)
(* The sellers: domains.                                                   *)
(***************************************************************************)
AccountRows == [tenant: Tenants, status: {"active", "disabled"}]
AccountRecords == {S!NoAccount} \cup AccountRows
KeyRows == [seller: Sellers, status: {"active", "revoked"}]
KeyRecords == {S!NoKey} \cup KeyRows
LockRows == Tenants \cup Sellers \cup Keys
Lockers == Txs \cup {NoTx}
Acts == {"seller_create", "seller_api_key_issue", "seller_api_key_revoke"}
SellerEvents == [action: Acts, seller: Sellers, key: Keys]

NoneTx == [op: {"none"}, status: Nat]
CreateTx == [op: {"create", "created"}, tenant: Tenants, seller: Sellers]
IssueTx == [op: {"issue"}, seller: Sellers]
RevokeTx == [op: {"revoke"}, seller: Sellers, key: Keys]
BootstrapTx == [op: {"bootstrap", "upsert"}, config: Config]
ReadTx == [op: {"read"}, seller: Sellers, found: Nat, missing: Nat]
TxRecords == NoneTx \cup CreateTx \cup IssueTx \cup RevokeTx \cup BootstrapTx \cup ReadTx

SellersDomains ==
    /\ tenant \in [Tenants -> S!Status]
    /\ account \in [Sellers -> AccountRecords]
    /\ profile \in [Sellers -> S!Status]
    /\ key \in [Keys -> KeyRecords]
    /\ audit \in Seq(SellerEvents)
    /\ lock \in [LockRows -> Lockers]
    /\ tx \in [Txs -> TxRecords]

\* Of which kind the record of a transaction is.
LEMMA TxKinds ==
    ASSUME NEW r \in TxRecords
    PROVE  /\ r.op \in {"create", "created"} => r \in CreateTx
           /\ r.op = "issue" => r \in IssueTx
           /\ r.op = "revoke" => r \in RevokeTx
           /\ r.op \in {"bootstrap", "upsert"} => r \in BootstrapTx
           /\ r.op = "read" => r \in ReadTx
<1>1. \A q \in NoneTx : q.op = "none"
  BY DEF NoneTx
<1>2. \A q \in CreateTx : q.op \in {"create", "created"}
  BY DEF CreateTx
<1>3. \A q \in IssueTx : q.op = "issue"
  BY DEF IssueTx
<1>4. \A q \in RevokeTx : q.op = "revoke"
  BY DEF RevokeTx
<1>5. \A q \in BootstrapTx : q.op \in {"bootstrap", "upsert"}
  BY DEF BootstrapTx
<1>6. \A q \in ReadTx : q.op = "read"
  BY DEF ReadTx
<1> QED
  BY <1>1, <1>2, <1>3, <1>4, <1>5, <1>6 DEF TxRecords

\* Their fields.
LEMMA TxFields ==
    /\ \A r \in CreateTx : r.tenant \in Tenants /\ r.seller \in Sellers
    /\ \A r \in IssueTx : r.seller \in Sellers
    /\ \A r \in RevokeTx : r.seller \in Sellers /\ r.key \in Keys
    /\ \A r \in BootstrapTx : r.config \in Config
    /\ \A r \in ReadTx : r.seller \in Sellers /\ r.found \in Nat /\ r.missing \in Nat
BY DEF CreateTx, IssueTx, RevokeTx, BootstrapTx, ReadTx

\* The records that transactions are given.
LEMMA TxMade ==
    /\ \A n \in Nat : [op |-> "none", status |-> n] \in NoneTx
    /\ \A n \in Nat : [op |-> "none", status |-> n].op = "none"
    /\ \A t \in Tenants, s \in Sellers : [op |-> "create", tenant |-> t, seller |-> s] \in CreateTx
    /\ \A s \in Sellers : [op |-> "issue", seller |-> s] \in IssueTx
    /\ \A s \in Sellers, k \in Keys : [op |-> "revoke", seller |-> s, key |-> k] \in RevokeTx
    /\ \A c \in Config : [op |-> "bootstrap", config |-> c] \in BootstrapTx
    /\ \A s \in Sellers, f, m \in Nat :
          [op |-> "read", seller |-> s, found |-> f, missing |-> m] \in ReadTx
<1>1. \A n \in Nat : [op |-> "none", status |-> n] \in NoneTx /\ [op |-> "none", status |-> n].op = "none"
  BY DEF NoneTx
<1>2. \A t \in Tenants, s \in Sellers : [op |-> "create", tenant |-> t, seller |-> s] \in CreateTx
  BY DEF CreateTx
<1>3. \A s \in Sellers : [op |-> "issue", seller |-> s] \in IssueTx
  BY DEF IssueTx
<1>4. \A s \in Sellers, k \in Keys : [op |-> "revoke", seller |-> s, key |-> k] \in RevokeTx
  BY DEF RevokeTx
<1>5. \A c \in Config : [op |-> "bootstrap", config |-> c] \in BootstrapTx
  BY DEF BootstrapTx
<1>6. \A s \in Sellers, f, m \in Nat :
          [op |-> "read", seller |-> s, found |-> f, missing |-> m] \in ReadTx
  BY DEF ReadTx
<1> QED
  BY <1>1, <1>2, <1>3, <1>4, <1>5, <1>6

\* The configuration.
LEMMA ConfigFields ==
    ASSUME S!SellersAssumption, NEW c \in Config
    PROVE  c.seller \in Sellers /\ c.tenant \in Tenants /\ c.key \in Keys /\ c.key \in S!ConfigKeys
BY DEF S!SellersAssumption, S!ConfigKeys

\* Rows of accounts and keys.
LEMMA RowFields ==
    /\ \A a \in AccountRecords : a.status \in {"absent", "active", "disabled"}
    /\ \A a \in AccountRecords : a # S!NoAccount => a \in AccountRows /\ a.status # "absent"
    /\ S!NoAccount.status = "absent"
    /\ \A a \in AccountRows : a # S!NoAccount /\ a.tenant \in Tenants
    /\ \A t \in Tenants : [tenant |-> t, status |-> "active"] \in AccountRows
    /\ \A k \in KeyRecords : k # S!NoKey => k \in KeyRows /\ k.status # "absent"
    /\ S!NoKey.status = "absent"
    /\ \A k \in KeyRows : k # S!NoKey /\ k.seller \in Sellers
    /\ \A s \in Sellers : /\ [seller |-> s, status |-> "active"] \in KeyRows
                          /\ [seller |-> s, status |-> "active"].seller = s
                          /\ [seller |-> s, status |-> "active"].status = "active"
<1>1. S!NoAccount.status = "absent" /\ S!NoKey.status = "absent"
  BY DEF S!NoAccount, S!NoKey, S!Absent
<1>2. \A a \in AccountRows : a.status \in {"active", "disabled"} /\ a.tenant \in Tenants
  BY DEF AccountRows
<1>3. \A k \in KeyRows : k.status \in {"active", "revoked"} /\ k.seller \in Sellers
  BY DEF KeyRows
<1>4. \A t \in Tenants : [tenant |-> t, status |-> "active"] \in AccountRows
  BY DEF AccountRows
<1>5. \A s \in Sellers : /\ [seller |-> s, status |-> "active"] \in KeyRows
                         /\ [seller |-> s, status |-> "active"].seller = s
                         /\ [seller |-> s, status |-> "active"].status = "active"
  BY DEF KeyRows
<1> QED
  BY <1>1, <1>2, <1>3, <1>4, <1>5 DEF AccountRecords, KeyRecords

-----------------------------------------------------------------------------
(***************************************************************************)
(* The sellers: the inductive invariant.                                   *)
(***************************************************************************)
\* What the transaction r of x has locked, and what it has found there.
Held(r, x, tn, ac, ke, lo) ==
    /\ r.op \in {"create", "created"} => (lo[r.tenant] = x /\ tn[r.tenant] # "disabled")
    /\ r.op = "created" => (lo[r.seller] = x /\ ac[r.seller] = S!NoAccount)
    /\ r.op = "issue" => ac[r.seller] # S!NoAccount
    /\ r.op = "revoke" => (lo[r.key] = x /\ ke[r.key].status = "active")
    /\ r.op \in {"bootstrap", "upsert"} =>
          (lo[r.config.tenant] = x /\ tn[r.config.tenant] # "disabled")
    /\ r.op = "upsert" => lo[r.config.seller] = x

HeldByAll == \A x \in Txs : Held(tx[x], x, tenant, account, key, lock)

KeysOwned(ac, ke) == \A k \in Keys : ke[k] # S!NoKey => ac[ke[k].seller] # S!NoAccount

Revocation == "seller_api_key_revoke"
GivenIn(q, k) == {i \in 1..Len(q) : q[i].key = k /\ q[i].action # Revocation}
RevokedIn(q, k) == {i \in 1..Len(q) : q[i].key = k /\ q[i].action = Revocation}

\* What the events q say of key k is what its record r says.
KeyTrue(q, r, k) ==
    /\ r = S!NoKey => GivenIn(q, k) = {}
    /\ r # S!NoKey => \E i \in Nat : GivenIn(q, k) = {i}
    /\ r.status # "revoked" => RevokedIn(q, k) = {}
    /\ r.status = "revoked" => \E i \in Nat : RevokedIn(q, k) = {i}

KeysTrue(q, ke) == \A k \in Keys \ S!ConfigKeys : KeyTrue(q, ke[k], k)

\* Who was created exists, and was created once.
Created(q, ac) ==
    \A i \in 1..Len(q) : q[i].action = "seller_create" =>
        /\ ac[q[i].seller] # S!NoAccount
        /\ \A j \in 1..Len(q) :
              (q[j].action = "seller_create" /\ q[j].seller = q[i].seller) => i = j

SellersInv ==
    /\ SellersDomains
    /\ HeldByAll
    /\ KeysOwned(account, key) /\ KeysTrue(audit, key) /\ Created(audit, account)

\* What no step does.
Steady ==
    /\ \A k \in Keys : key[k] # S!NoKey => key'[k] # S!NoKey /\ key'[k].seller = key[k].seller
    /\ \A s \in Sellers : account[s] # S!NoAccount =>
          account'[s] # S!NoAccount /\ account'[s].tenant = account[s].tenant
    /\ \A t \in Tenants : tenant[t] = "disabled" => tenant'[t] = "disabled"
    /\ \A s \in Sellers : account[s].status = "disabled" => account'[s].status = "disabled"

\* What others leave of what x has locked.
Undisturbed(x, tn, ac, ke, lo, tn2, ac2, ke2, lo2) ==
    /\ \A r \in LockRows : lo[r] = x => lo2[r] = x
    /\ \A t \in Tenants : lo[t] = x => tn2[t] = tn[t]
    /\ \A s \in Sellers : ac[s] # S!NoAccount => ac2[s] # S!NoAccount
    /\ \A s \in Sellers : lo[s] = x => ac2[s] = ac[s]
    /\ \A k \in Keys : (lo[k] = x /\ ke[k].status = "active") => ke2[k] = ke[k]

LEMMA HeldKept ==
    ASSUME S!SellersAssumption, NEW r \in TxRecords, NEW x,
           NEW tn, NEW ac, NEW ke, NEW lo, NEW tn2, NEW ac2, NEW ke2, NEW lo2,
           Held(r, x, tn, ac, ke, lo), Undisturbed(x, tn, ac, ke, lo, tn2, ac2, ke2, lo2)
    PROVE  Held(r, x, tn2, ac2, ke2, lo2)
<1>1. Tenants \subseteq LockRows /\ Sellers \subseteq LockRows /\ Keys \subseteq LockRows
  BY DEF LockRows
<1>2. CASE r.op \in {"create", "created"}
  <2>1. r.tenant \in Tenants /\ r.seller \in Sellers
    BY <1>2, TxKinds, TxFields
  <2> QED
    BY <1>1, <1>2, <2>1 DEF Held, Undisturbed
<1>3. CASE r.op = "issue"
  <2>1. r.seller \in Sellers
    BY <1>3, TxKinds, TxFields
  <2> QED
    BY <1>1, <1>3, <2>1 DEF Held, Undisturbed
<1>4. CASE r.op = "revoke"
  <2>1. r.key \in Keys
    BY <1>4, TxKinds, TxFields
  <2> QED
    BY <1>1, <1>4, <2>1 DEF Held, Undisturbed
<1>5. CASE r.op \in {"bootstrap", "upsert"}
  <2>1. r.config.tenant \in Tenants /\ r.config.seller \in Sellers
    BY <1>5, TxKinds, TxFields, ConfigFields
  <2> QED
    BY <1>1, <1>5, <2>1 DEF Held, Undisturbed
<1>6. CASE r.op \notin {"create", "created", "issue", "revoke", "bootstrap", "upsert"}
  BY <1>6 DEF Held
<1> QED
  BY <1>2, <1>3, <1>4, <1>5, <1>6

\* A step of x that leaves the others alone.
Quiet(x) ==
    \A y \in Txs \ {x} :
        /\ tx'[y] = tx[y]
        /\ Undisturbed(y, tenant, account, key, lock, tenant', account', key', lock')

LEMMA HeldByOthers ==
    ASSUME S!SellersAssumption, SellersInv, NEW x, Quiet(x),
           x \in Txs => Held(tx'[x], x, tenant', account', key', lock')
    PROVE  HeldByAll'
<1> SUFFICES ASSUME NEW y \in Txs, y # x PROVE Held(tx'[y], y, tenant', account', key', lock')
  BY DEF HeldByAll
<1>1. tx[y] \in TxRecords /\ Held(tx[y], y, tenant, account, key, lock)
  BY DEF SellersInv, SellersDomains, HeldByAll
<1>2. tx'[y] = tx[y] /\ Undisturbed(y, tenant, account, key, lock, tenant', account', key', lock')
  BY DEF Quiet
<1>3. Held(tx[y], y, tenant', account', key', lock')
  BY <1>1, <1>2, HeldKept
<1> QED
  BY <1>2, <1>3

\* Locks that x takes or gives back.
LEMMA LocksMove ==
    ASSUME S!SellersAssumption, SellersInv, NEW x \in Txs,
           \/ lock' = lock
           \/ lock' = S!Released(x)
           \/ \E r \in LockRows : lock[r] = NoTx /\ lock' = [lock EXCEPT ![r] = x]
    PROVE  /\ lock' \in [LockRows -> Lockers]
           /\ \A y \in Txs \ {x}, r \in LockRows : lock[r] = y => lock'[r] = y
<1>1. lock \in [LockRows -> Lockers] /\ NoTx \notin Txs /\ x \in Lockers /\ NoTx \in Lockers
  BY DEF SellersInv, SellersDomains, S!SellersAssumption, Lockers
<1>2. CASE lock' = lock
  BY <1>1, <1>2
<1>3. CASE lock' = S!Released(x)
  <2>1. DOMAIN lock = LockRows
    BY <1>1
  <2>2. lock' = [r \in LockRows |-> IF lock[r] = x THEN NoTx ELSE lock[r]]
    BY <1>3, <2>1 DEF S!Released
  <2> QED
    BY <1>1, <2>2
<1>4. CASE \E r \in LockRows : lock[r] = NoTx /\ lock' = [lock EXCEPT ![r] = x]
  BY <1>1, <1>4
<1> QED
  BY <1>2, <1>3, <1>4

\* A step that only moves x on and changes its locks.
LEMMA OnlyMoves ==
    ASSUME S!SellersAssumption, SellersInv, NEW x \in Txs, NEW r \in TxRecords,
           tx' = [tx EXCEPT ![x] = r], UNCHANGED S!Tables,
           \/ lock' = lock
           \/ lock' = S!Released(x)
           \/ \E l \in LockRows : lock[l] = NoTx /\ lock' = [lock EXCEPT ![l] = x],
           Held(r, x, tenant, account, key, lock')
    PROVE  SellersInv' /\ Steady
<1>1. UNCHANGED <<tenant, account, profile, key, audit>>
  BY DEF S!Tables
<1>2. tx \in [Txs -> TxRecords]
  BY DEF SellersInv, SellersDomains
<1>3. tx' \in [Txs -> TxRecords] /\ tx'[x] = r /\ \A y \in Txs \ {x} : tx'[y] = tx[y]
  BY <1>2
<1>4. lock' \in [LockRows -> Lockers] /\ \A y \in Txs \ {x}, l \in LockRows : lock[l] = y => lock'[l] = y
  BY LocksMove
<1>5. SellersDomains'
  BY <1>1, <1>3, <1>4 DEF SellersInv, SellersDomains
<1>6. Quiet(x)
  BY <1>1, <1>3, <1>4 DEF Quiet, Undisturbed
<1>7. HeldByAll'
  BY <1>1, <1>3, <1>6, HeldByOthers
<1>8. (KeysOwned(account, key) /\ KeysTrue(audit, key) /\ Created(audit, account))'
  BY <1>1 DEF SellersInv
<1>9. Steady
  BY <1>1 DEF Steady
<1> QED
  BY <1>5, <1>7, <1>8, <1>9 DEF SellersInv

\* The route answers and changes nothing.
LEMMA OnlyAnswers ==
    ASSUME S!SellersAssumption, SellersInv, NEW x \in Txs, NEW n \in Nat,
           S!Answer(x, n), UNCHANGED S!Tables
    PROVE  SellersInv' /\ Steady
<1>r. PICK r : r = [op |-> "none", status |-> n]
  OBVIOUS
<1>1. r \in TxRecords /\ r.op = "none"
  BY <1>r, TxMade DEF TxRecords
<1>2. Held(r, x, tenant, account, key, lock')
  BY <1>1 DEF Held
<1>3. tx' = [tx EXCEPT ![x] = r] /\ lock' = S!Released(x)
  BY <1>r DEF S!Answer
<1> QED
  BY <1>1, <1>2, <1>3, OnlyMoves
-----------------------------------------------------------------------------
(***************************************************************************)
(* The sellers: the steps that take a lock.                                *)
(***************************************************************************)
\* The records of a transaction that goes on.
LEMMA TxGoesOn ==
    /\ \A r \in CreateTx :
          /\ [r EXCEPT !.op = "created"] \in CreateTx /\ [r EXCEPT !.op = "created"].op = "created"
          /\ [r EXCEPT !.op = "created"].tenant = r.tenant
          /\ [r EXCEPT !.op = "created"].seller = r.seller
    /\ \A r \in BootstrapTx :
          /\ [r EXCEPT !.op = "upsert"] \in BootstrapTx /\ [r EXCEPT !.op = "upsert"].op = "upsert"
          /\ [r EXCEPT !.op = "upsert"].config = r.config
BY DEF CreateTx, BootstrapTx

\* The fields of the records that transactions are given.
LEMMA TxMadeFields ==
    /\ \A t, s : /\ [op |-> "create", tenant |-> t, seller |-> s].op = "create"
                 /\ [op |-> "create", tenant |-> t, seller |-> s].tenant = t
    /\ \A s : /\ [op |-> "issue", seller |-> s].op = "issue"
              /\ [op |-> "issue", seller |-> s].seller = s
    /\ \A s, k : /\ [op |-> "revoke", seller |-> s, key |-> k].op = "revoke"
                 /\ [op |-> "revoke", seller |-> s, key |-> k].key = k
    /\ \A c : /\ [op |-> "bootstrap", config |-> c].op = "bootstrap"
              /\ [op |-> "bootstrap", config |-> c].config = c
    /\ \A s, f, m : [op |-> "read", seller |-> s, found |-> f, missing |-> m].op = "read"
OBVIOUS

\* A lock that was taken is held, and no other was lost.
LEMMA LockTaken ==
    ASSUME SellersInv, NEW x \in Txs, NEW l \in LockRows,
           lock' = [lock EXCEPT ![l] = x]
    PROVE  lock'[l] = x /\ \A m \in LockRows : lock[m] = x => lock'[m] = x
BY DEF SellersInv, SellersDomains

\* An active account of an active tenant exists.
LEMMA ActiveExists ==
    ASSUME SellersInv, NEW s \in Sellers, S!AccountActive(s)
    PROVE  account[s] # S!NoAccount
BY RowFields DEF S!AccountActive

LEMMA CreateLocksTenant ==
    ASSUME S!SellersAssumption, SellersInv, NEW x \in Txs, NEW t \in Tenants, NEW s \in Sellers,
           S!CreateLockTenant(x, t, s)
    PROVE  SellersInv' /\ Steady
<1>1. CASE S!TenantUsable(t)
  <2>r. PICK r : r = [op |-> "create", tenant |-> t, seller |-> s]
    OBVIOUS
  <2>1. r \in CreateTx /\ r.op = "create" /\ r.tenant = t
    BY <2>r, TxMade, TxMadeFields
  <2>2. r \in TxRecords /\ t \in LockRows
    BY <2>1 DEF TxRecords, LockRows
  <2>3. /\ tx' = [tx EXCEPT ![x] = r] /\ UNCHANGED S!Tables
        /\ lock[t] = NoTx /\ lock' = [lock EXCEPT ![t] = x] /\ tenant[t] # "disabled"
    BY <1>1, <2>r DEF S!CreateLockTenant, S!Free, S!TenantUsable
  <2>4. lock'[t] = x
    BY <2>2, <2>3, LockTaken
  <2>5. Held(r, x, tenant, account, key, lock')
    BY <2>1, <2>3, <2>4 DEF Held
  <2> QED
    BY <2>2, <2>3, <2>5, OnlyMoves
<1>2. CASE ~S!TenantUsable(t)
  <2>1. S!Answer(x, 400) /\ UNCHANGED S!Tables
    BY <1>2 DEF S!CreateLockTenant
  <2> QED
    BY <2>1, OnlyAnswers
<1> QED
  BY <1>1, <1>2

LEMMA CreateInserts ==
    ASSUME S!SellersAssumption, SellersInv, NEW x \in Txs, S!CreateInsert(x)
    PROVE  SellersInv' /\ Steady
<1>1. tx \in [Txs -> TxRecords] /\ tx[x] \in TxRecords /\ tx[x].op = "create"
  BY DEF SellersInv, SellersDomains, S!CreateInsert, S!At
<1>2. tx[x] \in CreateTx /\ tx[x].tenant \in Tenants /\ tx[x].seller \in Sellers
  BY <1>1, TxKinds, TxFields
<1>3. CASE account[tx[x].seller].status = "absent"
  <2>r. PICK r : r = [tx[x] EXCEPT !.op = "created"]
    OBVIOUS
  <2>1. r \in CreateTx /\ r.op = "created" /\ r.tenant = tx[x].tenant /\ r.seller = tx[x].seller
    BY <1>2, <2>r, TxGoesOn
  <2>2. r \in TxRecords /\ r.seller \in LockRows /\ r.tenant \in LockRows
    BY <1>2, <2>1 DEF TxRecords, LockRows
  <2>3. /\ tx' = [tx EXCEPT ![x].op = "created"] /\ UNCHANGED S!Tables
        /\ lock[r.seller] = NoTx /\ lock' = [lock EXCEPT ![r.seller] = x]
    BY <1>3, <2>1 DEF S!CreateInsert, S!Free, S!Absent
  <2>4. tx' = [tx EXCEPT ![x] = r]
    BY <1>1, <2>3, <2>r
  <2>5. lock'[r.seller] = x /\ (lock[r.tenant] = x => lock'[r.tenant] = x)
    BY <2>2, <2>3, LockTaken
  <2>6. lock[r.tenant] = x /\ tenant[r.tenant] # "disabled"
    BY <1>1, <2>1 DEF SellersInv, HeldByAll, Held
  <2>7. account[r.seller] = S!NoAccount
    BY <1>2, <1>3, <2>1, RowFields DEF SellersInv, SellersDomains
  <2>8. Held(r, x, tenant, account, key, lock')
    BY <2>1, <2>5, <2>6, <2>7 DEF Held
  <2> QED
    BY <2>2, <2>3, <2>4, <2>8, OnlyMoves
<1>4. CASE account[tx[x].seller].status # "absent"
  <2>1. S!Answer(x, 409) /\ UNCHANGED S!Tables
    BY <1>4 DEF S!CreateInsert, S!Absent
  <2> QED
    BY <2>1, OnlyAnswers
<1> QED
  BY <1>3, <1>4

LEMMA IssueLocks ==
    ASSUME S!SellersAssumption, SellersInv, NEW x \in Txs, NEW s \in Sellers,
           S!IssueLockProfile(x, s)
    PROVE  SellersInv' /\ Steady
<1>1. CASE profile[s] = "active" /\ S!AccountActive(s)
  <2>r. PICK r : r = [op |-> "issue", seller |-> s]
    OBVIOUS
  <2>1. r \in IssueTx /\ r.op = "issue" /\ r.seller = s
    BY <2>r, TxMade, TxMadeFields
  <2>2. r \in TxRecords /\ s \in LockRows
    BY <2>1 DEF TxRecords, LockRows
  <2>3. /\ tx' = [tx EXCEPT ![x] = r] /\ UNCHANGED S!Tables
        /\ lock[s] = NoTx /\ lock' = [lock EXCEPT ![s] = x]
    BY <1>1, <2>r DEF S!IssueLockProfile, S!Free
  <2>4. account[s] # S!NoAccount
    BY <1>1, ActiveExists
  <2>5. Held(r, x, tenant, account, key, lock')
    BY <2>1, <2>4 DEF Held
  <2> QED
    BY <2>2, <2>3, <2>5, OnlyMoves
<1>2. CASE ~(profile[s] = "active" /\ S!AccountActive(s))
  <2>1. S!Answer(x, 400) /\ UNCHANGED S!Tables
    BY <1>2 DEF S!IssueLockProfile
  <2> QED
    BY <2>1, OnlyAnswers
<1> QED
  BY <1>1, <1>2

LEMMA RevokeLocks ==
    ASSUME S!SellersAssumption, SellersInv, NEW x \in Txs, NEW s \in Sellers, NEW k \in Keys,
           S!RevokeLockKey(x, s, k)
    PROVE  SellersInv' /\ Steady
<1>1. CASE key[k].status = "active" /\ key[k].seller = s
  <2>r. PICK r : r = [op |-> "revoke", seller |-> s, key |-> k]
    OBVIOUS
  <2>1. r \in RevokeTx /\ r.op = "revoke" /\ r.key = k
    BY <2>r, TxMade, TxMadeFields
  <2>2. r \in TxRecords /\ k \in LockRows
    BY <2>1 DEF TxRecords, LockRows
  <2>3. /\ tx' = [tx EXCEPT ![x] = r] /\ UNCHANGED S!Tables
        /\ lock[k] = NoTx /\ lock' = [lock EXCEPT ![k] = x]
    BY <1>1, <2>r DEF S!RevokeLockKey, S!Free
  <2>4. lock'[k] = x
    BY <2>2, <2>3, LockTaken
  <2>5. Held(r, x, tenant, account, key, lock')
    BY <1>1, <2>1, <2>4 DEF Held
  <2> QED
    BY <2>2, <2>3, <2>5, OnlyMoves
<1>2. CASE ~(key[k].status = "active" /\ key[k].seller = s)
  <2>1. S!Answer(x, 404) /\ UNCHANGED S!Tables
    BY <1>2 DEF S!RevokeLockKey
  <2> QED
    BY <2>1, OnlyAnswers
<1> QED
  BY <1>1, <1>2

LEMMA BootstrapLocksTenant ==
    ASSUME S!SellersAssumption, SellersInv, NEW x \in Txs, NEW c \in Config,
           S!BootstrapLockTenant(x, c)
    PROVE  SellersInv' /\ Steady
<1>1. CASE S!TenantUsable(c.tenant)
  <2>r. PICK r : r = [op |-> "bootstrap", config |-> c]
    OBVIOUS
  <2>1. r \in BootstrapTx /\ r.op = "bootstrap" /\ r.config = c
    BY <2>r, TxMade, TxMadeFields
  <2>2. r \in TxRecords /\ c.tenant \in LockRows
    BY <2>1, ConfigFields DEF TxRecords, LockRows
  <2>3. /\ tx' = [tx EXCEPT ![x] = r] /\ UNCHANGED S!Tables
        /\ lock[c.tenant] = NoTx /\ lock' = [lock EXCEPT ![c.tenant] = x]
        /\ tenant[c.tenant] # "disabled"
    BY <1>1, <2>r DEF S!BootstrapLockTenant, S!Free, S!TenantUsable
  <2>4. lock'[c.tenant] = x
    BY <2>2, <2>3, LockTaken
  <2>5. Held(r, x, tenant, account, key, lock')
    BY <2>1, <2>3, <2>4 DEF Held
  <2> QED
    BY <2>2, <2>3, <2>5, OnlyMoves
<1>2. CASE ~S!TenantUsable(c.tenant)
  <2>1. S!Answer(x, 500) /\ UNCHANGED S!Tables
    BY <1>2 DEF S!BootstrapLockTenant
  <2> QED
    BY <2>1, OnlyAnswers
<1> QED
  BY <1>1, <1>2

LEMMA BootstrapLocksAccount ==
    ASSUME S!SellersAssumption, SellersInv, NEW x \in Txs, S!BootstrapLockAccount(x)
    PROVE  SellersInv' /\ Steady
<1>1. tx \in [Txs -> TxRecords] /\ tx[x] \in TxRecords /\ tx[x].op = "bootstrap"
  BY DEF SellersInv, SellersDomains, S!BootstrapLockAccount, S!At
<1>c. PICK c : c = tx[x].config
  OBVIOUS
<1>2. tx[x] \in BootstrapTx /\ c \in Config /\ c.tenant \in Tenants /\ c.seller \in Sellers
  BY <1>1, <1>c, TxKinds, TxFields, ConfigFields
<1>r. PICK r : r = [tx[x] EXCEPT !.op = "upsert"]
  OBVIOUS
<1>3. r \in BootstrapTx /\ r.op = "upsert" /\ r.config = c
  BY <1>2, <1>r, <1>c, TxGoesOn
<1>4. r \in TxRecords /\ c.seller \in LockRows /\ c.tenant \in LockRows
  BY <1>2, <1>3 DEF TxRecords, LockRows
<1>5. /\ tx' = [tx EXCEPT ![x].op = "upsert"] /\ UNCHANGED S!Tables
      /\ lock[c.seller] = NoTx /\ lock' = [lock EXCEPT ![c.seller] = x]
  BY <1>c DEF S!BootstrapLockAccount, S!Free
<1>6. tx' = [tx EXCEPT ![x] = r]
  BY <1>1, <1>5, <1>r
<1>7. lock'[c.seller] = x /\ (lock[c.tenant] = x => lock'[c.tenant] = x)
  BY <1>4, <1>5, LockTaken
<1>8. lock[c.tenant] = x /\ tenant[c.tenant] # "disabled"
  BY <1>1, <1>c DEF SellersInv, HeldByAll, Held
<1>9. Held(r, x, tenant, account, key, lock')
  BY <1>3, <1>7, <1>8 DEF Held
<1> QED
  BY <1>4, <1>5, <1>6, <1>9, OnlyMoves
-----------------------------------------------------------------------------
(***************************************************************************)
(* The sellers: the audit.                                                 *)
(***************************************************************************)
\* The events q and one more, e.
Appended(q, e, r) ==
    /\ r \in Seq(SellerEvents) /\ Len(q) \in Nat /\ Len(r) = Len(q) + 1
    /\ r[Len(q) + 1] = e /\ \A i \in 1..Len(q) : r[i] = q[i]
    /\ \A k : GivenIn(r, k) = IF e.key = k /\ e.action # Revocation
                              THEN GivenIn(q, k) \cup {Len(q) + 1} ELSE GivenIn(q, k)
    /\ \A k : RevokedIn(r, k) = IF e.key = k /\ e.action = Revocation
                                THEN RevokedIn(q, k) \cup {Len(q) + 1} ELSE RevokedIn(q, k)

LEMMA EventAppended ==
    ASSUME NEW q \in Seq(SellerEvents), NEW e \in SellerEvents, NEW r, r = Append(q, e)
    PROVE  Appended(q, e, r)
<1>n. PICK n : n = Len(q)
  OBVIOUS
<1>1. r \in Seq(SellerEvents) /\ n \in Nat /\ Len(r) = n + 1 /\ r[n + 1] = e
  BY <1>n
<1>2. \A i \in 1..n : r[i] = q[i]
  BY <1>n
<1>3. 1..(n + 1) = (1..n) \cup {n + 1} /\ (n + 1) \notin 1..n
  BY <1>1
<1>4. ASSUME NEW k PROVE GivenIn(r, k) = IF e.key = k /\ e.action # Revocation
                                         THEN GivenIn(q, k) \cup {n + 1} ELSE GivenIn(q, k)
  BY <1>n, <1>1, <1>2, <1>3 DEF GivenIn
<1>5. ASSUME NEW k PROVE RevokedIn(r, k) = IF e.key = k /\ e.action = Revocation
                                           THEN RevokedIn(q, k) \cup {n + 1} ELSE RevokedIn(q, k)
  BY <1>n, <1>1, <1>2, <1>3 DEF RevokedIn
<1> QED
  BY <1>n, <1>1, <1>2, <1>4, <1>5 DEF Appended

\* A fresh key is given out.
LEMMA KeyGiven ==
    ASSUME NEW q \in Seq(SellerEvents), NEW ke \in [Keys -> KeyRecords], KeysTrue(q, ke),
           NEW k \in Keys, ke[k] = S!NoKey,
           NEW r \in KeyRows, r.status = "active",
           NEW e \in SellerEvents, e.key = k, e.action # Revocation
    PROVE  KeysTrue(Append(q, e), [ke EXCEPT ![k] = r])
<1>p. PICK p : p = Append(q, e)
  OBVIOUS
<1>a. Appended(q, e, p)
  BY <1>p, EventAppended
<1>1. /\ Len(q) + 1 \in Nat
      /\ \A j : GivenIn(p, j) = IF k = j THEN GivenIn(q, j) \cup {Len(q) + 1} ELSE GivenIn(q, j)
      /\ \A j : RevokedIn(p, j) = RevokedIn(q, j)
  BY <1>a DEF Appended
<1>2. r # S!NoKey /\ S!NoKey.status = "absent"
  BY RowFields
<1> SUFFICES ASSUME NEW j \in Keys \ S!ConfigKeys PROVE KeyTrue(p, [ke EXCEPT ![k] = r][j], j)
  BY <1>p DEF KeysTrue
<1>3. KeyTrue(q, ke[j], j)
  BY DEF KeysTrue
<1>4. CASE j # k
  <2>1. [ke EXCEPT ![k] = r][j] = ke[j]
    BY <1>4
  <2>2. GivenIn(p, j) = GivenIn(q, j) /\ RevokedIn(p, j) = RevokedIn(q, j)
    BY <1>1, <1>4
  <2> QED
    BY <1>3, <2>1, <2>2 DEF KeyTrue
<1>5. CASE j = k
  <2>1. [ke EXCEPT ![k] = r][j] = r
    BY <1>5
  <2>2. GivenIn(q, j) = {} /\ RevokedIn(q, j) = {}
    BY <1>2, <1>3, <1>5 DEF KeyTrue
  <2>3. GivenIn(p, j) = {Len(q) + 1} /\ RevokedIn(p, j) = {}
    BY <1>1, <1>5, <2>2
  <2> QED
    BY <1>1, <1>2, <2>1, <2>3 DEF KeyTrue
<1> QED
  BY <1>4, <1>5

\* An active key is revoked.
LEMMA KeyRevoked ==
    ASSUME NEW q \in Seq(SellerEvents), NEW ke \in [Keys -> KeyRecords], KeysTrue(q, ke),
           NEW k \in Keys, ke[k].status = "active",
           NEW r \in KeyRows, r.status = "revoked",
           NEW e \in SellerEvents, e.key = k, e.action = Revocation
    PROVE  KeysTrue(Append(q, e), [ke EXCEPT ![k] = r])
<1>p. PICK p : p = Append(q, e)
  OBVIOUS
<1>a. Appended(q, e, p)
  BY <1>p, EventAppended
<1>1. /\ Len(q) + 1 \in Nat
      /\ \A j : RevokedIn(p, j) = IF k = j THEN RevokedIn(q, j) \cup {Len(q) + 1} ELSE RevokedIn(q, j)
      /\ \A j : GivenIn(p, j) = GivenIn(q, j)
  BY <1>a DEF Appended
<1>2. r # S!NoKey /\ ke[k] # S!NoKey
  BY RowFields
<1> SUFFICES ASSUME NEW j \in Keys \ S!ConfigKeys PROVE KeyTrue(p, [ke EXCEPT ![k] = r][j], j)
  BY <1>p DEF KeysTrue
<1>3. KeyTrue(q, ke[j], j)
  BY DEF KeysTrue
<1>4. CASE j # k
  <2>1. [ke EXCEPT ![k] = r][j] = ke[j]
    BY <1>4
  <2>2. GivenIn(p, j) = GivenIn(q, j) /\ RevokedIn(p, j) = RevokedIn(q, j)
    BY <1>1, <1>4
  <2> QED
    BY <1>3, <2>1, <2>2 DEF KeyTrue
<1>5. CASE j = k
  <2>1. [ke EXCEPT ![k] = r][j] = r
    BY <1>5
  <2>2. (\E i \in Nat : GivenIn(q, j) = {i}) /\ RevokedIn(q, j) = {}
    BY <1>2, <1>3, <1>5 DEF KeyTrue
  <2>3. GivenIn(p, j) = GivenIn(q, j) /\ RevokedIn(p, j) = {Len(q) + 1}
    BY <1>1, <1>5, <2>2
  <2> QED
    BY <1>1, <1>2, <2>1, <2>2, <2>3 DEF KeyTrue
<1> QED
  BY <1>4, <1>5

\* An event is written; if it is of a creation, the account was not there before.
LEMMA CreatedKept ==
    ASSUME NEW q \in Seq(SellerEvents), NEW ac, NEW ac2, Created(q, ac),
           \A s \in Sellers : ac[s] # S!NoAccount => ac2[s] # S!NoAccount,
           NEW e \in SellerEvents,
           e.action = "seller_create" => (ac[e.seller] = S!NoAccount /\ ac2[e.seller] # S!NoAccount)
    PROVE  Created(Append(q, e), ac2)
<1>p. PICK p : p = Append(q, e)
  OBVIOUS
<1>a. Appended(q, e, p)
  BY <1>p, EventAppended
<1>n. PICK n : n = Len(q)
  OBVIOUS
<1>1. n \in Nat /\ Len(p) = n + 1 /\ p[n + 1] = e /\ \A i \in 1..n : p[i] = q[i]
  BY <1>n, <1>a DEF Appended
<1>2. \A i \in 1..n : q[i] \in SellerEvents /\ q[i].seller \in Sellers
  <2>1. \A i \in 1..n : q[i] \in SellerEvents
    BY <1>n
  <2>2. \A v \in SellerEvents : v.seller \in Sellers
    BY DEF SellerEvents
  <2> QED
    BY <2>1, <2>2
<1>3. \A i \in 1..(n + 1) : i \in 1..n \/ i = n + 1
  BY <1>1
<1>4. \A i \in 1..n : q[i].action = "seller_create" =>
        /\ ac[q[i].seller] # S!NoAccount
        /\ \A j \in 1..n : (q[j].action = "seller_create" /\ q[j].seller = q[i].seller) => i = j
  BY <1>n DEF Created
<1> SUFFICES ASSUME NEW i \in 1..(n + 1), p[i].action = "seller_create"
             PROVE  /\ ac2[p[i].seller] # S!NoAccount
                    /\ \A j \in 1..(n + 1) :
                         (p[j].action = "seller_create" /\ p[j].seller = p[i].seller) => i = j
  BY <1>p, <1>1 DEF Created
<1>5. ac2[p[i].seller] # S!NoAccount
  BY <1>1, <1>2, <1>3, <1>4
<1>6. ASSUME NEW j \in 1..(n + 1), p[j].action = "seller_create", p[j].seller = p[i].seller
      PROVE  i = j
  BY <1>1, <1>2, <1>3, <1>4, <1>6
<1> QED
  BY <1>5, <1>6
-----------------------------------------------------------------------------
(***************************************************************************)
(* The sellers: the steps that commit.                                     *)
(***************************************************************************)
TablesTyped ==
    /\ tenant \in [Tenants -> S!Status] /\ account \in [Sellers -> AccountRecords]
    /\ profile \in [Sellers -> S!Status] /\ key \in [Keys -> KeyRecords]
    /\ audit \in Seq(SellerEvents)

\* x writes no row that another transaction has locked, except a key that is not
\* active.
OwnRows(x) ==
    /\ \A t \in Tenants : tenant'[t] # tenant[t] => lock[t] \notin Txs \ {x}
    /\ \A s \in Sellers : account'[s] # account[s] => lock[s] \notin Txs \ {x}
    /\ \A s \in Sellers : account[s] # S!NoAccount => account'[s] # S!NoAccount
    /\ \A k \in Keys : key'[k] # key[k] => (key[k].status # "active" \/ lock[k] \notin Txs \ {x})

LEMMA Commits ==
    ASSUME S!SellersAssumption, SellersInv, NEW x \in Txs, NEW r \in TxRecords,
           r.op \in {"none", "read"}, tx' = [tx EXCEPT ![x] = r], lock' = S!Released(x),
           TablesTyped', OwnRows(x)
    PROVE  SellersDomains' /\ HeldByAll'
<1>1. tx \in [Txs -> TxRecords]
  BY DEF SellersInv, SellersDomains
<1>2. tx' \in [Txs -> TxRecords] /\ tx'[x] = r /\ \A y \in Txs \ {x} : tx'[y] = tx[y]
  BY <1>1
<1>3. lock' \in [LockRows -> Lockers] /\ \A y \in Txs \ {x}, l \in LockRows : lock[l] = y => lock'[l] = y
  BY LocksMove
<1>4. SellersDomains'
  BY <1>2, <1>3 DEF SellersDomains, TablesTyped
<1>5. Quiet(x)
  BY <1>2, <1>3 DEF Quiet, Undisturbed, OwnRows
<1>6. Held(tx'[x], x, tenant', account', key', lock')
  BY <1>2 DEF Held
<1> QED
  BY <1>4, <1>5, <1>6, HeldByOthers

LEMMA EventMade ==
    ASSUME NEW a \in Acts, NEW s \in Sellers, NEW k \in Keys
    PROVE  /\ S!Event(a, s, k) \in SellerEvents /\ S!Event(a, s, k).key = k
           /\ S!Event(a, s, k).action = a /\ S!Event(a, s, k).seller = s
BY DEF S!Event, SellerEvents

LEMMA CreateCommits ==
    ASSUME S!SellersAssumption, SellersInv, NEW x \in Txs, NEW k \in Keys, S!CreateCommit(x, k)
    PROVE  SellersInv' /\ Steady
<1>t. PICK t : t = tx[x].tenant
  OBVIOUS
<1>s. PICK s : s = tx[x].seller
  OBVIOUS
<1>a. PICK a : a = [tenant |-> t, status |-> "active"]
  OBVIOUS
<1>b. PICK b : b = [seller |-> s, status |-> "active"]
  OBVIOUS
<1>e. PICK e : e = S!Event("seller_create", s, k)
  OBVIOUS
<1>r. PICK r : r = [op |-> "read", seller |-> s, found |-> 201, missing |-> 503]
  OBVIOUS
<1>1. /\ tx[x].op = "created" /\ key[k] = S!NoKey
      /\ tenant' = [tenant EXCEPT ![t] = "active"] /\ account' = [account EXCEPT ![s] = a]
      /\ profile' = [profile EXCEPT ![s] = "active"] /\ key' = [key EXCEPT ![k] = b]
      /\ audit' = Append(audit, e)
      /\ tx' = [tx EXCEPT ![x] = r] /\ lock' = S!Released(x)
  BY <1>t, <1>s, <1>a, <1>b, <1>e, <1>r
  DEF S!CreateCommit, S!At, S!WithProfile, S!WithKey, S!Log, S!ReadBack
<1>2. TablesTyped
  BY DEF SellersInv, SellersDomains, TablesTyped
<1>3. tx[x] \in TxRecords /\ Held(tx[x], x, tenant, account, key, lock)
  BY DEF SellersInv, SellersDomains, HeldByAll
<1>4. /\ lock[t] = x /\ tenant[t] # "disabled" /\ lock[s] = x /\ account[s] = S!NoAccount
      /\ t \in Tenants /\ s \in Sellers
  BY <1>1, <1>3, <1>t, <1>s, TxKinds, TxFields DEF Held
<1>5. /\ a \in AccountRecords /\ a # S!NoAccount
      /\ b \in KeyRows /\ b \in KeyRecords /\ b # S!NoKey /\ b.seller = s /\ b.status = "active"
  BY <1>4, <1>a, <1>b, RowFields DEF AccountRecords, KeyRecords
<1>6. r \in TxRecords /\ r.op = "read"
  <2>1. r.op = "read"
    BY <1>r, TxMadeFields
  <2>2. r \in ReadTx
    BY <1>4, <1>r, TxMade
  <2> QED
    BY <2>1, <2>2 DEF TxRecords
<1>7. e \in SellerEvents /\ e.key = k /\ e.action = "seller_create" /\ e.seller = s
  BY <1>4, <1>e, EventMade DEF Acts
<1>8. "active" \in S!Status /\ S!NoKey.status # "active" /\ S!NoAccount.status # "disabled"
  BY RowFields DEF S!Status
<1>9. TablesTyped'
  <2>1. tenant' \in [Tenants -> S!Status] /\ profile' \in [Sellers -> S!Status]
    BY <1>1, <1>2, <1>8 DEF TablesTyped
  <2>2. account' \in [Sellers -> AccountRecords] /\ key' \in [Keys -> KeyRecords]
    BY <1>1, <1>2, <1>5 DEF TablesTyped
  <2>3. audit' \in Seq(SellerEvents)
    BY <1>1, <1>2, <1>7 DEF TablesTyped
  <2> QED
    BY <2>1, <2>2, <2>3 DEF TablesTyped
<1>10. /\ \A u \in Tenants : u # t => tenant'[u] = tenant[u]
       /\ \A u \in Sellers : account'[u] = IF u = s THEN a ELSE account[u]
       /\ \A u \in Keys : key'[u] = IF u = k THEN b ELSE key[u]
  BY <1>1, <1>2 DEF TablesTyped
<1>11. OwnRows(x)
  BY <1>1, <1>4, <1>5, <1>8, <1>10 DEF OwnRows
<1>12. SellersDomains' /\ HeldByAll'
  BY <1>1, <1>6, <1>9, <1>11, Commits
<1>13. KeysOwned(account', key')
  <2>1. \A u \in Keys : key[u] # S!NoKey =>
          (key[u].seller \in Sellers /\ account[key[u].seller] # S!NoAccount)
    BY <1>2, RowFields DEF TablesTyped, SellersInv, KeysOwned
  <2>2. \A u \in Sellers : account[u] # S!NoAccount => account'[u] # S!NoAccount
    BY <1>5, <1>10
  <2> QED
    BY <1>4, <1>5, <1>10, <2>1, <2>2 DEF KeysOwned
<1>14. KeysTrue(audit', key')
  <2>1. KeysTrue(Append(audit, e), [key EXCEPT ![k] = b])
    BY <1>1, <1>2, <1>5, <1>7, KeyGiven DEF TablesTyped, SellersInv, Revocation
  <2> QED
    BY <1>1, <2>1
<1>15. Created(audit', account')
  <2>1. \A u \in Sellers : account[u] # S!NoAccount => account'[u] # S!NoAccount
    BY <1>5, <1>10
  <2>2. account[e.seller] = S!NoAccount /\ account'[e.seller] # S!NoAccount
    BY <1>4, <1>5, <1>7, <1>10
  <2>3. audit \in Seq(SellerEvents) /\ Created(audit, account)
    BY <1>2 DEF TablesTyped, SellersInv
  <2>4. Created(Append(audit, e), account')
    BY <1>7, <2>1, <2>2, <2>3, CreatedKept
  <2> QED
    BY <1>1, <2>4
<1>16. Steady
  BY <1>1, <1>4, <1>5, <1>8, <1>10 DEF Steady
<1> QED
  BY <1>12, <1>13, <1>14, <1>15, <1>16 DEF SellersInv

LEMMA IssueCommits ==
    ASSUME S!SellersAssumption, SellersInv, NEW x \in Txs, NEW k \in Keys, S!IssueCommit(x, k)
    PROVE  SellersInv' /\ Steady
<1>s. PICK s : s = tx[x].seller
  OBVIOUS
<1>b. PICK b : b = [seller |-> s, status |-> "active"]
  OBVIOUS
<1>e. PICK e : e = S!Event("seller_api_key_issue", s, k)
  OBVIOUS
<1>r. PICK r : r = [op |-> "none", status |-> 201]
  OBVIOUS
<1>1. /\ tx[x].op = "issue" /\ key[k] = S!NoKey /\ key' = [key EXCEPT ![k] = b]
      /\ audit' = Append(audit, e) /\ UNCHANGED <<tenant, account, profile>>
      /\ tx' = [tx EXCEPT ![x] = r] /\ lock' = S!Released(x)
  BY <1>s, <1>b, <1>e, <1>r DEF S!IssueCommit, S!At, S!WithKey, S!Log, S!Answer
<1>2. TablesTyped
  BY DEF SellersInv, SellersDomains, TablesTyped
<1>3. tx[x] \in TxRecords /\ Held(tx[x], x, tenant, account, key, lock)
  BY DEF SellersInv, SellersDomains, HeldByAll
<1>4. account[s] # S!NoAccount /\ s \in Sellers
  BY <1>1, <1>3, <1>s, TxKinds, TxFields DEF Held
<1>5. b \in KeyRows /\ b \in KeyRecords /\ b # S!NoKey /\ b.seller = s /\ b.status = "active"
  BY <1>4, <1>b, RowFields DEF KeyRecords
<1>6. r \in TxRecords /\ r.op = "none"
  BY <1>r, TxMade DEF TxRecords
<1>7. e \in SellerEvents /\ e.key = k /\ e.action = "seller_api_key_issue"
  BY <1>4, <1>e, EventMade DEF Acts
<1>8. S!NoKey.status # "active"
  BY RowFields
<1>9. TablesTyped'
  <2>1. key' \in [Keys -> KeyRecords]
    BY <1>1, <1>2, <1>5 DEF TablesTyped
  <2>2. audit' \in Seq(SellerEvents)
    BY <1>1, <1>2, <1>7 DEF TablesTyped
  <2> QED
    BY <1>1, <1>2, <2>1, <2>2 DEF TablesTyped
<1>10. \A u \in Keys : key'[u] = IF u = k THEN b ELSE key[u]
  BY <1>1, <1>2 DEF TablesTyped
<1>11. OwnRows(x)
  BY <1>1, <1>8, <1>10 DEF OwnRows
<1>12. SellersDomains' /\ HeldByAll'
  BY <1>1, <1>6, <1>9, <1>11, Commits
<1>13. KeysOwned(account', key')
  BY <1>1, <1>4, <1>5, <1>10 DEF SellersInv, KeysOwned
<1>14. KeysTrue(audit', key')
  <2>1. KeysTrue(Append(audit, e), [key EXCEPT ![k] = b])
    BY <1>1, <1>2, <1>5, <1>7, KeyGiven DEF TablesTyped, SellersInv, Revocation
  <2> QED
    BY <1>1, <2>1
<1>15. Created(audit', account')
  <2>1. audit \in Seq(SellerEvents) /\ Created(audit, account)
    BY <1>2 DEF TablesTyped, SellersInv
  <2>2. Created(Append(audit, e), account)
    BY <1>7, <2>1, CreatedKept
  <2> QED
    BY <1>1, <2>2
<1>16. Steady
  BY <1>1, <1>5, <1>10 DEF Steady
<1> QED
  BY <1>12, <1>13, <1>14, <1>15, <1>16 DEF SellersInv
LEMMA RevokeCommits ==
    ASSUME S!SellersAssumption, SellersInv, NEW x \in Txs, S!RevokeCommit(x)
    PROVE  SellersInv' /\ Steady
<1>k. PICK k : k = tx[x].key
  OBVIOUS
<1>s. PICK s : s = tx[x].seller
  OBVIOUS
<1>b. PICK b : b = [key[k] EXCEPT !.status = "revoked"]
  OBVIOUS
<1>e. PICK e : e = S!Event("seller_api_key_revoke", s, k)
  OBVIOUS
<1>r. PICK r : r = [op |-> "none", status |-> 200]
  OBVIOUS
<1>1. /\ tx[x].op = "revoke" /\ key' = [key EXCEPT ![k].status = "revoked"]
      /\ audit' = Append(audit, e) /\ UNCHANGED <<tenant, account, profile>>
      /\ tx' = [tx EXCEPT ![x] = r] /\ lock' = S!Released(x)
  BY <1>k, <1>s, <1>e, <1>r DEF S!RevokeCommit, S!At, S!Log, S!Answer
<1>2. TablesTyped
  BY DEF SellersInv, SellersDomains, TablesTyped
<1>3. tx[x] \in TxRecords /\ Held(tx[x], x, tenant, account, key, lock)
  BY DEF SellersInv, SellersDomains, HeldByAll
<1>4. lock[k] = x /\ key[k].status = "active" /\ k \in Keys /\ s \in Sellers
  BY <1>1, <1>3, <1>k, <1>s, TxKinds, TxFields DEF Held
<1>5. /\ key' = [key EXCEPT ![k] = b] /\ key[k] \in KeyRows
      /\ b \in KeyRows /\ b.seller = key[k].seller /\ b.status = "revoked"
  <2>1. key' = [key EXCEPT ![k] = b]
    BY <1>1, <1>2, <1>b DEF TablesTyped
  <2>2. key[k] \in KeyRows
    BY <1>2, <1>4, RowFields DEF TablesTyped
  <2>3. \A w \in KeyRows : /\ [w EXCEPT !.status = "revoked"] \in KeyRows
                           /\ [w EXCEPT !.status = "revoked"].seller = w.seller
                           /\ [w EXCEPT !.status = "revoked"].status = "revoked"
    BY DEF KeyRows
  <2> QED
    BY <1>b, <2>1, <2>2, <2>3
<1>6. b \in KeyRecords /\ b # S!NoKey /\ key[k] # S!NoKey
  BY <1>5, RowFields DEF KeyRecords
<1>7. r \in TxRecords /\ r.op = "none"
  BY <1>r, TxMade DEF TxRecords
<1>8. e \in SellerEvents /\ e.key = k /\ e.action = "seller_api_key_revoke"
  BY <1>4, <1>e, EventMade DEF Acts
<1>9. TablesTyped'
  <2>1. key' \in [Keys -> KeyRecords]
    BY <1>2, <1>5, <1>6 DEF TablesTyped
  <2>2. audit' \in Seq(SellerEvents)
    BY <1>1, <1>2, <1>8 DEF TablesTyped
  <2> QED
    BY <1>1, <1>2, <2>1, <2>2 DEF TablesTyped
<1>10. \A u \in Keys : key'[u] = IF u = k THEN b ELSE key[u]
  BY <1>2, <1>5 DEF TablesTyped
<1>11. OwnRows(x)
  BY <1>1, <1>4, <1>10 DEF OwnRows
<1>12. SellersDomains' /\ HeldByAll'
  BY <1>1, <1>7, <1>9, <1>11, Commits
<1>13. KeysOwned(account', key')
  BY <1>1, <1>4, <1>5, <1>6, <1>10 DEF SellersInv, KeysOwned
<1>14. KeysTrue(audit', key')
  <2>1. KeysTrue(Append(audit, e), [key EXCEPT ![k] = b])
    BY <1>2, <1>4, <1>5, <1>8, KeyRevoked DEF TablesTyped, SellersInv, Revocation
  <2> QED
    BY <1>1, <1>5, <2>1
<1>15. Created(audit', account')
  <2>1. audit \in Seq(SellerEvents) /\ Created(audit, account)
    BY <1>2 DEF TablesTyped, SellersInv
  <2>2. Created(Append(audit, e), account)
    BY <1>8, <2>1, CreatedKept
  <2> QED
    BY <1>1, <2>2
<1>16. Steady
  BY <1>1, <1>5, <1>6, <1>10 DEF Steady
<1> QED
  BY <1>12, <1>13, <1>14, <1>15, <1>16 DEF SellersInv

LEMMA BootstrapCommits ==
    ASSUME S!SellersAssumption, SellersInv, NEW x \in Txs, S!BootstrapCommit(x)
    PROVE  SellersInv' /\ Steady
<1>c. PICK c : c = tx[x].config
  OBVIOUS
<1>1. tx[x].op = "upsert" /\ lock[c.key] = NoTx
  BY <1>c DEF S!BootstrapCommit, S!At, S!Free
<1>2. TablesTyped
  BY DEF SellersInv, SellersDomains, TablesTyped
<1>3. tx[x] \in TxRecords /\ Held(tx[x], x, tenant, account, key, lock)
  BY DEF SellersInv, SellersDomains, HeldByAll
<1>4. c \in Config /\ lock[c.tenant] = x /\ tenant[c.tenant] # "disabled" /\ lock[c.seller] = x
  BY <1>1, <1>3, <1>c, TxKinds, TxFields DEF Held
<1>5. c.tenant \in Tenants /\ c.seller \in Sellers /\ c.key \in Keys /\ c.key \in S!ConfigKeys
  BY <1>4, ConfigFields
<1>6. CASE S!KeyTaken(c)
  <2>1. S!Answer(x, 500) /\ UNCHANGED S!Tables
    BY <1>6, <1>c DEF S!BootstrapCommit
  <2> QED
    BY <2>1, OnlyAnswers
<1>7. CASE ~S!KeyTaken(c)
  <2>t. PICK t : t = c.tenant
    OBVIOUS
  <2>s. PICK s : s = c.seller
    OBVIOUS
  <2>k. PICK k : k = c.key
    OBVIOUS
  <2>a. PICK a : a = S!Upserted(c)
    OBVIOUS
  <2>b. PICK b : b = [seller |-> s, status |-> "active"]
    OBVIOUS
  <2>r. PICK r : r = [op |-> "read", seller |-> s, found |-> 200, missing |-> 500]
    OBVIOUS
  <2>1. /\ tenant' = [tenant EXCEPT ![t] = "active"] /\ account' = [account EXCEPT ![s] = a]
        /\ profile' = [profile EXCEPT ![s] = "active"] /\ key' = [key EXCEPT ![k] = b]
        /\ UNCHANGED audit
        /\ tx' = [tx EXCEPT ![x] = r] /\ lock' = S!Released(x)
    BY <1>7, <1>c, <2>t, <2>s, <2>k, <2>a, <2>b, <2>r
    DEF S!BootstrapCommit, S!WithProfile, S!WithKey, S!ReadBack
  <2>2. /\ t \in Tenants /\ s \in Sellers /\ k \in Keys /\ k \in S!ConfigKeys
        /\ lock[t] = x /\ tenant[t] # "disabled" /\ lock[s] = x /\ lock[k] = NoTx
    BY <1>1, <1>4, <1>5, <2>t, <2>s, <2>k
  <2>3. account[s] \in AccountRecords /\ key[k] \in KeyRecords /\ NoTx \notin Txs
    BY <1>2, <2>2 DEF TablesTyped, S!SellersAssumption
  <2>4. /\ a \in AccountRecords /\ a # S!NoAccount
        /\ account[s] # S!NoAccount => a = account[s]
    <3>1. CASE account[s] = S!NoAccount
      <4>1. a = [tenant |-> t, status |-> "active"]
        BY <3>1, <2>a, <2>t, <2>s, RowFields DEF S!Upserted, S!Absent
      <4>2. a \in AccountRows
        BY <2>2, <4>1, RowFields
      <4> QED
        BY <3>1, <4>2, RowFields DEF AccountRecords
    <3>2. CASE account[s] # S!NoAccount
      <4>1. a = account[s]
        BY <2>3, <3>2, <2>a, <2>s, RowFields DEF S!Upserted, S!Absent
      <4> QED
        BY <2>3, <3>2, <4>1
    <3> QED
      BY <3>1, <3>2
  <2>5. b \in KeyRecords /\ b # S!NoKey /\ b.seller = s
    BY <2>2, <2>b, RowFields DEF KeyRecords
  <2>6. key[k] # S!NoKey => key[k].seller = s
    BY <1>7, <2>3, <2>s, <2>k, RowFields DEF S!KeyTaken, S!Absent
  <2>7. r \in TxRecords /\ r.op = "read"
    <3>1. r.op = "read"
      BY <2>r, TxMadeFields
    <3>2. r \in ReadTx
      BY <2>2, <2>r, TxMade
    <3> QED
      BY <3>1, <3>2 DEF TxRecords
  <2>8. "active" \in S!Status /\ S!NoAccount.status # "disabled"
    BY RowFields DEF S!Status
  <2>9. TablesTyped'
    <3>1. tenant' \in [Tenants -> S!Status] /\ profile' \in [Sellers -> S!Status]
      BY <1>2, <2>1, <2>8 DEF TablesTyped
    <3>2. account' \in [Sellers -> AccountRecords] /\ key' \in [Keys -> KeyRecords]
      BY <1>2, <2>1, <2>4, <2>5 DEF TablesTyped
    <3> QED
      BY <1>2, <2>1, <3>1, <3>2 DEF TablesTyped
  <2>10. /\ \A u \in Tenants : u # t => tenant'[u] = tenant[u]
         /\ \A u \in Sellers : account'[u] = IF u = s THEN a ELSE account[u]
         /\ \A u \in Keys : key'[u] = IF u = k THEN b ELSE key[u]
    BY <1>2, <2>1 DEF TablesTyped
  <2>11. OwnRows(x)
    BY <2>2, <2>3, <2>4, <2>10 DEF OwnRows
  <2>12. SellersDomains' /\ HeldByAll'
    BY <2>1, <2>7, <2>9, <2>11, Commits
  <2>13. \A u \in Sellers : account[u] # S!NoAccount => account'[u] # S!NoAccount
    BY <2>4, <2>10
  <2>14. KeysOwned(account', key')
    <3>1. \A u \in Keys : key[u] # S!NoKey =>
            (key[u].seller \in Sellers /\ account[key[u].seller] # S!NoAccount)
      BY <1>2, RowFields DEF TablesTyped, SellersInv, KeysOwned
    <3> QED
      BY <2>2, <2>4, <2>5, <2>10, <2>13, <3>1 DEF KeysOwned
  <2>15. KeysTrue(audit', key')
    BY <2>1, <2>2, <2>10 DEF SellersInv, KeysTrue
  <2>16. Created(audit', account')
    <3>1. \A v \in SellerEvents : v.seller \in Sellers
      BY DEF SellerEvents
    <3>2. \A i \in 1..Len(audit) : audit[i] \in SellerEvents
      BY <1>2 DEF TablesTyped
    <3>3. Created(audit, account)
      BY DEF SellersInv
    <3> QED
      BY <2>1, <2>13, <3>1, <3>2, <3>3 DEF Created
  <2>17. Steady
    BY <2>2, <2>4, <2>5, <2>6, <2>8, <2>10 DEF Steady
  <2> QED
    BY <2>12, <2>14, <2>15, <2>16, <2>17 DEF SellersInv
<1> QED
  BY <1>6, <1>7
-----------------------------------------------------------------------------
(***************************************************************************)
(* The sellers: what is disabled by hand, and the theorems.                *)
(***************************************************************************)
LEMMA TenantDisabled ==
    ASSUME S!SellersAssumption, SellersInv, NEW t \in Tenants, S!DisableTenant(t)
    PROVE  SellersInv' /\ Steady
<1>1. /\ lock[t] = NoTx /\ tenant' = [tenant EXCEPT ![t] = "disabled"]
      /\ UNCHANGED <<account, profile, key, audit, lock, tx>> /\ NoTx \notin Txs
  BY DEF S!DisableTenant, S!Free, S!SellersAssumption
<1>2. tenant \in [Tenants -> S!Status] /\ "disabled" \in S!Status
  BY DEF SellersInv, SellersDomains, S!Status
<1>3. tenant' \in [Tenants -> S!Status] /\ tenant'[t] = "disabled"
      /\ \A u \in Tenants : u # t => tenant'[u] = tenant[u]
  BY <1>1, <1>2
<1>4. SellersDomains'
  BY <1>1, <1>3 DEF SellersInv, SellersDomains
<1>5. Quiet(NoTx)
  BY <1>1, <1>3 DEF Quiet, Undisturbed
<1>6. HeldByAll'
  BY <1>1, <1>5, HeldByOthers
<1>7. Steady
  BY <1>1, <1>3 DEF Steady
<1> QED
  BY <1>1, <1>4, <1>6, <1>7 DEF SellersInv

LEMMA AccountDisabled ==
    ASSUME S!SellersAssumption, SellersInv, NEW s \in Sellers, S!DisableAccount(s)
    PROVE  SellersInv' /\ Steady
<1>a. PICK a : a = [account[s] EXCEPT !.status = "disabled"]
  OBVIOUS
<1>1. /\ lock[s] = NoTx /\ account[s].status = "active"
      /\ account' = [account EXCEPT ![s].status = "disabled"]
      /\ UNCHANGED <<tenant, profile, key, audit, lock, tx>> /\ NoTx \notin Txs
  BY DEF S!DisableAccount, S!Free, S!SellersAssumption
<1>2. account \in [Sellers -> AccountRecords]
  BY DEF SellersInv, SellersDomains
<1>3. account[s] \in AccountRows
  BY <1>1, <1>2, RowFields
<1>4. a \in AccountRows /\ a.tenant = account[s].tenant /\ a.status = "disabled"
  <2>1. \A w \in AccountRows : /\ [w EXCEPT !.status = "disabled"] \in AccountRows
                               /\ [w EXCEPT !.status = "disabled"].tenant = w.tenant
                               /\ [w EXCEPT !.status = "disabled"].status = "disabled"
    BY DEF AccountRows
  <2> QED
    BY <1>a, <1>3, <2>1
<1>5. a \in AccountRecords /\ a # S!NoAccount /\ account[s] # S!NoAccount
  BY <1>3, <1>4, RowFields DEF AccountRecords
<1>6. account' = [account EXCEPT ![s] = a]
  BY <1>1, <1>2, <1>a
<1>7. account' \in [Sellers -> AccountRecords]
      /\ \A u \in Sellers : account'[u] = IF u = s THEN a ELSE account[u]
  BY <1>2, <1>5, <1>6
<1>8. SellersDomains'
  BY <1>1, <1>7 DEF SellersInv, SellersDomains
<1>9. Quiet(NoTx)
  BY <1>1, <1>5, <1>7 DEF Quiet, Undisturbed
<1>10. HeldByAll'
  BY <1>1, <1>9, HeldByOthers
<1>11. KeysOwned(account', key')
  <2>1. \A u \in Keys : key[u] # S!NoKey =>
          (key[u].seller \in Sellers /\ account[key[u].seller] # S!NoAccount)
    BY RowFields DEF SellersInv, SellersDomains, KeysOwned
  <2> QED
    BY <1>1, <1>5, <1>7, <2>1 DEF KeysOwned
<1>12. Created(audit', account')
  <2>1. \A v \in SellerEvents : v.seller \in Sellers
    BY DEF SellerEvents
  <2>2. \A i \in 1..Len(audit) : audit[i] \in SellerEvents
    BY DEF SellersInv, SellersDomains
  <2>3. Created(audit, account)
    BY DEF SellersInv
  <2> QED
    BY <1>1, <1>5, <1>7, <2>1, <2>2, <2>3 DEF Created
<1>13. Steady
  BY <1>1, <1>4, <1>5, <1>7 DEF Steady
<1> QED
  BY <1>1, <1>8, <1>10, <1>11, <1>12, <1>13 DEF SellersInv

LEMMA ProfileDisabled ==
    ASSUME S!SellersAssumption, SellersInv, NEW s \in Sellers, S!DisableProfile(s)
    PROVE  SellersInv' /\ Steady
<1>1. /\ profile' = [profile EXCEPT ![s] = "disabled"]
      /\ UNCHANGED <<tenant, account, key, audit, lock, tx>> /\ NoTx \notin Txs
  BY DEF S!DisableProfile, S!SellersAssumption
<1>2. profile \in [Sellers -> S!Status] /\ "disabled" \in S!Status
  BY DEF SellersInv, SellersDomains, S!Status
<1>3. profile' \in [Sellers -> S!Status]
  BY <1>1, <1>2
<1>4. SellersDomains'
  BY <1>1, <1>3 DEF SellersInv, SellersDomains
<1>5. HeldByAll'
  BY <1>1 DEF SellersInv, HeldByAll
<1>6. Steady
  BY <1>1 DEF Steady
<1> QED
  BY <1>1, <1>4, <1>5, <1>6 DEF SellersInv

LEMMA SellersStart == S!Init => SellersInv
<1> SUFFICES ASSUME S!Init PROVE SellersInv
  OBVIOUS
<1>1. /\ tenant = [t \in Tenants |-> "absent"] /\ account = [s \in Sellers |-> S!NoAccount]
      /\ profile = [s \in Sellers |-> "absent"] /\ key = [k \in Keys |-> S!NoKey] /\ audit = <<>>
      /\ lock = [l \in LockRows |-> NoTx] /\ tx = [x \in Txs |-> [op |-> "none", status |-> 0]]
  BY DEF S!Init, S!Absent, S!Idle, LockRows
<1>2. "absent" \in S!Status /\ S!NoAccount \in AccountRecords /\ S!NoKey \in KeyRecords /\ NoTx \in Lockers
  BY DEF S!Status, S!Absent, AccountRecords, KeyRecords, Lockers
<1>i. PICK i : i = [op |-> "none", status |-> 0]
  OBVIOUS
<1>3. i \in TxRecords /\ i.op = "none"
  BY <1>i, TxMade DEF TxRecords
<1>4. SellersDomains
  <2>1. tx = [x \in Txs |-> i]
    BY <1>1, <1>i
  <2>2. tx \in [Txs -> TxRecords] /\ lock \in [LockRows -> Lockers]
    BY <1>1, <1>2, <1>3, <2>1
  <2>3. audit \in Seq(SellerEvents)
    BY <1>1
  <2>4. account \in [Sellers -> AccountRecords] /\ key \in [Keys -> KeyRecords]
    BY <1>1, <1>2
  <2>5. tenant \in [Tenants -> S!Status] /\ profile \in [Sellers -> S!Status]
    BY <1>1, <1>2
  <2> QED
    BY <2>2, <2>3, <2>4, <2>5 DEF SellersDomains
<1>5. HeldByAll
  <2>1. \A x \in Txs : tx[x] = i
    BY <1>1, <1>i
  <2> QED
    BY <1>3, <2>1 DEF HeldByAll, Held
<1>6. KeysOwned(account, key)
  BY <1>1 DEF KeysOwned
<1>7. Len(audit) = 0 /\ 1..0 = {}
  BY <1>1
<1>8. KeysTrue(audit, key)
  <2>1. \A k \in Keys : key[k] = S!NoKey /\ key[k].status # "revoked"
    BY <1>1, RowFields
  <2>2. \A k \in Keys : GivenIn(audit, k) = {} /\ RevokedIn(audit, k) = {}
    BY <1>7 DEF GivenIn, RevokedIn
  <2> QED
    BY <2>1, <2>2 DEF KeysTrue, KeyTrue
<1>9. Created(audit, account)
  BY <1>7 DEF Created
<1> QED
  BY <1>4, <1>5, <1>6, <1>8, <1>9 DEF SellersInv

LEMMA SellersStep ==
    ASSUME S!SellersAssumption, SellersInv, S!Next
    PROVE  SellersInv' /\ Steady
<1>1. ASSUME NEW x \in Txs, NEW s \in Sellers, S!CreateExisting(x, s) PROVE SellersInv' /\ Steady
  BY <1>1, OnlyAnswers DEF S!CreateExisting
<1>2. ASSUME NEW x \in Txs, S!FinishRead(x) PROVE SellersInv' /\ Steady
  <2>n. PICK n : n = IF S!AccountActive(tx[x].seller) THEN tx[x].found ELSE tx[x].missing
    OBVIOUS
  <2>1. S!Answer(x, n) /\ UNCHANGED S!Tables /\ tx[x].op = "read"
    BY <1>2, <2>n DEF S!FinishRead, S!At
  <2>2. tx[x] \in TxRecords
    BY DEF SellersInv, SellersDomains
  <2>3. n \in Nat
    BY <2>n, <2>1, <2>2, TxKinds, TxFields
  <2> QED
    BY <2>1, <2>3, OnlyAnswers
<1>3. ASSUME NEW x \in Txs, S!Rollback(x) PROVE SellersInv' /\ Steady
  BY <1>3, OnlyAnswers DEF S!Rollback
<1>4. ASSUME NEW x \in Txs, S!Create(x) PROVE SellersInv' /\ Steady
  BY <1>1, <1>4, CreateLocksTenant, CreateInserts, CreateCommits DEF S!Create
<1>5. ASSUME NEW x \in Txs, NEW s \in Sellers, S!IssueLockProfile(x, s) PROVE SellersInv' /\ Steady
  BY <1>5, IssueLocks
<1>6. ASSUME NEW x \in Txs, NEW s \in Sellers, NEW k \in Keys, S!RevokeLockKey(x, s, k)
      PROVE  SellersInv' /\ Steady
  BY <1>6, RevokeLocks
<1>7. ASSUME NEW x \in Txs, NEW k \in Keys, S!IssueCommit(x, k) PROVE SellersInv' /\ Steady
  BY <1>7, IssueCommits
<1>8. ASSUME NEW x \in Txs, S!RevokeCommit(x) PROVE SellersInv' /\ Steady
  BY <1>8, RevokeCommits
<1>9. ASSUME NEW x \in Txs, NEW c \in Config, S!BootstrapLockTenant(x, c) PROVE SellersInv' /\ Steady
  BY <1>9, BootstrapLocksTenant
<1>10. ASSUME NEW x \in Txs, S!BootstrapLockAccount(x) PROVE SellersInv' /\ Steady
  BY <1>10, BootstrapLocksAccount
<1>11. ASSUME NEW x \in Txs, S!BootstrapCommit(x) PROVE SellersInv' /\ Steady
  BY <1>11, BootstrapCommits
<1>12. ASSUME NEW t \in Tenants, S!DisableTenant(t) PROVE SellersInv' /\ Steady
  BY <1>12, TenantDisabled
<1>13. ASSUME NEW s \in Sellers, S!DisableAccount(s) \/ S!DisableProfile(s)
       PROVE  SellersInv' /\ Steady
  BY <1>13, AccountDisabled, ProfileDisabled
<1> QED
  BY <1>2, <1>3, <1>4, <1>5, <1>6, <1>7, <1>8, <1>9, <1>10, <1>11, <1>12, <1>13 DEF S!Next

LEMMA SellersStutter ==
    ASSUME SellersInv, UNCHANGED S!vars
    PROVE  SellersInv'
BY DEF S!vars, SellersInv, SellersDomains, HeldByAll

\* What the invariant says of the audit.
LEMMA InvAudited == SellersInv => SellersAudited
<1> SUFFICES ASSUME SellersInv PROVE SellersAudited
  OBVIOUS
<1>1. SellersDomains
  BY DEF SellersInv
<1>2. S!SellersTypeOK
  <2>1. tenant \in [Tenants -> S!Status] /\ profile \in [Sellers -> S!Status]
    BY <1>1 DEF SellersDomains
  <2>2. \A s \in Sellers : account[s] = S!NoAccount \/ account[s] \in AccountRows
    BY <1>1 DEF SellersDomains, AccountRecords
  <2>3. \A k \in Keys : key[k] = S!NoKey \/ key[k] \in KeyRows
    BY <1>1 DEF SellersDomains, KeyRecords
  <2>4. \A k \in Keys : key[k] # S!NoKey => account[key[k].seller] # S!NoAccount
    BY DEF SellersInv, KeysOwned
  <2>5. lock \in [Tenants \cup Sellers \cup Keys -> Txs \cup {NoTx}]
    BY <1>1 DEF SellersDomains, LockRows, Lockers
  <2> QED
    BY <2>1, <2>2, <2>3, <2>4, <2>5 DEF S!SellersTypeOK, AccountRows, KeyRows
<1>3. DOMAIN audit = 1..Len(audit) /\ \A i \in 1..Len(audit) : audit[i] \in SellerEvents
  BY <1>1 DEF SellersDomains
<1>4. S!CreatedOnce
  BY <1>3 DEF SellersInv, Created, S!CreatedOnce
<1>5. S!KeysAudited
  <2>1. \A v \in SellerEvents : v.action \in Acts
    BY DEF SellerEvents
  <2>2. ASSUME NEW k \in Keys \ S!ConfigKeys
        PROVE  /\ S!EventsAt("seller_create", k) \cup S!EventsAt("seller_api_key_issue", k)
                     = GivenIn(audit, k)
               /\ S!EventsAt("seller_api_key_revoke", k) = RevokedIn(audit, k)
    BY <1>3, <2>1 DEF S!EventsAt, GivenIn, RevokedIn, Revocation, Acts
  <2>3. S!Cardinality({}) = 0 /\ \A i : S!Cardinality({i}) = 1
    BY FS_EmptySet, FS_Singleton DEF S!Cardinality, Cardinality
  <2>4. ASSUME NEW k \in Keys \ S!ConfigKeys
        PROVE  /\ S!Cardinality(GivenIn(audit, k)) = IF key[k] = S!NoKey THEN 0 ELSE 1
               /\ S!Cardinality(RevokedIn(audit, k)) = IF key[k].status = "revoked" THEN 1 ELSE 0
    <3>1. KeyTrue(audit, key[k], k)
      BY DEF SellersInv, KeysTrue
    <3> QED
      BY <2>3, <3>1 DEF KeyTrue
  <2> QED
    BY <2>2, <2>4 DEF S!KeysAudited
<1> QED
  BY <1>2, <1>4, <1>5 DEF SellersAudited, S!SellersAudited

(***************************************************************************)
(* Accounts and keys are what the audit says they are, however many        *)
(* operators and starting processes create, issue, revoke and bootstrap at *)
(* the same time: the row locks of create_seller_account,                  *)
(* issue_api_key_with_audit, revoke and bootstrap_seller_account suffice.  *)
(***************************************************************************)
THEOREM SellersAreAudited == ASSUME S!SellersAssumption PROVE S!Spec => []SellersAudited
<1>1. SellersInv /\ [S!Next]_(S!vars) => SellersInv'
  BY SellersStep, SellersStutter
<1> QED
  BY <1>1, SellersStart, InvAudited, PTL DEF S!Spec

\* A profile belongs to an account.
ProfilesOwned == \A s \in Sellers : profile[s] # "absent" => account[s] # S!NoAccount

\* How profiles and keys change: with their account, by hand, or at a start.
Revivals ==
    /\ \A s \in Sellers :
          \/ profile'[s] = profile[s]
          \/ profile[s] = "active" /\ profile'[s] = "disabled"
          \/ account[s] = S!NoAccount /\ account'[s] # S!NoAccount
          \/ S!Bootstraps(s) /\ account'[s] # S!NoAccount
    /\ \A k \in Keys :
          key[k].status = "revoked" /\ key'[k].status # "revoked" =>
              k \in S!ConfigKeys /\ S!Bootstraps(key[k].seller)

LEMMA SellersRevive ==
    ASSUME S!SellersAssumption, SellersInv, S!Next
    PROVE  Revivals
<1>1. TablesTyped /\ tx \in [Txs -> TxRecords] /\ S!NoKey.status = "absent"
  BY RowFields DEF SellersInv, SellersDomains, TablesTyped
<1>2. CASE UNCHANGED <<profile, key>>
  BY <1>2 DEF Revivals
<1>3. ASSUME NEW x \in Txs, NEW k \in Keys, S!CreateCommit(x, k) PROVE Revivals
  <2>s. PICK s : s = tx[x].seller
    OBVIOUS
  <2>1. /\ profile' = [profile EXCEPT ![s] = "active"] /\ key[k] = S!NoKey
        /\ key' = [key EXCEPT ![k] = [seller |-> s, status |-> "active"]]
        /\ account' = [account EXCEPT ![s] = [tenant |-> tx[x].tenant, status |-> "active"]]
        /\ tx[x].op = "created"
    BY <1>3, <2>s DEF S!CreateCommit, S!At, S!WithProfile, S!WithKey
  <2>2. tx[x] \in CreateTx /\ Held(tx[x], x, tenant, account, key, lock)
    BY <1>1, <2>1, TxKinds DEF SellersInv, HeldByAll
  <2>3. s \in Sellers /\ account[s] = S!NoAccount /\ tx[x].tenant \in Tenants
    BY <2>1, <2>2, <2>s, TxFields DEF Held
  <2>4. account'[s] # S!NoAccount
    BY <1>1, <2>1, <2>3, RowFields DEF TablesTyped
  <2> QED
    BY <1>1, <2>1, <2>3, <2>4 DEF TablesTyped, Revivals
<1>4. ASSUME NEW x \in Txs, NEW k \in Keys, S!IssueCommit(x, k) PROVE Revivals
  <2>1. key[k] = S!NoKey /\ profile' = profile /\ \E b : key' = [key EXCEPT ![k] = b]
    BY <1>4 DEF S!IssueCommit, S!WithKey
  <2> QED
    BY <1>1, <2>1 DEF TablesTyped, Revivals
<1>5. ASSUME NEW x \in Txs, S!RevokeCommit(x) PROVE Revivals
  <2>1. profile' = profile /\ key' = [key EXCEPT ![tx[x].key].status = "revoked"] /\ tx[x].op = "revoke"
    BY <1>5 DEF S!RevokeCommit, S!At
  <2>2. tx[x].key \in Keys
    BY <1>1, <2>1, TxKinds, TxFields
  <2>3. \A u \in Keys : u # tx[x].key => key'[u] = key[u]
    BY <1>1, <2>1, <2>2 DEF TablesTyped
  <2>4. key[tx[x].key] \in KeyRecords /\ key'[tx[x].key] = [key[tx[x].key] EXCEPT !.status = "revoked"]
    BY <1>1, <2>1, <2>2 DEF TablesTyped
  <2>5. key'[tx[x].key].status = "revoked"
    BY <2>4 DEF KeyRecords, KeyRows, S!NoKey
  <2> QED
    BY <2>1, <2>3, <2>5 DEF Revivals
<1>6. ASSUME NEW x \in Txs, S!BootstrapCommit(x) PROVE Revivals
  <2>c. PICK c : c = tx[x].config
    OBVIOUS
  <2>1. CASE S!KeyTaken(c)
    BY <1>2, <1>6, <2>1, <2>c DEF S!BootstrapCommit, S!Tables
  <2>2. CASE ~S!KeyTaken(c)
    <3>r. PICK r : r = [op |-> "read", seller |-> c.seller, found |-> 200, missing |-> 500]
      OBVIOUS
    <3>1. /\ tx[x].op = "upsert" /\ tx' = [tx EXCEPT ![x] = r]
          /\ profile' = [profile EXCEPT ![c.seller] = "active"]
          /\ key' = [key EXCEPT ![c.key] = [seller |-> c.seller, status |-> "active"]]
          /\ account' = [account EXCEPT ![c.seller] = S!Upserted(c)]
      BY <1>6, <2>2, <2>c, <3>r DEF S!BootstrapCommit, S!At, S!WithProfile, S!WithKey, S!ReadBack
    <3>2. c \in Config
      BY <1>1, <3>1, <2>c, TxKinds, TxFields
    <3>3. c.tenant \in Tenants /\ c.seller \in Sellers /\ c.key \in Keys /\ c.key \in S!ConfigKeys
      BY <3>2, ConfigFields
    <3>4. S!Upserted(c) # S!NoAccount
      <4>1. [tenant |-> c.tenant, status |-> "active"] # S!NoAccount
        BY <3>3, RowFields
      <4> QED
        BY <4>1, RowFields DEF S!Upserted, S!Absent
    <3>5. account'[c.seller] # S!NoAccount
      BY <1>1, <3>1, <3>3, <3>4 DEF TablesTyped
    <3>6. r.op = "read" /\ tx'[x] = r
      BY <1>1, <3>1, <3>r, TxMadeFields
    <3>7. S!Bootstraps(c.seller)
      BY <2>c, <3>1, <3>6 DEF S!Bootstraps, S!At
    <3>8. key[c.key].status = "revoked" => key[c.key].seller = c.seller
      BY <2>2 DEF S!KeyTaken, S!Absent
    <3>9. \A u \in Sellers : u # c.seller => profile'[u] = profile[u]
      BY <1>1, <3>1, <3>3 DEF TablesTyped
    <3>10. \A u \in Keys : u # c.key => key'[u] = key[u]
      BY <1>1, <3>1, <3>3 DEF TablesTyped
    <3> QED
      BY <3>3, <3>5, <3>7, <3>8, <3>9, <3>10 DEF Revivals
  <2> QED
    BY <2>1, <2>2
<1>7. ASSUME NEW s \in Sellers, S!DisableProfile(s) PROVE Revivals
  <2>1. profile[s] = "active" /\ profile' = [profile EXCEPT ![s] = "disabled"] /\ key' = key
    BY <1>7 DEF S!DisableProfile
  <2> QED
    BY <1>1, <2>1 DEF TablesTyped, Revivals
<1>8. ASSUME NEW x \in Txs, S!Create(x) PROVE Revivals
  <2>1. CASE \E k \in Keys : S!CreateCommit(x, k)
    BY <1>3, <2>1
  <2>2. CASE ~\E k \in Keys : S!CreateCommit(x, k)
    BY <1>2, <1>8, <2>2 DEF S!Create, S!CreateExisting, S!CreateLockTenant, S!CreateInsert, S!Tables
  <2> QED
    BY <2>1, <2>2
<1>9. ASSUME NEW x \in Txs, NEW s \in Sellers,
             S!IssueLockProfile(x, s) \/ \E k \in Keys : S!RevokeLockKey(x, s, k)
      PROVE  Revivals
  BY <1>2, <1>9 DEF S!IssueLockProfile, S!RevokeLockKey, S!Tables
<1>10. ASSUME NEW x \in Txs,
              \/ \E c \in Config : S!BootstrapLockTenant(x, c)
              \/ S!BootstrapLockAccount(x) \/ S!FinishRead(x) \/ S!Rollback(x)
       PROVE  Revivals
  BY <1>2, <1>10 DEF S!BootstrapLockTenant, S!BootstrapLockAccount, S!FinishRead, S!Rollback, S!Tables
<1>11. CASE \/ \E t \in Tenants : S!DisableTenant(t)
            \/ \E s \in Sellers : S!DisableAccount(s)
  BY <1>2, <1>11 DEF S!DisableTenant, S!DisableAccount
<1> QED
  BY <1>4, <1>5, <1>6, <1>7, <1>8, <1>9, <1>10, <1>11 DEF S!Next

(***************************************************************************)
(* Whatever processes are started with, no key moves to another account    *)
(* and no account to another tenant, disabled accounts and tenants stay    *)
(* disabled, and a disabled profile or a revoked key comes back only when  *)
(* a process starts that is configured with it (bootstrap_seller_account). *)
(***************************************************************************)
THEOREM TenancyIsFixed == ASSUME S!SellersAssumption PROVE S!Spec => TenancyFixed
<1> DEFINE Belongs ==
        /\ \A k \in Keys : key[k] # S!NoKey => key'[k] # S!NoKey /\ key'[k].seller = key[k].seller
        /\ \A s \in Sellers : account[s] # S!NoAccount =>
              account'[s] # S!NoAccount /\ account'[s].tenant = account[s].tenant
<1> DEFINE Stays ==
        /\ \A t \in Tenants : tenant[t] = "disabled" => tenant'[t] = "disabled"
        /\ \A s \in Sellers : account[s].status = "disabled" => account'[s].status = "disabled"
<1> DEFINE Revives ==
        /\ \A s \in Sellers :
              profile[s] = "disabled" /\ profile'[s] # "disabled" => S!Bootstraps(s)
        /\ \A k \in Keys :
              key[k].status = "revoked" /\ key'[k].status # "revoked" =>
                  k \in S!ConfigKeys /\ S!Bootstraps(key[k].seller)
<1>1. S!Init => SellersInv /\ ProfilesOwned
  BY SellersStart DEF S!Init, ProfilesOwned, S!Absent
<1>2. ASSUME SellersInv, ProfilesOwned, [S!Next]_(S!vars) PROVE SellersInv' /\ ProfilesOwned'
  <2>1. CASE UNCHANGED S!vars
    BY <1>2, <2>1, SellersStutter DEF S!vars, ProfilesOwned
  <2>2. CASE S!Next
    <3>1. Revivals /\ SellersInv' /\ Steady
      BY <1>2, <2>2, SellersRevive, SellersStep
    <3>2. ASSUME NEW s \in Sellers, profile'[s] # "absent" PROVE account'[s] # S!NoAccount
      <4>1. account[s] # S!NoAccount => account'[s] # S!NoAccount
        BY <3>1 DEF Steady
      <4>2. profile[s] # "absent" => account[s] # S!NoAccount
        BY <1>2 DEF ProfilesOwned
      <4> QED
        BY <3>1, <3>2, <4>1, <4>2 DEF Revivals
    <3> QED
      BY <3>1, <3>2 DEF ProfilesOwned
  <2> QED
    BY <1>2, <2>1, <2>2
<1>3. ASSUME SellersInv, ProfilesOwned, [S!Next]_(S!vars)
      PROVE  [Belongs]_(S!vars) /\ [Stays]_(S!vars) /\ [Revives]_(S!vars)
  <2>1. CASE S!Next
    <3>1. Revivals /\ Steady
      BY <1>3, <2>1, SellersRevive, SellersStep
    <3>2. \A s \in Sellers : profile[s] = "disabled" => account[s] # S!NoAccount
      BY <1>3 DEF ProfilesOwned
    <3> QED
      BY <3>1, <3>2 DEF Revivals, Steady
  <2> QED
    BY <1>3, <2>1
<1>4. S!Spec => [][Belongs]_(S!vars) /\ [][Stays]_(S!vars) /\ [][Revives]_(S!vars)
  BY <1>1, <1>2, <1>3, PTL DEF S!Spec
<1> QED
  BY <1>4, PTL
  DEF TenancyFixed, S!TenancyFixed, S!ScopeFixed, S!DisabledStays, S!OnlyStartsRevive
=============================================================================
