-------------------------------- MODULE Pauses --------------------------------
(***************************************************************************)
(* Pausing and resuming providers, networks or everything: the operator's  *)
(* route set_pause of hosted/control_plane.py and the state behind it, in  *)
(* memory or in Postgres, where several processes write it.                *)
(*                                                                         *)
(* A pause and its audit event are written in one transaction, which first *)
(* makes sure that the row of its target exists, locks it and reads the    *)
(* value the event will call "before".                                     *)
(***************************************************************************)
EXTENDS Integers, Sequences, SequencesExt, FiniteSets

CONSTANTS
    Operators,  \* operators' requests that may be under way at the same time
    Targets,    \* what may be paused: everything, a provider, a network
    Nobody,     \* holds the lock of a row that is not locked
    MaxEvents   \* bound: audit events written

PausesAssumption ==
    /\ Nobody \notin Operators
    /\ MaxEvents \in Nat

VARIABLES
    durable,    \* TRUE: the state in Postgres, FALSE: the one in memory
    row,        \* row[t]: what is committed for t, or that there is no row yet
    lock,       \* lock[t]: who has locked the row of t
    audit,      \* the audit events, in the order of their ids
    op          \* op[o]: the request of o, and what its transaction has read

vars == <<durable, row, lock, audit, op>>

Absent == "absent"
RowOf(pause) == IF pause THEN "paused" ELSE "open"

Idle == [pc |-> "idle", status |-> 0]

Init ==
    /\ durable \in BOOLEAN
    /\ row = [t \in Targets |-> Absent]
    /\ lock = [t \in Targets |-> Nobody]
    /\ audit = <<>>
    /\ op = [o \in Operators |-> Idle]

At(o, pc) == op[o].pc = pc

\* pause_state: the rows that say so
Paused(t) == row[t] = "paused"

Event(t, before, after) == [target |-> t, before |-> before, after |-> after]

Answer(o, status) == op' = [op EXCEPT ![o] = [pc |-> "idle", status |-> status]]

\* a provider that is not registered, no target or a malformed one are refused
\* before anything is written
Refuse(o) ==
    /\ At(o, "idle")
    /\ Answer(o, 400)
    /\ UNCHANGED <<row, lock, audit>>

\* the lock in memory covers the whole operation
SetPauseInMemory(o, t, pause) ==
    /\ ~durable /\ At(o, "idle") /\ Len(audit) < MaxEvents
    /\ row' = [row EXCEPT ![t] = RowOf(pause)]
    /\ audit' = Append(audit, Event(t, Paused(t), pause))
    /\ Answer(o, 200)
    /\ UNCHANGED lock

\* before is read without a lock on the row
MutantLockRow(o, t, pause) ==
    /\ durable /\ At(o, "idle") /\ Len(audit) < MaxEvents
    /\ op' = [op EXCEPT ![o] = [pc |-> "write", target |-> t, pause |-> pause, before |-> Paused(t)]]
    /\ UNCHANGED <<row, lock, audit>>

(***************************************************************************)
(* INSERT ... ON CONFLICT DO NOTHING and SELECT ... FOR UPDATE: both wait  *)
(* for a transaction that has inserted or locked the row, and then read    *)
(* what it committed.                                                      *)
(***************************************************************************)
LockRow(o, t, pause) ==
    /\ durable /\ At(o, "idle") /\ Len(audit) < MaxEvents
    /\ lock[t] = Nobody
    /\ lock' = [lock EXCEPT ![t] = o]
    /\ op' = [op EXCEPT ![o] = [pc |-> "write", target |-> t, pause |-> pause, before |-> Paused(t)]]
    /\ UNCHANGED <<row, audit>>

Unlocked(o) == [t \in Targets |-> IF lock[t] = o THEN Nobody ELSE lock[t]]

\* the upsert of the row and the insert of the event, committed together
Write(o) ==
    /\ At(o, "write")
    /\ row' = [row EXCEPT ![op[o].target] = RowOf(op[o].pause)]
    /\ audit' = Append(audit, Event(op[o].target, op[o].before, op[o].pause))
    /\ lock' = Unlocked(o)
    /\ Answer(o, 200)

\* an error or a lost connection: the transaction is rolled back
Rollback(o) ==
    /\ At(o, "write")
    /\ lock' = Unlocked(o)
    /\ Answer(o, 500)
    /\ UNCHANGED <<row, audit>>

Next ==
    /\ \E o \in Operators :
          \/ \E t \in Targets, pause \in BOOLEAN : SetPauseInMemory(o, t, pause) \/ LockRow(o, t, pause)
          \/ Refuse(o) \/ Write(o) \/ Rollback(o)
    /\ UNCHANGED durable

Spec == Init /\ [][Next]_vars

-----------------------------------------------------------------------------
\* Domains of the state of the pauses.
PausesTypeOK ==
    /\ row \in [Targets -> {Absent, "paused", "open"}]
    /\ lock \in [Targets -> Operators \cup {Nobody}]
    /\ audit \in Seq([target: Targets, before: BOOLEAN, after: BOOLEAN])
    /\ \A o \in Operators :
          \/ op[o] \in [pc: {"idle"}, status: {0, 200, 400, 500}]
          \/ op[o] \in [pc: {"write"}, target: Targets, pause: BOOLEAN, before: BOOLEAN]

\* what the first i events leave of t: the last of them that is of t
Left(t, i) ==
    \E j \in 1..i :
        /\ audit[j].target = t /\ audit[j].after
        /\ \A k \in (j + 1)..i : audit[k].target # t

(***************************************************************************)
(* The audit of a target is a chain: its first event starts from "not      *)
(* paused", each next one from what the one before it left, and the last   *)
(* one left what is in force, although operators write at the same time,   *)
(* roll back and never see each other's transactions.                      *)
(***************************************************************************)
AuditChain ==
    \A t \in Targets :
        /\ \A i \in DOMAIN audit : audit[i].target = t => (audit[i].before <=> Left(t, i - 1))
        /\ Paused(t) <=> Left(t, Len(audit))
=============================================================================
