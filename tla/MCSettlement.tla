---------------------------- MODULE MCSettlement ----------------------------
(***************************************************************************)
(* Small instances of Settlement for TLC.                                  *)
(***************************************************************************)
EXTENDS Settlement, TLC

\* Every reconciler runs under the same owner name.
SharedOwner == [w \in Workers |-> "hosted-reconciler"]

Symmetry ==
    Permutations(Payments) \cup Permutations(Requests) \cup Permutations(Workers)

-----------------------------------------------------------------------------
\* everybody works on one record ...
OneRecord ==
    Cardinality({p \in Payments :
                    status[p] # "absent" \/ \E r \in Requests : request[r].pay = p}) <= 1

\* ... or one reconciler on a batch of what the requests have left, when no
\* client has heard two things of a payment
OneRun ==
    /\ \A p \in Payments : owner[p] \notin Operators /\ Cardinality(told[p]) <= 1
    /\ Cardinality({w \in Workers : worker[w].pc # "idle"}) <= 1
    /\ (\E w \in Workers : worker[w].pc # "idle") => \A r \in Requests : request[r].pc = "idle"

\* races for a record, and batches
FenceNext == Next /\ (OneRecord \/ OneRun)'

FenceSpec == Init /\ [][FenceNext]_vars
=============================================================================
