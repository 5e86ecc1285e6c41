------------------------- MODULE SettlementContract -------------------------
(***************************************************************************)
(* What settlement promises, whatever the engine, the reconciler and the   *)
(* operators do to get there: a payment is handed to the provider at most  *)
(* once; it is concluded at most once, as settled only when the money      *)
(* moved, as failed only when it never will, or else by giving it to a     *)
(* human; and a client hears settled or failed only of such a payment.     *)
(***************************************************************************)
EXTENDS Naturals

CONSTANT Payments

VARIABLES outcome, handed, money, promised

vars == <<outcome, handed, money, promised>>

Init ==
    /\ outcome = [p \in Payments |-> "new"]
    /\ handed = [p \in Payments |-> 0]
    /\ money = [p \in Payments |-> "none"]
    /\ promised = [p \in Payments |-> {}]

Accept(p) ==
    /\ outcome[p] = "new"
    /\ outcome' = [outcome EXCEPT ![p] = "open"]
    /\ UNCHANGED <<handed, money, promised>>

\* The provider may be handed a payment late, when a human already has it,
\* but never one that is concluded.
HandOver(p) ==
    /\ outcome[p] \in {"open", "review"}
    /\ handed[p] = 0
    /\ handed' = [handed EXCEPT ![p] = 1]
    /\ money' = [money EXCEPT ![p] = "called"]
    /\ UNCHANGED <<outcome, promised>>

MoneyDecided(p) ==
    /\ money[p] = "called"
    /\ \E m \in {"moved", "dead"} : money' = [money EXCEPT ![p] = m]
    /\ UNCHANGED <<outcome, handed, promised>>

\* The outcomes the provider's state permits.
Permitted(m) ==
    CASE m = "moved" -> {"settled", "review"}
      [] m = "dead" -> {"failed", "review"}
      [] OTHER -> {"review"}

\* Concluding a payment, with or without telling the client so in the same
\* step.
Conclude(p) ==
    /\ outcome[p] = "open"
    /\ \E o \in Permitted(money[p]) :
          /\ outcome' = [outcome EXCEPT ![p] = o]
          /\ \/ UNCHANGED promised
             \/ /\ o # "review"
                /\ promised' = [promised EXCEPT ![p] = @ \cup {o}]
    /\ UNCHANGED <<handed, money>>

Promise(p) ==
    /\ outcome[p] \in {"settled", "failed"}
    /\ promised' = [promised EXCEPT ![p] = @ \cup {outcome[p]}]
    /\ UNCHANGED <<outcome, handed, money>>

Next ==
    \E p \in Payments :
        Accept(p) \/ HandOver(p) \/ MoneyDecided(p) \/ Conclude(p) \/ Promise(p)

Spec == Init /\ [][Next]_vars
=============================================================================
