---------------------------- MODULE ControlPlane ----------------------------
(***************************************************************************)
(* What operators keep in the control plane: the pauses, and the seller    *)
(* accounts and their keys, each with its audit.  They share no state, so  *)
(* each takes its steps whatever the other does, and what is said of one   *)
(* is said here of its instance.                                           *)
(***************************************************************************)
CONSTANTS
    Operators, Targets, NoOperator, MaxEvents,                          \* Pauses
    Txs, Tenants, Sellers, Keys, Config, NoTx, MaxAudit                 \* Sellers

VARIABLES
    durable, row, rowLock, pauses, op,                                  \* Pauses
    tenant, account, profile, key, audit, lock, tx                      \* Sellers

P == INSTANCE Pauses WITH Nobody <- NoOperator, lock <- rowLock, audit <- pauses
S == INSTANCE Sellers WITH Nobody <- NoTx

pausesVars == <<durable, row, rowLock, pauses, op>>
sellersVars == <<tenant, account, profile, key, audit, lock, tx>>

-----------------------------------------------------------------------------
\* Pauses: the audit of a target is a chain that ends at what is in force.
AuditChain == P!PausesTypeOK /\ P!AuditChain

\* Sellers: accounts and keys are what the audit says they are.
SellersAudited == S!SellersAudited

\* Sellers: nothing changes hands, accounts and tenants stay disabled, and only
\* the start of a process brings back the profiles and keys it is configured with.
TenancyFixed == S!TenancyFixed
=============================================================================
