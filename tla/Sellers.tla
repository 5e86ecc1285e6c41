------------------------------- MODULE Sellers -------------------------------
(***************************************************************************)
(* Seller accounts, payment profiles and API keys: the operator's routes   *)
(* of hosted/control_plane.py and PostgresSellerAccountResolver.           *)
(*                                                                         *)
(* Operators of several processes create accounts, issue and revoke keys,  *)
(* and every start of a process bootstraps the accounts of its             *)
(* configuration.  The state is what is committed; a transaction is a step *)
(* for each row lock it takes and a last one that commits everything it    *)
(* writes, or rolls back.  Accounts, profiles and tenants are disabled by  *)
(* hand in the database.                                                   *)
(***************************************************************************)
EXTENDS Integers, FiniteSets, Sequences

CONSTANTS
    Txs,        \* transactions that may be open at the same time
    Tenants,    \* tenants
    Sellers,    \* seller account ids
    Keys,       \* API keys; those the operators are given are fresh
    Config,     \* the bootstrapped accounts: [seller, tenant, key] records
    Nobody,     \* holds the lock of a row that is not locked
    MaxAudit    \* bound: audit events written

SellersAssumption ==
    /\ Config \subseteq [seller: Sellers, tenant: Tenants, key: Keys]
    /\ Nobody \notin Txs
    /\ MaxAudit \in Nat

VARIABLES
    tenant,     \* tenant[t]: its status
    account,    \* account[s]: its tenant and its status
    profile,    \* profile[s]: the status of the account's default profile
    key,        \* key[k]: its account and its status
    audit,      \* the audit events, in the order of their ids
    lock,       \* lock[r]: which transaction has locked row r
    tx          \* tx[x]: the open transaction x, and the last answer of its route

vars == <<tenant, account, profile, key, audit, lock, tx>>

Absent == "absent"
Status == {Absent, "active", "disabled"}
NoAccount == [status |-> Absent]
NoKey == [status |-> Absent]
Idle == [op |-> "none", status |-> 0]

ConfigKeys == {c.key : c \in Config}

Init ==
    /\ tenant = [t \in Tenants |-> Absent]
    /\ account = [s \in Sellers |-> NoAccount]
    /\ profile = [s \in Sellers |-> Absent]
    /\ key = [k \in Keys |-> NoKey]
    /\ audit = <<>>
    /\ lock = [r \in Tenants \cup Sellers \cup Keys |-> Nobody]
    /\ tx = [x \in Txs |-> Idle]

-----------------------------------------------------------------------------
Tables == <<tenant, account, profile, key, audit>>

At(x, op) == tx[x].op = op

Free(r) == lock[r] = Nobody

Released(x) == [r \in DOMAIN lock |-> IF lock[r] = x THEN Nobody ELSE lock[r]]

Answer(x, status) ==
    /\ tx' = [tx EXCEPT ![x] = [op |-> "none", status |-> status]]
    /\ lock' = Released(x)

\* only an active tenant has accounts; one that is absent is inserted
TenantUsable(t) == tenant[t] # "disabled"

\* get_seller_account
AccountActive(s) == account[s].status = "active" /\ tenant[account[s].tenant] = "active"

\* _resolve_key: every row on the way from the key to its tenant is active
Resolves(k) ==
    /\ key[k].status = "active"
    /\ profile[key[k].seller] = "active"
    /\ AccountActive(key[k].seller)

\* _upsert_payment_profile: a profile that was disabled is active again
WithProfile(s) == [profile EXCEPT ![s] = "active"]

\* _insert_seller_api_key_row
WithKey(k, s) == [key EXCEPT ![k] = [seller |-> s, status |-> "active"]]

\* _insert_seller_audit_event
Event(action, s, k) == [action |-> action, seller |-> s, key |-> k]

Log(action, s, k) == audit' = Append(audit, Event(action, s, k))

-----------------------------------------------------------------------------
(***************************************************************************)
(* create_seller_account.  The route looks for the account first.  The     *)
(* transaction upserts and locks the tenant, which serialises the creators *)
(* of one tenant; creators of two tenants meet at the account's primary    *)
(* key, where the second one waits for the first.                          *)
(***************************************************************************)
CreateExisting(x, s) ==
    /\ At(x, "none") /\ AccountActive(s)
    /\ Answer(x, 409)
    /\ UNCHANGED Tables

CreateLockTenant(x, t, s) ==
    /\ At(x, "none") /\ ~AccountActive(s) /\ Free(t)
    /\ IF TenantUsable(t)
       THEN /\ Len(audit) < MaxAudit
            /\ tx' = [tx EXCEPT ![x] = [op |-> "create", tenant |-> t, seller |-> s]]
            /\ lock' = [lock EXCEPT ![t] = x]
       ELSE Answer(x, 400)
    /\ UNCHANGED Tables

\* INSERT without a conflict clause over rows that only the SELECT has looked at
MutantCreateInsert(x) ==
    /\ At(x, "create")
    /\ IF account[tx[x].seller].status = Absent
       THEN tx' = [tx EXCEPT ![x].op = "created"] /\ UNCHANGED lock
       ELSE Answer(x, 409)
    /\ UNCHANGED Tables

\* INSERT INTO hosted_seller_accounts ... ON CONFLICT (id) DO NOTHING
CreateInsert(x) ==
    /\ At(x, "create") /\ Free(tx[x].seller)
    /\ IF account[tx[x].seller].status = Absent
       THEN /\ tx' = [tx EXCEPT ![x].op = "created"]
            /\ lock' = [lock EXCEPT ![tx[x].seller] = x]
       ELSE Answer(x, 409)
    /\ UNCHANGED Tables

\* after the commit the account is read back
ReadBack(x, s, found, missing) ==
    /\ tx' = [tx EXCEPT ![x] = [op |-> "read", seller |-> s, found |-> found, missing |-> missing]]
    /\ lock' = Released(x)

\* an account that is not active by then is a failure of a committed transaction
FinishRead(x) ==
    /\ At(x, "read")
    /\ Answer(x, IF AccountActive(tx[x].seller) THEN tx[x].found ELSE tx[x].missing)
    /\ UNCHANGED Tables

\* the account, its default profile, its first key and the event, together
CreateCommit(x, k) ==
    /\ At(x, "created") /\ key[k] = NoKey /\ k \notin ConfigKeys
    /\ tenant' = [tenant EXCEPT ![tx[x].tenant] = "active"]
    /\ account' = [account EXCEPT ![tx[x].seller] = [tenant |-> tx[x].tenant, status |-> "active"]]
    /\ profile' = WithProfile(tx[x].seller)
    /\ key' = WithKey(k, tx[x].seller)
    /\ Log("seller_create", tx[x].seller, k)
    /\ ReadBack(x, tx[x].seller, 201, 503)

-----------------------------------------------------------------------------
\* issue_api_key_with_audit: the profile row is locked, the rows above it not
IssueLockProfile(x, s) ==
    /\ At(x, "none") /\ Free(s)
    /\ IF profile[s] = "active" /\ AccountActive(s)
       THEN /\ Len(audit) < MaxAudit
            /\ tx' = [tx EXCEPT ![x] = [op |-> "issue", seller |-> s]]
            /\ lock' = [lock EXCEPT ![s] = x]
       ELSE Answer(x, 400)
    /\ UNCHANGED Tables

IssueCommit(x, k) ==
    /\ At(x, "issue") /\ key[k] = NoKey /\ k \notin ConfigKeys
    /\ key' = WithKey(k, tx[x].seller)
    /\ Log("seller_api_key_issue", tx[x].seller, k)
    /\ Answer(x, 201)
    /\ UNCHANGED <<tenant, account, profile>>

\* UPDATE hosted_seller_api_keys ... WHERE status = 'active': who waits for the
\* row finds what the other has left, and may find nothing to revoke
RevokeLockKey(x, s, k) ==
    /\ At(x, "none") /\ Free(k)
    /\ IF key[k].status = "active" /\ key[k].seller = s
       THEN /\ Len(audit) < MaxAudit
            /\ tx' = [tx EXCEPT ![x] = [op |-> "revoke", seller |-> s, key |-> k]]
            /\ lock' = [lock EXCEPT ![k] = x]
       ELSE Answer(x, 404)
    /\ UNCHANGED Tables

RevokeCommit(x) ==
    /\ At(x, "revoke")
    /\ key' = [key EXCEPT ![tx[x].key].status = "revoked"]
    /\ Log("seller_api_key_revoke", tx[x].seller, tx[x].key)
    /\ Answer(x, 200)
    /\ UNCHANGED <<tenant, account, profile>>

-----------------------------------------------------------------------------
(***************************************************************************)
(* bootstrap_seller_account, at the start of a process: the tenant is      *)
(* locked, an active or absent account upserted, its profile and its keys  *)
(* made active.  A key of another account stops it, and so does an account *)
(* that is not active, the latter after the commit.                        *)
(***************************************************************************)
BootstrapLockTenant(x, c) ==
    /\ At(x, "none") /\ Free(c.tenant)
    /\ IF TenantUsable(c.tenant)
       THEN /\ tx' = [tx EXCEPT ![x] = [op |-> "bootstrap", config |-> c]]
            /\ lock' = [lock EXCEPT ![c.tenant] = x]
       ELSE Answer(x, 500)
    /\ UNCHANGED Tables

BootstrapLockAccount(x) ==
    /\ At(x, "bootstrap") /\ Free(tx[x].config.seller)
    /\ tx' = [tx EXCEPT ![x].op = "upsert"]
    /\ lock' = [lock EXCEPT ![tx[x].config.seller] = x]
    /\ UNCHANGED Tables

\* ON CONFLICT DO UPDATE of the name and the environment, the tenant stays
Upserted(c) ==
    IF account[c.seller].status = Absent THEN [tenant |-> c.tenant, status |-> "active"]
    ELSE account[c.seller]

\* a key that is configured for the account is moved to it
MutantKeyTaken(c) == FALSE

KeyTaken(c) == key[c.key].status # Absent /\ key[c.key].seller # c.seller

BootstrapCommit(x) ==
    LET c == tx[x].config
    IN  /\ At(x, "upsert") /\ Free(c.key)
        /\ IF KeyTaken(c)
           THEN Answer(x, 500) /\ UNCHANGED Tables
           ELSE /\ tenant' = [tenant EXCEPT ![c.tenant] = "active"]
                /\ account' = [account EXCEPT ![c.seller] = Upserted(c)]
                /\ profile' = WithProfile(c.seller)
                /\ key' = WithKey(c.key, c.seller)
                /\ UNCHANGED audit
                /\ ReadBack(x, c.seller, 200, 500)

-----------------------------------------------------------------------------
\* a statement fails, or the process or its connection is lost
Rollback(x) ==
    /\ tx[x].op \notin {"none", "read"}
    /\ Answer(x, 503)
    /\ UNCHANGED Tables

\* by hand, in the database
DisableTenant(t) ==
    /\ Free(t) /\ tenant[t] = "active"
    /\ tenant' = [tenant EXCEPT ![t] = "disabled"]
    /\ UNCHANGED <<account, profile, key, audit, lock, tx>>

DisableAccount(s) ==
    /\ Free(s) /\ account[s].status = "active"
    /\ account' = [account EXCEPT ![s].status = "disabled"]
    /\ UNCHANGED <<tenant, profile, key, audit, lock, tx>>

DisableProfile(s) ==
    /\ Free(s) /\ profile[s] = "active"
    /\ profile' = [profile EXCEPT ![s] = "disabled"]
    /\ UNCHANGED <<tenant, account, key, audit, lock, tx>>

Create(x) ==
    \/ \E s \in Sellers : CreateExisting(x, s) \/ \E t \in Tenants : CreateLockTenant(x, t, s)
    \/ CreateInsert(x)
    \/ \E k \in Keys : CreateCommit(x, k)

Next ==
    \/ \E x \in Txs :
          \/ Create(x)
          \/ \E s \in Sellers : IssueLockProfile(x, s) \/ \E k \in Keys : RevokeLockKey(x, s, k)
          \/ \E k \in Keys : IssueCommit(x, k)
          \/ RevokeCommit(x)
          \/ \E c \in Config : BootstrapLockTenant(x, c)
          \/ BootstrapLockAccount(x) \/ BootstrapCommit(x)
          \/ FinishRead(x) \/ Rollback(x)
    \/ \E t \in Tenants : DisableTenant(t)
    \/ \E s \in Sellers : DisableAccount(s) \/ DisableProfile(s)

Spec == Init /\ [][Next]_vars

-----------------------------------------------------------------------------
\* Domains of the tables, and every key belongs to an account that exists.
SellersTypeOK ==
    /\ tenant \in [Tenants -> Status]
    /\ \A s \in Sellers :
          account[s] = NoAccount \/ account[s] \in [tenant: Tenants, status: {"active", "disabled"}]
    /\ profile \in [Sellers -> Status]
    /\ \A k \in Keys : key[k] = NoKey \/ key[k] \in [seller: Sellers, status: {"active", "revoked"}]
    /\ \A k \in Keys : key[k] # NoKey => account[key[k].seller] # NoAccount
    /\ lock \in [Tenants \cup Sellers \cup Keys -> Txs \cup {Nobody}]

EventsAt(action, k) == {i \in DOMAIN audit : audit[i].action = action /\ audit[i].key = k}

(***************************************************************************)
(* An account is created once: however many operators create it at the     *)
(* same time, through one tenant or two, the audit has one creation of it. *)
(***************************************************************************)
CreatedOnce ==
    \A i, j \in DOMAIN audit :
        audit[i].action = "seller_create" /\ audit[j].action = "seller_create"
            /\ audit[i].seller = audit[j].seller => i = j

(***************************************************************************)
(* docs/hosted-facilitator-seller-domain-design.md:728: every operator     *)
(* write is audited, and nothing else is: a key that operators gave out    *)
(* has one event of its issue, and is revoked exactly if it has one event  *)
(* of its revocation.                                                      *)
(***************************************************************************)
KeysAudited ==
    \A k \in Keys \ ConfigKeys :
        LET given == EventsAt("seller_create", k) \cup EventsAt("seller_api_key_issue", k)
            revoked == EventsAt("seller_api_key_revoke", k)
        IN  /\ Cardinality(given) = IF key[k] = NoKey THEN 0 ELSE 1
            /\ Cardinality(revoked) = IF key[k].status = "revoked" THEN 1 ELSE 0

(***************************************************************************)
(* A key never moves to another account, and an account never to another   *)
(* tenant, not even when a process starts with another configuration.      *)
(***************************************************************************)
ScopeFixed ==
    [][/\ \A k \in Keys : key[k] # NoKey => key'[k] # NoKey /\ key'[k].seller = key[k].seller
       /\ \A s \in Sellers : account[s] # NoAccount =>
             account'[s] # NoAccount /\ account'[s].tenant = account[s].tenant]_vars

(***************************************************************************)
(* Nothing in the program makes a disabled account or tenant active again. *)
(***************************************************************************)
DisabledStays ==
    [][/\ \A t \in Tenants : tenant[t] = "disabled" => tenant'[t] = "disabled"
       /\ \A s \in Sellers : account[s].status = "disabled" => account'[s].status = "disabled"]_vars

\* a starting process that has the account in its configuration commits
Bootstraps(s) == \E x \in Txs : At(x, "upsert") /\ tx[x].config.seller = s /\ tx'[x].op = "read"

(***************************************************************************)
(* A disabled profile and a revoked key do come back, but only when a      *)
(* process starts with their account in its configuration, and of the keys *)
(* only those that it is configured with: no operator's request does it,   *)
(* and what operators have given out and revoked stays revoked.            *)
(***************************************************************************)
OnlyStartsRevive ==
    [][/\ \A s \in Sellers :
             profile[s] = "disabled" /\ profile'[s] # "disabled" => Bootstraps(s)
       /\ \A k \in Keys :
             key[k].status = "revoked" /\ key'[k].status # "revoked" =>
                 k \in ConfigKeys /\ Bootstraps(key[k].seller)]_vars

(***************************************************************************)
(* Accounts and keys are what the audit says they are.                     *)
(***************************************************************************)
SellersAudited == SellersTypeOK /\ CreatedOnce /\ KeysAudited

(***************************************************************************)
(* Whatever processes are started with, nothing changes hands, accounts    *)
(* and tenants stay disabled, and profiles and keys are brought back by    *)
(* nothing but a start that is configured with them.                       *)
(***************************************************************************)
TenancyFixed == ScopeFixed /\ DisabledStays /\ OnlyStartsRevive

(***************************************************************************)
(* docs/hosted-facilitator-seller-domain-design.md:199: "Missing, revoked, *)
(* expired, disabled, or mismatched records fail closed before provider    *)
(* routing."  A key that an operator has revoked is not resolved again.    *)
(***************************************************************************)
RevokedFailsClosed ==
    \A k \in Keys : EventsAt("seller_api_key_revoke", k) # {} => ~Resolves(k)
=============================================================================
