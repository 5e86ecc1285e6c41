---------------------------- MODULE MCMigrations ----------------------------
(***************************************************************************)
(* An instance of Migrations for the model checker: a process of the       *)
(* release before, processes of this one, and the databases they may find. *)
(***************************************************************************)
EXTENDS Migrations

CONSTANTS p1, p2, r1

ASSUME MigrationsAssumption /\ DatabasesAssumption

MCLacks == [p \in Procs |-> IF p = p1 THEN {"202605280001", "202605280002"} ELSE {}]

Ledger(scope, n, sum) == [v \in {Migrations(scope)[i] : i \in 1..n} |-> sum]

Without(f, v) == [w \in DOMAIN f \ {v} |-> f[w]]

Row(i, project, seller) ==
    [id |-> i, project |-> project, seller |-> seller, profile |-> NoOne, print |-> "f"]

PerMinute(project, seller) == [project |-> project, seller |-> seller]

\* a database without tables
EmptySettlement ==
    [cols |-> {}, required |-> {}, objects |-> {}, uniq |-> {}, lookup |-> "absent", rows |-> {}, ok |-> TRUE]
EmptyControl == [objects |-> {}, admits |-> AnyType, events |-> <<>>, ok |-> TRUE]
EmptySellers ==
    [objects |-> {}, projects |-> {}, accounts |-> {}, profiles |-> {}, keys |-> {}, ok |-> TRUE]

Fresh(s) ==
    CASE s = "settlement" -> EmptySettlement
      [] s = "control_plane" -> EmptyControl
      [] s = "seller_accounts" -> EmptySellers

\* settlements of two projects under one fingerprint
Projects ==
    [LegacyProjectSchema(EmptySettlement) EXCEPT !.rows = {Row(1, "a", NoOne), Row(2, "b", NoOne)}]

\* the column of sellers beside that of projects, filled for some records
Both(seller) ==
    [DuplicateMetrics(LegacyProjectSchema(EmptySettlement)) EXCEPT
        !.cols = @ \cup {"seller_account_id"},
        !.rows = {Row(1, "a", seller), Row(2, "b", NoOne)}]

\* settlements of sellers, from the releases that made fingerprints unique
SellerRecords ==
    [DuplicateMetrics(LegacyProjectSchema(EmptySettlement)) EXCEPT
        !.cols = (@ \ {"project_id"}) \cup {"seller_account_id"},
        !.required = {"seller_account_id"},
        !.uniq = {Unique("seller_account_id_fingerprint_key", BySeller)},
        !.objects = @ \cup {"uniq_provider_fingerprint"},
        !.lookup = "stale",
        !.rows = {Row(1, NoOne, "a")}]

ProfileRecords ==
    [SettlementPaymentProfiles([SellerRecords EXCEPT !.objects = @ \ {"uniq_provider_fingerprint"}])
        EXCEPT !.objects = @ \cup {"uniq_provider_fingerprint"}]

\* the tables as this release leaves them: nothing is due
UpToDate ==
    SellerStatusUpdatedIndex(ProviderFingerprintLookup(SettlementPaymentProfiles(
        SettlementSellerAccounts(DuplicateMetrics(LegacyProjectSchema(EmptySettlement))))))

Events ==
    [ControlPlaneSchema(EmptyControl) EXCEPT
        !.events = 1 :> "project" @@ 2 :> "seller" @@ 3 :> "invalid"]

\* projects with keys; a has become a seller since, with a profile of its own
ProjectSellers ==
    [EmptySellers EXCEPT
        !.objects = {"hosted_tenants", "tenants_primary_key"},
        !.projects = {[id |-> "a", limits |-> PerMinute(77, NoOne)],
                      [id |-> "b", limits |-> PerMinute(NoOne, 5)]}]

ImportedSellers ==
    [SellerAccountsSchema(ProjectSellers) EXCEPT
        !.accounts = {"a"},
        !.profiles = {[seller |-> "a", limits |-> PerMinute(NoOne, 9)]},
        !.keys = {[seller |-> "a", imported |-> TRUE], [seller |-> "a", imported |-> FALSE]}]

\* Keys of before payment profiles.  The migrations add the columns of today
\* and not the foreign key that the health check asks for: no facilitator of
\* this release comes up, although nothing is wrong with the database.
AlphaSellers ==
    [EmptySellers EXCEPT
        !.objects = {"hosted_tenants", "tenants_primary_key", "hosted_seller_accounts",
                     "seller_accounts_primary_key", "seller_accounts_tenant_foreign_key",
                     "hosted_seller_api_keys", "api_key_hash_primary_key"}]

Database(settlement, sl, control, cl, sellers, al) ==
    [db |-> "settlement" :> settlement @@ "control_plane" :> control
              @@ "seller_accounts" :> sellers,
     ledger |-> "settlement" :> sl @@ "control_plane" :> cl @@ "seller_accounts" :> al,
     wrong |-> "none"]

NoLedger == <<>>

\* Each state of a scope is in one of them.  The migrations of a scope touch
\* no other one: how the states of the scopes are combined does not matter.
Upgradable ==
    {Database(EmptySettlement, NoLedger, EmptyControl, NoLedger, EmptySellers, NoLedger),
     Database(Projects, Ledger("settlement", 1, "accepted"), Events,
              Ledger("control_plane", 1, "own"),
              ProjectSellers, Ledger("seller_accounts", 1, "accepted")),
     Database(Both("a"), Ledger("settlement", 2, "own"), Events,
              Ledger("control_plane", 1, "own"),
              ImportedSellers, Ledger("seller_accounts", 2, "own")),
     Database(SellerRecords, Ledger("settlement", 3, "accepted"), EmptyControl, NoLedger,
              ProjectSellers, Ledger("seller_accounts", 1, "accepted")),
     Database(ProfileRecords, Without(Ledger("settlement", 5, "accepted"), "2026052000011"),
              Events, Ledger("control_plane", 1, "own"),
              ImportedSellers, Ledger("seller_accounts", 2, "own"))}

WrongIn(scope, d) == [d EXCEPT !.wrong = scope]

Refused ==
    {WrongIn("settlement",
         Database(Both("b"), Ledger("settlement", 2, "own"), EmptyControl, NoLedger,
                  EmptySellers, NoLedger)),
     WrongIn("settlement",
         Database(Projects, Ledger("settlement", 1, "drifted"), Events,
                  Ledger("control_plane", 1, "own"), EmptySellers, NoLedger)),
     WrongIn("alpha keys",
         Database(UpToDate, Ledger("settlement", 9, "own"), EmptyControl, NoLedger, AlphaSellers,
                  Ledger("seller_accounts", 1, "accepted"))),
     WrongIn("control_plane",
         Database(UpToDate, Ledger("settlement", 9, "own"), Events,
                  Ledger("control_plane", 1, "drifted"),
                  EmptySellers, NoLedger))}

Found == Upgradable \cup Refused
=============================================================================
