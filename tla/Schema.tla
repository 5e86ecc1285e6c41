------------------------------- MODULE Schema -------------------------------
(***************************************************************************)
(* The Postgres schema of the hosted facilitator and the SQL of its        *)
(* migrations, each as an operator from a database to the database it      *)
(* leaves; ok becomes FALSE when a statement raises.  A database keeps the *)
(* columns, unique constraints, indexes and rows that some migration       *)
(* changes; everything created in one statement has one name here.         *)
(*                                                                         *)
(*   settlement       settlement_records and settlement_attempts           *)
(*   control_plane    pause targets and audit events                       *)
(*   seller_accounts  tenants, accounts, payment profiles and API keys     *)
(***************************************************************************)
EXTENDS Integers, Sequences, FiniteSets, SequencesExt

CONSTANT NoOne      \* NULL

ScopeNames == {"settlement", "control_plane", "seller_accounts"}

Raised(d) == [d EXCEPT !.ok = FALSE]

Has(d, c) == c \in d.cols

-----------------------------------------------------------------------------
(***************************************************************************)
(* settlement: cols and objects name columns, tables and indexes; required *)
(* are the owner columns that are NOT NULL and have no default; uniq is a  *)
(* set of unique constraints; lookup is the index of provider              *)
(* fingerprints, absent, over the columns of an earlier release, or over   *)
(* those of this one; rows keep what the constraints are about.            *)
(***************************************************************************)
Unique(name, over) == [name |-> name, over |-> over]

ByProject == <<"project_id", "fingerprint">>
BySeller  == <<"seller_account_id", "fingerprint">>
ByProfile == <<"seller_account_id", "payment_profile_id", "fingerprint">>

\* CREATE TABLE IF NOT EXISTS settlement_records
LegacyRecordTable(d) ==
    IF d.cols # {} THEN d
    ELSE [d EXCEPT !.cols = {"project_id"}, !.required = {"project_id"},
                   !.uniq = {Unique("project_id_fingerprint_key", ByProject)}]

LegacyProjectSchema(d) ==
    [LegacyRecordTable(d) EXCEPT
        !.cols = @ \cup {"reconciliation"},
        !.objects = @ \cup {"settlement_attempts", "status_updated_index",
                            "provider_network_status_index", "reconciliation_lease_index",
                            "attempts_record_started_index"}]

DuplicateMetrics(d) ==
    [d EXCEPT !.cols = @ \cup {"duplicate_claims", "last_duplicate_at"},
              !.objects = @ \cup {"last_duplicate_at_index"}]

\* a record that says of two sellers that they own it
Ambiguous(d) ==
    /\ Has(d, "project_id") /\ Has(d, "seller_account_id")
    /\ \E r \in d.rows : r.seller \notin {NoOne, r.project}

\* RENAME COLUMN: the constraints over the column, NOT NULL too, follow it and
\* keep their name
RenameProject(d) ==
    LET renamed(over) == [i \in DOMAIN over |->
                             IF over[i] = "project_id" THEN "seller_account_id" ELSE over[i]]
    IN  IF ~Has(d, "project_id") \/ Has(d, "seller_account_id") THEN d
        ELSE [d EXCEPT !.cols = (@ \ {"project_id"}) \cup {"seller_account_id"},
                       !.required = IF "project_id" \in @ THEN {"seller_account_id"} ELSE {},
                       !.uniq = {Unique(u.name, renamed(u.over)) : u \in d.uniq},
                       !.rows = {[r EXCEPT !.seller = r.project, !.project = NoOne] : r \in d.rows}]

\* fills every record, the filled ones too, with one seller
MutantBackfillSeller(d) ==
    [d EXCEPT !.cols = @ \cup {"seller_account_id"},
              !.rows = {[r EXCEPT !.seller = "default"] : r \in d.rows}]

\* ADD COLUMN and the UPDATE of what it leaves NULL
BackfillSeller(d) ==
    [d EXCEPT !.cols = @ \cup {"seller_account_id"},
              !.rows = IF ~Has(d, "project_id") THEN d.rows
                       ELSE {[r EXCEPT !.seller = IF @ = NoOne THEN r.project ELSE @]
                                : r \in d.rows}]

DropUnique(d, name, over) ==
    [d EXCEPT !.uniq = {u \in @ : u.name # name /\ u.over # over}]

\* at the end SET NOT NULL; a column project_id beside it keeps its own
SettlementSellerAccounts(d) ==
    LET t == BackfillSeller(RenameProject(d))
    IN  IF Ambiguous(d) \/ \E r \in t.rows : r.seller = NoOne
        THEN Raised(d)
        ELSE [DropUnique(t, "project_id_fingerprint_key", ByProject)
                EXCEPT !.objects = @ \ {"uniq_provider_fingerprint"},
                       !.required = @ \cup {"seller_account_id"}]

\* may the constraint over ByProfile be added?
Distinct(rows) ==
    \A r, s \in rows :
        <<r.seller, r.profile, r.print>> = <<s.seller, s.profile, s.print>> => r = s

SettlementPaymentProfiles(d) ==
    LET widened == IF Has(d, "payment_profile_id") THEN d
                   ELSE [d EXCEPT !.cols = @ \cup {"payment_profile_id"},
                                  !.rows = {[r EXCEPT !.profile = "default"] : r \in @}]
        t == DropUnique(widened, "seller_account_id_fingerprint_key", BySeller)
        there == \E u \in t.uniq : u.over = ByProfile
    IN  IF ~Has(d, "seller_account_id") \/ (~there /\ ~Distinct(t.rows))
        THEN Raised(d)
        ELSE [t EXCEPT !.uniq = IF there THEN @
                                ELSE @ \cup {Unique("seller_profile_fingerprint_key", ByProfile)},
                       !.objects = @ \cup {"seller_profile_index"},
                       !.lookup = IF @ = "absent" THEN "current" ELSE @]

ProviderFingerprintLookup(d) ==
    IF ~Has(d, "seller_account_id") THEN Raised(d)
    ELSE [d EXCEPT !.lookup = "current", !.objects = @ \ {"uniq_provider_fingerprint"}]

SellerStatusUpdatedIndex(d) ==
    IF ~Has(d, "seller_account_id") THEN Raised(d)
    ELSE [d EXCEPT !.objects = @ \cup {"seller_status_updated_index"}]

\* the owner columns that the INSERT of a claim fills
ClaimColumns == {"seller_account_id", "payment_profile_id"}

\* CLAIM_RECORD_SQL: every column that must have a value is given one
Inserts(d) == d.required \subseteq ClaimColumns

\* records have a column for the project and one for the seller
HalfMoved(d) == Has(d, "project_id") /\ Has(d, "seller_account_id")

\* the answer of POSTGRES_HEALTH_SQL, without the objects that a release lacks
SettlementHealth(d, lacks) ==
    /\ \E u \in d.uniq : u.over = ByProfile
    /\ \A u \in d.uniq : u.over # BySeller
    /\ {"duplicate_claims", "last_duplicate_at"} \subseteq d.cols
    /\ d.lookup # "absent"
    /\ {"settlement_attempts", "status_updated_index", "provider_network_status_index",
        "reconciliation_lease_index", "attempts_record_started_index",
        "last_duplicate_at_index", "seller_status_updated_index"} \ lacks \subseteq d.objects

-----------------------------------------------------------------------------
(***************************************************************************)
(* control_plane: the tables, their keys and indexes, the target type of   *)
(* each audit event, and the types that the audit table's constraint       *)
(* admits, AnyType when there is none.                                     *)
(***************************************************************************)
TargetTypes == {"global", "provider", "network", "seller"}

AnyType == {"project", "settlement", "invalid"} \cup TargetTypes

ControlPlaneObjects ==
    {"pause_targets_paused_index", "audit_events_created_index"}

\* CREATE TABLE IF NOT EXISTS: what comes with the table comes with it only
CreateTable(d, table, brings) ==
    IF table \in d.objects THEN d ELSE [d EXCEPT !.objects = @ \cup {table} \cup brings]

ControlPlaneSchema(d) ==
    LET t == CreateTable(d, "control_plane_pause_targets", {"pause_targets_primary_key"})
    IN  [CreateTable(t, "control_plane_audit_events", {})
            EXCEPT !.objects = @ \cup ControlPlaneObjects]

SellerAuditTargets(d) ==
    [d EXCEPT !.events = [e \in DOMAIN @ |-> IF @[e] = "project" THEN "seller" ELSE @[e]]]

\* DELETE what the constraint would refuse, then add it unless it is there
TargetTypeConstraint(d) ==
    LET kept == {e \in DOMAIN d.events : d.events[e] \in TargetTypes}
    IN  [d EXCEPT !.events = [e \in kept |-> d.events[e]],
                  !.admits = IF @ = AnyType THEN TargetTypes ELSE @]

SettlementAuditTarget(d) ==
    LET types == TargetTypes \cup {"settlement"}
    IN  IF \E e \in DOMAIN d.events : d.events[e] \notin types
        THEN Raised(d)
        ELSE [d EXCEPT !.admits = types]

ControlPlaneHealth(d) ==
    {"control_plane_pause_targets", "control_plane_audit_events", "pause_targets_primary_key"}
        \cup ControlPlaneObjects \subseteq d.objects

-----------------------------------------------------------------------------
(***************************************************************************)
(* seller_accounts: projects are the rows of hosted_projects, a table of   *)
(* an earlier release, with their limits per minute under its name or      *)
(* under this one's; profiles are the default payment profiles; a key is   *)
(* imported when its id says migrated_.                                    *)
(***************************************************************************)
SellerTables(d) ==
    LET tenants == CreateTable(d, "hosted_tenants", {"tenants_primary_key"})
        accounts == CreateTable(tenants, "hosted_seller_accounts",
                       {"seller_accounts_primary_key", "seller_accounts_tenant_foreign_key"})
        profiles == CreateTable(accounts, "hosted_seller_payment_profiles",
                       {"payment_profiles_primary_key"})
    IN  CreateTable(profiles, "hosted_seller_api_keys",
            {"key_id", "payment_profile_id", "api_key_hash_primary_key", "api_key_id_unique",
             "api_keys_payment_profile_foreign_key"})

SellerIndexes ==
    {"seller_accounts_tenant_status_index", "payment_profiles_seller_status_index",
     "api_keys_seller_status_index", "api_keys_profile_status_index"}

\* the indexes, one of which is over the profile of a key
SellerAccountsSchema(d) ==
    LET t == SellerTables(d)
    IN  IF "payment_profile_id" \notin t.objects THEN Raised(d)
        ELSE [t EXCEPT !.objects = @ \cup SellerIndexes]

\* ADD COLUMN for keys of an earlier release: columns, and no constraint
SellerPaymentProfiles(d) ==
    [SellerTables(d) EXCEPT !.objects = @ \cup {"key_id", "payment_profile_id"}
                                          \cup SellerIndexes]

\* the key projectRequestsPerMinute becomes sellerRequestsPerMinute
CarriedLimits(limits) ==
    IF limits.seller # NoOne THEN limits
    ELSE [project |-> NoOne, seller |-> limits.project]

SellerProjectCompatibility(d) ==
    LET known == {f.seller : f \in d.profiles}
    IN  [d EXCEPT !.accounts = @ \cup {p.id : p \in d.projects},
                  !.profiles = @ \cup {[seller |-> p.id, limits |-> CarriedLimits(p.limits)]
                                          : p \in {q \in d.projects : q.id \notin known}}]

RevokeProjectApiKeys(d) == [d EXCEPT !.keys = {k \in @ : ~k.imported}]

SellerAccountsHealth(d) ==
    {"hosted_tenants", "hosted_seller_accounts", "hosted_seller_payment_profiles",
     "hosted_seller_api_keys", "tenants_primary_key", "seller_accounts_primary_key",
     "seller_accounts_tenant_foreign_key", "payment_profiles_primary_key",
     "api_key_hash_primary_key", "api_key_id_unique",
     "api_keys_payment_profile_foreign_key"} \cup SellerIndexes \subseteq d.objects

-----------------------------------------------------------------------------
(***************************************************************************)
(* The migrations of each scope, in the order in which they run.           *)
(***************************************************************************)
SettlementMigrations ==
    <<"202605170001", "202605200001", "2026052000011", "202605200002", "202605200003",
      "202605200004", "202605200005", "202605200006", "202605280002">>

ControlPlaneMigrations ==
    <<"202605170001", "202605200001", "202605200002", "202605280001">>

SellerAccountsMigrations ==
    <<"202605170001", "202605200001", "202605200002", "202605200003">>

Migrations(scope) ==
    CASE scope = "settlement" -> SettlementMigrations
      [] scope = "control_plane" -> ControlPlaneMigrations
      [] scope = "seller_accounts" -> SellerAccountsMigrations

\* what the SQL of a migration makes of a database
Sql(scope, version, d) ==
    CASE <<scope, version>> = <<"settlement", "202605170001">> -> LegacyProjectSchema(d)
      [] <<scope, version>> = <<"settlement", "202605200001">> -> DuplicateMetrics(d)
      [] <<scope, version>> = <<"settlement", "2026052000011">> -> SettlementSellerAccounts(d)
      [] <<scope, version>> = <<"settlement", "202605200002">> -> SettlementPaymentProfiles(d)
      [] <<scope, version>> = <<"settlement", "202605200003">> -> SettlementPaymentProfiles(d)
      [] <<scope, version>> = <<"settlement", "202605200004">> -> SettlementPaymentProfiles(d)
      [] <<scope, version>> = <<"settlement", "202605200005">> -> ProviderFingerprintLookup(d)
      [] <<scope, version>> = <<"settlement", "202605200006">> -> ProviderFingerprintLookup(d)
      [] <<scope, version>> = <<"settlement", "202605280002">> -> SellerStatusUpdatedIndex(d)
      [] <<scope, version>> = <<"control_plane", "202605170001">> -> ControlPlaneSchema(d)
      [] <<scope, version>> = <<"control_plane", "202605200001">> -> SellerAuditTargets(d)
      [] <<scope, version>> = <<"control_plane", "202605200002">> -> TargetTypeConstraint(d)
      [] <<scope, version>> = <<"control_plane", "202605280001">> -> SettlementAuditTarget(d)
      [] <<scope, version>> = <<"seller_accounts", "202605170001">> -> SellerAccountsSchema(d)
      [] <<scope, version>> = <<"seller_accounts", "202605200001">> -> SellerPaymentProfiles(d)
      [] <<scope, version>> = <<"seller_accounts", "202605200002">> -> SellerProjectCompatibility(d)
      [] <<scope, version>> = <<"seller_accounts", "202605200003">> -> RevokeProjectApiKeys(d)

\* _schema_health_check of the scope
SchemaHealthCheck(scope, d, lacks) ==
    CASE scope = "settlement" -> SettlementHealth(d, lacks)
      [] scope = "control_plane" -> ControlPlaneHealth(d)
      [] scope = "seller_accounts" -> SellerAccountsHealth(d)
=============================================================================
