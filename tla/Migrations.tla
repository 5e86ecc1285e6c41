----------------------------- MODULE Migrations -----------------------------
(***************************************************************************)
(* The start of the hosted processes on one database.  A process brings    *)
(* the scopes it uses up to date before it serves, each in a transaction:  *)
(* it creates the ledger table, takes the advisory lock of the scope,      *)
(* reads which migrations the ledger holds, runs and records the others,   *)
(* and commits.  Several processes start at the same time; they are killed *)
(* at any moment and started again; some are of the release before.        *)
(*                                                                         *)
(* A statement of Postgres that finds the same table being created by an   *)
(* open transaction waits for its end, and then fails if it committed:     *)
(* IF NOT EXISTS does not cover that case, and the lock is taken after it. *)
(***************************************************************************)
EXTENDS Schema

CONSTANTS
    Procs,          \* the processes
    Reconcilers,    \* those of them that only use the settlement store
    Lacks,          \* Lacks[p]: the versions that the release of p does not know
    Databases,      \* the databases at the first start, with their ledgers;
                    \* wrong is "none" when the migrations are made for it,
                    \* or names the scope that they must refuse, if it is one
    MaxCrashes      \* bound: how often processes are killed

MigrationsAssumption ==
    /\ Reconcilers \subseteq Procs
    /\ \A d \in Databases :
          DOMAIN d.ledger = ScopeNames /\ \A s \in ScopeNames : DOMAIN d.ledger[s] \subseteq ToSet(Migrations(s))
    /\ MaxCrashes \in Nat

VARIABLES
    db,         \* db[scope]: the tables of the scope, as committed
    ledger,     \* ledger[scope]: the checksum of each version applied
    table,      \* the ledger table: "absent", "present", or who is creating it
    proc,       \* proc[p]: where p is, the step of its plan, the migrations
                \* due and those run, and the tables as its transaction sees them
    runs,       \* runs[scope]: how often each migration was run and committed
    crashes,    \* processes killed so far
    origin      \* the database at the first start

vars == <<db, ledger, table, proc, runs, crashes, origin>>

\* the scopes initialized before the application is built, and by its event
\* handlers when it starts
Preflight == <<"settlement", "control_plane", "seller_accounts">>
StartUp   == <<"settlement", "control_plane", "seller_accounts">>

\* the store that a reconciler initializes
ReconcilerStore == <<"settlement">>

Plan(p) == IF p \in Reconcilers THEN ReconcilerStore ELSE Preflight \o StartUp

\* the migrations of the release of p
Knows(p, scope) == ToSet(Migrations(scope)) \ Lacks[p]

\* the objects that only a later release creates and checks
LackedObjects(p) ==
    IF "202605280002" \in Lacks[p] THEN {"seller_status_updated_index"} ELSE {}

(***************************************************************************)
(* The databases.  A database agrees with its ledger when what it holds is *)
(* what the versions recorded leave, and what is not there holds no value. *)
(***************************************************************************)
ProfileVersions == {"202605200002", "202605200003", "202605200004"}

LookupVersions == {"202605200005", "202605200006"}

SettlementFields(d) ==
    d = [cols |-> d.cols, required |-> d.required, objects |-> d.objects, uniq |-> d.uniq,
         lookup |-> d.lookup, rows |-> d.rows, ok |-> d.ok]

ControlFields(d) ==
    d = [objects |-> d.objects, admits |-> d.admits, events |-> d.events, ok |-> d.ok]

SellerFields(d) ==
    d = [objects |-> d.objects, projects |-> d.projects, accounts |-> d.accounts,
         profiles |-> d.profiles, keys |-> d.keys, ok |-> d.ok]

SettlementAgrees(d, held) ==
    /\ SettlementFields(d)
    /\ d.required \subseteq {"project_id", "seller_account_id"} \cap d.cols
    /\ \A r \in d.rows :
          /\ r = [id |-> r.id, project |-> r.project, seller |-> r.seller,
                  profile |-> r.profile, print |-> r.print]
          /\ r.project = NoOne \/ Has(d, "project_id")
          /\ r.seller = NoOne \/ Has(d, "seller_account_id")
    /\ \A u \in d.uniq :
          /\ u.over \in {ByProject, BySeller, ByProfile}
          /\ u.over = ByProfile => u.name # "project_id_fingerprint_key"
    /\ "2026052000011" \in held =>
          /\ Has(d, "seller_account_id")
          /\ \A r \in d.rows : r.seller # NoOne /\ r.project \in {NoOne, r.seller}
          /\ \A u \in d.uniq : u.over # ByProject
    /\ held \cap ProfileVersions # {} =>
          /\ Has(d, "seller_account_id")
          /\ \E u \in d.uniq : u.over = ByProfile
          /\ \A u \in d.uniq : u.over # BySeller
    /\ held \cap LookupVersions # {} =>
          d.lookup = "current" /\ "uniq_provider_fingerprint" \notin d.objects

\* only this release writes events of settlements
ControlAgrees(d, held) ==
    /\ ControlFields(d)
    /\ \A e \in DOMAIN d.events :
          /\ d.events[e] \in AnyType
          /\ "202605200001" \in held => d.events[e] # "project"
          /\ "202605200002" \notin held => d.events[e] # "settlement"
    /\ "202605280001" \in held => d.admits = TargetTypes \cup {"settlement"}

\* a project has one of the limits, and ids are keys of their tables
SellersAgree(d, held) ==
    /\ SellerFields(d)
    /\ \A p \in d.projects :
          /\ p.limits = [project |-> p.limits.project, seller |-> p.limits.seller]
          /\ p.limits.seller # NoOne \/ p.limits.project # NoOne
          /\ \A q \in d.projects : p.id = q.id => p = q
          /\ "202605200002" \in held =>
                p.id \in d.accounts /\ \E f \in d.profiles : f.seller = p.id
    /\ \A f, g \in d.profiles : f.seller = g.seller => f = g
    /\ "202605200003" \in held => \A k \in d.keys : ~k.imported

Agrees(s, d, held) ==
    /\ s = "settlement" => SettlementAgrees(d, held)
    /\ s = "control_plane" => ControlAgrees(d, held)
    /\ s = "seller_accounts" => SellersAgree(d, held)

\* a ledger of other SQL, and records with two owners
Refusable(s, d, applied) ==
    \/ \E v \in DOMAIN applied : applied[v] = "drifted" /\ \A p \in Procs : v \notin Lacks[p]
    \/ /\ s = "settlement" /\ Ambiguous(d) /\ "2026052000011" \notin DOMAIN applied
       /\ \A p \in Procs : "2026052000011" \notin Lacks[p]

\* A release that renames the targets of audit events does so before it
\* deletes those that it does not know.
DatabasesAssumption ==
    /\ \A p \in Procs : "202605200001" \in Lacks[p] => "202605200002" \in Lacks[p]
    /\ \A d \in Databases :
          /\ DOMAIN d.db = ScopeNames
          /\ \A s \in ScopeNames : d.db[s].ok /\ Agrees(s, d.db[s], DOMAIN d.ledger[s])
          /\ d.wrong \in ScopeNames => Refusable(d.wrong, d.db[d.wrong], d.ledger[d.wrong])

Away(pc, at) == [pc |-> pc, at |-> at, due |-> {}, ran |-> {}, work |-> NoOne]

Down == Away("down", 0)

Init ==
    /\ origin \in Databases
    /\ db = origin.db
    /\ ledger = origin.ledger
    /\ table = IF \A s \in ScopeNames : ledger[s] = <<>> THEN "absent" ELSE "present"
    /\ proc = [p \in Procs |-> Down]
    /\ runs = [s \in ScopeNames |-> [v \in ToSet(Migrations(s)) |-> 0]]
    /\ crashes = 0

-----------------------------------------------------------------------------
At(p, pc) == proc[p].pc = pc

Scope(p) == Plan(p)[proc[p].at]

Becomes(p, r) == proc' = [proc EXCEPT ![p] = r]

GoTo(p, pc) == Becomes(p, [proc[p] EXCEPT !.pc = pc])

\* the processes that hold the advisory lock of a scope
Holders(scope) == {p \in Procs : proc[p].pc \in {"locked", "running", "committing"} /\ Scope(p) = scope}

Start(p) ==
    /\ At(p, "down")
    /\ Becomes(p, Away("create", 1))
    /\ UNCHANGED <<db, ledger, table, runs, crashes, origin>>

\* CREATE TABLE IF NOT EXISTS hosted_schema_migrations
Create(p) ==
    /\ At(p, "create")
    /\ \/ table = "present" /\ GoTo(p, "lock") /\ UNCHANGED table
       \/ table = "absent" /\ GoTo(p, "lock") /\ table' = p
       \/ table \in Procs /\ GoTo(p, "blocked") /\ UNCHANGED table
    /\ UNCHANGED <<db, ledger, runs, crashes, origin>>

\* the end of a transaction that leaves nothing, and of its process
End(p) ==
    /\ Becomes(p, Down)
    /\ table' = IF table = p THEN "absent" ELSE table

\* the statement that has waited goes on when the other transaction is over
Unblock(p) ==
    /\ At(p, "blocked")
    /\ \/ table = "present" /\ End(p)
       \/ table = "absent" /\ GoTo(p, "lock") /\ table' = p
    /\ UNCHANGED <<db, ledger, runs, crashes, origin>>

\* without the lock
MutantLock(p) ==
    /\ At(p, "lock")
    /\ GoTo(p, "locked")
    /\ UNCHANGED <<db, ledger, table, runs, crashes, origin>>

Lock(p) ==
    /\ At(p, "lock")
    /\ Holders(Scope(p)) = {}
    /\ GoTo(p, "locked")
    /\ UNCHANGED <<db, ledger, table, runs, crashes, origin>>

\* only the checksum of the SQL as it is today
MutantOwnChecksum(p, scope) ==
    \A v \in DOMAIN ledger[scope] \cap Knows(p, scope) : ledger[scope][v] = "own"

\* accepts_checksum of each version that the ledger holds
Accepted(p, scope) ==
    \A v \in DOMAIN ledger[scope] \cap Knows(p, scope) : ledger[scope][v] # "drifted"

\* read the ledger: the migrations that it does not hold are due
Read(p) ==
    LET scope == Scope(p)
    IN  /\ At(p, "locked")
        /\ \/ /\ Accepted(p, scope)
              /\ Becomes(p, [proc[p] EXCEPT !.pc = "running", !.work = db[scope],
                                            !.due = Knows(p, scope) \ DOMAIN ledger[scope]])
              /\ UNCHANGED table
           \/ ~Accepted(p, scope) /\ End(p)
        /\ UNCHANGED <<db, ledger, runs, crashes, origin>>

\* the versions in due that no other one of them precedes in the list
First(scope, due) ==
    {v \in due : \E i \in DOMAIN Migrations(scope) :
        /\ Migrations(scope)[i] = v
        /\ \A j \in 1..(i - 1) : Migrations(scope)[j] \notin due}

\* execute the SQL of the next migration that is due
Run(p) ==
    /\ At(p, "running")
    /\ \E v \in First(Scope(p), proc[p].due) :
          LET after == Sql(Scope(p), v, proc[p].work)
          IN  \/ /\ after.ok
                 /\ Becomes(p, [proc[p] EXCEPT !.due = proc[p].due \ {v}, !.ran = proc[p].ran \cup {v},
                                               !.work = after])
                 /\ UNCHANGED table
              \/ ~after.ok /\ End(p)
    /\ UNCHANGED <<db, ledger, runs, crashes, origin>>

\* validate_schema, in the transaction, and the records of what was run
Validate(p) ==
    LET valid == SchemaHealthCheck(Scope(p), proc[p].work, LackedObjects(p))
    IN  /\ At(p, "running") /\ proc[p].due = {}
        /\ \/ valid /\ GoTo(p, "committing") /\ UNCHANGED table
           \/ ~valid /\ End(p)
        /\ UNCHANGED <<db, ledger, runs, crashes, origin>>

\* others see what was done; p goes on to the next scope, or serves
Commit(p) ==
    LET scope == Scope(p)
        ran == proc[p].ran
    IN  /\ At(p, "committing")
        /\ db' = [db EXCEPT ![scope] = proc[p].work]
        /\ ledger' = [ledger EXCEPT ![scope] =
              [v \in DOMAIN ledger[scope] \cup ran |-> IF v \in ran THEN "own" ELSE ledger[scope][v]]]
        /\ table' = "present"
        /\ runs' = [runs EXCEPT ![scope] =
              [v \in DOMAIN runs[scope] |-> IF v \in ran THEN runs[scope][v] + 1 ELSE runs[scope][v]]]
        /\ Becomes(p, IF proc[p].at = Len(Plan(p)) THEN Away("up", proc[p].at)
                      ELSE Away("create", proc[p].at + 1))
        /\ UNCHANGED <<crashes, origin>>

\* a process is killed, at any moment; its transaction rolls back
Crash(p) ==
    /\ ~At(p, "down") /\ crashes < MaxCrashes
    /\ crashes' = crashes + 1
    /\ End(p)
    /\ UNCHANGED <<db, ledger, runs, origin>>

\* hosted_postgres_migrations_current, over the scopes that p uses
Current(p) ==
    \A s \in ToSet(Plan(p)) :
        /\ DOMAIN ledger[s] = Knows(p, s)
        /\ Accepted(p, s)

\* health_check: what the readiness of p rests on
Healthy(p) ==
    /\ \A s \in ToSet(Plan(p)) : SchemaHealthCheck(s, db[s], LackedObjects(p))
    /\ Current(p)

\* every process is up: nothing more is left to do
Idle == (\A p \in Procs : At(p, "up")) /\ UNCHANGED vars

Step(p) ==
    \/ Start(p) \/ Create(p) \/ Unblock(p) \/ Lock(p)
    \/ Read(p) \/ Run(p) \/ Validate(p) \/ Commit(p)

Next == Idle \/ \E p \in Procs : Step(p) \/ Crash(p)

\* A process takes its next step, a lock that stays free is granted to one who
\* waits for it, and a process that ended is restarted.
Fairness == \A p \in Procs : WF_vars(Step(p))

Spec == Init /\ [][Next]_vars /\ Fairness

-----------------------------------------------------------------------------
\* Domains of the state: a process is within its plan and runs migrations of
\* its release and scope; no failed SQL is ever committed.
MigrationsTypeOK ==
    /\ table \in {"absent", "present"} \cup Procs
    /\ \A p \in Procs :
          /\ proc[p].pc \in {"down", "create", "blocked", "lock", "locked", "running", "committing", "up"}
          /\ proc[p].at \in 0..Len(Plan(p))
          /\ ~At(p, "down") => proc[p].due \cup proc[p].ran \subseteq Knows(p, Scope(p))
    /\ \A s \in ScopeNames :
          /\ DOMAIN ledger[s] \subseteq ToSet(Migrations(s))
          /\ db[s].ok
    /\ crashes \in 0..MaxCrashes

\* the processes of this release that serve, those that use all scopes first
Serving == {p \in Procs : At(p, "up") /\ Lacks[p] = {}}
Facilitating == Serving \ Reconcilers

(***************************************************************************)
(* The SQL of a migration is run by one process at a time and takes effect *)
(* once, however many processes start together and are killed on the way.  *)
(***************************************************************************)
OneRunner ==
    \A s \in ScopeNames : \A v \in ToSet(Migrations(s)) :
        runs[s][v] + Cardinality({p \in Holders(s) : v \in proc[p].ran}) <= 1

(***************************************************************************)
(* A process of this release that serves is ready, whatever other          *)
(* processes do to the database afterwards.                                *)
(***************************************************************************)
ServingIsHealthy == \A p \in Serving : Healthy(p)

(***************************************************************************)
(* No settlement changes hands or is lost: when a process serves, every    *)
(* record of the original database is there, owned by the project or       *)
(* seller, or both, that it named.                                         *)
(***************************************************************************)
OwnersKept ==
    Serving # {} =>
        \A r \in origin.db["settlement"].rows :
            \E s \in db["settlement"].rows :
                /\ s.id = r.id /\ s.print = r.print
                /\ {r.project, r.seller} \ {NoOne} = {s.seller}

(***************************************************************************)
(* When a process serves, the database rejects a second record of one      *)
(* payment under a profile, and nothing of an earlier release makes it     *)
(* reject one fingerprint of two sellers or of two profiles.  It takes the *)
(* insert of a claim, unless it came with a column for projects beside     *)
(* that for sellers: that column stays, NOT NULL, and no claim fills it.   *)
(***************************************************************************)
ClaimsUnhindered ==
    Serving # {} =>
        /\ {u.over : u \in db["settlement"].uniq} = {ByProfile}
        /\ "uniq_provider_fingerprint" \notin db["settlement"].objects
        /\ db["settlement"].lookup = "current"
        /\ Inserts(db["settlement"]) \/ HalfMoved(origin.db["settlement"])

(***************************************************************************)
(* No audit event of a type that the console ever wrote is lost, those of  *)
(* projects become those of sellers, and a serving process can record an   *)
(* event of each type it writes, reconciliations included.                 *)
(***************************************************************************)
AuditKept ==
    Facilitating # {} =>
        LET old == origin.db["control_plane"].events
            new == db["control_plane"].events
        IN  /\ \A e \in DOMAIN old : old[e] # "invalid" =>
                  e \in DOMAIN new /\ new[e] = (IF old[e] = "project" THEN "seller" ELSE old[e])
            /\ TargetTypes \cup {"settlement"} \subseteq db["control_plane"].admits

(***************************************************************************)
(* When a process serves, each project is a seller with a default profile, *)
(* with the project's limit unless the seller had set one of its own, and  *)
(* no key of a project opens anything.                                     *)
(***************************************************************************)
SellersCarriedOver ==
    Facilitating # {} =>
        LET old == origin.db["seller_accounts"]
            new == db["seller_accounts"]
        IN  /\ old.profiles \subseteq new.profiles
            /\ \A p \in old.projects :
                  /\ p.id \in new.accounts
                  /\ Cardinality({f \in new.profiles : f.seller = p.id}) = 1
                  /\ p.id \notin {f.seller : f \in old.profiles} =>
                       \E f \in new.profiles :
                          f.seller = p.id /\ f.limits.seller \in {p.limits.project, p.limits.seller} \ {NoOne}
            /\ \A k \in new.keys : ~k.imported

(***************************************************************************)
(* On a database that must not be migrated (a ledger of other SQL, records *)
(* with two owners) no facilitator comes up, and the scope that is wrong   *)
(* stays as it was.                                                        *)
(***************************************************************************)
RefusedUntouched ==
    origin.wrong \in ScopeNames =>
        /\ Facilitating = {}
        /\ db[origin.wrong] = origin.db[origin.wrong]

(***************************************************************************)
(* On a database that the migrations are made for each process comes up in *)
(* the end and stays up: a start that was killed or that lost the race for *)
(* the ledger table hinders none after it.                                 *)
(***************************************************************************)
EveryoneServes ==
    origin.wrong = "none" => <>[](\A p \in Procs : At(p, "up"))

(***************************************************************************)
(* A database is migrated with all its data or refused as it was: what a   *)
(* serving process finds is healthy, and owners, claims, audit and sellers *)
(* came through.                                                           *)
(***************************************************************************)
MigratedWhole ==
    /\ MigrationsTypeOK /\ ServingIsHealthy
    /\ OwnersKept /\ ClaimsUnhindered /\ AuditKept /\ SellersCarriedOver
    /\ RefusedUntouched
=============================================================================
