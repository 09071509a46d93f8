----------------------------- MODULE Migrations -----------------------------
(***************************************************************************)
(* What replicas of different releases do to the database when they start  *)
(* at the same time: the startup migration of PostgreSQL                   *)
(* (provider/postgres/migration.go), where one row of schema_version is    *)
(* both the version and the lock, and the startup check of the DynamoDB    *)
(* tables (provider/dynamodb/migration.go, pkg/dynamodb).                  *)
(*                                                                         *)
(* A replica migrates or verifies when the repository is built, by         *)
(* AutoMigration, and the server's main runs the migration once more.      *)
(* PostgreSQL itself is external: a statement on a row that another        *)
(* transaction has written waits for that transaction's end, and reads     *)
(* what it left.  Migration v is the one with version v; applied[v] counts *)
(* how often its SQL was committed, which is history.                      *)
(***************************************************************************)
EXTENDS Integers

CONSTANTS
    Replicas,     \* containers that start, of any release
    NoReplica,    \* nobody holds the row's lock
    MaxVersion,   \* the newest release's LatestVersion
    TableCount,   \* how many tables tablesSchema lists
    MaxRestarts   \* bound: restarts of a replica

ASSUME MigrationAssumption ==
    /\ MaxVersion \in Nat \ {0}
    /\ TableCount \in Nat
    /\ MaxRestarts \in Nat
    /\ NoReplica \notin Replicas

VARIABLES
    release,    \* replica -> LatestVersion of its embedded migrations
    auto,       \* replica -> AutoMigration
    database,   \* "postgres" or "dynamodb"
    hasTable,   \* schema_version exists
    row,        \* version in schema_version, -1 when the row is missing
    applied,    \* version -> how often its SQL has been committed
    rowLock,    \* replica whose transaction has written the row, or NoReplica
    step,       \* replica -> where its start is
    pass,       \* replica -> 1: building the repository, 2: RunMigration
    at,         \* replica -> version its transaction's SQL has reached
    from,       \* replica -> version its transaction started from
    shape,      \* table -> the DynamoDB table's description, or Missing
    checked,    \* replica -> how many tables it has verified or created
    restarts    \* replica -> restarts so far

migrationVars == <<release, auto, database, hasTable, row, applied, rowLock, step,
                   pass, at, from, shape, checked, restarts>>

\* Embedded migrations are sorted by version and no version occurs twice.
Versions == 1..MaxVersion
Tables == 1..TableCount

\* The shape of a table: its key schema and its secondary indexes.
Missing == [key |-> "none", indexes |-> {}]
tablesSchema == [key |-> "k", indexes |-> {"i"}]
Shapes == {Missing, tablesSchema, [key |-> "k", indexes |-> {"i", "j"}],
           [key |-> "k", indexes |-> {}], [key |-> "l", indexes |-> {"i"}]}

MigrationInit ==
    /\ release \in [Replicas -> Versions]
    /\ auto \in [Replicas -> BOOLEAN]
    /\ database \in {"postgres", "dynamodb"}
    /\ hasTable = FALSE
    /\ row = -1
    /\ applied = [v \in Versions |-> 0]
    /\ rowLock = NoReplica
    /\ step = [r \in Replicas |-> "dial"]
    /\ pass = [r \in Replicas |-> 1]
    /\ at = [r \in Replicas |-> 0]
    /\ from = [r \in Replicas |-> 0]
    /\ shape \in [Tables -> IF database = "postgres" THEN {Missing} ELSE Shapes]
    /\ checked = [r \in Replicas |-> 0]
    /\ restarts = [r \in Replicas |-> 0]

deployment == <<release, auto, database>>
ddb == <<shape, checked>>
pgTx == <<at, from>>
committed == <<row, applied>>

Goto(r, s) == step' = [step EXCEPT ![r] = s]

\* What follows the end of a pass without an error.
Passed(r) ==
    /\ Goto(r, IF pass[r] = 1 THEN "start" ELSE "serving")
    /\ pass' = [pass EXCEPT ![r] = 2]

-----------------------------------------------------------------------------
(* PostgreSQL *)

\* The pool pings until the database answers, or gives up.
WaitForReady(r) ==
    /\ step[r] = "dial"
    /\ \/ Goto(r, "start")
       \/ database = "postgres" /\ Goto(r, "failed")
    /\ UNCHANGED <<deployment, hasTable, committed, rowLock, pass, pgTx, ddb, restarts>>

\* HandleStartupMigration, then RunMigration; both first ensure the table.
\* CREATE TABLE IF NOT EXISTS looks ...
EnsureSchemaVersionTable(r) ==
    /\ database = "postgres" /\ step[r] = "start"
    /\ Goto(r, IF ~hasTable THEN "creating"
               ELSE IF pass[r] = 1 /\ ~auto[r] THEN "verify" ELSE "begin")
    /\ UNCHANGED <<deployment, hasTable, committed, rowLock, pass, pgTx, ddb, restarts>>

\* ... and creates, which fails when another session has created it meanwhile.
CreateSchemaVersionTable(r) ==
    /\ step[r] = "creating"
    /\ hasTable' = TRUE
    /\ Goto(r, IF hasTable THEN "failed" ELSE "start")
    /\ UNCHANGED <<deployment, committed, rowLock, pass, pgTx, ddb, restarts>>

VerifyMigration(r) ==
    /\ step[r] = "verify"
    /\ IF row = release[r] THEN Passed(r) ELSE Goto(r, "failed") /\ UNCHANGED pass
    /\ UNCHANGED <<deployment, hasTable, committed, rowLock, pgTx, ddb, restarts>>

\* A mutant: a plain SELECT, and no row inserted first.
LocksNothing(r) == TRUE

Locks(r) == rowLock \in {NoReplica, r}

\* INSERT ... ON CONFLICT DO NOTHING: this transaction bootstraps.
BootstrapSchemaVersion(r) ==
    /\ step[r] = "begin" /\ Locks(r) /\ row = -1
    /\ rowLock' = r
    /\ from' = [from EXCEPT ![r] = 0]
    /\ at' = [at EXCEPT ![r] = 0]
    /\ Goto(r, "run")
    /\ UNCHANGED <<deployment, hasTable, committed, pass, ddb, restarts>>

\* The row is there: nothing inserted.
BootstrapConflicts(r) ==
    /\ step[r] = "begin" /\ Locks(r) /\ row # -1
    /\ Goto(r, "read")
    /\ UNCHANGED <<deployment, hasTable, committed, rowLock, pass, pgTx, ddb, restarts>>

\* SELECT ... FOR UPDATE, the tests of the version, and the UPDATE under the lock.
GetSchemaVersionForUpdate(r) ==
    /\ step[r] = "read" /\ Locks(r)
    /\ \/ row > release[r] /\ Goto(r, "failed") /\ UNCHANGED <<rowLock, pass, pgTx>>
       \/ row = release[r] /\ Passed(r) /\ UNCHANGED <<rowLock, pgTx>>
       \/ /\ row < release[r]
          /\ rowLock' = r
          /\ from' = [from EXCEPT ![r] = row]
          /\ at' = [at EXCEPT ![r] = row]
          /\ Goto(r, "run")
          /\ UNCHANGED pass
    /\ UNCHANGED <<deployment, hasTable, committed, ddb, restarts>>

\* The migrations selected for (from, latest], one statement at a time.
RunPostgresMigration(r) ==
    /\ step[r] = "run" /\ at[r] < release[r]
    /\ at' = [at EXCEPT ![r] = @ + 1]
    /\ UNCHANGED <<deployment, hasTable, committed, rowLock, step, pass, from, ddb, restarts>>

\* Versions the transaction of r has run.
SelectPostgresMigrations(r) == {v \in Versions : from[r] < v /\ v <= at[r]}

CommitMigration(r) ==
    /\ step[r] = "run" /\ at[r] = release[r]
    /\ row' = release[r]
    /\ applied' = [v \in Versions |->
                     applied[v] + IF v \in SelectPostgresMigrations(r) THEN 1 ELSE 0]
    /\ rowLock' = NoReplica

Commit(r) ==
    /\ CommitMigration(r)
    /\ Passed(r)
    /\ UNCHANGED <<deployment, hasTable, pgTx, ddb, restarts>>

\* The commit happened and its answer was lost: RunMigration returns an error.
CommitUnanswered(r) ==
    /\ CommitMigration(r)
    /\ Goto(r, "failed")
    /\ UNCHANGED <<deployment, hasTable, pass, pgTx, ddb, restarts>>

\* A statement fails, or the process dies: the transaction is rolled back.
Rollback(r) ==
    /\ step[r] \notin {"dial", "failed"}
    /\ rowLock' = IF rowLock = r THEN NoReplica ELSE rowLock
    /\ Goto(r, "failed")
    /\ UNCHANGED <<deployment, hasTable, committed, pass, pgTx, ddb, restarts>>

-----------------------------------------------------------------------------
(* DynamoDB *)

IsKeySchemaMatched(actual) == actual.key = tablesSchema.key

\* More indexes than expected are accepted.
VerifyTable(actual) ==
    IsKeySchemaMatched(actual) /\ tablesSchema.indexes \subseteq actual.indexes

\* The table that replica r is at; tables are taken in order.
Current(r) == checked[r] + 1

\* VerifyTable; a missing table is created when migrating.
CheckTable(r) ==
    /\ database = "dynamodb" /\ step[r] = "start" /\ Current(r) \in Tables
    /\ LET actual == shape[Current(r)]
           migrating == pass[r] = 2 \/ auto[r]
       IN \/ actual # Missing /\ VerifyTable(actual)
             /\ checked' = [checked EXCEPT ![r] = @ + 1] /\ UNCHANGED step
          \/ actual # Missing /\ ~VerifyTable(actual) /\ Goto(r, "failed") /\ UNCHANGED checked
          \/ actual = Missing /\ Goto(r, IF migrating THEN "create" ELSE "failed") /\ UNCHANGED checked
    /\ UNCHANGED <<deployment, hasTable, committed, rowLock, pass, pgTx, shape, restarts>>

\* CreateTable of the table found missing; it fails when the table is there now.
CreateTable(r) ==
    /\ step[r] = "create"
    /\ IF shape[Current(r)] = Missing
       THEN /\ shape' = [shape EXCEPT ![Current(r)] = tablesSchema]
            /\ checked' = [checked EXCEPT ![r] = @ + 1]
            /\ Goto(r, "start")
       ELSE Goto(r, "failed") /\ UNCHANGED <<shape, checked>>
    /\ UNCHANGED <<deployment, hasTable, committed, rowLock, pass, pgTx, restarts>>

AllTablesChecked(r) ==
    /\ database = "dynamodb" /\ step[r] = "start" /\ checked[r] = TableCount
    /\ Passed(r)
    /\ checked' = [checked EXCEPT ![r] = 0]
    /\ UNCHANGED <<deployment, hasTable, committed, rowLock, pgTx, shape, restarts>>

-----------------------------------------------------------------------------

\* A failed start ends the process (panic, fatal); the orchestrator restarts it.
Restart(r) ==
    /\ step[r] = "failed" /\ restarts[r] < MaxRestarts
    /\ restarts' = [restarts EXCEPT ![r] = @ + 1]
    /\ Goto(r, "dial")
    /\ pass' = [pass EXCEPT ![r] = 1]
    /\ checked' = [checked EXCEPT ![r] = 0]
    /\ UNCHANGED <<deployment, hasTable, committed, rowLock, pgTx, shape>>

MigrationNext ==
    \E r \in Replicas :
        \/ WaitForReady(r)
        \/ EnsureSchemaVersionTable(r) \/ CreateSchemaVersionTable(r)
        \/ VerifyMigration(r)
        \/ BootstrapSchemaVersion(r) \/ BootstrapConflicts(r)
        \/ GetSchemaVersionForUpdate(r)
        \/ RunPostgresMigration(r) \/ Commit(r) \/ CommitUnanswered(r) \/ Rollback(r)
        \/ CheckTable(r) \/ CreateTable(r) \/ AllTablesChecked(r)
        \/ Restart(r)

MigrationSpec == MigrationInit /\ [][MigrationNext]_migrationVars

-----------------------------------------------------------------------------

Steps == {"dial", "start", "creating", "verify", "begin", "read", "run", "create", "serving", "failed"}

\* The type invariant of the startup migrations.
MigrationTypeOK ==
    /\ release \in [Replicas -> Versions]
    /\ auto \in [Replicas -> BOOLEAN]
    /\ database \in {"postgres", "dynamodb"}
    /\ hasTable \in BOOLEAN
    /\ row \in -1..MaxVersion
    /\ applied \in [Versions -> Nat]
    /\ rowLock \in Replicas \cup {NoReplica}
    /\ step \in [Replicas -> Steps]
    /\ pass \in [Replicas -> {1, 2}]
    /\ at \in [Replicas -> 0..MaxVersion]
    /\ from \in [Replicas -> 0..MaxVersion]
    /\ shape \in [Tables -> Shapes]
    /\ checked \in [Replicas -> Nat]

\* The version row tells the truth, whoever migrates when and wherever a
\* replica fails: the migrations up to the version have been committed exactly
\* once and no other has (RunMigration's single transaction under the row lock).
SchemaIsExact ==
    \A v \in Versions : applied[v] = IF v <= row THEN 1 ELSE 0

\* A replica that serves has a database at least as new as its release, or
\* tables of the expected shape; nobody takes the version back.
ServingMeansMigrated ==
    \A r \in Replicas : step[r] = "serving" =>
        IF database = "postgres" THEN row >= release[r]
                                 ELSE \A t \in Tables : VerifyTable(shape[t])

\* A start ends well only on a schema that is what it says it is: the type
\* invariant and the two properties above, which the startup migration of both
\* databases is for.
StartsOnItsSchema == MigrationTypeOK /\ SchemaIsExact /\ ServingMeansMigrated
=============================================================================
