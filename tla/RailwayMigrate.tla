--------------------------- MODULE RailwayMigrate ---------------------------
(***************************************************************************)
(* The pre-deploy script scripts/railway-migrate.mjs: one process that     *)
(* looks at the database and then calls the Prisma CLI, which may be       *)
(* killed after any statement and is started again by the next deploy,     *)
(* possibly with a newer image.  Migrations are numbered in the order      *)
(* listMigrationNames sorts them.                                          *)
(*                                                                         *)
(* A migration leaves two things: what the Prisma schema also describes    *)
(* (tables) and what only its SQL says (the partial unique index of active *)
(* packs, the audit log's trigger, the checks).  db push makes the first   *)
(* kind only.  The Prisma CLI is external.                                 *)
(***************************************************************************)
EXTENDS Naturals, Sequences

CONSTANT MaxShipped        \* bound: migrations of the newest image

ASSUME ShippedAssumption == MaxShipped \in Nat

VARIABLES shipped,         \* migrations the running image contains: 1..shipped
          tables,          \* migrations whose tables are in the database
          rawSql,          \* migrations whose other SQL is
          historyTable,    \* whether _prisma_migrations exists
          migrationRow,    \* its rows
          script,          \* the step the script is in
          outcome          \* how the script last ended, for this image

migrateVars == <<shipped, tables, rawSql, historyTable, migrationRow, script, outcome>>

Migrations == 1..MaxShipped
Step == {"off", "read", "push", "resolve", "deploy", "applying"}

MigrateTypeOK ==
  /\ shipped \in 0..MaxShipped
  /\ tables \subseteq Migrations /\ rawSql \subseteq Migrations
  /\ historyTable \in BOOLEAN
  /\ migrationRow \in [Migrations -> {"none", "started", "applied"}]
  /\ script \in Step
  /\ outcome \in {"none", "succeeded", "failed"}

\* An empty database, or one somebody else put tables into.
MigrateInit ==
  /\ shipped \in 0..MaxShipped
  /\ tables \in {{}} \cup {{n} : n \in Migrations}
  /\ rawSql = {}
  /\ historyTable = FALSE
  /\ migrationRow = [n \in Migrations |-> "none"]
  /\ script = "off"
  /\ outcome = "none"

Database == <<tables, rawSql, historyTable, migrationRow>>

\* listMigrationNames: the directories of this image.
Listed == 1..shipped

End(result) == script' = "off" /\ outcome' = result

\* A newer image brings one more migration.
ShipMigration ==
  /\ script = "off" /\ shipped < MaxShipped
  /\ shipped' = shipped + 1
  /\ outcome' = "none"
  /\ UNCHANGED <<Database, script>>

StartScript ==
  /\ script = "off"
  /\ script' = "read"
  /\ UNCHANGED <<shipped, Database, outcome>>

MigrationAction ==
  CASE historyTable -> "deploy"
    [] ~historyTable /\ tables = {} -> "bootstrap"
    [] OTHER -> "refuse"

\* The baseline is recorded before the schema it stands for is there.
ResolveFirst == <<"resolve", "push", "deploy">>

\* The order of the calls that bootstrap an empty database.
BootstrapOrder == <<"push", "resolve", "deploy">>

Following(step) ==
  BootstrapOrder[1 + (CHOOSE i \in 1..2 : BootstrapOrder[i] = step)]

ReadDatabaseState ==
  /\ script = "read"
  /\ \/ /\ MigrationAction = "deploy"
        /\ script' = "deploy" /\ UNCHANGED outcome
     \/ /\ MigrationAction = "bootstrap" /\ Listed # {}
        /\ script' = BootstrapOrder[1] /\ UNCHANGED outcome
     \/ /\ MigrationAction = "bootstrap" => Listed = {}
        /\ MigrationAction # "deploy"
        /\ End("failed")
  /\ UNCHANGED <<shipped, Database>>

\* prisma db push: the tables appear one after another.
DbPush ==
  /\ script = "push"
  /\ IF tables = Listed
     THEN script' = Following("push") /\ UNCHANGED tables
     ELSE /\ tables' = tables \cup {CHOOSE n \in Listed \ tables :
                                      \A k \in Listed \ tables : n <= k}
          /\ UNCHANGED script
  /\ UNCHANGED <<shipped, rawSql, historyTable, migrationRow, outcome>>

Unrecorded == {n \in Listed : migrationRow[n] = "none"}
NextUnrecorded == CHOOSE n \in Unrecorded : \A k \in Unrecorded : n <= k

\* prisma migrate resolve --applied, once per listed migration: the first
\* call makes the history table before it writes its row.
MigrateResolve ==
  /\ script = "resolve"
  /\ \/ ~historyTable /\ historyTable' = TRUE /\ UNCHANGED <<migrationRow, script>>
     \/ /\ historyTable /\ Unrecorded # {}
        /\ migrationRow' = [migrationRow EXCEPT ![NextUnrecorded] = "applied"]
        /\ UNCHANGED <<historyTable, script>>
     \/ /\ historyTable /\ Unrecorded = {}
        /\ script' = Following("resolve") /\ UNCHANGED <<historyTable, migrationRow>>
  /\ UNCHANGED <<shipped, tables, rawSql, outcome>>

Started == {n \in Migrations : migrationRow[n] = "started"}

\* prisma migrate deploy: it stops on a migration that did not finish, and
\* else starts the next pending one ...
DeployStarts ==
  /\ script = "deploy"
  /\ \/ /\ Started # {} /\ End("failed") /\ UNCHANGED migrationRow
     \/ /\ Started = {} /\ Unrecorded = {}
        /\ End("succeeded") /\ UNCHANGED migrationRow
     \/ /\ Started = {} /\ Unrecorded # {}
        /\ migrationRow' = [migrationRow EXCEPT ![NextUnrecorded] = "started"]
        /\ script' = "applying" /\ UNCHANGED outcome
  /\ UNCHANGED <<shipped, tables, rawSql, historyTable>>

\* ... whose SQL runs as one transaction and fails when its tables are there
\* already, or those of an earlier migration are not.
DeployApplies ==
  /\ script = "applying"
  /\ \E n \in Started :
       \/ /\ n \notin tables /\ 1..(n - 1) \subseteq tables
          /\ tables' = tables \cup {n}
          /\ rawSql' = rawSql \cup {n}
          /\ migrationRow' = [migrationRow EXCEPT ![n] = "applied"]
          /\ script' = "deploy" /\ UNCHANGED outcome
       \/ /\ n \in tables \/ ~(1..(n - 1) \subseteq tables)
          /\ End("failed")
          /\ UNCHANGED <<tables, rawSql, migrationRow>>
  /\ UNCHANGED <<shipped, historyTable>>

\* The container is stopped, or the connection lost, at any point.
Interrupted ==
  /\ script # "off"
  /\ End("failed")
  /\ UNCHANGED <<shipped, Database>>

MigrateNext ==
  \/ ShipMigration \/ StartScript \/ ReadDatabaseState \/ DbPush
  \/ MigrateResolve \/ DeployStarts \/ DeployApplies \/ Interrupted

MigrateSpec == MigrateInit /\ [][MigrateNext]_migrateVars

-----------------------------------------------------------------------------
\* A script that reported success left the database at its image's schema:
\* every migration is recorded and its tables are there, whatever was
\* interrupted and started again before, and whoever made the first tables.
\* (main, scripts/railway-migrate.mjs:55-95)
SuccessMeansCurrent ==
  outcome = "succeeded" =>
    \A n \in Listed : migrationRow[n] = "applied" /\ n \in tables
=============================================================================
