----------------------------- MODULE Migrations -----------------------------
(***************************************************************************)
(* upgrade_database, with which every command and the API begin: Alembic   *)
(* reads the revision the database is at, applies the ones after it and    *)
(* stamps each.  Alembic holds SQLite's DDL for not transactional, and     *)
(* pysqlite begins a transaction for INSERT and UPDATE only, so every      *)
(* CREATE is committed by itself, and a stamp by itself after them.        *)
(*                                                                         *)
(* A table stands for its CREATE TABLE and its CREATE INDEX statements.    *)
(***************************************************************************)
EXTENDS Naturals, Sequences, FiniteSets

CONSTANTS Commands,  \* the processes that migrate
          Killable,  \* those that may be killed
          AtATime    \* bound on the commands that migrate at a time

VARIABLES tables,   \* the tables of the database
          version,  \* the row of alembic_version, 0 when there is none
          pc,       \* where each command is
          rev,      \* the revision it takes the database to be at
          done      \* how many tables of the next revision it has created

migratevars == <<tables, version, pc, rev, done>>

(* upgrade() of the two revisions                                          *)
InitialSchema == <<"crawl_runs", "jobs", "source_checkpoints", "crawl_run_errors">>
RunAdapterStates == <<"crawl_run_adapter_states">>

(* Variant, wrong: the second revision creates a table of the first again. *)
RevisionsTwice == <<InitialSchema, <<"crawl_runs">> \o RunAdapterStates>>

Revisions == <<InitialSchema, RunAdapterStates>>
Latest == 2

MigrateInit ==
    /\ tables = {}
    /\ version = 0
    /\ pc = [p \in Commands |-> "idle"]
    /\ rev = [p \in Commands |-> 0]
    /\ done = [p \in Commands |-> 0]

Goto(p, label) == pc' = [pc EXCEPT ![p] = label]

Underway == {p \in Commands : pc[p] \notin {"idle", "ready", "failed", "killed"}}

(* What follows when a command takes the database to be at revision r.     *)
After(r) == IF r = Latest THEN "ready" ELSE IF r = 0 THEN "ensure" ELSE "create"

Begin(p) ==
    /\ pc[p] = "idle"
    /\ Cardinality(Underway) < AtATime
    /\ Goto(p, "heads")
    /\ UNCHANGED <<tables, version, rev, done>>

(* get_current_heads: nothing, when there is no alembic_version.           *)
ReadHeads(p) ==
    /\ pc[p] = "heads"
    /\ rev' = [rev EXCEPT ![p] = version]
    /\ Goto(p, After(version))
    /\ UNCHANGED <<tables, version, done>>

(* _ensure_version_table looks for the table, and then creates it.         *)
LookForVersionTable(p) ==
    /\ pc[p] = "ensure"
    /\ Goto(p, IF "alembic_version" \in tables THEN "create" ELSE "version_table")
    /\ UNCHANGED <<tables, version, rev, done>>

(* CREATE TABLE raises when the table is there.                            *)
CreateTable(p, t, next) ==
    /\ Goto(p, IF t \in tables THEN "failed" ELSE next)
    /\ tables' = tables \cup {t}
    /\ UNCHANGED <<version, rev>>

CreateVersionTable(p) ==
    /\ pc[p] = "version_table"
    /\ CreateTable(p, "alembic_version", "create")
    /\ UNCHANGED done

Todo(p) == Revisions[rev[p] + 1]

CreateNext(p) ==
    /\ pc[p] = "create"
    /\ CreateTable(p, Todo(p)[done[p] + 1],
                   IF done[p] + 1 = Len(Todo(p)) THEN "stamp" ELSE "create")
    /\ done' = [done EXCEPT ![p] = @ + 1]

(* Variant, wrong: a revision is stamped as the newest one.                *)
StampHead(p) ==
    /\ pc[p] = "stamp"
    /\ version' = Latest
    /\ rev' = [rev EXCEPT ![p] = Latest]
    /\ Goto(p, "ready")
    /\ done' = [done EXCEPT ![p] = 0]
    /\ UNCHANGED tables

(* INSERT or UPDATE ... WHERE version_num = the revision before, and the   *)
(* commit; it raises when another command has stamped meanwhile.           *)
Stamp(p) ==
    /\ pc[p] = "stamp"
    /\ IF version = rev[p]
       THEN /\ version' = rev[p] + 1
            /\ rev' = [rev EXCEPT ![p] = @ + 1]
            /\ Goto(p, After(rev[p] + 1))
       ELSE /\ Goto(p, "failed")
            /\ UNCHANGED <<version, rev>>
    /\ done' = [done EXCEPT ![p] = 0]
    /\ UNCHANGED tables

Kill(p) ==
    /\ p \in Killable
    /\ p \in Underway
    /\ Goto(p, "killed")
    /\ UNCHANGED <<tables, version, rev, done>>

Step(p) ==
    \/ ReadHeads(p) \/ LookForVersionTable(p) \/ CreateVersionTable(p)
    \/ CreateNext(p) \/ Stamp(p)

MigrateNext == \E p \in Commands : Begin(p) \/ Step(p) \/ Kill(p)

(* A command that was started runs.                                        *)
Fairness == \A p \in Commands : WF_migratevars(Step(p))

MigrateSpec == MigrateInit /\ [][MigrateNext]_migratevars /\ Fairness
-----------------------------------------------------------------------------
(* Properties                                                              *)

(* The tables of the models (db/models.py)                                 *)
Schema == {"crawl_runs", "crawl_run_errors", "crawl_run_adapter_states", "jobs",
           "source_checkpoints"}

(* A command whose upgrade_database returns finds every table, whichever   *)
(* others were migrating or killed: a stamp never runs ahead of the tables.*)
ReadyMeansMigrated ==
    \A p \in Commands : pc[p] = "ready" => Schema \subseteq tables

(* Of commands that migrate at the same time some lose the race and fail,  *)
(* but never all of them, unless one is killed; and a command that comes   *)
(* when the database is at the head does not fail.                         *)
CommandsMigrate ==
    /\ (\E p \in Commands : pc[p] = "heads")
          ~> \E p \in Commands : pc[p] \in {"ready", "killed"}
    /\ \A p \in Commands :
          pc[p] = "heads" /\ version = Latest ~> pc[p] \in {"ready", "killed"}

(* db/migrations/README.md: `db init` upgrades the database to the head.   *)
UpgradesSucceed == \A p \in Commands : pc[p] # "failed"
=============================================================================
