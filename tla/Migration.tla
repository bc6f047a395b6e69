------------------------------ MODULE Migration ------------------------------
(***************************************************************************)
(* The start of an API process (cmd/api/main.go) up to the point where it  *)
(* serves: the migrations of internal/migration/migration.go, by several   *)
(* processes over one database.                                            *)
(*                                                                         *)
(* A migration file is a sequence of CREATE TABLE statements that goes to  *)
(* MySQL in one packet (multiStatements=true in docker-compose.yml:7).     *)
(* MySQL commits each of them at once, whatever transaction it is in, so   *)
(* the transaction of apply is over after the first, its INSERT commits by *)
(* itself and its rollback takes nothing back.                             *)
(***************************************************************************)
EXTENDS Integers

CONSTANTS
    Processes,      \* slots for API processes; a slot is started again and again
    LastVersion,    \* the versions of the embedded files are 1..LastVersion
    Statements,     \* Statements[v]: how many tables file v creates
    MaxDeaths,      \* BOUND: how many processes die while they start
    Null

Versions == 1..LastVersion

ASSUME ScriptAssumption ==
    /\ LastVersion \in Nat \ {0}
    /\ Statements \in [Versions -> Nat \ {0}]
ASSUME DeathAssumption == MaxDeaths \in Nat

\* A file that MySQL executes, and the statement it is at.
Sessions == [version : Versions, next : Nat \ {0}]

ASSUME SessionAssumption == Null \notin Sessions

VARIABLES
    ledger,     \* whether the table schema_migrations exists
    recorded,   \* the versions in it
    created,    \* the tables: <<v, i>> is the i-th of file v
    stage,      \* stage[p]: the call that process p makes next
    version,    \* version[p]: the migration it is at
    session,    \* session[p]: what is left to MySQL of the file p has sent
    orphan,     \* orphan[p]: the same, of a process in slot p that died
    deaths      \* how many have died

schemaVars == <<ledger, recorded, created>>
migrationVars == <<schemaVars, stage, version, session, orphan, deaths>>

Stages == {"down", "mysql", "ledger", "check", "begin", "execute", "record",
           "commit", "redis", "serving",
           "shutdown", "closing"}           \* see Lifecycle
Tables == {t \in Versions \X Nat : t[2] \in 1..Statements[t[1]]}

MigrationInit ==
    /\ ledger = FALSE
    /\ recorded = {}
    /\ created = {}
    /\ stage = [p \in Processes |-> "down"]
    /\ version = [p \in Processes |-> 1]
    /\ session = [p \in Processes |-> Null]
    /\ orphan = [p \in Processes |-> Null]
    /\ deaths = 0

-----------------------------------------------------------------------------
(* The steps of a start *)

Move(p, from, to) ==
    /\ stage[p] = from
    /\ stage' = [stage EXCEPT ![p] = to]

\* run returns an error, and main exits with 1.
Exit(p) ==
    /\ stage' = [stage EXCEPT ![p] = "down"]
    /\ version' = [version EXCEPT ![p] = 1]
    /\ session' = [session EXCEPT ![p] = Null]

Start(p) ==
    /\ Move(p, "down", "mysql")
    /\ UNCHANGED <<schemaVars, version, session, orphan, deaths>>

\* OpenMySQL.
PingMySQL(p) ==
    /\ Move(p, "mysql", "ledger")
    /\ UNCHANGED <<schemaVars, version, session, orphan, deaths>>

\* Wrong: IF NOT EXISTS is missing.
CreateLedgerOnce(p) ==
    /\ stage[p] = "ledger"
    /\ IF ledger THEN Exit(p) ELSE Move(p, "ledger", "check") /\ UNCHANGED <<version, session>>
    /\ ledger' = TRUE
    /\ UNCHANGED <<recorded, created, orphan, deaths>>

\* CREATE TABLE IF NOT EXISTS schema_migrations.
CreateLedger(p) ==
    /\ Move(p, "ledger", "check")
    /\ ledger' = TRUE
    /\ UNCHANGED <<recorded, created, version, session, orphan, deaths>>

\* The loop of Apply goes on with the next file, or ends.
Advance(p, from) ==
    /\ Move(p, from, IF version[p] = LastVersion THEN "redis" ELSE "check")
    /\ version' = [version EXCEPT ![p] = IF @ = LastVersion THEN @ ELSE @ + 1]

\* SELECT EXISTS(SELECT 1 FROM schema_migrations WHERE version = ?).
CheckApplied(p) ==
    /\ ledger
    /\ version[p] \in recorded
    /\ Advance(p, "check")
    /\ UNCHANGED <<schemaVars, session, orphan, deaths>>

CheckMissing(p) ==
    /\ ledger
    /\ version[p] \notin recorded
    /\ Move(p, "check", "begin")
    /\ UNCHANGED <<schemaVars, version, session, orphan, deaths>>

\* Wrong: the INSERT goes before the file.
BeginRecords(p) ==
    /\ Move(p, "begin", "execute")
    /\ recorded' = recorded \cup {version[p]}
    /\ session' = [session EXCEPT ![p] = [version |-> version[p], next |-> 1]]
    /\ UNCHANGED <<ledger, created, version, orphan, deaths>>

\* BeginTx, and the file is sent.
Begin(p) ==
    /\ Move(p, "begin", "execute")
    /\ session' = [session EXCEPT ![p] = [version |-> version[p], next |-> 1]]
    /\ UNCHANGED <<schemaVars, version, orphan, deaths>>

Finished(s) == s.next > Statements[s.version]
NextTable(s) == <<s.version, s.next>>

\* MySQL executes a statement of the file and commits it.
Execute(p) ==
    /\ stage[p] = "execute"
    /\ ~Finished(session[p])
    /\ NextTable(session[p]) \notin created
    /\ created' = created \cup {NextTable(session[p])}
    /\ session' = [session EXCEPT ![p].next = @ + 1]
    /\ UNCHANGED <<ledger, recorded, stage, version, orphan, deaths>>

\* Wrong: a table that is there is skipped; the file need not have run.
SkipExisting(p) ==
    /\ stage[p] = "execute"
    /\ ~Finished(session[p])
    /\ NextTable(session[p]) \in created
    /\ Move(p, "execute", "record")
    /\ session' = [session EXCEPT ![p] = Null]
    /\ UNCHANGED <<schemaVars, version, orphan, deaths>>

\* "Table already exists" ends the file: Rollback takes nothing back.
TableExists(p) ==
    /\ stage[p] = "execute"
    /\ ~Finished(session[p])
    /\ NextTable(session[p]) \in created
    /\ Exit(p)
    /\ UNCHANGED <<schemaVars, orphan, deaths>>

Executed(p) ==
    /\ Move(p, "execute", "record")
    /\ Finished(session[p])
    /\ session' = [session EXCEPT ![p] = Null]
    /\ UNCHANGED <<schemaVars, version, orphan, deaths>>

\* INSERT INTO schema_migrations; version is its primary key.
Record(p) ==
    /\ version[p] \notin recorded
    /\ Move(p, "record", "commit")
    /\ recorded' = recorded \cup {version[p]}
    /\ UNCHANGED <<ledger, created, version, session, orphan, deaths>>

RecordFails(p) ==
    /\ stage[p] = "record"
    /\ version[p] \in recorded
    /\ Exit(p)
    /\ UNCHANGED <<schemaVars, orphan, deaths>>

Commit(p) ==
    /\ Advance(p, "commit")
    /\ UNCHANGED <<schemaVars, session, orphan, deaths>>

\* OpenRedis; the rest of run up to the listener makes no call.
PingRedis(p) ==
    /\ Move(p, "redis", "serving")
    /\ UNCHANGED <<schemaVars, version, session, orphan, deaths>>

StartStep(p) ==
    \/ PingMySQL(p) \/ CreateLedger(p) \/ CheckApplied(p) \/ CheckMissing(p)
    \/ Begin(p) \/ Execute(p) \/ TableExists(p) \/ Executed(p)
    \/ Record(p) \/ RecordFails(p) \/ Commit(p) \/ PingRedis(p)

-----------------------------------------------------------------------------
(* Failures *)

\* The process is killed, a call of it fails, or the ten seconds of the start
\* are over (main.go:31): between any two statements.  MySQL learns of it late,
\* and may go on with the file.
Dies(p) ==
    /\ stage[p] \notin {"down", "serving", "shutdown", "closing"}
    /\ deaths < MaxDeaths
    /\ deaths' = deaths + 1
    /\ Exit(p)
    /\ orphan' = [orphan EXCEPT ![p] = IF session[p] # Null THEN session[p] ELSE @]
    /\ UNCHANGED schemaVars

OrphanExecutes(p) ==
    /\ orphan[p] # Null
    /\ ~Finished(orphan[p])
    /\ NextTable(orphan[p]) \notin created
    /\ created' = created \cup {NextTable(orphan[p])}
    /\ orphan' = [orphan EXCEPT ![p].next = @ + 1]
    /\ UNCHANGED <<ledger, recorded, stage, version, session, deaths>>

\* MySQL notices that the client is gone, or the file ends or fails.
OrphanEnds(p) ==
    /\ orphan[p] # Null
    /\ orphan' = [orphan EXCEPT ![p] = Null]
    /\ UNCHANGED <<schemaVars, stage, version, session, deaths>>

\* A process that serves stops, for whatever reason (see Lifecycle).
Stop(p) ==
    /\ stage[p] = "serving"
    /\ Exit(p)
    /\ UNCHANGED <<schemaVars, orphan, deaths>>

MigrationNext ==
    \E p \in Processes :
        \/ Start(p) \/ StartStep(p) \/ Stop(p)
        \/ Dies(p) \/ OrphanExecutes(p) \/ OrphanEnds(p)

MigrationSpec == MigrationInit /\ [][MigrationNext]_migrationVars

\* A process that is down is started again, its calls return, and MySQL ends
\* the file of a client that is gone.
FairMigrationSpec ==
    /\ MigrationSpec
    /\ \A p \in Processes : /\ WF_migrationVars(Start(p))
                            /\ WF_migrationVars(StartStep(p))
                            /\ WF_migrationVars(OrphanEnds(p))

-----------------------------------------------------------------------------
(* Properties *)

\* Types of the variables (migration.go:16-20, 25-31).
MigrationTypeOK ==
    /\ ledger \in BOOLEAN
    /\ recorded \subseteq Versions
    /\ created \subseteq Tables
    /\ stage \in [Processes -> Stages]
    /\ version \in [Processes -> Versions]
    /\ session \in [Processes -> Sessions \cup {Null}]
    /\ orphan \in [Processes -> Sessions \cup {Null}]
    /\ deaths \in 0..MaxDeaths

Applied(v) == \A i \in 1..Statements[v] : <<v, i>> \in created

\* A version is recorded only when all its tables are there, although nothing
\* is atomic about it and processes and what they left behind race
\* (migration.go:114-130).
RecordedIsApplied == \A v \in recorded : Applied(v)

\* A process that serves has the whole schema below it, whoever migrated it
\* (main.go:59-61).
ServingHasSchema ==
    \A p \in Processes : stage[p] = "serving" => \A v \in Versions : Applied(v)

\* Processes that are started again and again end up serving, those that met
\* the tables of another one's migration too.  With deaths while they start it
\* is what README.md:50 says: "При старте API применяет неприменённые миграции".
EventuallyServes == \A p \in Processes : []<>(stage[p] = "serving")
=============================================================================
