--------------------------- MODULE MigrationProofs ---------------------------
(***************************************************************************)
(* Theorems of Migration and of Lifecycle for any number of processes,     *)
(* files, tables and clients: what is recorded is applied, who serves has  *)
(* the whole schema, the life of a process refines its start, and a clean  *)
(* exit loses no request.                                                  *)
(***************************************************************************)
EXTENDS Lifecycle, TLAPS

(* The tables that an executing file is past are there. *)
Past(s) == s # Null => \A i \in 1..(s.next - 1) : <<s.version, i>> \in created

(* What a process knows at each of its steps. *)
StartOK(p) ==
    /\ \A v \in 1..(version[p] - 1) : v \in recorded
    /\ stage[p] = "execute" => session[p] # Null /\ session[p].version = version[p]
    /\ stage[p] = "record" => Applied(version[p])
    /\ stage[p] = "commit" => version[p] \in recorded
    /\ stage[p] \in {"redis", "serving"} => Versions \subseteq recorded

MInv ==
    /\ MigrationTypeOK
    /\ RecordedIsApplied
    /\ \A p \in Processes : StartOK(p) /\ Past(session[p]) /\ Past(orphan[p])

(* Nothing is taken from the schema. *)
Grows == recorded \subseteq recorded' /\ created \subseteq created'

-----------------------------------------------------------------------------

LEMMA InitMInv == MigrationInit => MInv
  <1> SUFFICES ASSUME MigrationInit PROVE MInv
    OBVIOUS
  <1>1. MigrationTypeOK
    <2>1. 1 \in Versions /\ 0 \in 0..MaxDeaths /\ "down" \in Stages
      BY ScriptAssumption, DeathAssumption DEF Versions, Stages
    <2>2. version \in [Processes -> Versions] /\ deaths \in 0..MaxDeaths
      BY <2>1 DEF MigrationInit
    <2>3. stage \in [Processes -> Stages]
      BY <2>1 DEF MigrationInit
    <2>4. ledger \in BOOLEAN /\ recorded \subseteq Versions /\ created \subseteq Tables
      BY DEF MigrationInit
    <2>5. /\ session \in [Processes -> Sessions \cup {Null}]
          /\ orphan \in [Processes -> Sessions \cup {Null}]
      BY DEF MigrationInit
    <2> QED BY <2>2, <2>3, <2>4, <2>5 DEF MigrationTypeOK
  <1>2. RecordedIsApplied
    BY DEF MigrationInit, RecordedIsApplied
  <1>3. ASSUME NEW p \in Processes PROVE StartOK(p) /\ Past(session[p]) /\ Past(orphan[p])
    BY DEF MigrationInit, StartOK, Past
  <1> QED BY <1>1, <1>2, <1>3 DEF MInv

(* An executed file has created all its tables. *)
LEMMA FinishedIsApplied ==
    ASSUME NEW s \in Sessions, s # Null, Past(s), Finished(s)
    PROVE  Applied(s.version)
  BY ScriptAssumption DEF Sessions, Past, Finished, Applied, Versions

(* A step that leaves a process alone leaves what it knows. *)
LEMMA OthersKeep ==
    ASSUME MInv, Grows, NEW q \in Processes,
           stage'[q] = stage[q], version'[q] = version[q], session'[q] = session[q]
    PROVE  StartOK(q)' /\ Past(session[q])'
  BY DEF MInv, Grows, StartOK, Past, Applied

LEMMA OrphansKeep ==
    ASSUME MInv, Grows, NEW q \in Processes, orphan'[q] = orphan[q]
    PROVE  Past(orphan[q])'
  BY DEF MInv, Grows, Past

(* A step that creates no table and records what is applied only. *)
LEMMA RecordedKeeps ==
    ASSUME RecordedIsApplied, created \subseteq created', recorded' \subseteq recorded
    PROVE  RecordedIsApplied'
  BY DEF RecordedIsApplied, Applied

-----------------------------------------------------------------------------
(* Each step preserves the invariant *)

(* Only process p moves: the rest follows from what it knows itself. *)
LEMMA OneMoves ==
    ASSUME MInv, Grows, MigrationTypeOK', RecordedIsApplied', NEW p \in Processes,
           StartOK(p)', Past(session[p])', Past(orphan[p])',
           \A q \in Processes \ {p} :
              /\ stage'[q] = stage[q] /\ version'[q] = version[q]
              /\ session'[q] = session[q] /\ orphan'[q] = orphan[q]
    PROVE  MInv'
  BY OthersKeep, OrphansKeep DEF MInv

(* The process ends: it knows nothing any more. *)
LEMMA ExitOK ==
    ASSUME MigrationTypeOK, NEW p \in Processes, Exit(p)
    PROVE  /\ stage' \in [Processes -> Stages]
           /\ version' \in [Processes -> Versions]
           /\ session' \in [Processes -> Sessions \cup {Null}]
           /\ StartOK(p)' /\ Past(session[p])'
  BY ScriptAssumption DEF MigrationTypeOK, Exit, StartOK, Past, Stages, Versions

(* The loop goes on once the version of the process is recorded. *)
LEMMA AdvanceOK ==
    ASSUME MInv, NEW p \in Processes, NEW from \in Stages, Advance(p, from),
           version[p] \in recorded, recorded' = recorded
    PROVE  /\ stage' \in [Processes -> Stages]
           /\ version' \in [Processes -> Versions]
           /\ StartOK(p)'
  <1>1. version[p] \in Versions /\ LastVersion \in Nat
    BY ScriptAssumption DEF MInv, MigrationTypeOK
  <1>2. \A v \in 1..version[p] : v \in recorded
    BY <1>1 DEF MInv, StartOK, Versions
  <1>3. CASE version[p] = LastVersion
    BY <1>1, <1>2, <1>3 DEF MInv, MigrationTypeOK, Advance, Move, StartOK, Stages, Versions
  <1>4. CASE version[p] # LastVersion
    BY <1>1, <1>2, <1>4 DEF MInv, MigrationTypeOK, Advance, Move, StartOK, Stages, Versions
  <1> QED BY <1>3, <1>4

(* A step of the start that only moves the process on. *)
LEMMA MovesOn ==
    ASSUME MInv, NEW p \in Processes, NEW from \in Stages, NEW to \in Stages,
           Move(p, from, to), to \in {"mysql", "ledger", "check", "begin", "shutdown", "closing"},
           ledger' \in BOOLEAN,
           UNCHANGED <<recorded, created, version, session, orphan, deaths>>
    PROVE  MInv'
  <1>1. Grows /\ RecordedIsApplied'
    BY RecordedKeeps DEF Grows, MInv
  <1>2. MigrationTypeOK'
    BY DEF MInv, MigrationTypeOK, Move
  <1>3. StartOK(p)' /\ Past(session[p])' /\ Past(orphan[p])'
    BY DEF MInv, MigrationTypeOK, Move, StartOK, Past
  <1> QED BY <1>1, <1>2, <1>3, OneMoves DEF MInv, MigrationTypeOK, Move

LEMMA BeginKeeps == ASSUME MInv, NEW p \in Processes, Begin(p) PROVE MInv'
  <1>1. Grows /\ RecordedIsApplied'
    BY RecordedKeeps DEF Grows, MInv, Begin, schemaVars
  <1>2. [version |-> version[p], next |-> 1] \in Sessions
    BY DEF MInv, MigrationTypeOK, Sessions
  <1>3. MigrationTypeOK'
    BY <1>2 DEF MInv, MigrationTypeOK, Begin, Move, Stages, schemaVars
  <1>4. StartOK(p)' /\ Past(session[p])' /\ Past(orphan[p])'
    BY <1>2, SessionAssumption
    DEF MInv, MigrationTypeOK, Begin, Move, StartOK, Past, schemaVars
  <1> QED
    BY <1>1, <1>3, <1>4, OneMoves DEF MInv, MigrationTypeOK, Begin, Move

(* The table that an executing file is at. *)
LEMMA NextIsTable ==
    ASSUME NEW s \in Sessions, ~Finished(s)
    PROVE  /\ NextTable(s) \in Tables
           /\ [s EXCEPT !.next = @ + 1] \in Sessions
  BY ScriptAssumption DEF Sessions, Finished, NextTable, Tables, Versions

LEMMA ExecuteKeeps == ASSUME MInv, NEW p \in Processes, Execute(p) PROVE MInv'
  <1> DEFINE s == session[p]
  <1>1. s \in Sessions /\ s # Null
    BY DEF MInv, MigrationTypeOK, Execute, StartOK
  <1>2. Grows /\ RecordedIsApplied'
    BY DEF Grows, MInv, Execute, RecordedIsApplied, Applied
  <1>3. session'[p] = [s EXCEPT !.next = @ + 1]
    BY <1>1 DEF MInv, MigrationTypeOK, Execute
  <1>4. MigrationTypeOK'
    BY <1>1, <1>3, NextIsTable DEF MInv, MigrationTypeOK, Execute
  <1>5. Past(session[p])'
    BY <1>1, <1>3 DEF MInv, Past, Execute, NextTable, Sessions
  <1>6. StartOK(p)'
    BY <1>1, <1>3, NextIsTable, SessionAssumption
    DEF MInv, MigrationTypeOK, Execute, StartOK, Sessions
  <1>7. Past(orphan[p])'
    BY DEF MInv, Past, Execute
  <1> QED
    BY <1>2, <1>4, <1>5, <1>6, <1>7, OneMoves DEF MInv, MigrationTypeOK, Execute

LEMMA ExecutedKeeps == ASSUME MInv, NEW p \in Processes, Executed(p) PROVE MInv'
  <1>1. Grows /\ RecordedIsApplied'
    BY RecordedKeeps DEF Grows, MInv, Executed, schemaVars
  <1>2. session[p] \in Sessions /\ session[p] # Null /\ session[p].version = version[p]
    BY DEF MInv, MigrationTypeOK, Executed, Move, StartOK
  <1>3. Applied(version[p])
    BY <1>2, FinishedIsApplied DEF MInv, Executed
  <1>4. MigrationTypeOK'
    BY DEF MInv, MigrationTypeOK, Executed, Move, Stages, schemaVars
  <1>5. StartOK(p)' /\ Past(session[p])' /\ Past(orphan[p])'
    BY <1>3 DEF MInv, MigrationTypeOK, Executed, Move, StartOK, Past, Applied, schemaVars
  <1> QED
    BY <1>1, <1>4, <1>5, OneMoves DEF MInv, MigrationTypeOK, Executed, Move

LEMMA RecordKeeps == ASSUME MInv, NEW p \in Processes, Record(p) PROVE MInv'
  <1>1. Applied(version[p]) /\ version[p] \in Versions
    BY DEF MInv, MigrationTypeOK, Record, Move, StartOK
  <1>2. Grows /\ RecordedIsApplied'
    BY <1>1 DEF Grows, MInv, Record, RecordedIsApplied, Applied
  <1>3. MigrationTypeOK'
    BY <1>1 DEF MInv, MigrationTypeOK, Record, Move, Stages
  <1>4. StartOK(p)' /\ Past(session[p])' /\ Past(orphan[p])'
    BY DEF MInv, MigrationTypeOK, Record, Move, StartOK, Past
  <1> QED
    BY <1>2, <1>3, <1>4, OneMoves DEF MInv, MigrationTypeOK, Record, Move

(* CheckApplied and Commit. *)
LEMMA AdvanceKeeps ==
    ASSUME MInv, NEW p \in Processes, NEW from \in Stages, Advance(p, from),
           version[p] \in recorded, UNCHANGED <<schemaVars, session, orphan, deaths>>
    PROVE  MInv'
  <1>1. Grows /\ RecordedIsApplied'
    BY RecordedKeeps DEF Grows, MInv, schemaVars
  <1>2. MigrationTypeOK'
    BY AdvanceOK DEF MInv, MigrationTypeOK, schemaVars
  <1>3. StartOK(p)' /\ Past(session[p])' /\ Past(orphan[p])'
    BY AdvanceOK DEF MInv, Past, schemaVars
  <1> QED
    BY <1>1, <1>2, <1>3, OneMoves DEF MInv, MigrationTypeOK, Advance, Move

LEMMA PingRedisKeeps == ASSUME MInv, NEW p \in Processes, PingRedis(p) PROVE MInv'
  <1>1. Grows /\ RecordedIsApplied'
    BY RecordedKeeps DEF Grows, MInv, PingRedis, schemaVars
  <1>2. MigrationTypeOK'
    BY DEF MInv, MigrationTypeOK, PingRedis, Move, Stages, schemaVars
  <1>3. StartOK(p)' /\ Past(session[p])' /\ Past(orphan[p])'
    BY DEF MInv, MigrationTypeOK, PingRedis, Move, StartOK, Past, schemaVars
  <1> QED
    BY <1>1, <1>2, <1>3, OneMoves DEF MInv, MigrationTypeOK, PingRedis, Move

(* TableExists, RecordFails, Stop, and Dies, which leaves its file to MySQL. *)
LEMMA ExitKeeps ==
    ASSUME MInv, NEW p \in Processes, Exit(p), UNCHANGED schemaVars,
           deaths' \in 0..MaxDeaths,
           \E s \in {session[p], orphan[p]} : orphan' = [orphan EXCEPT ![p] = s]
    PROVE  MInv'
  <1>1. Grows /\ RecordedIsApplied'
    BY RecordedKeeps DEF Grows, MInv, schemaVars
  <1>2. /\ orphan' \in [Processes -> Sessions \cup {Null}]
        /\ Past(orphan[p])'
    BY DEF MInv, MigrationTypeOK, Past, schemaVars
  <1>3. MigrationTypeOK'
    BY <1>2, ExitOK DEF MInv, MigrationTypeOK, schemaVars
  <1>4. StartOK(p)' /\ Past(session[p])'
    BY ExitOK DEF MInv
  <1> QED
    BY <1>1, <1>2, <1>3, <1>4, OneMoves DEF MInv, MigrationTypeOK, Exit

LEMMA OrphanExecutesKeeps ==
    ASSUME MInv, NEW p \in Processes, OrphanExecutes(p) PROVE MInv'
  <1> DEFINE s == orphan[p]
  <1>1. s \in Sessions /\ s # Null
    BY DEF MInv, MigrationTypeOK, OrphanExecutes
  <1>2. Grows /\ RecordedIsApplied'
    BY DEF Grows, MInv, OrphanExecutes, RecordedIsApplied, Applied
  <1>3. orphan'[p] = [s EXCEPT !.next = @ + 1]
    BY <1>1 DEF MInv, MigrationTypeOK, OrphanExecutes
  <1>4. MigrationTypeOK'
    BY <1>1, <1>3, NextIsTable DEF MInv, MigrationTypeOK, OrphanExecutes
  <1>5. Past(orphan[p])'
    BY <1>1, <1>3 DEF MInv, Past, OrphanExecutes, NextTable, Sessions
  <1>6. StartOK(p)' /\ Past(session[p])'
    BY <1>2, OthersKeep DEF OrphanExecutes
  <1> QED
    BY <1>2, <1>4, <1>5, <1>6, OneMoves DEF MInv, MigrationTypeOK, OrphanExecutes

LEMMA OrphanEndsKeeps ==
    ASSUME MInv, NEW p \in Processes, OrphanEnds(p) PROVE MInv'
  <1>1. Grows /\ RecordedIsApplied'
    BY RecordedKeeps DEF Grows, MInv, OrphanEnds, schemaVars
  <1>2. MigrationTypeOK' /\ Past(orphan[p])'
    BY DEF MInv, MigrationTypeOK, OrphanEnds, Past, schemaVars
  <1>3. StartOK(p)' /\ Past(session[p])'
    BY <1>1, OthersKeep DEF OrphanEnds
  <1> QED
    BY <1>1, <1>2, <1>3, OneMoves DEF MInv, MigrationTypeOK, OrphanEnds

(* Each action of the specification, and a stuttering step. *)
LEMMA StepKeeps == MInv /\ [MigrationNext]_migrationVars => MInv'
  <1> SUFFICES ASSUME MInv, [MigrationNext]_migrationVars PROVE MInv'
    OBVIOUS
  <1>1. CASE UNCHANGED migrationVars
    <2>1. MigrationTypeOK' /\ RecordedIsApplied'
      BY <1>1 DEF MInv, MigrationTypeOK, RecordedIsApplied, Applied, migrationVars, schemaVars
    <2>2. ASSUME NEW p \in Processes
          PROVE  StartOK(p)' /\ Past(session[p])' /\ Past(orphan[p])'
      BY <1>1 DEF MInv, StartOK, Past, Applied, migrationVars, schemaVars
    <2> QED BY <2>1, <2>2 DEF MInv
  <1>2. ASSUME NEW p \in Processes, Start(p) \/ PingMySQL(p) \/ CreateLedger(p) \/ CheckMissing(p)
        PROVE  MInv'
    BY <1>2, MovesOn
    DEF Start, PingMySQL, CreateLedger, CheckMissing, Stages, schemaVars, MInv, MigrationTypeOK
  <1>3. ASSUME NEW p \in Processes, CheckApplied(p) \/ Commit(p) PROVE MInv'
    <2>1. CASE CheckApplied(p)
      BY <2>1, AdvanceKeeps DEF CheckApplied, Stages
    <2>2. CASE Commit(p)
      <3>1. version[p] \in recorded
        BY <2>2 DEF MInv, StartOK, Commit, Advance, Move
      <3> QED BY <2>2, <3>1, AdvanceKeeps DEF Commit, Stages
    <2> QED BY <1>3, <2>1, <2>2
  <1>4. ASSUME NEW p \in Processes,
               Begin(p) \/ Execute(p) \/ Executed(p) \/ Record(p) \/ PingRedis(p)
        PROVE  MInv'
    BY <1>4, BeginKeeps, ExecuteKeeps, ExecutedKeeps, RecordKeeps, PingRedisKeeps
  <1>5. ASSUME NEW p \in Processes, TableExists(p) \/ RecordFails(p) \/ Stop(p) \/ Dies(p)
        PROVE  MInv'
    <2>1. Exit(p) /\ UNCHANGED schemaVars
      BY <1>5 DEF TableExists, RecordFails, Stop, Dies
    <2>2. deaths' \in 0..MaxDeaths
      BY <1>5, DeathAssumption
      DEF TableExists, RecordFails, Stop, Dies, MInv, MigrationTypeOK
    <2>3. \E s \in {session[p], orphan[p]} : orphan' = [orphan EXCEPT ![p] = s]
      BY <1>5 DEF TableExists, RecordFails, Stop, Dies, MInv, MigrationTypeOK
    <2> QED BY <2>1, <2>2, <2>3, ExitKeeps
  <1>6. ASSUME NEW p \in Processes, OrphanExecutes(p) \/ OrphanEnds(p) PROVE MInv'
    BY <1>6, OrphanExecutesKeeps, OrphanEndsKeeps
  <1> QED
    BY <1>1, <1>2, <1>3, <1>4, <1>5, <1>6 DEF MigrationNext, StartStep

LEMMA MInvHolds == MigrationSpec => []MInv
  BY InitMInv, StepKeeps, PTL DEF MigrationSpec

-----------------------------------------------------------------------------

(* The types of the start, for any number of processes, files and tables     *)
(* (migration.go:16-20).                                                     *)
THEOREM MigrationTypeCorrect == MigrationSpec => []MigrationTypeOK
  <1>1. MInv => MigrationTypeOK
    BY DEF MInv
  <1> QED BY <1>1, MInvHolds, PTL

(* A version in schema_migrations has all its tables, whatever processes     *)
(* race, die or leave behind in MySQL (migration.go:95-133).                 *)
THEOREM RecordedApplied == MigrationSpec => []RecordedIsApplied
  <1>1. MInv => RecordedIsApplied
    BY DEF MInv
  <1> QED BY <1>1, MInvHolds, PTL

(* A process that serves has every table of every file (main.go:59-61).      *)
THEOREM ServingSchema == MigrationSpec => []ServingHasSchema
  <1>1. MInv => ServingHasSchema
    BY DEF MInv, StartOK, RecordedIsApplied, ServingHasSchema
  <1> QED BY <1>1, MInvHolds, PTL
-----------------------------------------------------------------------------
(* The life of a process keeps what its start has established *)

(* What a server step does to the variables of Migration. *)
LEMMA ServerKeepsMInv == MInv /\ [LifeNext]_lifeVars => MInv'
  <1> SUFFICES ASSUME MInv, [LifeNext]_lifeVars PROVE MInv'
    OBVIOUS
  <1>1. CASE UNCHANGED migrationVars
    BY <1>1, StepKeeps
  <1>2. ASSUME NEW p \in Processes, StartUp(p) PROVE MInv'
    BY <1>2, StepKeeps DEF StartUp, MigrationNext
  <1>3. ASSUME NEW p \in Processes, BeginShutdown(p) PROVE MInv'
    BY <1>3, MovesOn DEF BeginShutdown, Stages, schemaVars, MInv, MigrationTypeOK
  <1>4. ASSUME NEW p \in Processes, NEW code, Return(p, code) PROVE MInv'
    <2>1. stage[p] \in Stages /\ "closing" \in Stages /\ Move(p, stage[p], "closing")
      BY <1>4 DEF Return, Move, MInv, MigrationTypeOK, Stages
    <2> QED BY <1>4, <2>1, MovesOn DEF Return, schemaVars, MInv, MigrationTypeOK
  <1>5. ASSUME NEW p \in Processes, NEW code, End(p, code) PROVE MInv'
    <2>1. /\ deaths' \in 0..MaxDeaths
          /\ orphan' = [orphan EXCEPT ![p] = orphan[p]]
      BY <1>5 DEF End, MInv, MigrationTypeOK
    <2> QED BY <1>5, <2>1, ExitKeeps DEF End
  <1>6. CASE UNCHANGED lifeVars
    BY <1>6, <1>1 DEF lifeVars
  <1>7. ASSUME NEW p \in Processes, Listen(p) \/ ListenerFails(p) \/ Signal(p) PROVE MInv'
    BY <1>7, <1>1 DEF Listen, ListenerFails, Signal
  <1>8. ASSUME NEW p \in Processes, NEW c \in Clients, Accept(p, c) \/ Answer(p, c) PROVE MInv'
    BY <1>8, <1>1 DEF Accept, Answer
  <1>9. ASSUME NEW p \in Processes, ListenError(p) \/ Drained(p) \/ ShutdownTimesOut(p) PROVE MInv'
    BY <1>9, <1>4 DEF ListenError, Drained, ShutdownTimesOut
  <1>10. ASSUME NEW p \in Processes, ExitProcess(p) \/ Crash(p) PROVE MInv'
    BY <1>10, <1>5 DEF ExitProcess, Crash
  <1> QED
    BY <1>2, <1>3, <1>6, <1>7, <1>8, <1>9, <1>10 DEF LifeNext, StopStep

LEMMA LifeKeepsMInv == LifeSpec => []MInv
  <1>1. LifeInit => MInv
    BY InitMInv DEF LifeInit
  <1> QED BY <1>1, ServerKeepsMInv, PTL DEF LifeSpec
-----------------------------------------------------------------------------
(* A server refines its start *)

(* To the migrations a process that shuts down still serves. *)
migrationStage ==
    [p \in Processes |->
       IF stage[p] \in {"shutdown", "closing"} THEN "serving" ELSE stage[p]]

Schema == INSTANCE Migration WITH stage <- migrationStage

(* Whatever the servers do, their processes start as Migration says, and     *)
(* nothing but a start reaches the schema: no way to serve, stop or crash    *)
(* leads around the migrations or into them (main.go:59-61, 113-136).        *)
StartsAreMigrations == Schema!MigrationSpec

LEMMA InitIsMigration == LifeInit => Schema!MigrationInit
  BY DEF LifeInit, MigrationInit, Schema!MigrationInit, migrationStage

(* The migrations see a change of the stage, unless it is one of the server. *)
LEMMA MapsStage ==
    ASSUME stage \in [Processes -> Stages], NEW p \in Processes, NEW x \in Stages,
           stage' = [stage EXCEPT ![p] = x]
    PROVE  migrationStage' =
             [migrationStage EXCEPT
                ![p] = IF x \in {"shutdown", "closing"} THEN "serving" ELSE x]
  BY DEF migrationStage

LEMMA MapsMove ==
    ASSUME stage \in [Processes -> Stages], NEW p \in Processes,
           NEW from \in Stages \ {"shutdown", "closing"},
           NEW to \in Stages \ {"shutdown", "closing"}, Move(p, from, to)
    PROVE  Schema!Move(p, from, to)
  BY MapsStage DEF Move, Schema!Move, migrationStage

LEMMA MapsExit ==
    ASSUME stage \in [Processes -> Stages], NEW p \in Processes, Exit(p)
    PROVE  Schema!Exit(p)
  BY MapsStage DEF Exit, Schema!Exit, Stages

(* A step of a start, of a death and of MySQL is one of Migration. *)
LEMMA MapsStart ==
    ASSUME stage \in [Processes -> Stages], NEW p \in Processes, Start(p)
    PROVE  Schema!Start(p)
  <1>1. Schema!Move(p, "down", "mysql")
    BY MapsMove DEF Start, Stages
  <1> QED BY <1>1 DEF Start, Schema!Start, schemaVars, Schema!schemaVars

LEMMA MapsAdvance ==
    ASSUME stage \in [Processes -> Stages], NEW p \in Processes,
           NEW from \in Stages \ {"shutdown", "closing"}, Advance(p, from)
    PROVE  Schema!Advance(p, from)
  <1> DEFINE to == IF version[p] = LastVersion THEN "redis" ELSE "check"
  <1>1. to \in Stages \ {"shutdown", "closing"} /\ Move(p, from, to)
    BY DEF Advance, Stages
  <1>2. Schema!Move(p, from, to)
    BY <1>1, MapsMove
  <1> QED BY <1>2 DEF Advance, Schema!Advance

LEMMA MapsStartStep ==
    ASSUME stage \in [Processes -> Stages], NEW p \in Processes, StartStep(p)
    PROVE  Schema!StartStep(p)
  <1> USE DEF schemaVars, Schema!schemaVars
  <1>1. CASE PingMySQL(p)
    <2>1. Schema!Move(p, "mysql", "ledger")
      BY <1>1, MapsMove DEF PingMySQL, Stages
    <2> QED BY <1>1, <2>1 DEF PingMySQL, Schema!PingMySQL, Schema!StartStep
  <1>2. CASE CreateLedger(p)
    <2>1. Schema!Move(p, "ledger", "check")
      BY <1>2, MapsMove DEF CreateLedger, Stages
    <2> QED BY <1>2, <2>1 DEF CreateLedger, Schema!CreateLedger, Schema!StartStep
  <1>3. CASE CheckApplied(p)
    <2>1. Schema!Advance(p, "check")
      BY <1>3, MapsAdvance DEF CheckApplied, Stages
    <2> QED BY <1>3, <2>1 DEF CheckApplied, Schema!CheckApplied, Schema!StartStep
  <1>4. CASE CheckMissing(p)
    <2>1. Schema!Move(p, "check", "begin")
      BY <1>4, MapsMove DEF CheckMissing, Stages
    <2> QED BY <1>4, <2>1 DEF CheckMissing, Schema!CheckMissing, Schema!StartStep
  <1>5. CASE Begin(p)
    <2>1. Schema!Move(p, "begin", "execute")
      BY <1>5, MapsMove DEF Begin, Stages
    <2> QED BY <1>5, <2>1 DEF Begin, Schema!Begin, Schema!StartStep
  <1>6. CASE Execute(p)
    <2>1. migrationStage[p] = "execute" /\ migrationStage' = migrationStage
      BY <1>6 DEF Execute, migrationStage
    <2> QED
      BY <1>6, <2>1
      DEF Execute, Finished, NextTable,
          Schema!Execute, Schema!Finished, Schema!NextTable, Schema!StartStep
  <1>7. CASE TableExists(p)
    <2>1. migrationStage[p] = "execute" /\ Schema!Exit(p)
      BY <1>7, MapsExit DEF TableExists, migrationStage
    <2> QED
      BY <1>7, <2>1
      DEF TableExists, Finished, NextTable,
          Schema!TableExists, Schema!Finished, Schema!NextTable, Schema!StartStep
  <1>8. CASE Executed(p)
    <2>1. Schema!Move(p, "execute", "record")
      BY <1>8, MapsMove DEF Executed, Stages
    <2> QED
      BY <1>8, <2>1
      DEF Executed, Finished, Schema!Executed, Schema!Finished, Schema!StartStep
  <1>9. CASE Record(p)
    <2>1. Schema!Move(p, "record", "commit")
      BY <1>9, MapsMove DEF Record, Stages
    <2> QED BY <1>9, <2>1 DEF Record, Schema!Record, Schema!StartStep
  <1>10. CASE RecordFails(p)
    <2>1. migrationStage[p] = "record" /\ Schema!Exit(p)
      BY <1>10, MapsExit DEF RecordFails, migrationStage
    <2> QED BY <1>10, <2>1 DEF RecordFails, Schema!RecordFails, Schema!StartStep
  <1>11. CASE Commit(p)
    <2>1. Schema!Advance(p, "commit")
      BY <1>11, MapsAdvance DEF Commit, Stages
    <2> QED BY <1>11, <2>1 DEF Commit, Schema!Commit, Schema!StartStep
  <1>12. CASE PingRedis(p)
    <2>1. Schema!Move(p, "redis", "serving")
      BY <1>12, MapsMove DEF PingRedis, Stages
    <2> QED BY <1>12, <2>1 DEF PingRedis, Schema!PingRedis, Schema!StartStep
  <1> QED
    BY <1>1, <1>2, <1>3, <1>4, <1>5, <1>6, <1>7, <1>8, <1>9, <1>10, <1>11, <1>12
    DEF StartStep

LEMMA MapsDies ==
    ASSUME stage \in [Processes -> Stages], NEW p \in Processes, Dies(p)
    PROVE  Schema!Dies(p)
  <1>1. Schema!Exit(p)
    BY MapsExit DEF Dies
  <1>2. migrationStage[p] \notin {"down", "serving", "shutdown", "closing"}
    BY DEF Dies, migrationStage
  <1> QED BY <1>1, <1>2 DEF Dies, Schema!Dies, schemaVars, Schema!schemaVars

LEMMA MapsStartUp ==
    ASSUME stage \in [Processes -> Stages], NEW p \in Processes, StartUp(p)
    PROVE  Schema!MigrationNext
  <1>1. CASE OrphanExecutes(p)
    <2>1. migrationStage' = migrationStage
      BY <1>1 DEF OrphanExecutes, migrationStage
    <2> QED
      BY <1>1, <2>1
      DEF OrphanExecutes, Finished, NextTable, Schema!OrphanExecutes,
          Schema!Finished, Schema!NextTable, Schema!MigrationNext
  <1>2. CASE OrphanEnds(p)
    <2>1. migrationStage' = migrationStage
      BY <1>2 DEF OrphanEnds, migrationStage
    <2> QED
      BY <1>2, <2>1
      DEF OrphanEnds, Schema!OrphanEnds, schemaVars, Schema!schemaVars, Schema!MigrationNext
  <1> QED
    BY <1>1, <1>2, MapsStart, MapsStartStep, MapsDies DEF StartUp, Schema!MigrationNext

(* A process that ends while it serves or shuts down stops. *)
LEMMA MapsEnd ==
    ASSUME stage \in [Processes -> Stages], NEW p \in Processes, NEW code,
           stage[p] \in {"serving", "shutdown", "closing"}, End(p, code)
    PROVE  Schema!Stop(p)
  <1>1. Schema!Exit(p) /\ migrationStage[p] = "serving"
    BY MapsExit DEF End, migrationStage
  <1> QED BY <1>1 DEF End, Schema!Stop, schemaVars, Schema!schemaVars

(* The step from serving to shutting down, and on, is none of Migration. *)
LEMMA MapsShutdown ==
    ASSUME stage \in [Processes -> Stages], NEW p \in Processes,
           stage[p] \in {"serving", "shutdown"}, NEW to \in {"shutdown", "closing"},
           stage' = [stage EXCEPT ![p] = to],
           UNCHANGED <<schemaVars, version, session, orphan, deaths>>
    PROVE  UNCHANGED Schema!migrationVars
  <1>1. migrationStage' = migrationStage
    BY DEF migrationStage
  <1> QED BY <1>1 DEF Schema!migrationVars, schemaVars, Schema!schemaVars

LEMMA StepIsMigration ==
    ASSUME MInv, [LifeNext]_lifeVars
    PROVE  [Schema!MigrationNext]_Schema!migrationVars
  <1>0. stage \in [Processes -> Stages]
    BY DEF MInv, MigrationTypeOK
  <1>1. CASE UNCHANGED migrationVars
    BY <1>1
    DEF migrationVars, migrationStage, Schema!migrationVars, schemaVars, Schema!schemaVars
  <1>2. ASSUME NEW p \in Processes, StartUp(p) PROVE Schema!MigrationNext
    BY <1>0, <1>2, MapsStartUp
  <1>3. ASSUME NEW p \in Processes, BeginShutdown(p) PROVE UNCHANGED Schema!migrationVars
    BY <1>0, <1>3, MapsShutdown DEF BeginShutdown, Move
  <1>4. ASSUME NEW p \in Processes, ListenError(p) \/ Drained(p) \/ ShutdownTimesOut(p)
        PROVE  UNCHANGED Schema!migrationVars
    BY <1>0, <1>4, MapsShutdown DEF ListenError, Drained, ShutdownTimesOut, Return
  <1>5. ASSUME NEW p \in Processes, ExitProcess(p) \/ Crash(p) PROVE Schema!MigrationNext
    BY <1>0, <1>5, MapsEnd DEF ExitProcess, Crash, Schema!MigrationNext
  <1>6. ASSUME NEW p \in Processes, Listen(p) \/ ListenerFails(p) \/ Signal(p)
        PROVE  UNCHANGED migrationVars
    BY <1>6 DEF Listen, ListenerFails, Signal
  <1>7. ASSUME NEW p \in Processes, NEW c \in Clients, Accept(p, c) \/ Answer(p, c)
        PROVE  UNCHANGED migrationVars
    BY <1>7 DEF Accept, Answer
  <1>8. CASE UNCHANGED lifeVars
    BY <1>8, <1>1 DEF lifeVars
  <1> QED
    BY <1>1, <1>2, <1>3, <1>4, <1>5, <1>6, <1>7, <1>8 DEF LifeNext, StopStep

(* The life of a process implements its start.                               *)
THEOREM LifeImplementsMigration == LifeSpec => StartsAreMigrations
  BY InitIsMigration, StepIsMigration, LifeKeepsMInv, PTL
  DEF LifeSpec, StartsAreMigrations, Schema!MigrationSpec

(* Over a whole life, too, a process that serves has the whole schema, and   *)
(* what is recorded is applied (main.go:59-61; migration.go:95-133).         *)
THEOREM LifeKeepsSchema == LifeSpec => [](RecordedIsApplied /\ ServingHasSchema)
  <1>1. MInv => RecordedIsApplied /\ ServingHasSchema
    BY DEF MInv, StartOK, RecordedIsApplied, ServingHasSchema
  <1> QED BY <1>1, LifeKeepsMInv, PTL
-----------------------------------------------------------------------------
(* A clean exit loses nothing *)

Stopping == {"serving", "shutdown", "closing"}

(* Only a process that serves listens, and it has its pool until it closes it. *)
ServerOK(p) ==
    /\ listener[p] = "open" => stage[p] = "serving"
    /\ pool[p] = (stage[p] \notin {"down", "mysql", "closing"})

(* A request is with a process that lives, and if that one is past its       *)
(* shutdown already, it does not end with 0.                                 *)
RequestOK(p, c) ==
    request[c] = p =>
      /\ outcome[c] = Null
      /\ stage[p] \in Stopping
      /\ stage[p] = "closing" => exitCode[p] # 0

LifeInv ==
    /\ LifeTypeOK
    /\ \A p \in Processes : ServerOK(p) /\ \A c \in Clients : RequestOK(p, c)

LEMMA InitLifeInv == LifeInit => LifeInv
  <1> SUFFICES ASSUME LifeInit PROVE LifeInv
    OBVIOUS
  <1>1. MigrationTypeOK
    BY InitMInv DEF LifeInit, MInv
  <1>2. LifeTypeOK
    BY <1>1, FailureAssumption DEF LifeInit, LifeTypeOK
  <1>3. ASSUME NEW p \in Processes PROVE ServerOK(p)
    BY <1>3 DEF LifeInit, MigrationInit, ServerOK
  <1>4. ASSUME NEW p \in Processes, NEW c \in Clients PROVE RequestOK(p, c)
    BY <1>4, NoProcessAssumption DEF LifeInit, RequestOK
  <1> QED BY <1>2, <1>3, <1>4 DEF LifeInv

(* A start and a death leave the servers alone: their stages are before serving. *)
LEMMA StartStages ==
    ASSUME MInv, NEW p \in Processes, StartUp(p)
    PROVE  /\ \A q \in Processes \ {p} : stage'[q] = stage[q]
           /\ stage[p] \in Stopping => stage'[p] = stage[p]
           /\ MigrationTypeOK'
  <1>1. MigrationTypeOK'
    <2>1. MInv'
      BY StepKeeps DEF StartUp, MigrationNext
    <2> QED BY <2>1 DEF MInv
  <1>2. CASE Start(p) \/ Dies(p) \/ OrphanExecutes(p) \/ OrphanEnds(p)
    BY <1>1, <1>2
    DEF MInv, MigrationTypeOK, Start, Dies, OrphanExecutes, OrphanEnds, Move, Exit, Stopping
  <1>3. CASE StartStep(p)
    BY <1>1, <1>3
    DEF StartStep, PingMySQL, CreateLedger, CheckApplied, CheckMissing, Begin, Execute,
        TableExists, Executed, Record, RecordFails, Commit, PingRedis, Advance, Move, Exit,
        MInv, MigrationTypeOK, Stopping
  <1> QED BY <1>1, <1>2, <1>3 DEF StartUp

LEMMA StartUpKeeps ==
    ASSUME MInv, LifeInv, NEW p \in Processes, StartUp(p)
    PROVE  LifeInv'
  <1>0. LifeTypeOK
    BY DEF LifeInv
  <1>1. LifeTypeOK'
    BY <1>0, StartStages DEF LifeTypeOK, StartUp
  <1>2. ASSUME NEW q \in Processes PROVE ServerOK(q)'
    <2>1. CASE q = p
      BY <1>0, <2>1, StartStages DEF LifeInv, LifeTypeOK, ServerOK, StartUp, Stopping
    <2>2. CASE q # p
      BY <1>0, <2>2, StartStages DEF LifeInv, LifeTypeOK, ServerOK, StartUp
    <2> QED BY <2>1, <2>2
  <1>3. ASSUME NEW q \in Processes, NEW c \in Clients PROVE RequestOK(q, c)'
    <2>1. CASE q = p
      BY <1>0, <2>1, StartStages DEF LifeInv, LifeTypeOK, RequestOK, StartUp, Stopping
    <2>2. CASE q # p
      BY <1>0, <2>2, StartStages DEF LifeInv, LifeTypeOK, RequestOK, StartUp
    <2> QED BY <2>1, <2>2
  <1> QED BY <1>1, <1>2, <1>3 DEF LifeInv

(* Listen, ListenerFails and Signal. *)
LEMMA ListenerKeeps ==
    ASSUME LifeInv, NEW p \in Processes, Listen(p) \/ ListenerFails(p) \/ Signal(p)
    PROVE  LifeInv'
  <1> USE DEF Listen, ListenerFails, Signal, migrationVars, schemaVars
  <1>0. LifeTypeOK
    BY DEF LifeInv
  <1>1. LifeTypeOK'
    <2>1. failures' \in 0..MaxFailures
      BY <1>0, FailureAssumption DEF LifeTypeOK
    <2> QED BY <1>0, <2>1 DEF LifeTypeOK, MigrationTypeOK, Tables
  <1>2. ASSUME NEW q \in Processes PROVE ServerOK(q)'
    BY <1>0 DEF LifeInv, LifeTypeOK, ServerOK
  <1>3. ASSUME NEW q \in Processes, NEW c \in Clients PROVE RequestOK(q, c)'
    BY <1>0 DEF LifeInv, RequestOK
  <1> QED BY <1>1, <1>2, <1>3 DEF LifeInv

LEMMA RequestsKeep ==
    ASSUME LifeInv, NEW p \in Processes, NEW d \in Clients, Accept(p, d) \/ Answer(p, d)
    PROVE  LifeInv'
  <1> USE DEF Accept, Answer, migrationVars, schemaVars
  <1>0. LifeTypeOK
    BY DEF LifeInv
  <1>1. LifeTypeOK'
    BY <1>0 DEF LifeTypeOK, MigrationTypeOK, Tables
  <1>2. ASSUME NEW q \in Processes PROVE ServerOK(q)'
    BY <1>0 DEF LifeInv, ServerOK
  <1>3. ASSUME NEW q \in Processes, NEW c \in Clients PROVE RequestOK(q, c)'
    BY <1>0, NoProcessAssumption
    DEF LifeInv, LifeTypeOK, ServerOK, RequestOK, Stopping
  <1> QED BY <1>1, <1>2, <1>3 DEF LifeInv

LEMMA BeginShutdownKeeps ==
    ASSUME LifeInv, NEW p \in Processes, BeginShutdown(p)
    PROVE  LifeInv'
  <1> USE DEF BeginShutdown, Move, schemaVars
  <1>0. LifeTypeOK
    BY DEF LifeInv
  <1>1. LifeTypeOK'
    BY <1>0 DEF LifeTypeOK, MigrationTypeOK, Tables, Stages
  <1>2. ASSUME NEW q \in Processes PROVE ServerOK(q)'
    BY <1>0 DEF LifeInv, LifeTypeOK, MigrationTypeOK, ServerOK
  <1>3. ASSUME NEW q \in Processes, NEW c \in Clients PROVE RequestOK(q, c)'
    BY <1>0 DEF LifeInv, LifeTypeOK, MigrationTypeOK, RequestOK, Stopping
  <1> QED BY <1>1, <1>2, <1>3 DEF LifeInv

(* ListenError, Drained and ShutdownTimesOut: with 0 only when no request is left. *)
LEMMA ReturnKeeps ==
    ASSUME LifeInv, NEW p \in Processes, NEW code \in {0, 1}, Return(p, code),
           listener[p] # "open", code = 0 => InFlight(p) = {},
           UNCHANGED <<listener, signalled, request, outcome, failures>>
    PROVE  LifeInv'
  <1> USE DEF Return, schemaVars
  <1>0. LifeTypeOK
    BY DEF LifeInv
  <1>1. LifeTypeOK'
    BY <1>0 DEF LifeTypeOK, MigrationTypeOK, Tables, Stages
  <1>2. ASSUME NEW q \in Processes PROVE ServerOK(q)'
    BY <1>0 DEF LifeInv, LifeTypeOK, MigrationTypeOK, ServerOK
  <1>3. ASSUME NEW q \in Processes, NEW c \in Clients PROVE RequestOK(q, c)'
    BY <1>0 DEF LifeInv, LifeTypeOK, MigrationTypeOK, RequestOK, Stopping, InFlight
  <1> QED BY <1>1, <1>2, <1>3 DEF LifeInv

LEMMA EndKeeps ==
    ASSUME LifeInv, NEW p \in Processes, NEW code \in {0, 1, 2, Null}, End(p, code),
           failures' \in 0..MaxFailures
    PROVE  LifeInv'
  <1> USE DEF End, Exit, schemaVars
  <1>0. LifeTypeOK
    BY DEF LifeInv
  <1>1. LifeTypeOK'
    <2>1. MigrationTypeOK'
      BY <1>0, ScriptAssumption DEF LifeTypeOK, MigrationTypeOK, Tables, Stages, Versions
    <2> QED BY <1>0, <2>1 DEF LifeTypeOK
  <1>2. ASSUME NEW q \in Processes PROVE ServerOK(q)'
    BY <1>0 DEF LifeInv, LifeTypeOK, MigrationTypeOK, ServerOK
  <1>3. ASSUME NEW q \in Processes, NEW c \in Clients PROVE RequestOK(q, c)'
    BY <1>0, NoProcessAssumption
    DEF LifeInv, LifeTypeOK, MigrationTypeOK, RequestOK, Stopping
  <1> QED BY <1>1, <1>2, <1>3 DEF LifeInv

LEMMA LifeStepKeeps == MInv /\ LifeInv /\ [LifeNext]_lifeVars => LifeInv'
  <1> SUFFICES ASSUME MInv, LifeInv, [LifeNext]_lifeVars PROVE LifeInv'
    OBVIOUS
  <1>0. LifeTypeOK
    BY DEF LifeInv
  <1>1. CASE UNCHANGED lifeVars
    <2>1. LifeTypeOK'
      BY <1>0, <1>1
      DEF lifeVars, serverVars, migrationVars, schemaVars, LifeTypeOK, MigrationTypeOK, Tables
    <2>2. ASSUME NEW p \in Processes, NEW c \in Clients PROVE RequestOK(p, c)'
      BY <1>1 DEF lifeVars, serverVars, migrationVars, LifeInv, RequestOK
    <2>3. ASSUME NEW p \in Processes PROVE ServerOK(p)'
      BY <1>1 DEF lifeVars, serverVars, migrationVars, LifeInv, ServerOK
    <2> QED BY <2>1, <2>2, <2>3 DEF LifeInv
  <1>2. ASSUME NEW p \in Processes, ListenError(p) \/ Drained(p) \/ ShutdownTimesOut(p)
        PROVE  LifeInv'
    <2>1. listener[p] # "open"
      BY <1>2 DEF ListenError, Drained, ShutdownTimesOut, LifeInv, ServerOK
    <2> QED BY <1>2, <2>1, ReturnKeeps DEF ListenError, Drained, ShutdownTimesOut
  <1>3. ASSUME NEW p \in Processes, ExitProcess(p) \/ Crash(p) PROVE LifeInv'
    <2>1. exitCode[p] \in {0, 1, 2, Null} /\ failures' \in 0..MaxFailures
      BY <1>0, <1>3, FailureAssumption DEF LifeTypeOK, ExitProcess, Crash
    <2> QED BY <1>3, <2>1, EndKeeps DEF ExitProcess, Crash
  <1> QED
    BY <1>1, <1>2, <1>3, StartUpKeeps, ListenerKeeps, RequestsKeep, BeginShutdownKeeps
    DEF LifeNext, StopStep

(* The types of a life, who listens and has a pool, and where requests are,  *)
(* for any number of processes and clients (main.go:43-136).                 *)
THEOREM LifeInvariance == LifeSpec => []LifeInv
  BY InitLifeInv, LifeStepKeeps, LifeKeepsMInv, PTL DEF LifeSpec

(* A step that loses a request. *)
LEMMA LossShows ==
    ASSUME LifeInv, LifeNext, NEW p \in Processes, NEW c \in Clients,
           request[c] = p, outcome'[c] \in {"cut", "error"}
    PROVE  exitCode'[p] # 0
  <1>0. LifeTypeOK /\ outcome[c] = Null /\ outcome'[c] # Null
    BY NoProcessAssumption DEF LifeInv, RequestOK
  <1>1. ASSUME NEW q \in Processes, NEW code, End(q, code), code # 0 \/ stage[q] = "closing",
               stage[q] = "closing" => code \in {2, exitCode[q]}
        PROVE  exitCode'[p] # 0
    <2>1. q = p
      BY <1>0, <1>1 DEF End
    <2>2. code # 0
      BY <1>1, <2>1 DEF LifeInv, RequestOK
    <2> QED BY <1>0, <1>1, <2>1, <2>2 DEF End, LifeTypeOK
  <1>2. ASSUME NEW q \in Processes, ExitProcess(q) \/ Crash(q) PROVE exitCode'[p] # 0
    BY <1>1, <1>2 DEF ExitProcess, Crash
  <1>3. ASSUME NEW q \in Processes, NEW d \in Clients, Answer(q, d) PROVE exitCode'[p] # 0
    <2>1. d = c /\ q = p
      BY <1>0, <1>3 DEF Answer
    <2>2. ~pool[p]
      BY <1>0, <1>3, <2>1 DEF Answer, LifeTypeOK
    <2>3. stage[p] = "closing" /\ exitCode[p] # 0
      BY <2>2 DEF LifeInv, ServerOK, RequestOK, Stopping
    <2> QED BY <1>3, <2>3 DEF Answer
  <1>4. ASSUME NEW q \in Processes, NEW d \in Clients, Accept(q, d) PROVE FALSE
    BY <1>0, <1>4 DEF Accept, LifeTypeOK
  <1>5. ASSUME outcome' = outcome PROVE FALSE
    BY <1>0, <1>5
  <1> QED
    BY <1>2, <1>3, <1>4, <1>5
    DEF LifeNext, StopStep, StartUp, Listen, ListenerFails, Signal, BeginShutdown,
        ListenError, Drained, ShutdownTimesOut

(* A process that exits with 0 has answered all it accepted; who is cut off  *)
(* or meets a closed pool was with a process that shows it in its exit code  *)
(* (main.go:37-40, 125-135).                                                 *)
THEOREM CleanExits == LifeSpec => CleanExitLosesNothing
  <1> DEFINE Lost(p, c) == request[c] = p /\ outcome'[c] \in {"cut", "error"} => exitCode'[p] # 0
  <1>1. LifeInv /\ [LifeNext]_lifeVars => [\A p \in Processes, c \in Clients : Lost(p, c)]_lifeVars
    BY LossShows
  <1> QED
    BY <1>1, LifeInvariance, PTL DEF LifeSpec, CleanExitLosesNothing
=============================================================================
