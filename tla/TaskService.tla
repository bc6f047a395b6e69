----------------------------- MODULE TaskService -----------------------------
(***************************************************************************)
(* internal/task/service.go: concurrent Create, Update, Delete and History *)
(* requests.  A request is a goroutine of the HTTP server; each of its     *)
(* steps ends with one call to MySQL or Redis, so that the steps of other  *)
(* requests, and of the team service, fall between any two of its calls.   *)
(* A slot of Requests serves one request after another.                    *)
(*                                                                         *)
(* List requests and the cached lists are in TaskList, which extends this  *)
(* module; of the cache, a write needs the generation only.                *)
(***************************************************************************)
EXTENDS Repository, TaskStore

CONSTANTS
    Requests,       \* slots for requests in flight
    MaxVersion,     \* BOUND: the largest version a client sends
    CreateInputs,   \* the bodies clients send to create a task ...
    UpdateInputs,   \* ... and to update one
    ClientOps,      \* BOUND: the operations that clients call
    RedisFails,     \* whether a call to Redis may return an error
    Absent          \* a JSON field that is not sent

VARIABLES
    pc,         \* pc[r]: the call that request r makes next
    call,       \* call[r]: what the client asked for
    current,    \* current[r]: the row that FindByID returned
    role,       \* role[r]: the actor's role that MemberRole returned
    reply,      \* reply[r]: the last outcome of slot r
    generation  \* generation[t]: the Redis version key of team t

requestVars == <<pc, call, current, role, reply>>
taskVars == <<tables, requestVars, generation>>

Ops == {"create", "update", "delete", "history"}
Input == [title : Titles \cup {Absent, Invalid},
          status : Statuses \cup {Absent, Invalid},
          assignee : Users \cup {Null, Absent, Invalid}]
NoInput == [title |-> Absent, status |-> Absent, assignee |-> Absent]

\* team is for a create and task for the others; Null and 0 are ids below 1.
Call == [op : Ops, actor : Users, team : Teams \cup {Null},
         task : 0..MaxTasks, version : 0..MaxVersion, input : Input]

CreateCalls == [op : {"create"}, actor : Users, team : Teams \cup {Null},
                task : {0}, version : {0}, input : CreateInputs]
UpdateCalls == [op : {"update"}, actor : Users, team : {Null},
                task : 0..MaxTasks, version : 0..MaxVersion, input : UpdateInputs]
PlainCalls(op) == [op : {op}, actor : Users, team : {Null},
                   task : 0..MaxTasks, version : {0}, input : {NoInput}]
Calls == {c \in CreateCalls \cup UpdateCalls \cup PlainCalls("delete")
                 \cup PlainCalls("history") : c.op \in ClientOps}

Steps == {"idle", "find", "role", "assignee", "write", "invalidate", "list"}
Outcomes == {"ok", "invalid_input", "forbidden", "not_found", "conflict", "error"}

ASSUME SentinelAssumption ==
    /\ Absent # Invalid /\ Absent # Null /\ Invalid # Null /\ Null \notin Outcomes
    /\ {Absent, Invalid} \cap (Users \cup Titles \cup Statuses) = {}
ASSUME InputAssumption ==
    /\ CreateInputs \subseteq {i \in Input : i.title # Absent /\ i.assignee # Absent}
    /\ UpdateInputs \subseteq Input
    /\ Null \notin Call
ASSUME BoundAssumption ==
    /\ MaxVersion \in Nat /\ Founders \subseteq Users
    /\ ClientOps \subseteq Ops /\ RedisFails \in BOOLEAN

TaskInit ==
    /\ TablesInit
    /\ pc = [r \in Requests |-> "idle"]
    /\ call = [r \in Requests |-> Null]
    /\ current = [r \in Requests |-> Null]
    /\ role = [r \in Requests |-> Null]
    /\ reply = [r \in Requests |-> Null]
    /\ generation = [t \in Teams |-> 0]

-----------------------------------------------------------------------------
(* Pure parts of the service *)

Given(field) == field # Absent

InvalidFields(input) == Invalid \in {input.title, input.status, input.assignee}

\* The checks made before any call.
Malformed(c) ==
    \/ c.op = "create" /\ c.team = Null
    \/ c.op # "create" /\ c.task = 0
    \/ c.op = "update" /\ c.version = 0

\* Wrong: a status that is not sent has no default.
NewTaskWithoutDefault(c) ==
    [team |-> c.team, title |-> c.input.title, status |-> c.input.status,
     createdBy |-> c.actor, assignee |-> c.input.assignee,
     closedAt |-> ClosedAt(c.input.status), version |-> 1, deletedAt |-> Null]

NewTask(c) ==
    LET status == IF Given(c.input.status) THEN c.input.status ELSE "todo"
    IN  [team |-> c.team, title |-> c.input.title, status |-> status,
         createdBy |-> c.actor, assignee |-> c.input.assignee,
         closedAt |-> ClosedAt(status), version |-> 1, deletedAt |-> Null]

IsManager(memberRole) == memberRole \in {"owner", "admin"}

\* Wrong: an executor who changes the status may change the rest with it.
CanUpdateWithStatus(memberRole, row, actor, input) ==
    \/ IsManager(memberRole)
    \/ row.createdBy = actor
    \/ row.assignee = actor /\ Given(input.status)

CanUpdate(memberRole, row, actor, input) ==
    \/ IsManager(memberRole)
    \/ row.createdBy = actor
    \/ /\ row.assignee = actor
       /\ Given(input.status) /\ ~Given(input.title) /\ ~Given(input.assignee)

CanDelete(memberRole, row, actor) == IsManager(memberRole) \/ row.createdBy = actor

\* Wrong: a task that is opened again keeps its closing time.
ApplyUpdateKeepsStamp(row, input) ==
    LET status == IF Given(input.status) THEN input.status ELSE row.status
    IN  [row EXCEPT !.title = IF Given(input.title) THEN input.title ELSE row.title,
                    !.status = status,
                    !.assignee = IF Given(input.assignee) THEN input.assignee
                                                          ELSE row.assignee,
                    !.closedAt = IF status = "done" THEN Time ELSE row.closedAt]

\* applyUpdate: a task is stamped closed when it becomes done, and the stamp
\* is taken off when it stops being done.
ApplyUpdate(row, input) ==
    LET status == IF Given(input.status) THEN input.status ELSE row.status
    IN  [row EXCEPT !.title = IF Given(input.title) THEN input.title ELSE row.title,
                    !.status = status,
                    !.assignee = IF Given(input.assignee) THEN input.assignee
                                                          ELSE row.assignee,
                    !.closedAt = IF (status = "done" <=> row.status = "done")
                                 THEN row.closedAt ELSE ClosedAt(status)]

\* Wrong: the closing time is not among the changes.
ChangedFieldsWithoutStamp(row, updated) ==
    {f \in {"title", "status", "assignee"} : row[f] # updated[f]}

\* The fields applyUpdate enters into its map of changes.
ChangedFields(row, updated) ==
    {f \in {"title", "status", "assignee"} : row[f] # updated[f]}
    \cup (IF (row.status = "done" <=> updated.status = "done") THEN {} ELSE {"closedAt"})

\* Wrong: the old and the new values are swapped.
ChangesSwapped(row, updated) ==
    [f \in Fields |-> IF f \in ChangedFields(row, updated)
                      THEN [old |-> updated[f], new |-> row[f]] ELSE Null]

Changes(row, updated) ==
    [f \in Fields |-> IF f \in ChangedFields(row, updated)
                      THEN [old |-> row[f], new |-> updated[f]] ELSE Null]

-----------------------------------------------------------------------------
(* The steps of a request *)

Goto(r, step) == pc' = [pc EXCEPT ![r] = step]

\* The handler returns; its goroutine and its variables are gone.
Finish(r, outcome) ==
    /\ Goto(r, "idle")
    /\ call' = [call EXCEPT ![r] = Null]
    /\ current' = [current EXCEPT ![r] = Null]
    /\ role' = [role EXCEPT ![r] = Null]
    /\ reply' = [reply EXCEPT ![r] = outcome]

At(r, step, ops) == pc[r] = step /\ call[r].op \in ops

\* A request arrives: it is refused at once, or its first call is next.
Reject(r, c) ==
    /\ pc[r] = "idle" /\ Malformed(c)
    /\ Finish(r, "invalid_input")
    /\ UNCHANGED <<tables, generation>>

Begin(r, c) ==
    /\ pc[r] = "idle" /\ ~Malformed(c)
    /\ Goto(r, IF c.op = "create" THEN "role" ELSE "find")
    /\ call' = [call EXCEPT ![r] = c]
    /\ reply' = [reply EXCEPT ![r] = Null]
    /\ UNCHANGED <<tables, current, role, generation>>

Find(r) ==
    /\ pc[r] = "find"
    /\ LET row == FindByID(call[r].task)
       IN  \/ /\ row = Null
              /\ Finish(r, "not_found")
           \/ /\ row # Null
              /\ Goto(r, "role")
              /\ current' = [current EXCEPT ![r] = row]
              /\ UNCHANGED <<call, role, reply>>
    /\ UNCHANGED <<tables, generation>>

\* What follows a read of the actor's role: the verdict of the checks is an
\* outcome to return, or to go on with the next step.
Decide(r, actorRole, verdict, next) ==
    /\ \/ /\ verdict = "pass"
          /\ Goto(r, next)
          /\ role' = [role EXCEPT ![r] = actorRole]
          /\ UNCHANGED <<call, current, reply>>
       \/ /\ verdict # "pass"
          /\ Finish(r, verdict)
    /\ UNCHANGED <<tables, generation>>

AssigneeStep(row) == IF row.assignee = Null THEN "write" ELSE "assignee"

CreateVerdict(c, actorRole) ==
    IF actorRole = Null THEN "forbidden"
    ELSE IF InvalidFields(c.input) THEN "invalid_input"
    ELSE "pass"

CreateRole(r) ==
    /\ At(r, "role", {"create"})
    /\ LET c == call[r]
           actorRole == MemberRole(c.team, c.actor)
       IN  Decide(r, actorRole, CreateVerdict(c, actorRole), AssigneeStep(NewTask(c)))

\* Wrong: the version the client named is not compared.
UpdateVerdictAnyVersion(c, row, actorRole) ==
    IF actorRole = Null \/ ~CanUpdate(actorRole, row, c.actor, c.input) THEN "forbidden"
    ELSE IF InvalidFields(c.input) THEN "invalid_input"
    ELSE IF ChangedFields(row, ApplyUpdate(row, c.input)) = {} THEN "ok"
    ELSE "pass"

UpdateVerdict(c, row, actorRole) ==
    IF actorRole = Null THEN "forbidden"
    ELSE IF row.version # c.version THEN "conflict"
    ELSE IF ~CanUpdate(actorRole, row, c.actor, c.input) THEN "forbidden"
    ELSE IF InvalidFields(c.input) THEN "invalid_input"
    ELSE IF ChangedFields(row, ApplyUpdate(row, c.input)) = {} THEN "ok"
    ELSE "pass"

UpdateRole(r) ==
    /\ At(r, "role", {"update"})
    /\ LET c == call[r]
           actorRole == MemberRole(current[r].team, c.actor)
       IN  Decide(r, actorRole, UpdateVerdict(c, current[r], actorRole),
                  AssigneeStep(ApplyUpdate(current[r], c.input)))

DeleteVerdict(c, row, actorRole) ==
    IF actorRole = Null \/ ~CanDelete(actorRole, row, c.actor) THEN "forbidden"
    ELSE "pass"

DeleteRole(r) ==
    /\ At(r, "role", {"delete"})
    /\ LET actorRole == MemberRole(current[r].team, call[r].actor)
       IN  Decide(r, actorRole, DeleteVerdict(call[r], current[r], actorRole), "write")

HistoryRole(r) ==
    /\ At(r, "role", {"history"})
    /\ LET actorRole == MemberRole(current[r].team, call[r].actor)
       IN  Decide(r, actorRole, IF actorRole = Null THEN "forbidden" ELSE "pass", "list")

\* The row that a create or an update is about to write.
Written(r) == IF call[r].op = "create" THEN NewTask(call[r])
                                       ELSE ApplyUpdate(current[r], call[r].input)

\* Wrong: nobody asks whether he is a member.
CheckNothing(r) ==
    /\ pc[r] = "assignee"
    /\ Goto(r, "write")
    /\ UNCHANGED <<call, current, role, reply, tables, generation>>

\* validateAssignee.
CheckAssignee(r) ==
    /\ pc[r] = "assignee"
    /\ IF MemberRole(Written(r).team, Written(r).assignee) = Null
       THEN Finish(r, "invalid_input")
       ELSE Goto(r, "write") /\ UNCHANGED <<call, current, role, reply>>
    /\ UNCHANGED <<tables, generation>>

\* The transaction of the request, when it commits.
Commit(r) ==
    /\ pc[r] = "write"
    /\ LET c == call[r]
       IN  \/ /\ c.op = "create"
              /\ CreateWithHistory(NewTask(c), c.actor, Snapshot(NewTask(c)))
           \/ /\ c.op = "update"
              /\ UpdateWithHistory(c.task, Written(r), c.actor,
                                   Changes(current[r], Written(r)))
           \/ /\ c.op = "delete"
              /\ SoftDeleteWithHistory(c.task, current[r].version, c.actor)
    /\ UNCHANGED teamTables

Write(r) ==
    /\ Commit(r)
    /\ Goto(r, "invalidate")
    /\ UNCHANGED <<call, current, role, reply, generation>>

\* Wrong: the transaction is tried again with the same version.
WriteConflictRetries(r) ==
    /\ At(r, "write", {"update", "delete"})
    /\ ~Matches(call[r].task, current[r].version)
    /\ UNCHANGED taskVars

\* The UPDATE matches no row: ErrVersionConflict.
WriteConflict(r) ==
    /\ At(r, "write", {"update", "delete"})
    /\ ~Matches(call[r].task, current[r].version)
    /\ Finish(r, "conflict")
    /\ UNCHANGED <<tables, generation>>

\* The INSERT fails when the team is gone, or no id is left.
InsertFails(r) ==
    /\ At(r, "write", {"create"})
    /\ ~TeamExists(call[r].team) \/ lastTask = MaxTasks
    /\ Finish(r, "error")
    /\ UNCHANGED <<tables, generation>>

\* ListHistory: the rows are read and returned.
ListHistory(r) ==
    /\ pc[r] = "list"
    /\ Finish(r, "ok")
    /\ UNCHANGED <<tables, generation>>

\* Wrong: the version key stays.
InvalidateNothing(r) ==
    /\ pc[r] = "invalidate"
    /\ Finish(r, "ok")
    /\ UNCHANGED <<tables, generation>>

\* InvalidateTeam increments the version key.
InvalidateTeam(r) ==
    /\ pc[r] = "invalidate"
    /\ generation' = [generation EXCEPT ![Written(r).team] = @ + 1]
    /\ Finish(r, "ok")
    /\ UNCHANGED tables

-----------------------------------------------------------------------------
(* Failures *)

\* A call to MySQL returns an error and has no effect.
CallFails(r) ==
    /\ pc[r] \in {"find", "role", "assignee", "write", "list"}
    /\ Finish(r, "error")
    /\ UNCHANGED <<tables, generation>>

\* COMMIT takes effect but its answer is lost: the handler sees an error and
\* returns before InvalidateTeam.
CommitUnknown(r) ==
    /\ Commit(r)
    /\ Finish(r, "error")
    /\ UNCHANGED generation

\* The error of InvalidateTeam is dropped: the client is told of a success.
InvalidateFails(r) ==
    /\ RedisFails
    /\ pc[r] = "invalidate"
    /\ Finish(r, "ok")
    /\ UNCHANGED <<tables, generation>>

\* The API process dies with every request in flight, between any two calls.
Crash ==
    /\ pc' = [r \in Requests |-> "idle"]
    /\ call' = [r \in Requests |-> Null]
    /\ current' = [r \in Requests |-> Null]
    /\ role' = [r \in Requests |-> Null]
    /\ reply' = [r \in Requests |-> Null]
    /\ UNCHANGED <<tables, generation>>

-----------------------------------------------------------------------------
(* The team service, as far as tasks can tell: any sequence of its         *)
(* statements.  TeamService models the requests that issue them, and       *)
(* TaskManager composes the two.                                           *)

TeamStatement ==
    /\ \/ /\ \E t \in Teams, u \in Founders : CreateWithOwner(t, u)
          /\ UNCHANGED taskTables
       \/ /\ \E t \in Teams, u \in Users, m \in {"admin", "member"} :
                AddMember(t, u, m) \/ ChangeMemberRole(t, u, m)
          /\ UNCHANGED taskTables
       \/ /\ \E t \in Teams, u \in Users : RemoveMember(t, u)
          /\ UNCHANGED taskTables
       \/ \E t \in Teams : DeleteTeam(t)
    /\ UNCHANGED <<requestVars, generation>>

RequestStep(r) ==
    \/ Find(r) \/ CreateRole(r) \/ UpdateRole(r) \/ DeleteRole(r) \/ HistoryRole(r)
    \/ CheckAssignee(r) \/ Write(r) \/ WriteConflict(r) \/ InsertFails(r)
    \/ ListHistory(r) \/ InvalidateTeam(r)

Fault(r) == CallFails(r) \/ CommitUnknown(r) \/ InvalidateFails(r)

RequestNext ==
    \E r \in Requests : \/ \E c \in Calls : Reject(r, c) \/ Begin(r, c)
                        \/ RequestStep(r)
                        \/ Fault(r)

Next == RequestNext \/ Crash \/ TeamStatement

Spec == TaskInit /\ [][Next]_taskVars

-----------------------------------------------------------------------------
(* Properties.  Those of the tables are in TaskStore: StoreSpec says that   *)
(* the requests, their races and their failures amount to steps of it.     *)

\* Types of the variables (internal/task/types.go, the schema).
TypeOK ==
    /\ teams \in [Teams -> {"unused", "exists", "deleted"}]
    /\ members \in [Teams -> [Users -> Roles \cup {Null}]]
    /\ tasks \in [TaskIds -> TaskRow \cup {Null}]
    /\ lastTask \in 0..MaxTasks
    /\ history \in [TaskIds -> Seq(HistoryEntry)]
    /\ pc \in [Requests -> Steps]
    /\ call \in [Requests -> Call \cup {Null}]
    /\ current \in [Requests -> TaskRow \cup {Null}]
    /\ role \in [Requests -> Roles \cup {Null}]
    /\ reply \in [Requests -> Outcomes \cup {Null}]
    /\ generation \in [Teams -> Nat]

\* The row a request holds is the row in the table, or the table has moved on
\* for good: to a later version, or to no row at all.  It is what makes the
\* version a sound lock for a row read outside the transaction
\* (service.go:129-164, repository/task.go:141-168).
SnapshotFresh ==
    \A r \in Requests : current[r] # Null =>
        LET row == tasks[call[r].task]
        IN  row = Null \/ row = current[r] \/ row.version > current[r].version

\* What request r, an update or a deletion, puts into the history.
Entry(r) ==
    IF call[r].op = "delete"
    THEN [by |-> call[r].actor, event |-> "deleted", changes |-> NoChanges]
    ELSE [by |-> call[r].actor, event |-> "updated",
          changes |-> Changes(current[r], Written(r))]

\* Of the requests that read the same version of a task at most one ever commits,
\* though the others may do so long after it was answered: whoever commits finds
\* as many entries in the history as the version he read, so that nobody has
\* written since, and adds the next, with his name and the changes he saw
\* (service.go:124, 159-164; errors.go ErrVersionConflict).
OneWinnerPerVersion ==
    [][\A r \in Requests :
         /\ pc[r] = "write" /\ call[r].op # "create" /\ pc'[r] # "write"
         /\ tasks'[call[r].task] \notin {tasks[call[r].task], Null}
         => /\ Len(history[call[r].task]) = current[r].version
            /\ history'[call[r].task] = Append(history[call[r].task], Entry(r))]_taskVars

\* A row changes the way the request that changes it asked, from the version
\* its client named: the fields the client left out keep the value they had at
\* that version (service.go:139, 270-330; docs/openapi.yaml:302).
UpdateIsAsAsked ==
    [][\A id \in TaskIds : Visible(id) /\ Visible(id)' /\ tasks'[id] # tasks[id] =>
         \E r \in Requests :
            /\ pc[r] = "write" /\ call[r].op = "update" /\ call[r].task = id
            /\ call[r].version = tasks[id].version
            /\ \A f \in {"title", "status", "assignee"} :
                  tasks'[id][f] = IF Given(call[r].input[f]) THEN call[r].input[f]
                                                             ELSE tasks[id][f]]_taskVars

\* Whoever is neither the creator nor was a manager when the request checked
\* changes a task only while it is assigned to him, and its status only; he
\* deletes no task (service.go:189, 361-370).
ExecutorChangesOnlyStatus ==
    [][\A r \in Requests, id \in TaskIds :
         /\ pc[r] = "write" /\ call[r].op # "create" /\ call[r].task = id
         /\ Visible(id) /\ tasks'[id] \notin {tasks[id], Null}
         /\ pc'[r] # "write"
         /\ tasks[id].createdBy # call[r].actor /\ ~IsManager(role[r])
         => /\ tasks[id].assignee = call[r].actor
            /\ \A f \in {"title", "assignee", "deletedAt"} :
                   tasks'[id][f] = tasks[id][f]]_taskVars

\* A conflict is reported only when the version the client named has gone, or
\* was not there yet when its task was read (service.go:139, repository/task.go:165).
ConflictIsReal ==
    [][\A r \in Requests :
         pc[r] # "idle" /\ reply'[r] = "conflict" =>
            \/ ~Visible(call[r].task)
            \/ tasks[call[r].task].version > current[r].version
            \/ call[r].op = "update" /\ current[r].version # call[r].version]_taskVars
=============================================================================
