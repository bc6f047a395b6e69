-------------------------- MODULE TaskServiceProofs --------------------------
(***************************************************************************)
(* Theorems of TaskService, for every value of its constants: its types,   *)
(* the freshness of the rows that requests hold, and that it implements    *)
(* TaskStore.                                                              *)
(***************************************************************************)
EXTENDS TaskService, TaskStoreProofs, TLAPS

(* What is true of one request at each of its steps. *)
RequestOK(r) ==
    /\ pc[r] = "idle" => current[r] = Null
    /\ pc[r] # "idle" => call[r] \in Calls /\ ~Malformed(call[r])
    /\ pc[r] # "idle" /\ call[r].op = "create" =>
          current[r] = Null /\ pc[r] \in {"role", "assignee", "write", "invalidate"}
    /\ pc[r] = "find" => current[r] = Null
    /\ current[r] # Null => call[r].op # "create" /\ call[r].task \in 1..lastTask
    /\ pc[r] \notin {"idle", "find"} /\ call[r].op # "create" =>
          current[r] # Null /\ current[r].deletedAt = Null
    /\ pc[r] = "assignee" => call[r].op \in {"create", "update"}
    /\ pc[r] \in {"assignee", "write", "invalidate"} =>
          /\ call[r].op # "history"
          /\ call[r].op \in {"create", "update"} => ~InvalidFields(call[r].input)
          /\ call[r].op = "update" =>
                /\ current[r].version = call[r].version
                /\ ChangedFields(current[r], ApplyUpdate(current[r], call[r].input)) # {}

FreshRow(r) ==
    current[r] # Null =>
        LET row == tasks[call[r].task]
        IN  row = Null \/ row = current[r] \/ row.version > current[r].version

(* The inductive invariant.  FreshRow is SnapshotFresh of one request; ids that   *)
(* are not handed out have no row, so that none comes back in place of a row   *)
(* that a request holds and that is gone.                                      *)
IInv ==
    /\ TypeOK
    /\ \A id \in TaskIds : id > lastTask => tasks[id] = Null
    /\ ClosedIffDone
    /\ \A r \in Requests : RequestOK(r) /\ FreshRow(r)

-----------------------------------------------------------------------------
(* Types of the pure parts. *)

\* The row of a create is a row of the table (service.go:234-268).
LEMMA NewTaskType ==
    ASSUME NEW c \in Call, c.op = "create", c \in Calls, c.team # Null,
           ~InvalidFields(c.input)
    PROVE  /\ NewTask(c) \in TaskRow
           /\ NewTask(c).closedAt = ClosedAt(NewTask(c).status)
           /\ NewTask(c).version = 1
           /\ NewTask(c).deletedAt = Null
           /\ NewTask(c).createdBy = c.actor
<1>1. c \in CreateCalls
  BY DEF Calls, CreateCalls, UpdateCalls, PlainCalls
<1>2. /\ c.team \in Teams /\ c.actor \in Users
      /\ c.input \in Input /\ c.input.title # Absent /\ c.input.assignee # Absent
  BY <1>1, InputAssumption DEF CreateCalls
<1>3. /\ c.input.title \in Titles
      /\ c.input.status \in Statuses \cup {Absent}
      /\ c.input.assignee \in Users \cup {Null}
  BY <1>2 DEF Input, InvalidFields
<1> QED
  BY <1>2, <1>3 DEF NewTask, TaskRow, Statuses, ClosedAt, Time, Given

\* applyUpdate keeps the type, and what it may not change (service.go:270-330).
LEMMA ApplyUpdateType ==
    ASSUME NEW row \in TaskRow, NEW input \in Input, ~InvalidFields(input)
    PROVE  LET new == ApplyUpdate(row, input)
           IN  /\ new \in TaskRow
               /\ new.team = row.team /\ new.createdBy = row.createdBy
               /\ new.deletedAt = row.deletedAt /\ new.version = row.version
               /\ row.closedAt = ClosedAt(row.status) =>
                     new.closedAt = ClosedAt(new.status)
<1>1. /\ input.title \in Titles \cup {Absent}
      /\ input.status \in Statuses \cup {Absent}
      /\ input.assignee \in Users \cup {Null, Absent}
  BY DEF Input, InvalidFields
<1> QED
  BY <1>1 DEF ApplyUpdate, TaskRow, Statuses, ClosedAt, Time, Given

\* The maps of changes are history columns (history.go:8-40).
LEMMA ChangesType ==
    ASSUME NEW old \in TaskRow, NEW new \in TaskRow
    PROVE  /\ Changes(old, new) \in [Fields -> FieldChange \cup {Null}]
           /\ Snapshot(new) \in [Fields -> FieldChange \cup {Null}]
           /\ NoChanges \in [Fields -> FieldChange \cup {Null}]
<1>1. ASSUME NEW row \in TaskRow, NEW f \in Fields
      PROVE  row[f] \in FieldValues
  BY DEF TaskRow, Fields, FieldValues
<1>2. Null \in FieldValues
  BY DEF FieldValues
<1> QED
  BY <1>1, <1>2 DEF Changes, Snapshot, NoChanges, FieldChange

\* What clients send is a call.
LEMMA CallsType == Calls \subseteq Call
<1>1. 0 \in 0..MaxTasks /\ 0 \in 0..MaxVersion
  BY MaxTasksAssumption, BoundAssumption
<1>2. CreateInputs \subseteq Input /\ UpdateInputs \subseteq Input /\ NoInput \in Input
  BY InputAssumption DEF Input, NoInput
<1>3. CreateCalls \subseteq Call
  BY <1>1, <1>2 DEF CreateCalls, Call, Ops
<1>4. UpdateCalls \subseteq Call
  BY <1>1, <1>2 DEF UpdateCalls, Call, Ops
<1>5. PlainCalls("delete") \subseteq Call /\ PlainCalls("history") \subseteq Call
  BY <1>1, <1>2 DEF PlainCalls, Call, Ops
<1> QED
  BY <1>3, <1>4, <1>5 DEF Calls

-----------------------------------------------------------------------------
(* Steps that leave the tables alone. *)

\* A step of one request that leaves the tables and the other requests alone.
LEMMA FrameOK ==
    ASSUME IInv, NEW r \in Requests, TypeOK', UNCHANGED tables,
           \A s \in Requests \ {r} : /\ pc'[s] = pc[s] /\ call'[s] = call[s]
                                    /\ current'[s] = current[s],
           RequestOK(r)', FreshRow(r)'
    PROVE  IInv'
<1>1. ASSUME NEW s \in Requests PROVE RequestOK(s)' /\ FreshRow(s)'
  <2>1. CASE s = r
    BY <2>1
  <2>2. CASE s # r
    <3>1. /\ pc'[s] = pc[s] /\ call'[s] = call[s] /\ current'[s] = current[s]
          /\ tasks' = tasks /\ lastTask' = lastTask
      BY <2>2 DEF tables
    <3> QED
      BY <3>1 DEF IInv, RequestOK, FreshRow
  <2> QED
    BY <2>1, <2>2
<1>2. ClosedIffDone' /\ \A id \in TaskIds : id > lastTask' => tasks'[id] = Null
  BY DEF IInv, tables, ClosedIffDone, ClosedAt, TaskIds, Time
<1> QED
  BY <1>1, <1>2 DEF IInv

\* A request that returns.
LEMMA FinishOK ==
    ASSUME IInv, NEW r \in Requests, NEW outcome \in Outcomes,
           Finish(r, outcome), UNCHANGED tables, generation' \in [Teams -> Nat]
    PROVE  IInv'
<1>1. TypeOK'
  BY DEF IInv, TypeOK, Finish, Goto, Steps, tables
<1>2. RequestOK(r)' /\ FreshRow(r)'
  BY DEF IInv, TypeOK, Finish, Goto, RequestOK, FreshRow
<1>3. \A s \in Requests \ {r} : /\ pc'[s] = pc[s] /\ call'[s] = call[s]
                                /\ current'[s] = current[s]
  BY DEF IInv, TypeOK, Finish, Goto
<1> QED
  BY <1>1, <1>2, <1>3, FrameOK

LEMMA BeginOK ==
    ASSUME IInv, NEW r \in Requests, NEW c \in Calls, Begin(r, c)
    PROVE  IInv'
<1>1. c \in Call
  BY CallsType
<1>2. TypeOK'
  BY <1>1 DEF IInv, TypeOK, Begin, Goto, Steps, tables
<1>3. RequestOK(r)' /\ FreshRow(r)'
  BY DEF IInv, TypeOK, Begin, Goto, RequestOK, FreshRow
<1>4. UNCHANGED tables
  BY DEF Begin
<1>5. \A s \in Requests \ {r} : /\ pc'[s] = pc[s] /\ call'[s] = call[s]
                                /\ current'[s] = current[s]
  BY DEF IInv, TypeOK, Begin, Goto
<1> QED
  BY <1>2, <1>3, <1>4, <1>5, FrameOK

LEMMA FindOK ==
    ASSUME IInv, NEW r \in Requests, Find(r)
    PROVE  IInv'
<1> DEFINE row == FindByID(call[r].task)
<1>1. UNCHANGED tables /\ generation' = generation
  BY DEF Find
<1>2. CASE row = Null
  <2>1. Finish(r, "not_found")
    BY <1>2 DEF Find, Finish
  <2> QED
    BY <1>1, <2>1, FinishOK DEF IInv, TypeOK, Outcomes
<1>3. CASE row # Null
  <2>1. /\ Goto(r, "role") /\ current' = [current EXCEPT ![r] = row]
        /\ UNCHANGED <<call, role, reply>>
    BY <1>3 DEF Find
  <2>2. /\ row = tasks[call[r].task] /\ row \in TaskRow /\ row.deletedAt = Null
        /\ call[r].task \in TaskIds
    BY <1>3 DEF IInv, TypeOK, FindByID, Visible
  <2>3. call[r].task \in 1..lastTask
    BY <1>3, <2>2 DEF IInv, TypeOK, TaskIds
  <2>4. TypeOK'
    BY <1>1, <2>1, <2>2 DEF IInv, TypeOK, Goto, Steps, tables
  <2>5. pc[r] = "find" /\ call[r].op # "create"
    BY DEF IInv, RequestOK, Find
  <2>6. RequestOK(r)' /\ FreshRow(r)'
    BY <1>1, <1>3, <2>1, <2>2, <2>3, <2>5
    DEF IInv, TypeOK, Goto, RequestOK, FreshRow, tables
  <2>7. \A s \in Requests \ {r} : /\ pc'[s] = pc[s] /\ call'[s] = call[s]
                                  /\ current'[s] = current[s]
    BY <2>1 DEF IInv, TypeOK, Goto
  <2> QED
    BY <1>1, <2>4, <2>6, <2>7, FrameOK
<1> QED
  BY <1>2, <1>3

\* A request that goes on after a check.
LEMMA DecideOK ==
    ASSUME IInv, NEW r \in Requests, pc[r] = "role",
           NEW actorRole \in Roles \cup {Null}, NEW verdict \in Outcomes \cup {"pass"},
           NEW next \in {"assignee", "write", "list"},
           next = "assignee" => call[r].op \in {"create", "update"},
           next = "list" => call[r].op = "history",
           verdict = "pass" /\ next # "list" =>
              /\ call[r].op # "history"
              /\ call[r].op \in {"create", "update"} => ~InvalidFields(call[r].input)
              /\ call[r].op = "update" =>
                   /\ current[r].version = call[r].version
                   /\ ChangedFields(current[r], ApplyUpdate(current[r], call[r].input)) # {},
           Decide(r, actorRole, verdict, next)
    PROVE  IInv'
<1>1. UNCHANGED tables /\ generation' = generation
  BY DEF Decide
<1>2. CASE verdict # "pass"
  <2>1. Finish(r, verdict)
    BY <1>2 DEF Decide
  <2> QED
    BY <1>1, <1>2, <2>1, FinishOK DEF IInv, TypeOK
<1>3. CASE verdict = "pass"
  <2>1. /\ Goto(r, next) /\ role' = [role EXCEPT ![r] = actorRole]
        /\ UNCHANGED <<call, current, reply>>
    BY <1>3 DEF Decide
  <2>2. TypeOK'
    BY <1>1, <2>1 DEF IInv, TypeOK, Goto, Steps, tables
  <2>3. RequestOK(r)' /\ FreshRow(r)'
    BY <1>1, <1>3, <2>1 DEF IInv, TypeOK, Goto, RequestOK, FreshRow, tables
  <2>4. \A s \in Requests \ {r} : /\ pc'[s] = pc[s] /\ call'[s] = call[s]
                                  /\ current'[s] = current[s]
    BY <2>1 DEF IInv, TypeOK, Goto
  <2> QED
    BY <1>1, <2>2, <2>3, <2>4, FrameOK
<1> QED
  BY <1>2, <1>3

\* The steps that read a role, and validateAssignee.
LEMMA RoleOK ==
    ASSUME IInv, NEW r \in Requests,
           CreateRole(r) \/ UpdateRole(r) \/ DeleteRole(r) \/ HistoryRole(r)
    PROVE  IInv'
<1>1. pc[r] = "role" /\ call[r] \in Calls /\ call[r] \in Call
  BY CallsType DEF IInv, RequestOK, CreateRole, UpdateRole, DeleteRole, HistoryRole, At
<1>2. ASSUME NEW t \in Teams PROVE MemberRole(t, call[r].actor) \in Roles \cup {Null}
  BY <1>1 DEF IInv, TypeOK, Call, MemberRole
<1>3. CASE CreateRole(r)
  <2> DEFINE c == call[r]
             actorRole == MemberRole(c.team, c.actor)
  <2>1. c.op = "create" /\ c.team \in Teams
    BY <1>1, <1>3 DEF CreateRole, At, IInv, RequestOK, Malformed, Call
  <2>2. CreateVerdict(c, actorRole) \in {"forbidden", "invalid_input", "pass"}
    BY DEF CreateVerdict
  <2>3. CreateVerdict(c, actorRole) = "pass" => ~InvalidFields(c.input)
    BY DEF CreateVerdict
  <2>4. Decide(r, actorRole, CreateVerdict(c, actorRole), AssigneeStep(NewTask(c)))
    BY <1>3 DEF CreateRole
  <2>5. AssigneeStep(NewTask(c)) \in {"assignee", "write"}
    BY DEF AssigneeStep
  <2> HIDE DEF c, actorRole
  <2> QED
    BY <1>1, <1>2, <2>1, <2>2, <2>3, <2>4, <2>5, DecideOK DEF Outcomes, c, actorRole
<1>4. CASE UpdateRole(r)
  <2> DEFINE c == call[r]
             row == current[r]
             actorRole == MemberRole(row.team, c.actor)
             verdict == UpdateVerdict(c, row, actorRole)
  <2>1. c.op = "update" /\ row \in TaskRow
    BY <1>1, <1>4 DEF UpdateRole, At, IInv, TypeOK, RequestOK
  <2>2. actorRole \in Roles \cup {Null}
    BY <1>2, <2>1 DEF TaskRow
  <2>3. verdict \in {"forbidden", "conflict", "invalid_input", "ok", "pass"}
    BY DEF UpdateVerdict
  <2>4. verdict = "pass" => /\ ~InvalidFields(c.input)
                            /\ row.version = c.version
                            /\ ChangedFields(row, ApplyUpdate(row, c.input)) # {}
    BY DEF UpdateVerdict
  <2>5. Decide(r, actorRole, verdict, AssigneeStep(ApplyUpdate(row, c.input)))
    BY <1>4 DEF UpdateRole
  <2>6. AssigneeStep(ApplyUpdate(row, c.input)) \in {"assignee", "write"}
    BY DEF AssigneeStep
  <2> HIDE DEF verdict, actorRole
  <2> QED
    BY <1>1, <2>1, <2>2, <2>3, <2>4, <2>5, <2>6, DecideOK DEF Outcomes
<1>5. CASE DeleteRole(r)
  <2> DEFINE actorRole == MemberRole(current[r].team, call[r].actor)
             verdict == DeleteVerdict(call[r], current[r], actorRole)
  <2>1. call[r].op = "delete" /\ current[r] \in TaskRow
    BY <1>1, <1>5 DEF DeleteRole, At, IInv, TypeOK, RequestOK
  <2>2. actorRole \in Roles \cup {Null}
    BY <1>2, <2>1 DEF TaskRow
  <2>3. verdict \in {"forbidden", "pass"}
    BY DEF DeleteVerdict
  <2>4. Decide(r, actorRole, verdict, "write")
    BY <1>5 DEF DeleteRole
  <2> HIDE DEF verdict, actorRole
  <2> QED
    BY <1>1, <2>1, <2>2, <2>3, <2>4, DecideOK DEF Outcomes
<1>6. CASE HistoryRole(r)
  <2> DEFINE actorRole == MemberRole(current[r].team, call[r].actor)
             verdict == IF actorRole = Null THEN "forbidden" ELSE "pass"
  <2>1. call[r].op = "history" /\ current[r] \in TaskRow
    BY <1>1, <1>6 DEF HistoryRole, At, IInv, TypeOK, RequestOK
  <2>2. actorRole \in Roles \cup {Null}
    BY <1>2, <2>1 DEF TaskRow
  <2>3. verdict \in {"forbidden", "pass"}
    OBVIOUS
  <2>4. Decide(r, actorRole, verdict, "list")
    BY <1>6 DEF HistoryRole
  <2> HIDE DEF verdict, actorRole
  <2> QED
    BY <1>1, <2>1, <2>2, <2>3, <2>4, DecideOK DEF Outcomes
<1> QED
  BY <1>3, <1>4, <1>5, <1>6

LEMMA CheckAssigneeOK ==
    ASSUME IInv, NEW r \in Requests, CheckAssignee(r)
    PROVE  IInv'
<1>1. UNCHANGED tables /\ generation' = generation /\ pc[r] = "assignee"
  BY DEF CheckAssignee
<1>2. CASE Finish(r, "invalid_input")
  BY <1>1, <1>2, FinishOK DEF IInv, TypeOK, Outcomes
<1>3. CASE Goto(r, "write") /\ UNCHANGED <<call, current, role, reply>>
  <2>1. TypeOK'
    BY <1>1, <1>3 DEF IInv, TypeOK, Goto, Steps, tables
  <2>2. RequestOK(r)' /\ FreshRow(r)'
    BY <1>1, <1>3 DEF IInv, TypeOK, Goto, RequestOK, FreshRow, tables
  <2>3. \A s \in Requests \ {r} : /\ pc'[s] = pc[s] /\ call'[s] = call[s]
                                  /\ current'[s] = current[s]
    BY <1>3 DEF IInv, TypeOK, Goto
  <2> QED
    BY <1>1, <2>1, <2>2, <2>3, FrameOK
<1> QED
  BY <1>2, <1>3 DEF CheckAssignee

-----------------------------------------------------------------------------
(* Steps that write the tables. *)

\* What IInv says of the tables.
TablesOK ==
    /\ teams \in [Teams -> {"unused", "exists", "deleted"}]
    /\ members \in [Teams -> [Users -> Roles \cup {Null}]]
    /\ tasks \in [TaskIds -> TaskRow \cup {Null}]
    /\ lastTask \in 0..MaxTasks
    /\ history \in [TaskIds -> Seq(HistoryEntry)]
    /\ \A id \in TaskIds : id > lastTask => tasks[id] = Null
    /\ ClosedIffDone

MovesOn(id) ==
    \/ tasks'[id] = tasks[id]
    \/ tasks'[id] = Null
    \/ tasks[id] # Null /\ tasks'[id].version > tasks[id].version

TablesMoveOn ==
    /\ TablesOK'
    /\ lastTask' >= lastTask
    /\ \A id \in 1..lastTask : MovesOn(id)

LEMMA IInvTables == IInv => TablesOK
  BY DEF IInv, TypeOK, TablesOK

\* A request keeps its invariant when others write the tables.
LEMMA OtherOK ==
    ASSUME IInv, NEW s \in Requests, TablesMoveOn,
           pc'[s] = pc[s], call'[s] = call[s], current'[s] = current[s]
    PROVE  RequestOK(s)' /\ FreshRow(s)'
<1>1. RequestOK(s) /\ FreshRow(s) /\ lastTask \in Nat /\ lastTask' \in Nat /\ lastTask <= lastTask'
  BY MaxTasksAssumption DEF IInv, TypeOK, TablesMoveOn, TablesOK
<1>2. RequestOK(s)'
  BY <1>1 DEF RequestOK
<1>3. ASSUME current[s] # Null
      PROVE  LET row == tasks'[call[s].task]
             IN  row = Null \/ row = current[s] \/ row.version > current[s].version
  <2> DEFINE id == call[s].task
  <2>1. id \in 1..lastTask /\ id \in TaskIds
    BY <1>1, <1>3, MaxTasksAssumption DEF RequestOK, IInv, TypeOK, TaskIds
  <2>2. MovesOn(id)
    BY <2>1 DEF TablesMoveOn
  <2>3. tasks[id] = Null \/ tasks[id] = current[s] \/ tasks[id].version > current[s].version
    BY <1>1, <1>3 DEF FreshRow
  <2>4. current[s].version \in Nat /\ (tasks[id] # Null => tasks[id].version \in Nat)
    BY <1>3, <2>1 DEF IInv, TypeOK, TaskRow
  <2>5. tasks[id] = Null => tasks'[id] = Null \/ tasks'[id] = tasks[id]
    BY <2>2 DEF MovesOn
  <2>6. tasks'[id] # Null => tasks'[id].version \in Nat
    BY <2>1 DEF TablesMoveOn, TablesOK, TaskRow
  <2> QED
    BY <2>2, <2>3, <2>4, <2>5, <2>6 DEF MovesOn
<1> QED
  BY <1>1, <1>2, <1>3 DEF FreshRow

LEMMA AppendType ==
    ASSUME TablesOK, NEW id \in TaskIds, NEW by \in Users,
           NEW event \in {"created", "updated", "deleted"},
           NEW changes \in [Fields -> FieldChange \cup {Null}],
           InsertHistory(id, by, event, changes)
    PROVE  history' \in [TaskIds -> Seq(HistoryEntry)]
<1>1. [by |-> by, event |-> event, changes |-> changes] \in HistoryEntry
  BY DEF HistoryEntry
<1>2. history[id] \in Seq(HistoryEntry)
  BY DEF TablesOK
<1>3. Append(history[id], [by |-> by, event |-> event, changes |-> changes])
         \in Seq(HistoryEntry)
  BY <1>1, <1>2
<1> QED
  BY <1>3 DEF TablesOK, InsertHistory

LEMMA CreateCommit ==
    ASSUME TablesOK, NEW c \in Calls, c.op = "create", ~Malformed(c),
           ~InvalidFields(c.input), UNCHANGED teamTables,
           CreateWithHistory(NewTask(c), c.actor, Snapshot(NewTask(c)))
    PROVE  TablesMoveOn /\ StoreNext
<1> DEFINE row == NewTask(c)
           id == lastTask + 1
<1>1. c \in Call /\ c.team # Null /\ c.actor \in Users
  BY CallsType DEF Malformed, Call
<1>2. /\ row \in TaskRow /\ row.closedAt = ClosedAt(row.status) /\ row.version = 1
      /\ row.deletedAt = Null /\ row.createdBy = c.actor
  BY <1>1, NewTaskType
<1> HIDE DEF row
<1>3. /\ id \in TaskIds /\ lastTask' = id /\ lastTask < MaxTasks /\ lastTask \in Nat
      /\ tasks' = [tasks EXCEPT ![id] = row]
      /\ InsertHistory(id, c.actor, "created", Snapshot(row))
  BY MaxTasksAssumption DEF CreateWithHistory, TablesOK, TaskIds, row
<1>4. tasks'[id] = row /\ \A i \in TaskIds \ {id} : tasks'[i] = tasks[i]
  BY <1>3 DEF TablesOK
<1>5. history' \in [TaskIds -> Seq(HistoryEntry)]
  <2>1. Snapshot(row) \in [Fields -> FieldChange \cup {Null}]
    BY <1>2, ChangesType
  <2> QED
    BY <1>1, <1>3, <2>1, AppendType
<1>6. ClosedIffDone'
  BY <1>2, <1>4, <1>3 DEF TablesOK, ClosedIffDone, ClosedAt, TaskIds, Time
<1>7. TablesMoveOn
  <2>1. \A i \in TaskIds : i > lastTask' => tasks'[i] = Null
    BY <1>3, <1>4 DEF TablesOK, TaskIds
  <2>2. \A i \in 1..lastTask : tasks'[i] = tasks[i]
    BY <1>3, <1>4, MaxTasksAssumption DEF TaskIds
  <2>3. tasks' \in [TaskIds -> TaskRow \cup {Null}]
    BY <1>2, <1>3 DEF TablesOK
  <2> QED
    BY <1>3, <1>5, <1>6, <2>1, <2>2, <2>3 DEF TablesMoveOn, TablesOK, MovesOn, teamTables,
       TaskIds
<1>8. Create(c.actor)
  BY <1>2, <1>3, <1>4 DEF Create, Record, InsertHistory, TaskRow, Statuses, Time,
                          ClosedAt, Snapshot, Fields
<1> QED
  BY <1>1, <1>7, <1>8 DEF StoreNext

\* The row that an update writes, given the row it was made from: the fields
\* differ exactly where the changes say so.
LEMMA RewriteRow ==
    ASSUME NEW row \in TaskRow, NEW updated \in TaskRow
    PROVE  LET new == Rewrite(row, updated)
           IN  /\ new \in TaskRow
               /\ new.team = row.team /\ new.createdBy = row.createdBy
               /\ new.deletedAt = row.deletedAt /\ new.version = row.version + 1
               /\ new.closedAt = updated.closedAt /\ new.status = updated.status
               /\ new.title = updated.title /\ new.assignee = updated.assignee
<1>1. row.version \in Nat /\ row.version + 1 \in Nat \ {0}
  BY DEF TaskRow
<1> DEFINE new == Rewrite(row, updated)
<1>2. /\ new.team = row.team /\ new.createdBy = row.createdBy
      /\ new.deletedAt = row.deletedAt /\ new.version = row.version + 1
      /\ new.closedAt = updated.closedAt /\ new.status = updated.status
      /\ new.title = updated.title /\ new.assignee = updated.assignee
  BY DEF Rewrite, TaskRow
<1>3. new \in TaskRow
  BY <1>1 DEF Rewrite, TaskRow
<1> QED
  BY <1>2, <1>3

LEMMA DeletedRow ==
    ASSUME NEW row \in TaskRow
    PROVE  LET new == [row EXCEPT !.deletedAt = Time, !.version = row.version + 1]
           IN  /\ new \in TaskRow /\ new.version > row.version
               /\ new.closedAt = row.closedAt /\ new.status = row.status
<1> DEFINE v == row.version + 1
           new == [row EXCEPT !.deletedAt = Time, !.version = v]
<1>1. v > row.version /\ v \in Nat \ {0}
  BY DEF TaskRow
<1> HIDE DEF v
<1>2. new \in TaskRow
  BY <1>1 DEF TaskRow
<1>3. new.version = v /\ new.closedAt = row.closedAt /\ new.status = row.status
  BY DEF TaskRow
<1>4. new \in TaskRow /\ new.version > row.version
      /\ new.closedAt = row.closedAt /\ new.status = row.status
  BY <1>1, <1>2, <1>3
<1> QED
  BY <1>4 DEF v

LEMMA RewriteType ==
    ASSUME NEW row \in TaskRow, row.closedAt = ClosedAt(row.status),
           NEW input \in Input, ~InvalidFields(input),
           ChangedFields(row, ApplyUpdate(row, input)) # {}
    PROVE  LET updated == ApplyUpdate(row, input)
               new == Rewrite(row, updated)
           IN  /\ new \in TaskRow
               /\ new.team = row.team /\ new.createdBy = row.createdBy
               /\ new.deletedAt = row.deletedAt /\ new.version = row.version + 1
               /\ new.closedAt = ClosedAt(new.status)
               /\ \E f \in Fields : new[f] # row[f]
               /\ Changes(row, updated) = Difference(row, new)
<1> DEFINE updated == ApplyUpdate(row, input)
           new == Rewrite(row, updated)
<1>1. /\ updated \in TaskRow
      /\ updated.team = row.team /\ updated.createdBy = row.createdBy
      /\ updated.deletedAt = row.deletedAt /\ updated.version = row.version
      /\ updated.closedAt = ClosedAt(updated.status)
  BY ApplyUpdateType
<1> HIDE DEF updated
<1>2. /\ new \in TaskRow
      /\ new.team = row.team /\ new.createdBy = row.createdBy
      /\ new.deletedAt = row.deletedAt /\ new.version = row.version + 1
      /\ new.closedAt = updated.closedAt /\ new.status = updated.status
      /\ new.title = updated.title /\ new.assignee = updated.assignee
  BY <1>1, RewriteRow
<1>3. \A f \in Fields : new[f] = updated[f]
  BY <1>2 DEF Fields
<1> HIDE DEF new
<1>4. \A f \in Fields : f \in ChangedFields(row, updated) <=> row[f] # new[f]
  <2>1. "closedAt" \in ChangedFields(row, updated) <=> row.closedAt # new.closedAt
    BY <1>1, <1>2, NullAssumption DEF ChangedFields, ClosedAt, Time
  <2>2. \A f \in {"title", "status", "assignee"} :
           f \in ChangedFields(row, updated) <=> row[f] # new[f]
    BY <1>3 DEF ChangedFields, Fields
  <2> QED
    BY <2>1, <2>2 DEF Fields
<1>5. ChangedFields(row, updated) \subseteq Fields
  BY DEF ChangedFields, Fields
<1>6. \E f \in Fields : new[f] # row[f]
  BY <1>4, <1>5 DEF updated
<1>7. Changes(row, updated) = Difference(row, new)
  BY <1>3, <1>4 DEF Changes, Difference, Fields
<1> QED
  BY <1>1, <1>2, <1>6, <1>7 DEF updated, new

LEMMA UpdateCommit ==
    ASSUME TablesOK, NEW c \in Calls, c.op = "update", NEW row \in TaskRow,
           ~InvalidFields(c.input), ChangedFields(row, ApplyUpdate(row, c.input)) # {},
           tasks[c.task] = row \/ tasks[c.task].version > row.version,
           c.task \in 1..lastTask, UNCHANGED teamTables,
           UpdateWithHistory(c.task, ApplyUpdate(row, c.input), c.actor,
                             Changes(row, ApplyUpdate(row, c.input)))
    PROVE  TablesMoveOn /\ StoreNext
<1> DEFINE id == c.task
           updated == ApplyUpdate(row, c.input)
           new == Rewrite(row, updated)
<1>1. c \in Call /\ c.actor \in Users /\ c.input \in Input
  BY CallsType DEF Call
<1>2. id \in TaskIds /\ lastTask \in Nat /\ lastTask \in 0..MaxTasks
  BY MaxTasksAssumption DEF TablesOK, TaskIds
<1>3. updated.version = row.version /\ updated \in TaskRow
  BY <1>1, ApplyUpdateType
<1>4. tasks[id] # Null /\ tasks[id].deletedAt = Null /\ tasks[id].version = row.version
  BY <1>3 DEF UpdateWithHistory, Matches, Visible
<1>5. tasks[id] = row
  BY <1>4 DEF TaskRow
<1>6. row.closedAt = ClosedAt(row.status)
  BY <1>2, <1>4, <1>5 DEF TablesOK, ClosedIffDone, ClosedAt, TaskIds, Time
<1>7. /\ new \in TaskRow
      /\ new.team = row.team /\ new.createdBy = row.createdBy
      /\ new.deletedAt = row.deletedAt /\ new.version = row.version + 1
      /\ new.closedAt = ClosedAt(new.status)
      /\ \E f \in Fields : new[f] # row[f]
      /\ Changes(row, updated) = Difference(row, new)
  BY <1>1, <1>6, RewriteType
<1>8. /\ tasks' = [tasks EXCEPT ![id] = new]
      /\ InsertHistory(id, c.actor, "updated", Changes(row, updated))
      /\ lastTask' = lastTask
  BY <1>5 DEF UpdateWithHistory
<1>9. Changes(row, updated) \in [Fields -> FieldChange \cup {Null}]
  BY <1>3, ChangesType
<1> HIDE DEF new, updated
<1>10. tasks'[id] = new /\ \A i \in TaskIds \ {id} : tasks'[i] = tasks[i]
  BY <1>2, <1>8 DEF TablesOK
<1>11. history' \in [TaskIds -> Seq(HistoryEntry)]
  BY <1>1, <1>2, <1>8, <1>9, AppendType
<1>12. ClosedIffDone'
  BY <1>7, <1>8, <1>10 DEF TablesOK, ClosedIffDone, ClosedAt, TaskIds, Time
<1>13. TablesMoveOn
  <2>1. \A i \in TaskIds : i > lastTask' => tasks'[i] = Null
    BY <1>2, <1>8, <1>10 DEF TablesOK
  <2>2. \A i \in 1..lastTask : MovesOn(i)
    <3>1. new.version > tasks[id].version
      BY <1>5, <1>7 DEF TaskRow
    <3>2. 1..lastTask \subseteq TaskIds
      BY <1>2, MaxTasksAssumption DEF TaskIds
    <3> QED
      BY <1>4, <1>10, <3>1, <3>2 DEF MovesOn
  <2>3. tasks' \in [TaskIds -> TaskRow \cup {Null}]
    BY <1>7, <1>8 DEF TablesOK
  <2> QED
    BY <1>2, <1>8, <1>11, <1>12, <2>1, <2>2, <2>3
    DEF TablesMoveOn, TablesOK, teamTables
<1>14. Change(id, c.actor)
  <2>1. new \in TaskRow /\ new.closedAt = ClosedAt(new.status)
    BY <1>7 DEF TaskRow, Statuses, Time, ClosedAt
  <2>2. \E f \in Fields : new[f] # tasks[id][f]
    BY <1>5, <1>7 DEF Fields
  <2>3. \A f \in {"team", "createdBy", "deletedAt"} : new[f] = tasks[id][f]
    BY <1>5, <1>7
  <2>4. Record(id, new, c.actor, "updated", Difference(tasks[id], new))
    BY <1>5, <1>7, <1>8 DEF Record, InsertHistory
  <2> QED
    BY <1>4, <1>5, <1>7, <1>8, <1>10, <2>1, <2>2, <2>3, <2>4 DEF Change, Present
<1> QED
  BY <1>1, <1>2, <1>13, <1>14 DEF StoreNext, TaskIds

LEMMA DeleteCommit ==
    ASSUME TablesOK, NEW c \in Calls, NEW version \in Nat, c.task \in TaskIds,
           UNCHANGED teamTables, SoftDeleteWithHistory(c.task, version, c.actor)
    PROVE  TablesMoveOn /\ StoreNext
<1> DEFINE id == c.task
           new == [tasks[id] EXCEPT !.deletedAt = Time, !.version = tasks[id].version + 1]
<1>1. c \in Call /\ c.actor \in Users
  BY CallsType DEF Call
<1>2. /\ tasks[id] # Null /\ tasks[id].deletedAt = Null /\ tasks[id] \in TaskRow
      /\ id <= lastTask /\ lastTask \in Nat /\ id \in 1..lastTask
  BY MaxTasksAssumption DEF SoftDeleteWithHistory, Matches, Visible, TablesOK, TaskIds
<1>3. /\ tasks' = [tasks EXCEPT ![id] = new]
      /\ InsertHistory(id, c.actor, "deleted", NoChanges)
      /\ lastTask' = lastTask
  BY DEF SoftDeleteWithHistory
<1>4. /\ new \in TaskRow /\ new.version > tasks[id].version
      /\ new.closedAt = tasks[id].closedAt /\ new.status = tasks[id].status
  BY <1>2, DeletedRow
<1>5. NoChanges \in [Fields -> FieldChange \cup {Null}]
  BY <1>2, ChangesType
<1>6. history' \in [TaskIds -> Seq(HistoryEntry)]
  BY <1>1, <1>3, <1>5, AppendType
<1>7. Remove(id, c.actor)
  BY <1>2, <1>3 DEF Remove, Record, Present, InsertHistory, NoChanges, Fields, Time
<1> HIDE DEF new
<1>8. tasks'[id] = new /\ \A i \in TaskIds \ {id} : tasks'[i] = tasks[i]
  BY <1>3 DEF TablesOK
<1>9. ClosedIffDone'
  BY <1>2, <1>3, <1>4, <1>8 DEF TablesOK, ClosedIffDone, ClosedAt, TaskIds, Time
<1>10. TablesMoveOn
  <2>1. \A i \in TaskIds : i > lastTask' => tasks'[i] = Null
    BY <1>2, <1>3, <1>8 DEF TablesOK
  <2>2. \A i \in 1..lastTask : MovesOn(i)
    BY <1>2, <1>4, <1>8, MaxTasksAssumption DEF MovesOn, TaskIds, TablesOK
  <2>3. tasks' \in [TaskIds -> TaskRow \cup {Null}]
    BY <1>3, <1>4 DEF TablesOK
  <2> QED
    BY <1>2, <1>3, <1>6, <1>9, <2>1, <2>2, <2>3 DEF TablesMoveOn, TablesOK, teamTables
<1> QED
  BY <1>1, <1>7, <1>10 DEF StoreNext, TaskIds

LEMMA CommitOK ==
    ASSUME IInv, NEW r \in Requests, Commit(r)
    PROVE  TablesMoveOn /\ StoreNext
<1> DEFINE c == call[r]
<1>1. /\ TablesOK /\ pc[r] = "write" /\ c \in Calls /\ ~Malformed(c)
      /\ UNCHANGED teamTables
  BY IInvTables DEF Commit, IInv, RequestOK
<1>2. CASE c.op = "create"
  <2>1. ~InvalidFields(c.input)
    BY <1>1, <1>2 DEF IInv, RequestOK
  <2>2. CreateWithHistory(NewTask(c), c.actor, Snapshot(NewTask(c)))
    BY <1>2 DEF Commit
  <2> QED
    BY <1>1, <1>2, <2>1, <2>2, CreateCommit
<1>3. ASSUME c.op # "create"
      PROVE  /\ current[r] \in TaskRow /\ c.task \in 1..lastTask /\ c.task \in TaskIds
             /\ tasks[c.task] \in TaskRow \cup {Null}
             /\ FreshRow(r)
  <2>1. RequestOK(r) /\ FreshRow(r) /\ TypeOK
    BY DEF IInv
  <2>2. current[r] # Null
    BY <1>1, <1>3, <2>1 DEF RequestOK
  <2>3. c.task \in 1..lastTask
    BY <2>1, <2>2 DEF RequestOK
  <2>4. c.task \in TaskIds
    BY <2>3, <2>1, MaxTasksAssumption DEF TypeOK, TaskIds
  <2> QED
    BY <2>1, <2>2, <2>3, <2>4 DEF TypeOK
<1>4. CASE c.op = "update"
  <2>1. /\ ~InvalidFields(c.input)
        /\ ChangedFields(current[r], ApplyUpdate(current[r], c.input)) # {}
    BY <1>1, <1>4 DEF IInv, RequestOK
  <2>2. UpdateWithHistory(c.task, ApplyUpdate(current[r], c.input), c.actor,
                          Changes(current[r], ApplyUpdate(current[r], c.input)))
    BY <1>4 DEF Commit, Written
  <2>3. tasks[c.task] # Null
    BY <2>2 DEF UpdateWithHistory, Matches, Visible
  <2>4. tasks[c.task] = current[r] \/ tasks[c.task].version > current[r].version
    BY <1>3, <1>4, <2>3, NullRecordAssumption DEF FreshRow
  <2> HIDE DEF c
  <2> QED
    BY <1>1, <1>3, <1>4, <2>1, <2>2, <2>4, UpdateCommit
<1>5. CASE c.op = "delete"
  <2>1. SoftDeleteWithHistory(c.task, current[r].version, c.actor)
    BY <1>5 DEF Commit
  <2>2. current[r].version \in Nat
    BY <1>3, <1>5 DEF TaskRow
  <2> HIDE DEF c
  <2> QED
    BY <1>1, <1>3, <1>5, <2>1, <2>2, DeleteCommit
<1> QED
  BY <1>2, <1>4, <1>5 DEF Commit

\* A commit, and what the request does with it: it goes on, or it returns.
LEMMA CommittedOK ==
    ASSUME IInv, NEW r \in Requests, Commit(r),
           \/ Goto(r, "invalidate") /\ UNCHANGED <<call, current, role, reply>>
           \/ Finish(r, "error"),
           generation' = generation
    PROVE  IInv'
<1>1. TablesMoveOn
  BY CommitOK
<1>2. /\ TypeOK /\ pc[r] = "write" /\ r \in Requests
      /\ RequestOK(r) /\ FreshRow(r)
  BY DEF IInv, Commit
<1>3. TypeOK'
  BY <1>1, <1>2 DEF TablesMoveOn, TablesOK, TypeOK, Goto, Finish, Steps, Outcomes
<1>4. \A s \in Requests \ {r} : /\ pc'[s] = pc[s] /\ call'[s] = call[s]
                                /\ current'[s] = current[s]
  BY <1>2 DEF TypeOK, Goto, Finish
<1>5. \A s \in Requests \ {r} : RequestOK(s)' /\ FreshRow(s)'
  BY <1>1, <1>4, OtherOK
<1>6. RequestOK(r)' /\ FreshRow(r)'
  <2>1. CASE Finish(r, "error")
    BY <1>2, <2>1 DEF TypeOK, Finish, Goto, RequestOK, FreshRow
  <2>2. CASE Goto(r, "invalidate") /\ UNCHANGED <<call, current, role, reply>>
    <3>1. /\ pc'[r] = "invalidate" /\ call'[r] = call[r] /\ current'[r] = current[r]
      BY <1>2, <2>2 DEF TypeOK, Goto
    <3>2. call[r].op # "history"
      BY <1>2 DEF RequestOK
    <3>3. lastTask \in Nat /\ lastTask' \in Nat /\ lastTask <= lastTask'
      BY <1>1, <1>2, MaxTasksAssumption DEF TypeOK, TablesMoveOn, TablesOK
    <3>4. RequestOK(r)'
      BY <1>2, <3>1, <3>2, <3>3 DEF RequestOK
    <3>5. FreshRow(r)'
      <4> SUFFICES ASSUME current[r] # Null
                   PROVE  LET row == tasks'[call[r].task]
                          IN  \/ row = Null \/ row = current[r]
                              \/ row.version > current[r].version
        BY <3>1 DEF FreshRow
      <4> DEFINE id == call[r].task
      <4>1. id \in 1..lastTask /\ id \in TaskIds
        BY <1>2, MaxTasksAssumption DEF RequestOK, TypeOK, TaskIds
      <4>2. MovesOn(id)
        BY <1>1, <4>1 DEF TablesMoveOn
      <4>3. current[r] \in TaskRow /\ tasks[id] \in TaskRow \cup {Null}
            /\ tasks'[id] \in TaskRow \cup {Null}
        BY <1>2, <1>1, <4>1 DEF TypeOK, TablesMoveOn, TablesOK
      <4>4. tasks[id] = Null \/ tasks[id] = current[r]
            \/ tasks[id].version > current[r].version
        BY <1>2 DEF FreshRow
      <4> HIDE DEF id
      <4> QED
        BY <4>2, <4>3, <4>4 DEF MovesOn, TaskRow, id
    <3> QED
      BY <3>4, <3>5
  <2> QED
    BY <2>1, <2>2
<1> QED
  BY <1>1, <1>3, <1>5, <1>6 DEF IInv, TablesMoveOn, TablesOK

\* The team service: no statement of it changes a row of tasks; the cascade
\* takes whole teams.
LEMMA TeamStatementOK ==
    ASSUME IInv, TeamStatement
    PROVE  IInv' /\ (StoreNext \/ UNCHANGED taskTables)
<1>1. /\ UNCHANGED requestVars /\ UNCHANGED generation
      /\ TablesOK /\ \A r \in Requests : RequestOK(r)
  BY IInvTables DEF TeamStatement, IInv
<1>2. ASSUME TablesMoveOn PROVE IInv'
  <2>1. \A s \in Requests : RequestOK(s)' /\ FreshRow(s)'
    BY <1>1, <1>2, OtherOK DEF requestVars
  <2>2. TypeOK'
    BY <1>1, <1>2 DEF IInv, TypeOK, TablesMoveOn, TablesOK, requestVars
  <2> QED
    BY <1>2, <2>1, <2>2 DEF IInv, TablesMoveOn, TablesOK
<1>3. ASSUME UNCHANGED taskTables,
             teams' \in [Teams -> {"unused", "exists", "deleted"}],
             members' \in [Teams -> [Users -> Roles \cup {Null}]]
      PROVE  TablesMoveOn
  <2>1. ClosedIffDone'
    BY <1>1, <1>3 DEF TablesOK, taskTables, ClosedIffDone, ClosedAt, TaskIds, Time
  <2>2. lastTask' = lastTask /\ lastTask \in Nat
    BY <1>1, <1>3, MaxTasksAssumption DEF TablesOK, taskTables
  <2> QED
    BY <1>1, <1>3, <2>1, <2>2 DEF TablesMoveOn, TablesOK, MovesOn, taskTables
<1>4. CASE \E t \in Teams, u \in Founders : CreateWithOwner(t, u) /\ UNCHANGED taskTables
  <2>1. /\ teams' \in [Teams -> {"unused", "exists", "deleted"}]
        /\ members' \in [Teams -> [Users -> Roles \cup {Null}]]
    BY <1>1, <1>4, BoundAssumption DEF CreateWithOwner, TablesOK, Roles
  <2> QED
    BY <1>2, <1>3, <1>4, <2>1
<1>5. CASE \E t \in Teams, u \in Users, m \in {"admin", "member"} :
              (AddMember(t, u, m) \/ ChangeMemberRole(t, u, m)) /\ UNCHANGED taskTables
  <2>1. /\ teams' \in [Teams -> {"unused", "exists", "deleted"}]
        /\ members' \in [Teams -> [Users -> Roles \cup {Null}]]
    <3> PICK t \in Teams, u \in Users, m \in {"admin", "member"} :
               AddMember(t, u, m) \/ ChangeMemberRole(t, u, m)
      BY <1>5
    <3>1. teams' = teams /\ members' = [members EXCEPT ![t][u] = m]
      BY DEF AddMember, ChangeMemberRole
    <3> QED
      BY <1>1, <3>1 DEF TablesOK, Roles
  <2> QED
    BY <1>2, <1>3, <1>5, <2>1
<1>6. CASE \E t \in Teams, u \in Users : RemoveMember(t, u) /\ UNCHANGED taskTables
  <2>1. /\ teams' \in [Teams -> {"unused", "exists", "deleted"}]
        /\ members' \in [Teams -> [Users -> Roles \cup {Null}]]
    BY <1>1, <1>6 DEF RemoveMember, TablesOK, Roles
  <2> QED
    BY <1>2, <1>3, <1>6, <2>1
<1>7. CASE \E t \in Teams : DeleteTeam(t)
  <2> PICK t \in Teams : DeleteTeam(t)
    BY <1>7
  <2>1. /\ teams' \in [Teams -> {"unused", "exists", "deleted"}]
        /\ members' \in [Teams -> [Users -> Roles \cup {Null}]]
    BY <1>1 DEF DeleteTeam, TablesOK
  <2>2. /\ tasks' \in [TaskIds -> TaskRow \cup {Null}]
        /\ \A id \in TaskIds : tasks'[id] \in {Null, tasks[id]}
    BY <1>1 DEF DeleteTeam, TablesOK
  <2>3. history' \in [TaskIds -> Seq(HistoryEntry)]
    <3>1. <<>> \in Seq(HistoryEntry)
      OBVIOUS
    <3> QED
      BY <1>1, <3>1 DEF DeleteTeam, TablesOK
  <2>4. lastTask' = lastTask /\ lastTask \in 0..MaxTasks /\ lastTask \in Nat
    BY <1>1, MaxTasksAssumption DEF DeleteTeam, TablesOK
  <2>5. ClosedIffDone' /\ \A id \in TaskIds : id > lastTask' => tasks'[id] = Null
    BY <1>1, <2>2, <2>4 DEF TablesOK, ClosedIffDone, ClosedAt, TaskIds, Time
  <2>6. \A id \in 1..lastTask : MovesOn(id)
    BY <2>2, <2>4, MaxTasksAssumption DEF MovesOn, TaskIds
  <2>7. Drop(t)
    BY DEF DeleteTeam, Drop, TeamTasks, TaskIds
  <2> QED
    BY <1>2, <2>1, <2>2, <2>3, <2>4, <2>5, <2>6, <2>7
    DEF TablesMoveOn, TablesOK, StoreNext
<1> QED
  BY <1>2, <1>3, <1>4, <1>5, <1>6, <1>7 DEF TeamStatement

-----------------------------------------------------------------------------
(* Every step. *)

LEMMA CrashOK ==
    ASSUME IInv, Crash
    PROVE  IInv'
<1>1. UNCHANGED tables /\ generation' = generation
  BY DEF Crash
<1>2. TypeOK'
  BY <1>1 DEF IInv, TypeOK, Crash, Steps, tables
<1>3. \A r \in Requests : RequestOK(r)' /\ FreshRow(r)'
  BY DEF Crash, RequestOK, FreshRow
<1>4. ClosedIffDone' /\ \A id \in TaskIds : id > lastTask' => tasks'[id] = Null
  BY <1>1 DEF IInv, tables, ClosedIffDone, ClosedAt, TaskIds, Time
<1> QED
  BY <1>2, <1>3, <1>4 DEF IInv

\* The steps that only answer a client.
LEMMA AnswerOK ==
    ASSUME IInv, NEW r \in Requests,
           \/ \E c \in Calls : Reject(r, c)
           \/ WriteConflict(r) \/ InsertFails(r) \/ ListHistory(r) \/ InvalidateTeam(r)
           \/ CallFails(r) \/ InvalidateFails(r)
    PROVE  IInv' /\ UNCHANGED tables
<1>1. UNCHANGED tables
  BY DEF Reject, WriteConflict, InsertFails, ListHistory, InvalidateTeam, CallFails,
         InvalidateFails
<1>2. \E outcome \in Outcomes : Finish(r, outcome)
  BY DEF Reject, WriteConflict, InsertFails, ListHistory, InvalidateTeam, CallFails,
         InvalidateFails, Outcomes
<1>3. generation' \in [Teams -> Nat]
  <2>1. generation \in [Teams -> Nat]
    BY DEF IInv, TypeOK
  <2>2. CASE InvalidateTeam(r)
    <3> DEFINE t == Written(r).team
    <3>1. generation' = [generation EXCEPT ![t] = @ + 1]
      BY <2>2 DEF InvalidateTeam
    <3> HIDE DEF t
    <3>2. \A x \in Teams : generation[x] + 1 \in Nat
      BY <2>1
    <3> QED
      BY <2>1, <3>1, <3>2
  <2>3. CASE generation' = generation
    BY <2>1, <2>3
  <2> QED
    BY <2>2, <2>3 DEF Reject, WriteConflict, InsertFails, ListHistory, CallFails,
                      InvalidateFails
<1> QED
  BY <1>1, <1>2, <1>3, FinishOK

LEMMA NextOK ==
    ASSUME IInv, Next
    PROVE  IInv' /\ (StoreNext \/ UNCHANGED taskTables)
<1>1. CASE TeamStatement
  BY <1>1, TeamStatementOK
<1>2. CASE Crash
  BY <1>2, CrashOK DEF Crash, tables, taskTables
<1>3. CASE RequestNext
  <2> PICK r \in Requests : \/ \E c \in Calls : Reject(r, c) \/ Begin(r, c)
                           \/ RequestStep(r)
                           \/ Fault(r)
    BY <1>3 DEF RequestNext
  <2>1. CASE \E c \in Calls : Begin(r, c)
    BY <2>1, BeginOK DEF Begin, tables, taskTables
  <2>2. CASE Find(r)
    BY <2>2, FindOK DEF Find, tables, taskTables
  <2>3. CASE CreateRole(r) \/ UpdateRole(r) \/ DeleteRole(r) \/ HistoryRole(r)
    BY <2>3, RoleOK DEF CreateRole, UpdateRole, DeleteRole, HistoryRole, Decide,
                        tables, taskTables
  <2>4. CASE CheckAssignee(r)
    BY <2>4, CheckAssigneeOK DEF CheckAssignee, tables, taskTables
  <2>5. CASE Write(r) \/ CommitUnknown(r)
    BY <2>5, CommitOK, CommittedOK DEF Write, CommitUnknown
  <2>6. CASE \/ \E c \in Calls : Reject(r, c)
             \/ WriteConflict(r) \/ InsertFails(r) \/ ListHistory(r) \/ InvalidateTeam(r)
             \/ CallFails(r) \/ InvalidateFails(r)
    BY <2>6, AnswerOK DEF tables, taskTables
  <2> QED
    BY <2>1, <2>2, <2>3, <2>4, <2>5, <2>6 DEF RequestStep, Fault
<1> QED
  BY <1>1, <1>2, <1>3 DEF Next

LEMMA TaskUnchangedOK ==
    ASSUME IInv, UNCHANGED taskVars
    PROVE  IInv'
<1>1. UNCHANGED tables /\ UNCHANGED requestVars /\ UNCHANGED generation
  BY DEF taskVars
<1>2. TypeOK'
  BY <1>1 DEF IInv, TypeOK, tables, requestVars
<1>3. \A r \in Requests : RequestOK(r)' /\ FreshRow(r)'
  BY <1>1 DEF IInv, RequestOK, FreshRow, tables, requestVars
<1>4. ClosedIffDone' /\ \A id \in TaskIds : id > lastTask' => tasks'[id] = Null
  BY <1>1 DEF IInv, tables, ClosedIffDone, ClosedAt, TaskIds, Time
<1> QED
  BY <1>2, <1>3, <1>4 DEF IInv

LEMMA InitOK == TaskInit => IInv /\ StoreInit
<1> SUFFICES ASSUME TaskInit PROVE IInv /\ StoreInit
  OBVIOUS
<1>1. TypeOK
  <2>1. <<>> \in Seq(HistoryEntry) /\ 0 \in 0..MaxTasks
    BY MaxTasksAssumption
  <2> QED
    BY <2>1 DEF TaskInit, TablesInit, TypeOK, Steps
<1>2. ClosedIffDone /\ \A id \in TaskIds : id > lastTask => tasks[id] = Null
  BY DEF TaskInit, TablesInit, ClosedIffDone, TaskIds
<1>3. \A r \in Requests : RequestOK(r) /\ FreshRow(r)
  BY DEF TaskInit, RequestOK, FreshRow
<1>4. StoreInit
  BY DEF TaskInit, TablesInit, StoreInit, TaskIds
<1> QED
  BY <1>1, <1>2, <1>3, <1>4 DEF IInv

-----------------------------------------------------------------------------
(* What a request has settled by the time it writes. *)

(* A request that has read its actor's role goes on only with his right to do  *)
(* what he asked, on the row it holds; it has answered nothing yet.            *)
Settled(r) ==
    /\ pc[r] # "idle" => reply[r] = Null
    /\ pc[r] \in {"assignee", "write"} =>
          /\ call[r].op = "update" =>
                CanUpdate(role[r], current[r], call[r].actor, call[r].input)
          /\ call[r].op = "delete" => CanDelete(role[r], current[r], call[r].actor)

(* The second invariant: IInv, and what the requests have settled.             *)
WInv == IInv /\ \A r \in Requests : Settled(r)

Unmoved(r) == /\ pc'[r] = pc[r] /\ call'[r] = call[r] /\ current'[r] = current[r]
              /\ role'[r] = role[r] /\ reply'[r] = reply[r]

\* What a transaction does to the row its request holds: the row in the table is
\* that row, and it is rewritten or stamped (repository/task.go:64-225).
LEMMA CommitEffect ==
    ASSUME IInv, NEW r \in Requests, Commit(r), call[r].op # "create"
    PROVE  LET id == call[r].task
               row == current[r]
           IN  /\ id \in 1..lastTask /\ id \in TaskIds
               /\ row \in TaskRow /\ tasks[id] = row /\ row.deletedAt = Null
               /\ \A i \in TaskIds \ {id} : tasks'[i] = tasks[i]
               /\ \/ call[r].op = "update" /\ tasks'[id] = Rewrite(row, Written(r))
                  \/ /\ call[r].op = "delete"
                     /\ tasks'[id] = [row EXCEPT !.deletedAt = Time,
                                                 !.version = row.version + 1]
               /\ tasks'[id] \in TaskRow /\ tasks'[id].version = row.version + 1
<1> DEFINE id == call[r].task
           row == current[r]
<1>1. /\ TypeOK /\ RequestOK(r) /\ FreshRow(r) /\ pc[r] = "write" /\ call[r] \in Call
  BY CallsType DEF IInv, Commit, RequestOK
<1>2. /\ row \in TaskRow /\ row.deletedAt = Null /\ id \in 1..lastTask /\ id \in TaskIds
      /\ row.version \in Nat \ {0}
  BY <1>1, MaxTasksAssumption DEF RequestOK, TypeOK, TaskIds, TaskRow
<1>3. CASE call[r].op = "update"
  <2>1. /\ call[r].input \in Input /\ ~InvalidFields(call[r].input)
    BY <1>1, <1>3 DEF Call, RequestOK
  <2>2. Written(r) = ApplyUpdate(row, call[r].input)
    BY <1>3 DEF Written
  <2>3. Written(r) \in TaskRow /\ Written(r).version = row.version
    BY <1>2, <2>1, <2>2, ApplyUpdateType
  <2>4. /\ Matches(id, Written(r).version)
        /\ tasks' = [tasks EXCEPT ![id] = Rewrite(tasks[id], Written(r))]
    BY <1>3 DEF Commit, UpdateWithHistory
  <2>5. tasks[id] = row
    BY <1>1, <1>2, <2>3, <2>4, NullRecordAssumption DEF FreshRow, Matches, Visible
  <2>6. /\ Rewrite(row, Written(r)) \in TaskRow
        /\ Rewrite(row, Written(r)).version = row.version + 1
    BY <1>2, <2>3, RewriteRow
  <2> HIDE DEF id, row
  <2> QED
    BY <1>1, <1>2, <1>3, <2>4, <2>5, <2>6 DEF TypeOK, id, row
<1>4. CASE call[r].op = "delete"
  <2> DEFINE new == [row EXCEPT !.deletedAt = Time, !.version = row.version + 1]
  <2>1. /\ Matches(id, row.version)
        /\ tasks' = [tasks EXCEPT ![id] =
                        [tasks[id] EXCEPT !.deletedAt = Time,
                                          !.version = tasks[id].version + 1]]
    BY <1>4 DEF Commit, SoftDeleteWithHistory
  <2>2. tasks[id] = row
    BY <1>1, <1>2, <2>1, NullRecordAssumption DEF FreshRow, Matches, Visible
  <2>3. new \in TaskRow
    BY <1>2, DeletedRow
  <2>4. new.version = row.version + 1
    BY <1>2 DEF TaskRow
  <2>5. tasks' = [tasks EXCEPT ![id] = new]
    BY <2>1, <2>2
  <2> HIDE DEF new
  <2>6. tasks'[id] = new /\ \A i \in TaskIds \ {id} : tasks'[i] = tasks[i]
    BY <1>1, <1>2, <2>5 DEF TypeOK
  <2> QED
    BY <1>2, <1>4, <2>2, <2>3, <2>4, <2>6 DEF new
<1> QED
  BY <1>1, <1>3, <1>4 DEF Commit

\* A step of one request leaves the others where they are.
LEMMA OthersUnmoved ==
    ASSUME IInv, NEW r \in Requests, NEW s \in Requests \ {r},
           \/ \E c \in Calls : Reject(r, c) \/ Begin(r, c)
           \/ RequestStep(r)
           \/ Fault(r)
    PROVE  Unmoved(s)
<1>1. /\ pc \in [Requests -> Steps] /\ call \in [Requests -> Call \cup {Null}]
      /\ current \in [Requests -> TaskRow \cup {Null}]
      /\ role \in [Requests -> Roles \cup {Null}]
      /\ reply \in [Requests -> Outcomes \cup {Null}]
  BY DEF IInv, TypeOK
<1>2. ASSUME NEW outcome \in Outcomes, Finish(r, outcome) PROVE Unmoved(s)
  BY <1>1, <1>2 DEF Finish, Goto, Unmoved
<1>3. ASSUME NEW c \in Calls, Begin(r, c) PROVE Unmoved(s)
  BY <1>1, <1>3 DEF Begin, Goto, Unmoved
<1>4. CASE Find(r)
  BY <1>1, <1>4 DEF Find, Finish, Goto, Unmoved
<1>5. ASSUME NEW actorRole, NEW verdict, NEW next, Decide(r, actorRole, verdict, next)
      PROVE  Unmoved(s)
  BY <1>1, <1>5 DEF Decide, Finish, Goto, Unmoved
<1>6. CASE CreateRole(r) \/ UpdateRole(r) \/ DeleteRole(r) \/ HistoryRole(r)
  BY <1>5, <1>6 DEF CreateRole, UpdateRole, DeleteRole, HistoryRole
<1>7. CASE CheckAssignee(r)
  BY <1>1, <1>7 DEF CheckAssignee, Finish, Goto, Unmoved
<1>8. CASE Write(r)
  BY <1>1, <1>8 DEF Write, Goto, Unmoved
<1> QED
  BY <1>2, <1>3, <1>4, <1>6, <1>7, <1>8
  DEF RequestStep, Fault, Reject, WriteConflict, InsertFails, ListHistory,
      InvalidateTeam, CallFails, CommitUnknown, InvalidateFails, Outcomes

\* A request that takes a step settles what the step is there to settle.
LEMMA StepSettles ==
    ASSUME IInv, NEW r \in Requests, Settled(r),
           \/ \E c \in Calls : Reject(r, c) \/ Begin(r, c)
           \/ RequestStep(r)
           \/ Fault(r)
    PROVE  Settled(r)'
<1>1. /\ pc \in [Requests -> Steps] /\ call \in [Requests -> Call \cup {Null}]
      /\ current \in [Requests -> TaskRow \cup {Null}]
      /\ role \in [Requests -> Roles \cup {Null}]
      /\ reply \in [Requests -> Outcomes \cup {Null}]
      /\ RequestOK(r)
  BY DEF IInv, TypeOK
<1>2. ASSUME NEW outcome \in Outcomes, Finish(r, outcome) PROVE Settled(r)'
  BY <1>1, <1>2 DEF Finish, Goto, Settled
<1>3. ASSUME NEW c \in Calls, Begin(r, c) PROVE Settled(r)'
  BY <1>1, <1>3 DEF Begin, Goto, Settled
<1>4. CASE Find(r)
  BY <1>1, <1>4 DEF Find, Finish, Goto, Settled
<1>5. CASE CreateRole(r)
  BY <1>1, <1>5 DEF CreateRole, At, Decide, Finish, Goto, Settled, AssigneeStep
<1>6. CASE UpdateRole(r)
  <2> DEFINE actorRole == MemberRole(current[r].team, call[r].actor)
             verdict == UpdateVerdict(call[r], current[r], actorRole)
  <2>1. verdict = "pass" => CanUpdate(actorRole, current[r], call[r].actor, call[r].input)
    BY DEF UpdateVerdict
  <2>2. Decide(r, actorRole, verdict, AssigneeStep(ApplyUpdate(current[r], call[r].input)))
    BY <1>6 DEF UpdateRole
  <2>3. pc[r] = "role" /\ call[r].op = "update"
    BY <1>6 DEF UpdateRole, At
  <2> HIDE DEF verdict, actorRole
  <2>4. AssigneeStep(ApplyUpdate(current[r], call[r].input)) \in {"assignee", "write"}
    BY DEF AssigneeStep
  <2> QED
    BY <1>1, <2>1, <2>2, <2>3, <2>4 DEF Decide, Finish, Goto, Settled
<1>7. CASE DeleteRole(r)
  <2> DEFINE actorRole == MemberRole(current[r].team, call[r].actor)
             verdict == DeleteVerdict(call[r], current[r], actorRole)
  <2>1. verdict = "pass" => CanDelete(actorRole, current[r], call[r].actor)
    BY DEF DeleteVerdict
  <2>2. Decide(r, actorRole, verdict, "write")
    BY <1>7 DEF DeleteRole
  <2>3. pc[r] = "role" /\ call[r].op = "delete"
    BY <1>7 DEF DeleteRole, At
  <2> HIDE DEF verdict, actorRole
  <2> QED
    BY <1>1, <2>1, <2>2, <2>3 DEF Decide, Finish, Goto, Settled
<1>8. CASE HistoryRole(r)
  BY <1>1, <1>8 DEF HistoryRole, At, Decide, Finish, Goto, Settled
<1>9. CASE CheckAssignee(r)
  BY <1>1, <1>9 DEF CheckAssignee, Finish, Goto, Settled
<1>10. CASE Write(r)
  BY <1>1, <1>10 DEF Write, Commit, Goto, Settled
<1> QED
  BY <1>2, <1>3, <1>4, <1>5, <1>6, <1>7, <1>8, <1>9, <1>10
  DEF RequestStep, Fault, Reject, WriteConflict, InsertFails, ListHistory,
      InvalidateTeam, CallFails, CommitUnknown, InvalidateFails, Outcomes

LEMMA WInvStep ==
    ASSUME WInv, [Next]_taskVars
    PROVE  WInv'
<1>1. IInv'
  BY NextOK, TaskUnchangedOK DEF WInv
<1>2. ASSUME NEW s \in Requests, Unmoved(s) PROVE Settled(s)'
  BY <1>2 DEF WInv, Settled, Unmoved
<1>3. CASE Crash
  BY <1>1, <1>3 DEF Crash, WInv, Settled
<1>4. CASE RequestNext
  <2> PICK r \in Requests : \/ \E c \in Calls : Reject(r, c) \/ Begin(r, c)
                           \/ RequestStep(r)
                           \/ Fault(r)
    BY <1>4 DEF RequestNext
  <2>1. \A s \in Requests \ {r} : Unmoved(s)
    BY OthersUnmoved DEF WInv
  <2>2. Settled(r)'
    BY StepSettles DEF WInv
  <2> QED
    BY <1>1, <1>2, <2>1, <2>2 DEF WInv
<1>5. CASE TeamStatement \/ UNCHANGED taskVars
  BY <1>1, <1>2, <1>5 DEF TeamStatement, taskVars, requestVars, Unmoved, WInv
<1> QED
  BY <1>3, <1>4, <1>5 DEF Next

\* Only the transaction of a request, and a team that goes, write the task tables.
LEMMA WhoWrites ==
    ASSUME Next
    PROVE  \/ UNCHANGED taskTables
           \/ UNCHANGED requestVars /\ \E t \in Teams : DeleteTeam(t)
           \/ \E r \in Requests : Write(r) \/ CommitUnknown(r)
<1>1. UNCHANGED tables => UNCHANGED taskTables
  BY DEF tables, taskTables
<1>2. CASE TeamStatement
  BY <1>2 DEF TeamStatement
<1>3. CASE Crash
  BY <1>1, <1>3 DEF Crash
<1>4. ASSUME NEW r \in Requests,
             \/ \E c \in Calls : Reject(r, c) \/ Begin(r, c)
             \/ RequestStep(r)
             \/ Fault(r)
      PROVE  UNCHANGED taskTables \/ Write(r) \/ CommitUnknown(r)
  BY <1>1, <1>4
  DEF Reject, Begin, RequestStep, Fault, Find, CreateRole, UpdateRole, DeleteRole,
      HistoryRole, Decide, CheckAssignee, WriteConflict, InsertFails, ListHistory,
      InvalidateTeam, CallFails, InvalidateFails
<1> QED
  BY <1>2, <1>3, <1>4 DEF Next, RequestNext

\* A row that is there changes only under a request that names it.
LEMMA ChangedByRequest ==
    ASSUME IInv, Next, NEW id \in TaskIds, Visible(id), tasks'[id] \notin {tasks[id], Null}
    PROVE  \E r \in Requests :
              /\ Write(r) \/ CommitUnknown(r)
              /\ call[r].op \in {"update", "delete"} /\ call[r].task = id
<1>1. ~ UNCHANGED taskTables
  BY DEF taskTables
<1>2. ASSUME NEW t \in Teams, DeleteTeam(t) PROVE FALSE
  BY <1>2 DEF DeleteTeam
<1> PICK r \in Requests : Write(r) \/ CommitUnknown(r)
  BY <1>1, <1>2, WhoWrites
<1>3. Commit(r)
  BY DEF Write, CommitUnknown
<1>4. call[r].op # "create"
  <2> SUFFICES ASSUME call[r].op = "create" PROVE FALSE
    OBVIOUS
  <2>1. tasks' = [tasks EXCEPT ![lastTask + 1] = NewTask(call[r])]
    BY <1>3 DEF Commit, CreateWithHistory
  <2>2. id # lastTask + 1
    BY MaxTasksAssumption DEF IInv, TypeOK, Visible, TaskIds
  <2> QED
    BY <2>1, <2>2 DEF IInv, TypeOK
<1>5. call[r].task = id /\ call[r].op \in {"update", "delete"}
  BY <1>3, <1>4, CommitEffect
<1> QED
  BY <1>5

\* A commit of an update: the row was at the version the client named, and the
\* fields he left out keep their values (service.go:139, 270-330).
LEMMA UpdateEffect ==
    ASSUME IInv, NEW r \in Requests, Commit(r), call[r].op = "update"
    PROVE  LET id == call[r].task
           IN  /\ call[r].version = tasks[id].version
               /\ tasks'[id].deletedAt = tasks[id].deletedAt
               /\ \A f \in {"title", "status", "assignee"} :
                     tasks'[id][f] = IF Given(call[r].input[f]) THEN call[r].input[f]
                                                                ELSE tasks[id][f]
<1> DEFINE id == call[r].task
           input == call[r].input
           updated == ApplyUpdate(tasks[id], input)
<1>1. /\ RequestOK(r) /\ pc[r] = "write" /\ call[r] \in Call
  BY CallsType DEF IInv, Commit, RequestOK
<1>2. input \in Input /\ ~InvalidFields(input)
  BY <1>1 DEF RequestOK, Call
<1>3. tasks[id] = current[r] /\ tasks[id] \in TaskRow
      /\ tasks'[id] = Rewrite(tasks[id], updated)
  BY CommitEffect DEF Written
<1>4. tasks[id].version = call[r].version
  BY <1>1, <1>3 DEF RequestOK
<1> HIDE DEF id
<1>5. updated \in TaskRow
  BY <1>2, <1>3, ApplyUpdateType
<1>6. \A f \in {"title", "status", "assignee"} :
         updated[f] = IF Given(input[f]) THEN input[f] ELSE tasks[id][f]
  BY <1>3 DEF ApplyUpdate, TaskRow
<1> HIDE DEF updated
<1>7. /\ tasks'[id].title = updated.title /\ tasks'[id].status = updated.status
      /\ tasks'[id].assignee = updated.assignee
      /\ tasks'[id].deletedAt = tasks[id].deletedAt
  BY <1>3, <1>5, RewriteRow
<1>8. \A f \in {"title", "status", "assignee"} : tasks'[id][f] = updated[f]
  BY <1>7
<1>9. \A f \in {"title", "status", "assignee"} :
         tasks'[id][f] = IF Given(input[f]) THEN input[f] ELSE tasks[id][f]
  BY <1>6, <1>8
<1> QED
  BY <1>4, <1>7, <1>9 DEF id

-----------------------------------------------------------------------------
(* Theorems *)

\* Every request is, at each of its steps, where its checks let it be, and
\* holds a fresh row; the tables and their history fit together
\* (internal/task/service.go:39-232).
THEOREM Invariance == Spec => []IInv
<1>1. IInv /\ [Next]_taskVars => IInv'
  <2> SUFFICES ASSUME IInv, [Next]_taskVars PROVE IInv'
    OBVIOUS
  <2>1. CASE Next
    BY <2>1, NextOK
  <2>2. CASE UNCHANGED taskVars
    BY <2>2, TaskUnchangedOK
  <2> QED
    BY <2>1, <2>2
<1>2. TaskInit => IInv
  BY InitOK
<1> QED
  BY <1>1, <1>2, PTL DEF Spec

\* The variables keep their types whatever requests, faults, crashes and team
\* statements come in whatever order (the whole of internal/task/service.go).
THEOREM TypeCorrect == Spec => []TypeOK
<1>1. IInv => TypeOK
  BY DEF IInv
<1> QED
  BY <1>1, Invariance, PTL

\* The row a request holds is the row of the table, or the table has moved on
\* for good (service.go:129-164).
THEOREM SnapshotsAreFresh == Spec => []SnapshotFresh
<1>1. IInv => SnapshotFresh
  BY DEF IInv, FreshRow, SnapshotFresh
<1> QED
  BY <1>1, Invariance, PTL

\* A task has its closing time exactly while it is done, whatever the races
\* between updates that open and close it (service.go:315-323).
THEOREM ClosedWhileDone == Spec => []ClosedIffDone
<1>1. IInv => ClosedIffDone
  BY DEF IInv
<1> QED
  BY <1>1, Invariance, PTL

\* The concurrent requests implement the store of tasks and histories that
\* changes one row and its history at a time (repository/task.go:23-225).
THEOREM ServiceImplementsStore == Spec => StoreSpec
<1>1. TaskInit => StoreInit
  BY InitOK
<1>2. IInv /\ [Next]_taskVars => [StoreNext]_taskTables
  <2>1. UNCHANGED taskVars => UNCHANGED taskTables
    BY DEF taskVars, tables, taskTables
  <2> QED
    BY <2>1, NextOK
<1> QED
  BY <1>1, <1>2, Invariance, PTL DEF Spec, StoreSpec

\* The history of every task accounts for its row, whatever requests race and
\* fail (service.go:58-72, 159-164, 194-203).
THEOREM ServiceHistoryIsExact == Spec => []HistoryExplainsRow
  BY ServiceImplementsStore, HistoryIsExact, PTL

\* A deleted task stays as it was deleted, though requests that read it before
\* are still under way (repository/task.go:144, 194).
THEOREM ServiceDeletionIsFinal == Spec => DeletedIsFinal
  BY ServiceImplementsStore, DeletionIsFinal, PTL

\* What requests settle stays settled until they have written
\* (internal/task/service.go:112-204).
THEOREM SettledInvariance == Spec => []WInv
<1>1. TaskInit => WInv
  BY InitOK DEF WInv, TaskInit, Settled
<1>2. WInv /\ [Next]_taskVars => WInv'
  BY WInvStep
<1> QED
  BY <1>1, <1>2, PTL DEF Spec

\* Of any number of requests that read the same version of a task at most one
\* ever commits, whatever faults and crashes fall between read and commit: the
\* history says that nobody has written since, and gets his entry next
\* (service.go:124, repository/task.go:141-168).
THEOREM OneWinner == Spec => OneWinnerPerVersion
<1> DEFINE Wins(r) ==
       /\ pc[r] = "write" /\ call[r].op # "create" /\ pc'[r] # "write"
       /\ tasks'[call[r].task] \notin {tasks[call[r].task], Null}
       => /\ Len(history[call[r].task]) = current[r].version
          /\ history'[call[r].task] = Append(history[call[r].task], Entry(r))
<1>1. IInv /\ HistoryExplainsRow /\ [Next]_taskVars => \A r \in Requests : Wins(r)
  <2> SUFFICES ASSUME IInv, HistoryExplainsRow, [Next]_taskVars, NEW r \in Requests,
                      pc[r] = "write", call[r].op # "create", pc'[r] # "write",
                      tasks'[call[r].task] \notin {tasks[call[r].task], Null}
               PROVE  /\ Len(history[call[r].task]) = current[r].version
                      /\ history'[call[r].task] = Append(history[call[r].task], Entry(r))
    OBVIOUS
  <2> DEFINE id == call[r].task
  <2>1. id \in TaskIds /\ TypeOK
    <3>1. RequestOK(r) /\ TypeOK
      BY DEF IInv
    <3>2. id \in 1..lastTask
      BY <3>1 DEF RequestOK
    <3>3. lastTask \in 0..MaxTasks
      BY <3>1 DEF TypeOK
    <3> QED
      BY <3>1, <3>2, <3>3, MaxTasksAssumption DEF TaskIds
  <2>2. Next
    BY DEF taskVars, tables
  <2>3. ~ UNCHANGED taskTables
    BY DEF taskTables
  <2>4. ASSUME NEW t \in Teams, DeleteTeam(t) PROVE FALSE
    BY <2>1, <2>4 DEF DeleteTeam
  <2> PICK s \in Requests : Write(s) \/ CommitUnknown(s)
    BY <2>2, <2>3, <2>4, WhoWrites
  <2>5. s = r
    BY OthersUnmoved DEF Unmoved, RequestStep, Fault
  <2>6. Commit(r)
    BY <2>5 DEF Write, CommitUnknown
  <2>7. tasks[id] = current[r] /\ current[r] \in TaskRow
    BY <2>6, CommitEffect
  <2>8. Len(history[id]) = current[r].version
    BY <2>1, <2>7, NullRecordAssumption DEF HistoryExplainsRow, Accounts
  <2>9. history' = [history EXCEPT ![id] = Append(@, Entry(r))]
    BY <2>6 DEF Commit, UpdateWithHistory, SoftDeleteWithHistory, InsertHistory, Entry
  <2> QED
    BY <2>1, <2>8, <2>9 DEF TypeOK
<1>2. IInv /\ HistoryExplainsRow /\ [Next]_taskVars => [\A r \in Requests : Wins(r)]_taskVars
  BY <1>1
<1> QED
  BY <1>2, Invariance, ServiceHistoryIsExact, PTL DEF Spec, OneWinnerPerVersion

\* A row changes as the request that changes it asked, from the version its client
\* named: no concurrent change is lost (service.go:139, 270-330).
THEOREM UpdatesAreAsAsked == Spec => UpdateIsAsAsked
<1>1. WInv /\ [Next]_taskVars =>
        [\A id \in TaskIds : Visible(id) /\ Visible(id)' /\ tasks'[id] # tasks[id] =>
           \E r \in Requests :
              /\ pc[r] = "write" /\ call[r].op = "update" /\ call[r].task = id
              /\ call[r].version = tasks[id].version
              /\ \A f \in {"title", "status", "assignee"} :
                    tasks'[id][f] = IF Given(call[r].input[f]) THEN call[r].input[f]
                                                               ELSE tasks[id][f]]_taskVars
  <2> SUFFICES ASSUME WInv, Next, NEW id \in TaskIds, Visible(id), Visible(id)',
                      tasks'[id] # tasks[id]
               PROVE  \E r \in Requests :
                         /\ pc[r] = "write" /\ call[r].op = "update" /\ call[r].task = id
                         /\ call[r].version = tasks[id].version
                         /\ \A f \in {"title", "status", "assignee"} :
                               tasks'[id][f] = IF Given(call[r].input[f])
                                               THEN call[r].input[f] ELSE tasks[id][f]
    OBVIOUS
  <2>1. IInv /\ tasks'[id] # Null /\ tasks'[id].deletedAt = Null
    BY DEF WInv, Visible
  <2> PICK r \in Requests : /\ Write(r) \/ CommitUnknown(r)
                            /\ call[r].op \in {"update", "delete"} /\ call[r].task = id
    BY <2>1, ChangedByRequest
  <2>2. Commit(r) /\ pc[r] = "write"
    BY DEF Write, CommitUnknown, Commit
  <2>3. call[r].op = "update"
    <3>1. call[r].op = "delete" => tasks'[id].deletedAt = Time
      BY <2>1, <2>2, CommitEffect DEF TaskRow
    <3> QED
      BY <2>1, <3>1, NullAssumption
  <2> QED
    BY <2>1, <2>2, <2>3, UpdateEffect
<1> QED
  BY <1>1, SettledInvariance, PTL DEF Spec, UpdateIsAsAsked

\* Whoever is neither the creator nor was a manager when his request checked
\* changes the status of a task assigned to him and nothing else, though the task
\* and the roles may change while he is at it (service.go:361-370).
THEOREM ExecutorsChangeStatus == Spec => ExecutorChangesOnlyStatus
<1>1. WInv /\ [Next]_taskVars =>
        [\A r \in Requests, id \in TaskIds :
           /\ pc[r] = "write" /\ call[r].op # "create" /\ call[r].task = id
           /\ Visible(id) /\ tasks'[id] \notin {tasks[id], Null}
           /\ pc'[r] # "write"
           /\ tasks[id].createdBy # call[r].actor /\ ~IsManager(role[r])
           => /\ tasks[id].assignee = call[r].actor
              /\ \A f \in {"title", "assignee", "deletedAt"} :
                     tasks'[id][f] = tasks[id][f]]_taskVars
  <2> SUFFICES ASSUME WInv, Next, NEW r \in Requests, NEW id \in TaskIds,
                      pc[r] = "write", call[r].op # "create", call[r].task = id,
                      Visible(id), tasks'[id] \notin {tasks[id], Null}, pc'[r] # "write",
                      tasks[id].createdBy # call[r].actor, ~IsManager(role[r])
               PROVE  /\ tasks[id].assignee = call[r].actor
                      /\ \A f \in {"title", "assignee", "deletedAt"} :
                             tasks'[id][f] = tasks[id][f]
    BY DEF taskVars, tables
  <2>1. IInv /\ Settled(r)
    BY DEF WInv
  <2> PICK s \in Requests : Write(s) \/ CommitUnknown(s)
    BY <2>1, ChangedByRequest
  <2>2. s = r
    BY <2>1, OthersUnmoved DEF Unmoved, RequestStep, Fault
  <2>3. Commit(r)
    BY <2>2 DEF Write, CommitUnknown
  <2>4. current[r] = tasks[id] /\ call[r].op \in {"update", "delete"}
    BY <2>1, <2>3, CommitEffect
  <2>5. call[r].op = "update"
    BY <2>1, <2>4 DEF Settled, CanDelete
  <2>6. /\ tasks[id].assignee = call[r].actor
        /\ ~Given(call[r].input.title) /\ ~Given(call[r].input.assignee)
    BY <2>1, <2>4, <2>5 DEF Settled, CanUpdate
  <2> QED
    BY <2>1, <2>3, <2>5, <2>6, UpdateEffect
<1> QED
  BY <1>1, SettledInvariance, PTL DEF Spec, ExecutorChangesOnlyStatus

\* A client is told of a conflict only when the version he read has gone, or is not
\* the one he named (service.go:139, repository/task.go:165).
THEOREM ConflictsAreReal == Spec => ConflictIsReal
<1>1. WInv /\ [Next]_taskVars =>
        [\A r \in Requests :
           pc[r] # "idle" /\ reply'[r] = "conflict" =>
              \/ ~Visible(call[r].task)
              \/ tasks[call[r].task].version > current[r].version
              \/ call[r].op = "update" /\ current[r].version # call[r].version]_taskVars
  <2> SUFFICES ASSUME WInv, Next, NEW r \in Requests, pc[r] # "idle",
                      reply'[r] = "conflict"
               PROVE  \/ ~Visible(call[r].task)
                      \/ tasks[call[r].task].version > current[r].version
                      \/ call[r].op = "update" /\ current[r].version # call[r].version
    OBVIOUS
  <2>1. /\ IInv /\ RequestOK(r) /\ FreshRow(r) /\ reply \in [Requests -> Outcomes \cup {Null}]
        /\ reply[r] = Null /\ Null # "conflict" /\ role \in [Requests -> Roles \cup {Null}]
    BY SentinelAssumption DEF WInv, IInv, TypeOK, Settled, Outcomes
  <2>2. ~Unmoved(r) /\ ~TeamStatement /\ ~Crash
    BY <2>1 DEF Unmoved, TeamStatement, requestVars, Crash
  <2>3. \/ \E c \in Calls : Reject(r, c) \/ Begin(r, c)
        \/ RequestStep(r)
        \/ Fault(r)
    BY <2>1, <2>2, OthersUnmoved DEF Next, RequestNext
  <2>4. \A outcome \in Outcomes : Finish(r, outcome) => outcome = "conflict"
    BY <2>1 DEF Finish
  <2>5. CASE WriteConflict(r)
    <3>1. current[r] # Null /\ ~Matches(call[r].task, current[r].version)
      BY <2>1, <2>5 DEF WriteConflict, At, RequestOK
    <3> QED
      BY <2>1, <3>1 DEF FreshRow, Matches, Visible
  <2>6. CASE UpdateRole(r)
    <3> DEFINE actorRole == MemberRole(current[r].team, call[r].actor)
    <3>1. UpdateVerdict(call[r], current[r], actorRole) = "conflict"
      <4>1. UpdateVerdict(call[r], current[r], actorRole) \in Outcomes \cup {"pass"}
        BY DEF UpdateVerdict, Outcomes
      <4>2. \/ reply' = reply
            \/ Finish(r, UpdateVerdict(call[r], current[r], actorRole))
        BY <2>6 DEF UpdateRole, Decide
      <4> QED
        BY <2>1, <2>4, <2>6, <4>1, <4>2 DEF UpdateRole, Decide
    <3>2. call[r].op = "update"
      BY <2>6 DEF UpdateRole, At
    <3> QED
      BY <3>1, <3>2 DEF UpdateVerdict
  <2>7. CASE CreateRole(r) \/ DeleteRole(r) \/ HistoryRole(r)
    BY <2>1, <2>4, <2>7 DEF CreateRole, DeleteRole, HistoryRole, Decide, CreateVerdict,
                           DeleteVerdict, Outcomes
  <2>8. CASE Find(r) \/ CheckAssignee(r) \/ Write(r) \/ \E c \in Calls : Begin(r, c)
    BY <2>1, <2>4, <2>8 DEF Find, CheckAssignee, Write, Begin, Outcomes
  <2> QED
    BY <2>3, <2>4, <2>5, <2>6, <2>7, <2>8
    DEF RequestStep, Fault, Reject, InsertFails, ListHistory, InvalidateTeam, CallFails,
        CommitUnknown, InvalidateFails, Outcomes
<1> QED
  BY <1>1, SettledInvariance, PTL DEF Spec, ConflictIsReal
=============================================================================
