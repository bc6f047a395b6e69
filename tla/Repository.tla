----------------------------- MODULE Repository -----------------------------
(***************************************************************************)
(* The MySQL schema (migrations/000001_init.up.sql) and the SQL statements *)
(* of internal/repository that the task and team services run.  A          *)
(* statement, and a transaction of the repository, is one atomic operator: *)
(* a row lock taken by its UPDATE or INSERT is held until it commits.      *)
(* The names of users and teams are left out.                              *)
(***************************************************************************)
EXTENDS TaskData

CONSTANTS
    Founders,   \* BOUND: the users who found teams
    Invalid     \* a client's value that a service rejects: an empty or over-long
                \* text, an unknown status or role, an id below 1

VARIABLES
    teams,      \* teams[t]: no row yet, an existing row, or deleted
    members     \* members[t][u]: the role in row (t, u), Null without one

teamTables == <<teams, members>>
tables == <<teams, members, tasks, lastTask, history>>

TablesInit ==
    /\ teams = [t \in Teams |-> "unused"]
    /\ members = [t \in Teams |-> [u \in Users |-> Null]]
    /\ tasks = [id \in TaskIds |-> Null]
    /\ lastTask = 0
    /\ history = [id \in TaskIds |-> <<>>]

-----------------------------------------------------------------------------
(* Queries *)

TeamExists(t) == teams[t] = "exists"

\* MemberRole: the role of a member, Null for ErrMemberNotFound.
MemberRole(t, u) == members[t][u]

\* Wrong: the condition on deleted_at is missing.
VisibleAlways(id) == tasks[id] # Null

\* Rows that WHERE deleted_at IS NULL keeps.
Visible(id) == tasks[id] # Null /\ tasks[id].deletedAt = Null

\* FindByID: the visible row, Null for ErrNotFound.
FindByID(id) == IF id \in TaskIds /\ Visible(id) THEN tasks[id] ELSE Null

\* Wrong: the condition on the version is missing, or is on the next one.
MatchesAnyVersion(id, version) == Visible(id)
MatchesNextVersion(id, version) == Visible(id) /\ tasks[id].version = version + 1

\* The optimistic lock of UpdateWithHistory and SoftDeleteWithHistory:
\* WHERE id = ? AND version = ? AND deleted_at IS NULL.
Matches(id, version) == Visible(id) /\ tasks[id].version = version

HasOpenAssignedTasks(t, u) ==
    \E id \in TaskIds : /\ Visible(id)
                        /\ tasks[id].team = t
                        /\ tasks[id].assignee = u
                        /\ tasks[id].status # "done"

-----------------------------------------------------------------------------
(* Transactions on tasks and task_history *)

InsertHistory(id, by, event, changes) ==
    history' = [history EXCEPT ![id] =
                   Append(@, [by |-> by, event |-> event, changes |-> changes])]

\* The foreign key on teams makes the INSERT fail once the team is gone.
CreateWithHistory(row, by, changes) ==
    /\ TeamExists(row.team)
    /\ lastTask < MaxTasks
    /\ lastTask' = lastTask + 1
    /\ tasks' = [tasks EXCEPT ![lastTask + 1] = row]
    /\ InsertHistory(lastTask + 1, by, "created", changes)

\* The columns the UPDATE sets: every mutable one, changed or not.
Rewrite(row, updated) ==
    [row EXCEPT !.title = updated.title,
                !.status = updated.status,
                !.assignee = updated.assignee,
                !.closedAt = updated.closedAt,
                !.version = row.version + 1]

\* updated is the row the service read, with the changes of the request: the
\* version it carries is the one to match.
UpdateWithHistory(id, updated, by, changes) ==
    /\ Matches(id, updated.version)
    /\ tasks' = [tasks EXCEPT ![id] = Rewrite(tasks[id], updated)]
    /\ InsertHistory(id, by, "updated", changes)
    /\ UNCHANGED lastTask

\* Wrong: the version is not incremented.
SoftDeleteKeepsVersion(id, version, by) ==
    /\ Matches(id, version)
    /\ tasks' = [tasks EXCEPT ![id].deletedAt = Time]
    /\ InsertHistory(id, by, "deleted", NoChanges)
    /\ UNCHANGED lastTask

SoftDeleteWithHistory(id, version, by) ==
    /\ Matches(id, version)
    /\ tasks' = [tasks EXCEPT ![id] =
                    [tasks[id] EXCEPT !.deletedAt = Time,
                                      !.version = tasks[id].version + 1]]
    /\ InsertHistory(id, by, "deleted", NoChanges)
    /\ UNCHANGED lastTask

-----------------------------------------------------------------------------
(* Statements on teams and team_members *)

CreateWithOwner(t, owner) ==
    /\ teams[t] = "unused"
    /\ teams' = [teams EXCEPT ![t] = "exists"]
    /\ members' = [members EXCEPT ![t][owner] = "owner"]

\* Fails on the foreign key without the team, on the primary key for a member.
AddMember(t, u, role) ==
    /\ TeamExists(t)
    /\ members[t][u] = Null
    /\ members' = [members EXCEPT ![t][u] = role]
    /\ UNCHANGED teams

\* UPDATE ... AND role <> 'owner'; RowsAffected counts the rows it changes.
ChangeMemberRole(t, u, role) ==
    /\ members[t][u] \notin {Null, "owner", role}
    /\ members' = [members EXCEPT ![t][u] = role]
    /\ UNCHANGED teams

\* DELETE ... AND role <> 'owner'.
RemoveMember(t, u) ==
    /\ members[t][u] \notin {Null, "owner"}
    /\ members' = [members EXCEPT ![t][u] = Null]
    /\ UNCHANGED teams

\* DELETE FROM teams: the cascade takes members, tasks and their history.
TeamTasks(t) == {id \in TaskIds : tasks[id] # Null /\ tasks[id].team = t}

DeleteTeam(t) ==
    /\ TeamExists(t)
    /\ teams' = [teams EXCEPT ![t] = "deleted"]
    /\ members' = [members EXCEPT ![t] = [u \in Users |-> Null]]
    /\ tasks' = [id \in TaskIds |-> IF id \in TeamTasks(t) THEN Null ELSE tasks[id]]
    /\ history' = [id \in TaskIds |-> IF id \in TeamTasks(t) THEN <<>> ELSE history[id]]
    /\ UNCHANGED lastTask
=============================================================================
