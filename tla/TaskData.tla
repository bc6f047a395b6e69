------------------------------ MODULE TaskData ------------------------------
(***************************************************************************)
(* The tables tasks and task_history (migrations/000001_init.up.sql,      *)
(* internal/task/types.go, history.go, status.go).                         *)
(*                                                                         *)
(* A task's title stands for its title and its description, which the code *)
(* treats alike; a time stamp is NULL or set.  created_at and updated_at   *)
(* are left out.                                                           *)
(***************************************************************************)
EXTENDS Integers, Sequences

CONSTANTS
    Users,      \* ids of registered users (rows of users are never deleted)
    Teams,      \* team ids, each handed out at most once by AUTO_INCREMENT
    Titles,     \* valid titles
    MaxTasks,   \* BOUND: how many task ids AUTO_INCREMENT may hand out
    Null        \* SQL NULL, a nil pointer, and "no such row"

VARIABLES
    tasks,      \* tasks[id]: the row, Null without one
    lastTask,   \* the last id AUTO_INCREMENT handed out
    history     \* history[id]: the rows of task_history of the task, by id

taskTables == <<tasks, lastTask, history>>

Roles == {"owner", "admin", "member"}
Statuses == {"todo", "in_progress", "done"}
Time == "time"                      \* any time stamp that is not NULL

ASSUME MaxTasksAssumption == MaxTasks \in Nat
ASSUME NullAssumption ==
    Null \notin Users \cup Teams \cup Titles \cup Roles \cup Statuses \cup {Time}

TaskIds == 1..MaxTasks

TaskRow == [team : Teams, title : Titles, status : Statuses,
            createdBy : Users, assignee : Users \cup {Null},
            closedAt : {Null, Time}, version : Nat \ {0},
            deletedAt : {Null, Time}]

\* The columns a history entry can speak of.
Fields == {"title", "status", "assignee", "closedAt"}

FieldValues == Titles \cup Statuses \cup Users \cup {Null, Time}
FieldChange == [old : FieldValues, new : FieldValues]

ASSUME NullRecordAssumption == Null \notin TaskRow /\ Null \notin FieldChange

\* A row of task_history: changes maps a column to its old and new value, and
\* to Null when the JSON has no key for it.
HistoryEntry ==
    [by : Users, event : {"created", "updated", "deleted"},
     changes : [Fields -> FieldChange \cup {Null}]]

\* The snapshot that a "created" event stores; it has no closed_at.
Snapshot(row) ==
    [f \in Fields |-> IF f = "closedAt" THEN Null ELSE [old |-> Null, new |-> row[f]]]

NoChanges == [f \in Fields |-> Null]

ClosedAt(status) == IF status = "done" THEN Time ELSE Null

\* The first n entries of h leave field f with value v.  That of
\* closedAt is first told by the status of the snapshot.
Records(h, n, f, v) ==
    \/ \E i \in 1..n : /\ h[i].changes[f] # Null
                       /\ h[i].changes[f].new = v
                       /\ \A j \in (i + 1)..n : h[j].changes[f] = Null
    \/ /\ f = "closedAt"
       /\ \A j \in 1..n : h[j].changes[f] = Null
       /\ v = ClosedAt(h[1].changes["status"].new)
=============================================================================
