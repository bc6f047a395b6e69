----------------------------- MODULE TaskStore -----------------------------
(***************************************************************************)
(* What the task tables promise to a reader of tasks and of their history, *)
(* whatever the requests that write them: every step writes at once one    *)
(* row and one entry of its history, the entry is exactly the difference   *)
(* the step makes, the version counts the steps, and a task is stamped     *)
(* closed while it is done.  TaskService implements it.                    *)
(***************************************************************************)
EXTENDS TaskData

StoreInit ==
    /\ tasks = [id \in TaskIds |-> Null]
    /\ lastTask = 0
    /\ history = [id \in TaskIds |-> <<>>]

Difference(old, new) ==
    [f \in Fields |-> IF old[f] = new[f] THEN Null ELSE [old |-> old[f], new |-> new[f]]]

Present(id) == tasks[id] # Null /\ tasks[id].deletedAt = Null

\* The row of id becomes row, and nothing else does; the history says so.
Record(id, row, by, event, changes) ==
    /\ tasks' = [tasks EXCEPT ![id] = row]
    /\ history' = [history EXCEPT ![id] =
                      Append(history[id], [by |-> by, event |-> event, changes |-> changes])]

\* The row written is any row that the conditions allow: it is named by what
\* the table holds after the step.
Create(by) ==
    LET id == lastTask + 1
        row == tasks'[id]
    IN  /\ lastTask < MaxTasks
        /\ lastTask' = id
        /\ row \in TaskRow
        /\ row.version = 1 /\ row.deletedAt = Null /\ row.createdBy = by
        /\ row.closedAt = ClosedAt(row.status)
        /\ Record(id, row, by, "created", Snapshot(row))

Change(id, by) ==
    LET row == tasks'[id]
    IN  /\ Present(id)
        /\ row \in TaskRow
        /\ \A f \in {"team", "createdBy", "deletedAt"} : row[f] = tasks[id][f]
        /\ \E f \in Fields : row[f] # tasks[id][f]
        /\ row.closedAt = ClosedAt(row.status)
        /\ row.version = tasks[id].version + 1
        /\ Record(id, row, by, "updated", Difference(tasks[id], row))
        /\ UNCHANGED lastTask

Remove(id, by) ==
    /\ Present(id)
    /\ Record(id, [tasks[id] EXCEPT !.deletedAt = Time,
                                    !.version = tasks[id].version + 1],
              by, "deleted", NoChanges)
    /\ UNCHANGED lastTask

\* A team goes, with all its tasks and their history.
Drop(t) ==
    LET ids == {id \in TaskIds : tasks[id] # Null /\ tasks[id].team = t}
    IN  /\ tasks' = [id \in TaskIds |-> IF id \in ids THEN Null ELSE tasks[id]]
        /\ history' = [id \in TaskIds |-> IF id \in ids THEN <<>> ELSE history[id]]
        /\ UNCHANGED lastTask

StoreNext ==
    \/ \E by \in Users : \/ Create(by)
                        \/ \E id \in TaskIds : Change(id, by) \/ Remove(id, by)
    \/ \E t \in Teams : Drop(t)

StoreSpec == StoreInit /\ [][StoreNext]_taskTables

-----------------------------------------------------------------------------
(* What follows *)

\* The history of a task accounts for its row: one entry per version, the
\* values of the row are those the entries leave, and every entry's old value
\* is the one the entries before it left.
\* (service.go:58-72, 159-164; GET /tasks/{id}/history)
Accounts(id) ==
    LET h == history[id]
    IN  /\ Len(h) = tasks[id].version
        /\ \A f \in Fields : Records(h, Len(h), f, tasks[id][f])
        /\ \A i \in 2..Len(h), f \in Fields :
              h[i].changes[f] # Null => Records(h, i - 1, f, h[i].changes[f].old)

HistoryExplainsRow ==
    \A id \in TaskIds : tasks[id] # Null => Accounts(id)

\* A task has its closing time exactly while it is done (service.go:315-323;
\* the report's closing statistics read closed_at).
ClosedIffDone ==
    \A id \in TaskIds : tasks[id] # Null =>
        tasks[id].closedAt = ClosedAt(tasks[id].status)

\* A deleted task stays as it was deleted, and an id is never used again.
DeletedIsFinal ==
    [][\A id \in TaskIds :
         /\ tasks[id] # Null /\ tasks[id].deletedAt = Time => tasks'[id] \in {Null, tasks[id]}
         /\ id <= lastTask /\ tasks[id] = Null => tasks'[id] = Null]_taskTables
=============================================================================
