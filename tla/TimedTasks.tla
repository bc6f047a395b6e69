----------------------------- MODULE TimedTasks -----------------------------
(***************************************************************************)
(* The times of a task: created_at, updated_at, closed_at and deleted_at,  *)
(* which Create, Update and Delete of internal/task/service.go take from   *)
(* the clock of the process between their calls to MySQL, and store later  *)
(* (internal/repository/task.go).                                          *)
(*                                                                         *)
(* TaskService says who may write; here every request has passed these     *)
(* checks, and its text and history are left out.  The clock never steps   *)
(* back, and may stand still between two readings: DATETIME(6) keeps whole *)
(* microseconds.  One process serves, so there is one clock.               *)
(***************************************************************************)
EXTENDS Integers

CONSTANTS
    Teams,
    Assignees,      \* ids of users, integers
    Wanted,         \* the statuses that clients ask for
    Writers,        \* slots for requests that write
    MaxRows,        \* BOUND: how many ids AUTO_INCREMENT may hand out
    MaxNow,         \* BOUND: how far the clock goes
    MaxEdits,       \* BOUND: the versions that a request may replace
    Null

Statuses == {"todo", "in_progress", "done"}

ASSUME TimedBoundAssumption == MaxRows \in Nat /\ MaxNow \in Nat /\ MaxEdits \in Nat
ASSUME TimedNullAssumption == Null \notin Int /\ Assignees \subseteq Int
ASSUME WantedAssumption == Wanted \subseteq Statuses

VARIABLES
    now,        \* the clock
    rows,       \* rows[id]: the row of tasks, Null without one
    lastRow,    \* the last id AUTO_INCREMENT handed out
    writerPc,   \* writerPc[w]: what request w does next
    draft       \* draft[w]: the row it is about to store, and its id

timedVars == <<now, rows, lastRow, writerPc, draft>>

Ids == 1..MaxRows
Times == 0..MaxNow
Row == [team : Teams, status : Statuses, assignee : Assignees \cup {Null},
        createdAt : Times, updatedAt : Times, closedAt : Times \cup {Null},
        deletedAt : Times \cup {Null}, version : Nat \ {0}]
Draft == [id : 0..MaxRows, row : Row]
WriterSteps == {"idle", "insert", "update", "stamp", "delete", "write", "written"}

ASSUME TimedRecordAssumption == Null \notin Row /\ Null \notin Draft

TimedInit ==
    /\ now = 0
    /\ rows = [id \in Ids |-> Null]
    /\ lastRow = 0
    /\ writerPc = [w \in Writers |-> "idle"]
    /\ draft = [w \in Writers |-> Null]

-----------------------------------------------------------------------------
(* Before the write *)

Live(id) == rows[id] # Null /\ rows[id].deletedAt = Null

Goto(w, step, d) ==
    /\ writerPc' = [writerPc EXCEPT ![w] = step]
    /\ draft' = [draft EXCEPT ![w] = d]

Leave(w) == Goto(w, "idle", Null)

\* newTask: one reading of the clock.
Create(w, team, status, assignee) ==
    /\ writerPc[w] = "idle"
    /\ Goto(w, "insert",
            [id |-> 0,
             row |-> [team |-> team, status |-> status, assignee |-> assignee,
                      createdAt |-> now, updatedAt |-> now,
                      closedAt |-> IF status = "done" THEN now ELSE Null,
                      deletedAt |-> Null, version |-> 1]])
    /\ UNCHANGED <<now, rows, lastRow>>

\* FindByID.
Find(w, id, step) ==
    /\ writerPc[w] = "idle"
    /\ Live(id) /\ rows[id].version <= MaxEdits
    /\ Goto(w, step, [id |-> id, row |-> rows[id]])
    /\ UNCHANGED <<now, rows, lastRow>>

\* Wrong: a task that is opened again stays closed at its old time.
ClosedAtKept(row, status) ==
    IF status = "done" /\ row.status # "done" THEN now ELSE row.closedAt

\* Wrong: only a new task is given the time it was closed at.
ClosedAtUnset(row, status) == IF status # "done" THEN Null ELSE row.closedAt

\* closed_at after applyUpdate: set and cleared as the status gets and leaves done.
ClosedAt(row, status) ==
    IF (status = "done" <=> row.status = "done") THEN row.closedAt
    ELSE IF status = "done" THEN now ELSE Null

\* applyUpdate.  Other fields may change too, or alone.
Change(w, status, assignee) ==
    /\ writerPc[w] = "update"
    /\ LET d == draft[w]
       IN  Goto(w, "stamp",
                [d EXCEPT !.row = [d.row EXCEPT !.status = status,
                                                !.assignee = assignee,
                                                !.closedAt = ClosedAt(d.row, status)]])
    /\ UNCHANGED <<now, rows, lastRow>>

\* The end of applyUpdate reads the clock again.
Stamp(w) ==
    /\ writerPc[w] = "stamp"
    /\ Goto(w, "write", [draft[w] EXCEPT !.row = [draft[w].row EXCEPT !.updatedAt = now]])
    /\ UNCHANGED <<now, rows, lastRow>>

StampDelete(w) ==
    /\ writerPc[w] = "delete"
    /\ Goto(w, "write", [draft[w] EXCEPT !.row = [draft[w].row EXCEPT !.updatedAt = now,
                                                                     !.deletedAt = now]])
    /\ UNCHANGED <<now, rows, lastRow>>

-----------------------------------------------------------------------------
(* The write *)

\* CreateWithHistory.
Insert(w) ==
    /\ writerPc[w] = "insert" /\ lastRow < MaxRows
    /\ lastRow' = lastRow + 1
    /\ rows' = [rows EXCEPT ![lastRow + 1] = draft[w].row]
    /\ Goto(w, "written", Null)
    /\ UNCHANGED now

\* Wrong: the row may have changed since it was read.
CurrentAlways(d) == Live(d.id)

\* WHERE id = ? AND version = ? AND deleted_at IS NULL.
Current(d) == Live(d.id) /\ rows[d.id].version = d.row.version

\* The columns that UpdateWithHistory and SoftDeleteWithHistory set.
Stored(row, new) ==
    IF new.deletedAt = Null
    THEN [row EXCEPT !.status = new.status, !.assignee = new.assignee,
                     !.closedAt = new.closedAt, !.updatedAt = new.updatedAt,
                     !.version = row.version + 1]
    ELSE [row EXCEPT !.deletedAt = new.deletedAt, !.updatedAt = new.updatedAt,
                     !.version = row.version + 1]

Write(w) ==
    /\ writerPc[w] = "write" /\ Current(draft[w])
    /\ rows' = [rows EXCEPT ![draft[w].id] = Stored(rows[draft[w].id], draft[w].row)]
    /\ Goto(w, "written", Null)
    /\ UNCHANGED <<now, lastRow>>

\* Nothing is written: no row matches, nothing is to change, a check or a call
\* fails, the process dies.
Drop(w) ==
    /\ writerPc[w] \in WriterSteps \ {"idle", "written"}
    /\ Leave(w)
    /\ UNCHANGED <<now, rows, lastRow>>

\* InvalidateTeam, and the answer.
Respond(w) ==
    /\ writerPc[w] = "written"
    /\ Leave(w)
    /\ UNCHANGED <<now, rows, lastRow>>

Pass ==
    /\ now < MaxNow
    /\ now' = now + 1
    /\ UNCHANGED <<rows, lastRow, writerPc, draft>>

Prepare(w) ==
    \/ \E team \in Teams, status \in Wanted, a \in Assignees \cup {Null} :
          Create(w, team, status, a)
    \/ \E id \in Ids, step \in {"update", "delete"} : Find(w, id, step)
    \/ \E status \in Wanted, a \in Assignees \cup {Null} : Change(w, status, a)
    \/ Stamp(w) \/ StampDelete(w)
    \/ Drop(w)

TimedNext ==
    \/ \E w \in Writers : Prepare(w) \/ Insert(w) \/ Write(w) \/ Respond(w)
    \/ Pass

TimedSpec == TimedInit /\ [][TimedNext]_timedVars

-----------------------------------------------------------------------------
(* Properties *)

TimedTypeOK ==
    /\ now \in Times
    /\ rows \in [Ids -> Row \cup {Null}]
    /\ lastRow \in 0..MaxRows
    /\ writerPc \in [Writers -> WriterSteps]
    /\ draft \in [Writers -> Draft \cup {Null}]

InOrder(row) ==
    /\ row.createdAt <= row.updatedAt /\ row.updatedAt <= now
    /\ row.status = "done" <=> row.closedAt # Null
    /\ row.closedAt # Null => row.createdAt <= row.closedAt /\ row.closedAt <= row.updatedAt
    /\ row.deletedAt # Null => row.deletedAt = row.updatedAt

\* Whatever becomes of a task, it is closed exactly when it is done, and not
\* before it was created nor after it was last updated, though the three times
\* are taken by different requests, and long before they are stored
\* (service.go:251-265, 315-327; the report averages closed_at - created_at).
TimesInOrder == \A id \in Ids : rows[id] # Null => InOrder(rows[id])

\* updated_at never goes back: of two updates that overlap the one that took
\* its time first cannot be stored last (repository/task.go:146-151).
UpdatedNeverBack ==
    [][\A id \in Ids : rows[id] # Null => rows'[id].updatedAt >= rows[id].updatedAt]_timedVars
=============================================================================
