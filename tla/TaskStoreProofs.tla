--------------------------- MODULE TaskStoreProofs ---------------------------
(***************************************************************************)
(* What follows from TaskStore, for every value of its constants: a task's *)
(* history accounts for its row and is never taken back.                   *)
(***************************************************************************)
EXTENDS TaskStore, TLAPS

(* The inductive invariant: a row has a history that accounts for it, and an *)
(* id without a row has none.                                                *)
SInv ==
    /\ tasks \in [TaskIds -> TaskRow \cup {Null}]
    /\ lastTask \in 0..MaxTasks
    /\ history \in [TaskIds -> Seq(HistoryEntry)]
    /\ \A id \in TaskIds : id > lastTask => tasks[id] = Null
    /\ \A id \in TaskIds : tasks[id] = Null => history[id] = <<>>
    /\ ClosedIffDone
    /\ HistoryExplainsRow

-----------------------------------------------------------------------------
(* Histories *)

\* One more entry leaves what the entries before it recorded.
LEMMA RecordsBefore ==
    ASSUME NEW h \in Seq(HistoryEntry), NEW e \in HistoryEntry,
           NEW n \in 1..Len(h), NEW f \in Fields, NEW v, Records(h, n, f, v)
    PROVE  Records(Append(h, e), n, f, v)
<1>1. \A i \in 1..n : Append(h, e)[i] = h[i]
  OBVIOUS
<1> QED
  BY <1>1 DEF Records

\* A field that the new entry speaks of has the value it says ...
LEMMA RecordsNew ==
    ASSUME NEW h \in Seq(HistoryEntry), NEW e \in HistoryEntry, NEW f \in Fields,
           e.changes[f] # Null
    PROVE  Records(Append(h, e), Len(h) + 1, f, e.changes[f].new)
<1>1. Append(h, e)[Len(h) + 1] = e /\ Len(h) \in Nat
  OBVIOUS
<1> QED
  BY <1>1 DEF Records

\* ... and any other field keeps its value.
LEMMA RecordsKept ==
    ASSUME NEW h \in Seq(HistoryEntry), NEW e \in HistoryEntry, NEW f \in Fields,
           Len(h) >= 1, e.changes[f] = Null, NEW v, Records(h, Len(h), f, v)
    PROVE  Records(Append(h, e), Len(h) + 1, f, v)
<1> DEFINE g == Append(h, e)
           n == Len(h)
<1>1. /\ g[n + 1] = e /\ n \in Nat /\ n >= 1
      /\ \A i \in 1..n : g[i] = h[i]
  OBVIOUS
<1> HIDE DEF g, n
<1>2. CASE \E i \in 1..n : /\ h[i].changes[f] # Null
                           /\ h[i].changes[f].new = v
                           /\ \A j \in (i + 1)..n : h[j].changes[f] = Null
  <2> PICK i \in 1..n : /\ h[i].changes[f] # Null
                        /\ h[i].changes[f].new = v
                        /\ \A j \in (i + 1)..n : h[j].changes[f] = Null
    BY <1>2
  <2>1. \A j \in (i + 1)..(n + 1) : g[j].changes[f] = Null
    BY <1>1
  <2>2. i \in 1..(n + 1) /\ g[i] = h[i]
    BY <1>1
  <2>3. Records(g, n + 1, f, v)
    BY <2>1, <2>2 DEF Records
  <2> QED
    BY <2>3 DEF g, n
<1>3. CASE /\ f = "closedAt" /\ \A j \in 1..n : h[j].changes[f] = Null
           /\ v = ClosedAt(h[1].changes["status"].new)
  <2>1. \A j \in 1..(n + 1) : g[j].changes[f] = Null
    BY <1>1, <1>3
  <2>2. g[1] = h[1]
    BY <1>1
  <2>3. Records(g, n + 1, f, v)
    BY <1>3, <2>1, <2>2 DEF Records
  <2> QED
    BY <2>3 DEF g, n
<1> QED
  BY <1>2, <1>3 DEF Records, n

\* A history that accounts for a row, with one entry that says how the next row
\* differs from it, accounts for the next row.
LEMMA AccountsNext ==
    ASSUME SInv, NEW id \in TaskIds, tasks[id] # Null,
           NEW new \in TaskRow, NEW e \in HistoryEntry,
           tasks' = [tasks EXCEPT ![id] = new],
           history' = [history EXCEPT ![id] = Append(history[id], e)],
           new.version = tasks[id].version + 1,
           \A f \in Fields :
              \/ e.changes[f] = Null /\ new[f] = tasks[id][f]
              \/ /\ e.changes[f] # Null
                 /\ e.changes[f].old = tasks[id][f] /\ e.changes[f].new = new[f]
    PROVE  Accounts(id)'
<1> DEFINE h == history[id]
           g == Append(h, e)
           n == Len(h)
           old == tasks[id]
<1>1. /\ h \in Seq(HistoryEntry) /\ old \in TaskRow
      /\ tasks'[id] = new /\ history'[id] = g
  BY DEF SInv
<1>2. /\ n = old.version
      /\ \A f \in Fields : Records(h, n, f, old[f])
      /\ \A i \in 2..n, f \in Fields :
            h[i].changes[f] # Null => Records(h, i - 1, f, h[i].changes[f].old)
  BY DEF SInv, HistoryExplainsRow, Accounts
<1>3. n \in Nat /\ n >= 1
  BY <1>1, <1>2 DEF TaskRow
<1>4. Len(g) = n + 1 /\ g[n + 1] = e /\ \A i \in 1..n : g[i] = h[i]
  BY <1>1
<1>5. \A f \in Fields : Records(g, n + 1, f, new[f])
  <2> TAKE f \in Fields
  <2>1. CASE e.changes[f] = Null
    BY <1>1, <1>2, <1>3, <2>1, RecordsKept
  <2>2. CASE e.changes[f] # Null
    BY <1>1, <2>2, RecordsNew
  <2> QED
    BY <2>1, <2>2
<1>6. ASSUME NEW i \in 2..(n + 1), NEW f \in Fields, g[i].changes[f] # Null
      PROVE  Records(g, i - 1, f, g[i].changes[f].old)
  <2>1. CASE i = n + 1
    <3>1. g[i].changes[f].old = old[f] /\ i - 1 = n /\ n \in 1..Len(h)
      BY <1>3, <1>4, <1>6, <2>1
    <3> QED
      BY <1>1, <1>2, <3>1, RecordsBefore
  <2>2. CASE i # n + 1
    <3>1. i \in 2..n /\ g[i] = h[i] /\ i - 1 \in 1..Len(h)
      BY <1>3, <1>4, <2>2
    <3>2. Records(h, i - 1, f, h[i].changes[f].old)
      BY <1>2, <1>6, <3>1
    <3> QED
      BY <1>1, <3>1, <3>2, RecordsBefore
  <2> QED
    BY <2>1, <2>2
<1> HIDE DEF g, n, h
<1> QED
  BY <1>1, <1>2, <1>4, <1>5, <1>6 DEF Accounts

-----------------------------------------------------------------------------
(* Steps *)

\* Types of the entries that the steps append.
LEMMA EntryType ==
    ASSUME NEW by \in Users, NEW event \in {"created", "updated", "deleted"},
           NEW changes \in [Fields -> FieldChange \cup {Null}]
    PROVE  [by |-> by, event |-> event, changes |-> changes] \in HistoryEntry
  BY DEF HistoryEntry

LEMMA ChangeMapType ==
    ASSUME NEW old \in TaskRow, NEW new \in TaskRow
    PROVE  /\ Difference(old, new) \in [Fields -> FieldChange \cup {Null}]
           /\ Snapshot(new) \in [Fields -> FieldChange \cup {Null}]
           /\ NoChanges \in [Fields -> FieldChange \cup {Null}]
<1>1. ASSUME NEW row \in TaskRow, NEW f \in Fields
      PROVE  row[f] \in FieldValues
  BY DEF TaskRow, Fields, FieldValues
<1>2. Null \in FieldValues
  BY DEF FieldValues
<1> QED
  BY <1>1, <1>2 DEF Difference, Snapshot, NoChanges, FieldChange

\* A step that writes the row of id and adds one entry to its history.
LEMMA RecordOK ==
    ASSUME SInv, NEW id \in TaskIds, NEW row \in TaskRow, NEW e \in HistoryEntry,
           tasks' = [tasks EXCEPT ![id] = row],
           history' = [history EXCEPT ![id] = Append(history[id], e)],
           lastTask' \in 0..MaxTasks, lastTask <= lastTask', id <= lastTask',
           row.closedAt = ClosedAt(row.status), Accounts(id)'
    PROVE  SInv'
<1>1. /\ tasks'[id] = row /\ \A i \in TaskIds \ {id} : tasks'[i] = tasks[i]
      /\ \A i \in TaskIds \ {id} : history'[i] = history[i]
      /\ row # Null
  BY NullRecordAssumption DEF SInv
<1>2. tasks' \in [TaskIds -> TaskRow \cup {Null}] /\ history' \in [TaskIds -> Seq(HistoryEntry)]
  <2>1. Append(history[id], e) \in Seq(HistoryEntry)
    BY DEF SInv
  <2> QED
    BY <2>1 DEF SInv
<1>3. \A i \in TaskIds : i > lastTask' => tasks'[i] = Null
  <2> TAKE i \in TaskIds
  <2>1. i \in Int /\ id \in Int /\ lastTask \in Int /\ lastTask' \in Int
    BY MaxTasksAssumption DEF SInv, TaskIds
  <2>2. i > lastTask' => i # id /\ i > lastTask
    BY <2>1
  <2> QED
    BY <1>1, <2>2 DEF SInv
<1>4. \A i \in TaskIds : tasks'[i] = Null => history'[i] = <<>>
  BY <1>1 DEF SInv
<1>5. ClosedIffDone'
  BY <1>1 DEF SInv, ClosedIffDone
<1>6. HistoryExplainsRow'
  BY <1>1 DEF SInv, HistoryExplainsRow, Accounts
<1> QED
  BY <1>2, <1>3, <1>4, <1>5, <1>6 DEF SInv

\* A task that has a row has an id that was handed out.
LEMMA PresentId ==
    ASSUME SInv, NEW id \in TaskIds, tasks[id] # Null, lastTask' = lastTask
    PROVE  lastTask' \in 0..MaxTasks /\ lastTask <= lastTask' /\ id <= lastTask'
  BY MaxTasksAssumption DEF SInv, TaskIds

LEMMA CreateOK ==
    ASSUME SInv, NEW by \in Users, Create(by)
    PROVE  SInv'
<1> PICK id : id = lastTask + 1
  OBVIOUS
<1>0. PICK row : row = tasks'[id]
  OBVIOUS
<1> DEFINE e == [by |-> by, event |-> "created", changes |-> Snapshot(row)]
<1>1. /\ lastTask < MaxTasks /\ lastTask' = id /\ row \in TaskRow
      /\ row.version = 1 /\ row.closedAt = ClosedAt(row.status)
      /\ tasks' = [tasks EXCEPT ![id] = row]
      /\ history' = [history EXCEPT ![id] = Append(history[id], e)]
  BY <1>0 DEF Create, Record
<1>2. /\ id \in TaskIds /\ lastTask' \in 0..MaxTasks
      /\ lastTask <= lastTask' /\ id <= lastTask' /\ history[id] = <<>>
  BY <1>1, MaxTasksAssumption DEF SInv, TaskIds
<1>3. e \in HistoryEntry
  BY <1>1, ChangeMapType, EntryType
<1>4. Accounts(id)'
  <2> DEFINE g == Append(<<>>, e)
  <2>1. history'[id] = g /\ tasks'[id] = row
    BY <1>1, <1>2 DEF SInv
  <2>2. Len(g) = 1 /\ g[1] = e
    BY <1>3
  <2>3. /\ \A f \in {"title", "status", "assignee"} : e.changes[f] = [old |-> Null, new |-> row[f]]
        /\ e.changes["closedAt"] = Null
    BY DEF Snapshot, Fields
  <2>4. \A f \in {"title", "status", "assignee"} :
           e.changes[f] # Null /\ e.changes[f].new = row[f]
    <3> TAKE f \in {"title", "status", "assignee"}
    <3>1. row[f] \in FieldValues /\ Null \in FieldValues
      BY <1>1 DEF TaskRow, FieldValues
    <3>2. [old |-> Null, new |-> row[f]] # Null
      BY <3>1, NullRecordAssumption DEF FieldChange
    <3> QED
      BY <2>3, <3>2
  <2> HIDE DEF g, e
  <2>5. \A f \in Fields : Records(g, 1, f, row[f])
    BY <1>1, <2>2, <2>3, <2>4 DEF Records, Fields
  <2>6. row.version = Len(g) /\ \A i \in 2..Len(g) : FALSE
    BY <1>1, <2>2
  <2> QED
    BY <2>1, <2>2, <2>5, <2>6 DEF Accounts
<1> HIDE DEF e
<1> QED
  BY <1>1, <1>2, <1>3, <1>4, RecordOK

LEMMA ChangeOK ==
    ASSUME SInv, NEW by \in Users, NEW id \in TaskIds, Change(id, by)
    PROVE  SInv'
<1>0. PICK row : row = tasks'[id]
  OBVIOUS
<1> DEFINE old == tasks[id]
           e == [by |-> by, event |-> "updated", changes |-> Difference(old, row)]
<1>1. /\ old # Null /\ row \in TaskRow
      /\ row.version = old.version + 1 /\ row.closedAt = ClosedAt(row.status)
      /\ tasks' = [tasks EXCEPT ![id] = row]
      /\ history' = [history EXCEPT ![id] = Append(history[id], e)]
      /\ lastTask' = lastTask
  BY <1>0 DEF Change, Record, Present
<1>2. old \in TaskRow
  BY <1>1 DEF SInv
<1>3. e \in HistoryEntry
  BY <1>1, <1>2, ChangeMapType, EntryType
<1>4. \A f \in Fields :
         \/ e.changes[f] = Null /\ row[f] = old[f]
         \/ e.changes[f] # Null /\ e.changes[f].old = old[f] /\ e.changes[f].new = row[f]
  <2> TAKE f \in Fields
  <2>1. old[f] \in FieldValues /\ row[f] \in FieldValues
    BY <1>1, <1>2 DEF TaskRow, Fields, FieldValues
  <2>2. [old |-> old[f], new |-> row[f]] # Null
    BY <2>1, NullRecordAssumption DEF FieldChange
  <2> QED
    BY <2>2 DEF Difference
<1> HIDE DEF e
<1>5. Accounts(id)'
  BY <1>1, <1>3, <1>4, AccountsNext
<1>6. lastTask' \in 0..MaxTasks /\ lastTask <= lastTask' /\ id <= lastTask'
  BY <1>1, PresentId
<1> HIDE DEF old
<1> QED
  BY <1>1, <1>3, <1>5, <1>6, RecordOK

LEMMA RemoveOK ==
    ASSUME SInv, NEW by \in Users, NEW id \in TaskIds, Remove(id, by)
    PROVE  SInv'
<1> DEFINE old == tasks[id]
           v == old.version + 1
           row == [old EXCEPT !.deletedAt = Time, !.version = v]
           e == [by |-> by, event |-> "deleted", changes |-> NoChanges]
<1>1. /\ old # Null /\ lastTask' = lastTask
      /\ tasks' = [tasks EXCEPT ![id] = row]
      /\ history' = [history EXCEPT ![id] = Append(history[id], e)]
  BY DEF Remove, Record, Present
<1>2. old \in TaskRow /\ v \in Nat \ {0}
  BY <1>1 DEF SInv, TaskRow
<1> HIDE DEF v
<1>3. /\ row \in TaskRow /\ row.version = v
      /\ \A f \in Fields : row[f] = old[f]
      /\ row.status = old.status /\ row.closedAt = old.closedAt
  BY <1>2 DEF TaskRow, Fields, Time
<1> HIDE DEF row
<1>4. e \in HistoryEntry /\ \A f \in Fields : e.changes[f] = Null
  BY <1>2, ChangeMapType, EntryType DEF NoChanges
<1>5. row.closedAt = ClosedAt(row.status)
  BY <1>1, <1>3 DEF SInv, ClosedIffDone
<1> HIDE DEF e
<1>6. Accounts(id)'
  BY <1>1, <1>3, <1>4, AccountsNext DEF v
<1>7. lastTask' \in 0..MaxTasks /\ lastTask <= lastTask' /\ id <= lastTask'
  BY <1>1, PresentId
<1> QED
  BY <1>1, <1>3, <1>4, <1>5, <1>6, <1>7, RecordOK

LEMMA DropOK ==
    ASSUME SInv, NEW t \in Teams, Drop(t)
    PROVE  SInv'
<1>1. lastTask' = lastTask
  BY DEF Drop
<1>2. \A id \in TaskIds :
         \/ tasks'[id] = Null /\ history'[id] = <<>>
         \/ tasks'[id] = tasks[id] /\ history'[id] = history[id]
  BY DEF SInv, Drop
<1>3. /\ tasks' \in [TaskIds -> TaskRow \cup {Null}]
      /\ history' \in [TaskIds -> Seq(HistoryEntry)]
  <2>1. <<>> \in Seq(HistoryEntry)
    OBVIOUS
  <2> QED
    BY <2>1 DEF SInv, Drop
<1>4. /\ \A id \in TaskIds : id > lastTask' => tasks'[id] = Null
      /\ \A id \in TaskIds : tasks'[id] = Null => history'[id] = <<>>
  BY <1>1, <1>2 DEF SInv
<1>5. ClosedIffDone' /\ HistoryExplainsRow'
  BY <1>2 DEF SInv, ClosedIffDone, HistoryExplainsRow, Accounts
<1> QED
  BY <1>1, <1>3, <1>4, <1>5 DEF SInv

-----------------------------------------------------------------------------
(* Theorems *)

\* A row and the history that accounts for it change together
\* (repository/task.go:23-68, 134-225).
THEOREM StoreInvariance == StoreSpec => []SInv
<1>1. StoreInit => SInv
  <2>1. <<>> \in Seq(HistoryEntry) /\ 0 \in 0..MaxTasks
    BY MaxTasksAssumption
  <2> QED
    BY <2>1 DEF StoreInit, SInv, ClosedIffDone, HistoryExplainsRow
<1>2. SInv /\ [StoreNext]_taskTables => SInv'
  <2> SUFFICES ASSUME SInv, [StoreNext]_taskTables PROVE SInv'
    OBVIOUS
  <2>1. CASE StoreNext
    BY <2>1, CreateOK, ChangeOK, RemoveOK, DropOK DEF StoreNext
  <2>2. CASE UNCHANGED taskTables
    BY <2>2 DEF SInv, taskTables, ClosedIffDone, HistoryExplainsRow, Accounts
  <2> QED
    BY <2>1, <2>2
<1> QED
  BY <1>1, <1>2, PTL DEF StoreSpec

\* The history of every task accounts for its row, entry by entry
\* (service.go:58-72, 159-164, 194-203).
THEOREM HistoryIsExact == StoreSpec => []HistoryExplainsRow
<1>1. SInv => HistoryExplainsRow
  BY DEF SInv
<1> QED
  BY <1>1, StoreInvariance, PTL

\* A deleted task stays as it was deleted, and its id is not used again
\* (the version and deleted_at conditions of repository/task.go:144, 194).
THEOREM DeletionIsFinal == StoreSpec => DeletedIsFinal
<1>1. SInv /\ [StoreNext]_taskTables =>
        [\A id \in TaskIds :
           /\ tasks[id] # Null /\ tasks[id].deletedAt = Time =>
                 tasks'[id] \in {Null, tasks[id]}
           /\ id <= lastTask /\ tasks[id] = Null => tasks'[id] = Null]_taskTables
  <2> SUFFICES ASSUME SInv, StoreNext, NEW id \in TaskIds
               PROVE  /\ tasks[id] # Null /\ tasks[id].deletedAt = Time =>
                            tasks'[id] \in {Null, tasks[id]}
                      /\ id <= lastTask /\ tasks[id] = Null => tasks'[id] = Null
    OBVIOUS
  <2>1. CASE \E by \in Users : Create(by)
    <3>1. PICK row : tasks' = [tasks EXCEPT ![lastTask + 1] = row]
      BY <2>1 DEF Create, Record
    <3>2. CASE id = lastTask + 1
      <4>1. lastTask \in Nat /\ id > lastTask
        BY <3>2, MaxTasksAssumption DEF SInv
      <4>2. tasks[id] = Null
        BY <4>1 DEF SInv
      <4>3. ~(id <= lastTask)
        BY <4>1 DEF TaskIds
      <4> QED
        BY <4>2, <4>3
    <3>3. CASE id # lastTask + 1
      BY <3>1, <3>3 DEF SInv
    <3> QED
      BY <3>2, <3>3
  <2>2. CASE \E by \in Users, i \in TaskIds : Change(i, by) \/ Remove(i, by)
    BY <2>2, NullAssumption DEF SInv, Change, Remove, Record, Present, Time
  <2>3. CASE \E t \in Teams : Drop(t)
    BY <2>3 DEF Drop
  <2> QED
    BY <2>1, <2>2, <2>3 DEF StoreNext
<1> QED
  BY <1>1, StoreInvariance, PTL DEF StoreSpec, DeletedIsFinal
=============================================================================
