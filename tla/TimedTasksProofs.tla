-------------------------- MODULE TimedTasksProofs --------------------------
(***************************************************************************)
(* The times of a task stay in order and updated_at never goes back, for   *)
(* any number of tasks and of requests that write them, however far the    *)
(* clock goes; and what the report of TeamStats says of these times.       *)
(***************************************************************************)
EXTENDS TeamStats, FiniteSetTheorems, SequenceTheorems, TLAPS

-----------------------------------------------------------------------------
(* The inductive invariant *)

\* InOrder, before updated_at is taken again.
NearlyInOrder(row) ==
    /\ row.createdAt <= row.updatedAt /\ row.updatedAt <= now
    /\ row.status = "done" <=> row.closedAt # Null
    /\ row.closedAt # Null => row.createdAt <= row.closedAt /\ row.closedAt <= now
    /\ row.deletedAt # Null => row.deletedAt = row.updatedAt

\* The row that d was read from has a later version now, or none of its times
\* is later than those of d.
Follows(d) ==
    /\ rows[d.id] # Null
    /\ \/ rows[d.id].version > d.row.version
       \/ /\ rows[d.id].version = d.row.version
          /\ rows[d.id].createdAt = d.row.createdAt
          /\ rows[d.id].updatedAt <= d.row.updatedAt

Fits(step, d) ==
    /\ step \in WriterSteps /\ d \in Draft \cup {Null}
    /\ step \notin {"idle", "written"} => d # Null
    /\ d # Null => /\ NearlyInOrder(d.row)
                   /\ step # "stamp" => InOrder(d.row)
    /\ step \in {"update", "stamp", "delete", "write"} => d.id \in Ids /\ Follows(d)
    /\ step \in {"insert", "update", "stamp", "delete"} => d.row.deletedAt = Null

RowsInUse == \A id \in Ids : rows[id] # Null <=> id <= lastRow

TimedInv ==
    /\ TimedTypeOK
    /\ RowsInUse
    /\ TimesInOrder
    /\ \A w \in Writers : Fits(writerPc[w], draft[w])

-----------------------------------------------------------------------------
(* Each action keeps it *)

LEMMA InitInv == TimedInit => TimedInv
<1> SUFFICES ASSUME TimedInit PROVE TimedInv
  OBVIOUS
<1>1. TimedTypeOK
  BY TimedBoundAssumption DEF TimedInit, TimedTypeOK, Times, WriterSteps
<1>2. RowsInUse /\ TimesInOrder
  BY TimedBoundAssumption DEF TimedInit, RowsInUse, TimesInOrder, Ids
<1>3. ASSUME NEW w \in Writers PROVE Fits(writerPc[w], draft[w])
  BY DEF TimedInit, Fits, WriterSteps
<1> QED
  BY <1>1, <1>2, <1>3 DEF TimedInv

\* A request that goes on and stores nothing only has to fit itself.
LEMMA GotoKeeps ==
    ASSUME TimedInv, NEW w \in Writers, NEW step, NEW d,
           Goto(w, step, d), UNCHANGED <<now, rows, lastRow>>, Fits(step, d)
    PROVE  TimedInv'
<1>1. step \in WriterSteps /\ d \in Draft \cup {Null}
  BY DEF Fits
<1>2. TimedTypeOK'
  BY <1>1 DEF TimedInv, TimedTypeOK, Goto
<1>3. RowsInUse' /\ TimesInOrder'
  BY DEF TimedInv, RowsInUse, TimesInOrder, InOrder
<1>4. ASSUME NEW v \in Writers PROVE Fits(writerPc[v], draft[v])'
  <2>1. CASE v = w
    <3>1. writerPc'[v] = step /\ draft'[v] = d
      BY <2>1 DEF TimedInv, TimedTypeOK, Goto
    <3> QED
      BY <3>1 DEF Fits, Follows, InOrder, NearlyInOrder
  <2>2. CASE v # w
    <3>1. writerPc'[v] = writerPc[v] /\ draft'[v] = draft[v]
      BY <2>2 DEF TimedInv, TimedTypeOK, Goto
    <3>2. Fits(writerPc[v], draft[v])
      BY DEF TimedInv
    <3> QED
      BY <3>1, <3>2 DEF Fits, Follows, InOrder, NearlyInOrder
  <2> QED
    BY <2>1, <2>2
<1> QED
  BY <1>2, <1>3, <1>4 DEF TimedInv

LEMMA CreateKeeps ==
    ASSUME TimedInv, NEW w \in Writers, NEW team \in Teams, NEW status \in Wanted,
           NEW assignee \in Assignees \cup {Null}, Create(w, team, status, assignee)
    PROVE  TimedInv'
<1> DEFINE row == [team |-> team, status |-> status, assignee |-> assignee,
                   createdAt |-> now, updatedAt |-> now,
                   closedAt |-> IF status = "done" THEN now ELSE Null,
                   deletedAt |-> Null, version |-> 1]
           d == [id |-> 0, row |-> row]
<1>1. Goto(w, "insert", d) /\ UNCHANGED <<now, rows, lastRow>>
  BY DEF Create
<1>2. now \in Times /\ now \in Int /\ now # Null
  BY TimedNullAssumption, TimedBoundAssumption DEF TimedInv, TimedTypeOK, Times
<1>3. row \in Row
  BY <1>2, WantedAssumption DEF Row
<1>4. d \in Draft
  BY <1>3, TimedBoundAssumption DEF Draft
<1>5. InOrder(d.row) /\ NearlyInOrder(d.row) /\ d.row.deletedAt = Null
  BY <1>2 DEF InOrder, NearlyInOrder
<1> HIDE DEF d
<1>6. Fits("insert", d)
  BY <1>4, <1>5, TimedRecordAssumption DEF Fits, WriterSteps
<1> QED
  BY <1>1, <1>6, GotoKeeps

LEMMA FindKeeps ==
    ASSUME TimedInv, NEW w \in Writers, NEW id \in Ids, NEW step \in {"update", "delete"},
           Find(w, id, step)
    PROVE  TimedInv'
<1> DEFINE d == [id |-> id, row |-> rows[id]]
<1>1. Goto(w, step, d) /\ UNCHANGED <<now, rows, lastRow>>
  BY DEF Find
<1>2. rows[id] # Null /\ rows[id].deletedAt = Null
  BY DEF Find, Live
<1>3. rows[id] \in Row /\ rows[id].updatedAt \in Int
  BY <1>2, TimedBoundAssumption DEF TimedInv, TimedTypeOK, Row, Times
<1>4. d \in Draft
  BY <1>3, TimedBoundAssumption DEF Draft, Ids
<1>5. InOrder(rows[id])
  BY <1>2 DEF TimedInv, TimesInOrder
<1>6. NearlyInOrder(rows[id])
  <2>1. ASSUME rows[id].closedAt # Null PROVE rows[id].closedAt <= now
    <3>1. rows[id].closedAt \in Int /\ now \in Int
      BY <1>3, <2>1, TimedBoundAssumption DEF Row, Times, TimedInv, TimedTypeOK
    <3> QED
      BY <1>3, <1>5, <2>1, <3>1 DEF InOrder
  <2> QED
    BY <1>5, <2>1 DEF InOrder, NearlyInOrder
<1>7. Follows(d)
  BY <1>2, <1>3 DEF Follows
<1>8. /\ InOrder(d.row) /\ NearlyInOrder(d.row)
      /\ d.row.deletedAt = Null /\ d.id \in Ids
  <2>1. d.row = rows[id] /\ d.id = id
    OBVIOUS
  <2> QED
    BY <1>2, <1>5, <1>6, <2>1
<1> HIDE DEF d
<1>9. Fits(step, d)
  BY <1>4, <1>7, <1>8, TimedRecordAssumption DEF Fits, WriterSteps
<1> QED
  BY <1>1, <1>9, GotoKeeps

\* What a draft of a request is, wherever the request is.
LEMMA DraftFacts ==
    ASSUME TimedInv, NEW w \in Writers, draft[w] # Null
    PROVE  /\ draft[w] \in Draft /\ draft[w].row \in Row /\ draft[w].id \in Int
           /\ draft[w].row.createdAt \in Int /\ draft[w].row.updatedAt \in Int
           /\ draft[w].row.closedAt # Null => draft[w].row.closedAt \in Int
           /\ now \in Int /\ now \in Times /\ now # Null
           /\ Fits(writerPc[w], draft[w])
           /\ NearlyInOrder(draft[w].row)
<1>1. draft[w] \in Draft /\ now \in Times /\ Fits(writerPc[w], draft[w])
  BY DEF TimedInv, TimedTypeOK
<1>2. draft[w].row \in Row /\ draft[w].id \in Int
  BY <1>1, TimedBoundAssumption DEF Draft
<1>3. now \in Int /\ now # Null
  BY <1>1, TimedBoundAssumption, TimedNullAssumption DEF Times
<1>4. NearlyInOrder(draft[w].row)
  BY <1>1 DEF Fits
<1> QED
  BY <1>1, <1>2, <1>3, <1>4, TimedBoundAssumption DEF Row, Times

LEMMA ChangeKeeps ==
    ASSUME TimedInv, NEW w \in Writers, NEW status \in Wanted,
           NEW assignee \in Assignees \cup {Null}, Change(w, status, assignee)
    PROVE  TimedInv'
<1> DEFINE old == draft[w].row
           row == [old EXCEPT !.status = status, !.assignee = assignee,
                              !.closedAt = ClosedAt(old, status)]
           d == [draft[w] EXCEPT !.row = row]
<1>1. Goto(w, "stamp", d) /\ UNCHANGED <<now, rows, lastRow>>
  BY DEF Change
<1>2. writerPc[w] = "update" /\ draft[w] # Null
  BY DEF Change, TimedInv, Fits
<1>3. /\ InOrder(old) /\ NearlyInOrder(old) /\ old.deletedAt = Null
      /\ draft[w].id \in Ids /\ Follows(draft[w])
  BY <1>2, DraftFacts DEF Fits
<1>4. ClosedAt(old, status) \in Times \cup {Null}
  BY <1>2, DraftFacts DEF ClosedAt, Row
<1>5. row \in Row
  BY <1>2, <1>4, DraftFacts, WantedAssumption DEF Row
<1>6. NearlyInOrder(row)
  BY <1>2, <1>3, DraftFacts DEF NearlyInOrder, ClosedAt, Row
<1>7. d \in Draft /\ d.row = row /\ d.id = draft[w].id
  BY <1>2, <1>5, DraftFacts DEF Draft
<1>8. /\ row.version = old.version /\ row.createdAt = old.createdAt
      /\ row.updatedAt = old.updatedAt /\ row.deletedAt = old.deletedAt
  BY <1>2, DraftFacts DEF Row
<1> HIDE DEF d, row
<1>9. Follows(d)
  BY <1>3, <1>7, <1>8 DEF Follows
<1>10. Fits("stamp", d)
  BY <1>3, <1>6, <1>7, <1>8, <1>9, TimedRecordAssumption DEF Fits, WriterSteps
<1> QED
  BY <1>1, <1>10, GotoKeeps

\* A draft that is stamped now follows the row its draft followed.
LEMMA StampedFollows ==
    ASSUME TimedInv, NEW w \in Writers, draft[w] # Null,
           draft[w].id \in Ids, Follows(draft[w]),
           NEW d, d.id = draft[w].id, d.row.version = draft[w].row.version,
           d.row.createdAt = draft[w].row.createdAt, d.row.updatedAt = now
    PROVE  Follows(d)
<1>1. draft[w].row.updatedAt <= now
  BY DraftFacts DEF NearlyInOrder
<1>2. rows[draft[w].id].updatedAt \in Int
  BY TimedBoundAssumption DEF Follows, TimedInv, TimedTypeOK, Row, Times
<1> QED
  BY <1>1, <1>2, DraftFacts DEF Follows

\* The clock is read again: no time in the row is later.
LEMMA StampKeeps ==
    ASSUME TimedInv, NEW w \in Writers, Stamp(w)
    PROVE  TimedInv'
<1> DEFINE old == draft[w].row
           row == [old EXCEPT !.updatedAt = now]
           d == [draft[w] EXCEPT !.row = row]
<1>1. Goto(w, "write", d) /\ UNCHANGED <<now, rows, lastRow>>
  BY DEF Stamp
<1>2. writerPc[w] = "stamp" /\ draft[w] # Null
  BY DEF Stamp, TimedInv, Fits
<1>3. /\ NearlyInOrder(old) /\ old.deletedAt = Null
      /\ draft[w].id \in Ids /\ Follows(draft[w])
  BY <1>2, DraftFacts DEF Fits
<1>4. row \in Row
  BY <1>2, DraftFacts DEF Row
<1>5. InOrder(row) /\ NearlyInOrder(row)
  BY <1>2, <1>3, DraftFacts DEF InOrder, NearlyInOrder, Row
<1>6. d \in Draft /\ d.row = row /\ d.id = draft[w].id
  BY <1>2, <1>4, DraftFacts DEF Draft
<1>7. /\ row.version = old.version /\ row.createdAt = old.createdAt
      /\ row.updatedAt = now
  BY <1>2, DraftFacts DEF Row
<1> HIDE DEF d, row
<1>8. Follows(d)
  BY <1>2, <1>3, <1>6, <1>7, StampedFollows
<1>9. Fits("write", d)
  BY <1>3, <1>5, <1>6, <1>8, TimedRecordAssumption DEF Fits, WriterSteps
<1> QED
  BY <1>1, <1>9, GotoKeeps

LEMMA StampDeleteKeeps ==
    ASSUME TimedInv, NEW w \in Writers, StampDelete(w)
    PROVE  TimedInv'
<1> DEFINE old == draft[w].row
           row == [old EXCEPT !.updatedAt = now, !.deletedAt = now]
           d == [draft[w] EXCEPT !.row = row]
<1>1. Goto(w, "write", d) /\ UNCHANGED <<now, rows, lastRow>>
  BY DEF StampDelete
<1>2. writerPc[w] = "delete" /\ draft[w] # Null
  BY DEF StampDelete, TimedInv, Fits
<1>3. NearlyInOrder(old) /\ draft[w].id \in Ids /\ Follows(draft[w])
  BY <1>2, DraftFacts DEF Fits
<1>4. row \in Row
  BY <1>2, DraftFacts DEF Row
<1>5. InOrder(row) /\ NearlyInOrder(row)
  BY <1>2, <1>3, DraftFacts DEF InOrder, NearlyInOrder, Row
<1>6. d \in Draft /\ d.row = row /\ d.id = draft[w].id
  BY <1>2, <1>4, DraftFacts DEF Draft
<1>7. /\ row.version = old.version /\ row.createdAt = old.createdAt
      /\ row.updatedAt = now
  BY <1>2, DraftFacts DEF Row
<1> HIDE DEF d, row
<1>8. Follows(d)
  BY <1>2, <1>3, <1>6, <1>7, StampedFollows
<1>9. Fits("write", d)
  BY <1>3, <1>5, <1>6, <1>8, TimedRecordAssumption DEF Fits, WriterSteps
<1> QED
  BY <1>1, <1>9, GotoKeeps

LEMMA LeaveKeeps ==
    ASSUME TimedInv, NEW w \in Writers, Leave(w), UNCHANGED <<now, rows, lastRow>>
    PROVE  TimedInv'
<1>1. Fits("idle", Null)
  BY DEF Fits, WriterSteps
<1> QED
  BY <1>1, GotoKeeps DEF Leave

\* Time passes: what was not later than now still is not.
LEMMA PassKeeps ==
    ASSUME TimedInv, Pass
    PROVE  TimedInv'
<1>1. now \in Int /\ now' = now + 1 /\ now' \in Times
  BY TimedBoundAssumption DEF Pass, TimedInv, TimedTypeOK, Times
<1>2. UNCHANGED <<rows, lastRow, writerPc, draft>>
  BY DEF Pass
<1>3. TimedTypeOK' /\ RowsInUse'
  BY <1>1, <1>2 DEF TimedInv, TimedTypeOK, RowsInUse
<1>4. ASSUME NEW row \in Row
      PROVE  /\ InOrder(row) => InOrder(row)'
             /\ NearlyInOrder(row) => NearlyInOrder(row)'
  <2>1. /\ row.createdAt \in Int /\ row.updatedAt \in Int
        /\ row.closedAt # Null => row.closedAt \in Int
    BY TimedBoundAssumption DEF Row, Times
  <2> QED
    BY <1>1, <2>1 DEF InOrder, NearlyInOrder
<1>5. ASSUME NEW id \in Ids, rows[id] # Null PROVE InOrder(rows[id])'
  BY <1>2, <1>4, <1>5 DEF TimedInv, TimedTypeOK, TimesInOrder
<1>6. ASSUME NEW w \in Writers PROVE Fits(writerPc[w], draft[w])'
  <2>1. Fits(writerPc[w], draft[w])
    BY DEF TimedInv
  <2>2. draft[w] # Null => draft[w].row \in Row
    BY DraftFacts
  <2> QED
    BY <1>2, <1>4, <2>1, <2>2 DEF Fits, Follows
<1> QED
  BY <1>2, <1>3, <1>5, <1>6 DEF TimedInv, TimesInOrder

\* A request whose row is stored leaves the drafts of the others as they fit.
LEMMA StoreKeeps ==
    ASSUME TimedInv, NEW w \in Writers, Goto(w, "written", Null), UNCHANGED now,
           NEW id \in Ids, NEW row \in Row, InOrder(row),
           rows' = [rows EXCEPT ![id] = row],
           rows[id] # Null => row.version > rows[id].version,
           lastRow' \in 0..MaxRows, RowsInUse'
    PROVE  TimedInv'
<1>1. TimedTypeOK'
  BY DEF TimedInv, TimedTypeOK, Goto, WriterSteps
<1>2. ASSUME NEW i \in Ids, rows'[i] # Null PROVE InOrder(rows[i])'
  <2>1. CASE i = id
    <3>1. rows'[i] = row
      BY <2>1 DEF TimedInv, TimedTypeOK
    <3> QED
      BY <3>1 DEF InOrder
  <2>2. CASE i # id
    <3>1. rows'[i] = rows[i] /\ rows[i] # Null
      BY <1>2, <2>2 DEF TimedInv, TimedTypeOK
    <3>2. InOrder(rows[i])
      BY <3>1 DEF TimedInv, TimesInOrder
    <3> QED
      BY <3>1, <3>2 DEF InOrder
  <2> QED
    BY <2>1, <2>2
<1>3. ASSUME NEW d \in Draft, d.id \in Ids, Follows(d) PROVE Follows(d)'
  <2>1. CASE d.id = id
    <3>1. rows'[d.id] = row /\ row # Null
      BY <2>1, TimedRecordAssumption DEF TimedInv, TimedTypeOK
    <3>2. rows[id] \in Row /\ rows[id].version >= d.row.version
      BY <1>3, <2>1 DEF Follows, TimedInv, TimedTypeOK, Draft, Row
    <3>3. row.version \in Int /\ rows[id].version \in Int /\ d.row.version \in Int
      BY <3>2 DEF Draft, Row
    <3>4. row.version > d.row.version
      BY <3>2, <3>3, TimedRecordAssumption
    <3> QED
      BY <3>1, <3>4 DEF Follows
  <2>2. CASE d.id # id
    <3>1. rows'[d.id] = rows[d.id]
      BY <1>3, <2>2 DEF TimedInv, TimedTypeOK
    <3> QED
      BY <1>3, <3>1 DEF Follows
  <2> QED
    BY <2>1, <2>2
<1>4. ASSUME NEW v \in Writers PROVE Fits(writerPc[v], draft[v])'
  <2>1. CASE v = w
    <3>1. writerPc'[v] = "written" /\ draft'[v] = Null
      BY <2>1 DEF TimedInv, TimedTypeOK, Goto
    <3> QED
      BY <3>1 DEF Fits, WriterSteps
  <2>2. CASE v # w
    <3>1. writerPc'[v] = writerPc[v] /\ draft'[v] = draft[v]
      BY <2>2 DEF TimedInv, TimedTypeOK, Goto
    <3>2. Fits(writerPc[v], draft[v])
      BY DEF TimedInv
    <3>3. draft[v] # Null => draft[v] \in Draft
      BY DEF TimedInv, TimedTypeOK
    <3>4. writerPc[v] \in {"update", "stamp", "delete", "write"} =>
            draft[v].id \in Ids /\ Follows(draft[v])'
      BY <1>3, <3>1, <3>2, <3>3 DEF Fits
    <3> QED
      BY <3>1, <3>2, <3>4 DEF Fits, InOrder, NearlyInOrder
  <2> QED
    BY <2>1, <2>2
<1> QED
  BY <1>1, <1>2, <1>4 DEF TimedInv, TimesInOrder

LEMMA InsertKeeps ==
    ASSUME TimedInv, NEW w \in Writers, Insert(w)
    PROVE  /\ TimedInv'
           /\ \A id \in Ids : rows[id] # Null => rows'[id] = rows[id]
<1>1. /\ writerPc[w] = "insert" /\ draft[w] # Null
      /\ lastRow \in 0..MaxRows /\ lastRow < MaxRows /\ lastRow' = lastRow + 1
      /\ rows' = [rows EXCEPT ![lastRow + 1] = draft[w].row]
      /\ Goto(w, "written", Null) /\ UNCHANGED now
  BY DEF Insert, TimedInv, TimedTypeOK, Fits
<1>2. draft[w].row \in Row /\ InOrder(draft[w].row)
  BY <1>1, DraftFacts DEF Fits
<1>3. lastRow + 1 \in Ids /\ lastRow' \in 0..MaxRows
  BY <1>1, TimedBoundAssumption DEF Ids
<1>4. rows[lastRow + 1] = Null
  BY <1>1, <1>3, TimedBoundAssumption DEF TimedInv, RowsInUse
<1>5. RowsInUse'
  <2> SUFFICES ASSUME NEW id \in Ids PROVE rows'[id] # Null <=> id <= lastRow'
    BY DEF RowsInUse
  <2>1. rows[id] # Null <=> id <= lastRow
    BY DEF TimedInv, RowsInUse
  <2>2. CASE id = lastRow + 1
    BY <1>1, <1>2, <1>3, <2>2, TimedRecordAssumption DEF TimedInv, TimedTypeOK, Ids
  <2>3. CASE id # lastRow + 1
    <3>1. rows'[id] = rows[id]
      BY <1>1, <2>3 DEF TimedInv, TimedTypeOK
    <3> QED
      BY <1>1, <2>1, <2>3, <3>1, TimedBoundAssumption DEF Ids
  <2> QED
    BY <2>2, <2>3
<1>6. TimedInv'
  BY <1>1, <1>2, <1>3, <1>4, <1>5, StoreKeeps
<1>7. \A id \in Ids : rows[id] # Null => rows'[id] = rows[id]
  BY <1>1, <1>4 DEF TimedInv, TimedTypeOK
<1> QED
  BY <1>6, <1>7

LEMMA StoredIsRow ==
    ASSUME NEW old \in Row, NEW new \in Row
    PROVE  Stored(old, new) \in Row
<1>1. /\ new.status \in Statuses /\ new.assignee \in Assignees \cup {Null}
      /\ new.closedAt \in Times \cup {Null} /\ new.updatedAt \in Times
      /\ new.deletedAt \in Times \cup {Null}
      /\ old.version + 1 \in Nat \ {0}
  BY DEF Row
<1>2. CASE new.deletedAt = Null
  <2>1. [old EXCEPT !.status = new.status, !.assignee = new.assignee,
                    !.closedAt = new.closedAt, !.updatedAt = new.updatedAt,
                    !.version = old.version + 1] \in Row
    BY <1>1 DEF Row
  <2> QED
    BY <1>2, <2>1 DEF Stored
<1>3. CASE new.deletedAt # Null
  <2>1. [old EXCEPT !.deletedAt = new.deletedAt, !.updatedAt = new.updatedAt,
                    !.version = old.version + 1] \in Row
    BY <1>1 DEF Row
  <2> QED
    BY <1>3, <2>1 DEF Stored
<1> QED
  BY <1>2, <1>3

\* The write is that of a row of the same version: its draft has no time that is
\* earlier than those of the row.
LEMMA WriteKeeps ==
    ASSUME TimedInv, NEW w \in Writers, Write(w)
    PROVE  /\ TimedInv'
           /\ \A id \in Ids : rows[id] # Null => rows'[id].updatedAt >= rows[id].updatedAt
<1> DEFINE new == draft[w].row
           i == draft[w].id
           row == Stored(rows[i], new)
<1>1. /\ writerPc[w] = "write" /\ draft[w] # Null
      /\ Current(draft[w])
      /\ rows' = [rows EXCEPT ![i] = row]
      /\ Goto(w, "written", Null) /\ UNCHANGED <<now, lastRow>>
  BY DEF Write, TimedInv, Fits
<1>2. /\ new \in Row /\ InOrder(new) /\ i \in Ids
      /\ Follows(draft[w])
  BY <1>1, DraftFacts DEF Fits
<1>3. /\ rows[i] \in Row /\ rows[i] # Null /\ rows[i].deletedAt = Null
      /\ rows[i].version = new.version
  BY <1>1, <1>2 DEF Current, Live, TimedInv, TimedTypeOK
<1>4. /\ new.version \in Nat /\ new.createdAt \in Int /\ new.updatedAt \in Int
      /\ rows[i].createdAt \in Int /\ rows[i].updatedAt \in Int
      /\ new.closedAt # Null => new.closedAt \in Int
      /\ rows[i].closedAt # Null => rows[i].closedAt \in Int
  BY <1>2, <1>3, TimedBoundAssumption DEF Row, Times
<1>5. rows[i].createdAt = new.createdAt /\ rows[i].updatedAt <= new.updatedAt
  BY <1>2, <1>3, <1>4 DEF Follows
<1>6. InOrder(rows[i])
  BY <1>2, <1>3 DEF TimedInv, TimesInOrder
<1>7. row \in Row
  BY <1>2, <1>3, StoredIsRow
<1>8. row.version = rows[i].version + 1 /\ row.updatedAt = new.updatedAt
  BY <1>3 DEF Stored, Row
<1>9. InOrder(row)
  <2>1. CASE new.deletedAt = Null
    BY <1>2, <1>3, <1>4, <1>5, <2>1 DEF Stored, Row, InOrder
  <2>2. CASE new.deletedAt # Null
    BY <1>2, <1>3, <1>4, <1>5, <1>6, <2>2 DEF Stored, Row, InOrder
  <2> QED
    BY <2>1, <2>2
<1>10. RowsInUse' /\ lastRow' \in 0..MaxRows
  <2>1. row # Null
    BY <1>7, TimedRecordAssumption
  <2> HIDE DEF row
  <2> QED
    BY <1>1, <1>2, <1>3, <2>1 DEF TimedInv, TimedTypeOK, RowsInUse
<1>11. TimedInv'
  <2>1. row.version > rows[i].version
    BY <1>3, <1>4, <1>8
  <2> HIDE DEF row, i, new
  <2> QED
    BY <1>1, <1>2, <1>7, <1>9, <1>10, <2>1, StoreKeeps
<1> HIDE DEF row
<1>12. ASSUME NEW id \in Ids, rows[id] # Null PROVE rows'[id].updatedAt >= rows[id].updatedAt
  <2>1. CASE id = i
    BY <1>1, <1>2, <1>4, <1>5, <1>8, <2>1 DEF TimedInv, TimedTypeOK
  <2>2. CASE id # i
    <3>1. rows'[id] = rows[id] /\ rows[id] \in Row
      BY <1>1, <1>12, <2>2 DEF TimedInv, TimedTypeOK
    <3> QED
      BY <3>1, TimedBoundAssumption DEF Row, Times
  <2> QED
    BY <2>1, <2>2
<1> QED
  BY <1>11, <1>12

-----------------------------------------------------------------------------
(* The theorems *)

\* No step takes a time of a stored row back.
Forward == \A id \in Ids : rows[id] # Null => rows'[id].updatedAt >= rows[id].updatedAt

\* Rows that are left alone do not go back.
LEMMA UnchangedIsForward ==
    ASSUME TimedInv, \A id \in Ids : rows[id] # Null => rows'[id] = rows[id]
    PROVE  Forward
<1> SUFFICES ASSUME NEW id \in Ids, rows[id] # Null
             PROVE  rows'[id].updatedAt >= rows[id].updatedAt
  BY DEF Forward
<1>1. rows'[id] = rows[id] /\ rows[id] \in Row
  BY DEF TimedInv, TimedTypeOK
<1> QED
  BY <1>1, TimedBoundAssumption DEF Row, Times

LEMMA NextKeeps ==
    ASSUME TimedInv, [TimedNext]_timedVars
    PROVE  TimedInv' /\ Forward
<1>1. ASSUME UNCHANGED rows PROVE Forward
  BY <1>1, UnchangedIsForward
<1>2. ASSUME NEW w \in Writers, Prepare(w) PROVE TimedInv' /\ UNCHANGED rows
  <2>1. ASSUME NEW team \in Teams, NEW status \in Wanted, NEW a \in Assignees \cup {Null},
               Create(w, team, status, a)
        PROVE  TimedInv' /\ UNCHANGED rows
    BY <2>1, CreateKeeps DEF Create
  <2>2. ASSUME NEW id \in Ids, NEW step \in {"update", "delete"}, Find(w, id, step)
        PROVE  TimedInv' /\ UNCHANGED rows
    BY <2>2, FindKeeps DEF Find
  <2>3. ASSUME NEW status \in Wanted, NEW a \in Assignees \cup {Null}, Change(w, status, a)
        PROVE  TimedInv' /\ UNCHANGED rows
    BY <2>3, ChangeKeeps DEF Change
  <2>4. ASSUME Stamp(w) PROVE TimedInv' /\ UNCHANGED rows
    BY <2>4, StampKeeps DEF Stamp
  <2>5. ASSUME StampDelete(w) PROVE TimedInv' /\ UNCHANGED rows
    BY <2>5, StampDeleteKeeps DEF StampDelete
  <2>6. ASSUME Drop(w) PROVE TimedInv' /\ UNCHANGED rows
    BY <2>6, LeaveKeeps DEF Drop
  <2> QED
    BY <1>2, <2>1, <2>2, <2>3, <2>4, <2>5, <2>6 DEF Prepare
<1>3. ASSUME NEW w \in Writers, Insert(w) PROVE TimedInv' /\ Forward
  BY <1>3, InsertKeeps, UnchangedIsForward
<1>4. ASSUME NEW w \in Writers, Write(w) PROVE TimedInv' /\ Forward
  BY <1>4, WriteKeeps DEF Forward
<1>5. ASSUME NEW w \in Writers, Respond(w) PROVE TimedInv' /\ UNCHANGED rows
  BY <1>5, LeaveKeeps DEF Respond
<1>6. ASSUME Pass PROVE TimedInv' /\ UNCHANGED rows
  BY <1>6, PassKeeps DEF Pass
<1>7. ASSUME UNCHANGED timedVars PROVE TimedInv' /\ UNCHANGED rows
  BY <1>7 DEF timedVars, TimedInv, TimedTypeOK, RowsInUse, TimesInOrder, Fits, Follows,
              InOrder, NearlyInOrder
<1> QED
  BY <1>1, <1>2, <1>3, <1>4, <1>5, <1>6, <1>7 DEF TimedNext

LEMMA InvAlways == TimedSpec => []TimedInv
<1>1. TimedInv /\ [TimedNext]_timedVars => TimedInv'
  BY NextKeeps
<1> QED
  BY InitInv, <1>1, PTL DEF TimedSpec

\* Times are times and NULLs are NULL (000001_init.up.sql:37-58).
THEOREM TypesAlways == TimedSpec => []TimedTypeOK
<1>1. TimedInv => TimedTypeOK
  BY DEF TimedInv
<1> QED
  BY InvAlways, <1>1, PTL

\* A task is closed exactly while it is done, not before it was created and not
\* after it was last updated, whichever requests took these times and however
\* late they stored them (service.go:251-265, 315-327).
THEOREM TimesAlwaysInOrder == TimedSpec => []TimesInOrder
<1>1. TimedInv => TimesInOrder
  BY DEF TimedInv
<1> QED
  BY InvAlways, <1>1, PTL

\* updated_at never goes back: the version is a lock for the time too
\* (repository/task.go:146-151).
THEOREM UpdatedNeverGoesBack == TimedSpec => UpdatedNeverBack
<1>1. TimedInv /\ [TimedNext]_timedVars =>
        [\A id \in Ids : rows[id] # Null => rows'[id].updatedAt >= rows[id].updatedAt]_timedVars
  BY NextKeeps DEF Forward
<1> QED
  BY InvAlways, <1>1, PTL DEF TimedSpec, UpdatedNeverBack
-----------------------------------------------------------------------------
(* The report beside the writers *)

(* A request that was not answered yet has no report. *)
AskInv ==
    /\ askPc \in [Askers -> {"idle", "role", "query"}]
    /\ askCall \in [Askers -> AskCalls \cup {Null}]
    /\ DOMAIN report = Askers
    /\ \A k \in Askers : askPc[k] # "idle" => askCall[k] \in AskCalls /\ report[k] = Null

(* No task of a team was updated after the team was last stored to. *)
StoredInv ==
    /\ stored \in [Teams -> Nat]
    /\ \A t \in Teams : stored[t] <= now
    /\ \A id \in Ids : rows[id] # Null => rows[id].updatedAt <= stored[rows[id].team]

StatsInv == TimedInv /\ AskInv /\ StoredInv

LEMMA InitStatsInv == StatsInit => StatsInv
<1> SUFFICES ASSUME StatsInit PROVE StatsInv
  OBVIOUS
<1>1. TimedInv
  BY InitInv DEF StatsInit
<1>2. AskInv
  BY DEF StatsInit, AskInv
<1>3. StoredInv
  BY DEF StatsInit, TimedInit, StoredInv
<1> QED
  BY <1>1, <1>2, <1>3 DEF StatsInv

LEMMA StatsStepKeepsTimed ==
    ASSUME StatsInv, [StatsNext]_statsVars
    PROVE  TimedInv'
<1>1. [TimedNext]_timedVars
  BY DEF StatsNext, statsVars
<1> QED
  BY <1>1, NextKeeps DEF StatsInv

LEMMA AskKeeps ==
    ASSUME AskInv, StatsNext
    PROVE  AskInv'
<1> USE DEF AskInv
<1>1. CASE UNCHANGED <<askPc, askCall, report>>
  BY <1>1
<1>2. ASSUME NEW k \in Askers, AskStep(k) PROVE AskInv'
  <2>1. ASSUME NEW c \in AskCalls, Ask(k, c) PROVE AskInv'
    BY <2>1 DEF Ask
  <2>2. ASSUME Allow(k) PROVE AskInv'
    BY <2>2 DEF Allow
  <2>3. ASSUME QueryStats(k) \/ Refuse(k) PROVE AskInv'
    BY <2>3 DEF QueryStats, Refuse, Reply
  <2> QED
    BY <1>2, <2>1, <2>2, <2>3 DEF AskStep
<1> QED
  BY <1>1, <1>2 DEF StatsNext

LEMMA ClockKeeps ==
    ASSUME TimedInv, TimedNext
    PROVE  now \in Nat /\ now' \in Nat /\ now <= now'
<1>1. now \in Nat
  BY TimedBoundAssumption DEF TimedInv, TimedTypeOK, Times
<1>2. now' = now \/ now' = now + 1
  BY DEF TimedNext, Prepare, Create, Find, Change, Stamp, StampDelete, Insert, Write, Drop,
         Respond, Pass
<1> QED
  BY <1>1, <1>2

LEMMA TeamsStay ==
    ASSUME TimedInv, TimedNext, TimedInv', NEW id \in Ids, rows'[id] # Null
    PROVE  /\ rows'[id].team \in Teams
           /\ rows'[id].updatedAt \in Nat /\ rows'[id].updatedAt <= now'
<1>1. rows'[id] \in Row /\ InOrder(rows[id])'
  BY DEF TimedInv, TimedTypeOK, TimesInOrder
<1> QED
  BY <1>1, TimedBoundAssumption DEF Row, Times, InOrder

LEMMA StoredKeeps ==
    ASSUME TimedInv, StoredInv, StatsNext
    PROVE  StoredInv'
<1>1. stored' = [t \in Teams |->
          IF \E id \in Ids : rows'[id] # rows[id] /\ rows'[id].team = t THEN now ELSE stored[t]]
  BY DEF StatsNext
<1>2. CASE UNCHANGED timedVars
  BY <1>1, <1>2 DEF timedVars, StoredInv, TimedInv, TimedTypeOK, Row
<1>3. CASE TimedNext
  <2>1. TimedInv'
    BY <1>3, NextKeeps
  <2>2. now \in Nat /\ now' \in Nat /\ now <= now'
    BY <1>3, ClockKeeps
  <2>3. stored' \in [Teams -> Nat]
    BY <1>1, <2>2 DEF StoredInv
  <2>4. ASSUME NEW t \in Teams PROVE stored'[t] <= now'
    BY <1>1, <2>2 DEF StoredInv
  <2>5. ASSUME NEW id \in Ids, rows'[id] # Null
        PROVE  rows'[id].updatedAt <= stored'[rows'[id].team]
    <3>1. /\ rows'[id].team \in Teams
          /\ rows'[id].updatedAt \in Nat /\ rows'[id].updatedAt <= now'
      BY <1>3, <2>1, <2>5, TeamsStay
    <3>2. CASE rows'[id] = rows[id]
      <4>1. rows[id].updatedAt <= stored[rows[id].team]
        BY <2>5, <3>2 DEF StoredInv
      <4>2. rows[id].updatedAt <= now
        BY <2>5, <3>2, <3>1, <4>1, <2>2 DEF StoredInv
      <4> QED
        BY <1>1, <3>1, <3>2, <4>1, <4>2
    <3>3. CASE rows'[id] # rows[id]
      <4>1. now' = now
        BY <1>3, <3>3
        DEF TimedNext, Prepare, Create, Find, Change, Stamp, StampDelete, Insert, Write,
            Drop, Respond, Pass
      <4>2. stored'[rows'[id].team] = now
        BY <1>1, <3>1, <3>3
      <4> QED
        BY <3>1, <4>1, <4>2
    <3> QED
      BY <3>2, <3>3
  <2> QED
    BY <2>3, <2>4, <2>5 DEF StoredInv
<1> QED
  BY <1>2, <1>3 DEF StatsNext

LEMMA StatsInvHolds == StatsSpec => []StatsInv
<1>1. StatsInv /\ [StatsNext]_statsVars => StatsInv'
  <2> SUFFICES ASSUME StatsInv, [StatsNext]_statsVars PROVE StatsInv'
    OBVIOUS
  <2>1. TimedInv'
    BY StatsStepKeepsTimed
  <2>2. CASE StatsNext
    BY <2>1, <2>2, AskKeeps, StoredKeeps DEF StatsInv
  <2>3. CASE UNCHANGED statsVars
    BY <2>1, <2>3 DEF StatsInv, AskInv, StoredInv, statsVars, timedVars
  <2> QED
    BY <2>2, <2>3
<1> QED
  BY InitStatsInv, <1>1, PTL DEF StatsSpec

(* Only the statement answers a request. *)
LEMMA AnswerIsStats ==
    ASSUME StatsInv, StatsNext, NEW k \in Askers, Answers(k)
    PROVE  report'[k] = StatsOf(askCall[k].team) /\ askCall[k].team \in Teams
<1>1. askPc[k] = "query" /\ report[k] = Null /\ report'[k] # Null /\ askCall[k] \in AskCalls
  BY DEF Answers, StatsInv, AskInv
<1>2. PICK j \in Askers : AskStep(j)
  BY <1>1 DEF StatsNext
<1>3. j = k
  BY <1>1, <1>2
  DEF StatsInv, AskInv, AskStep, Ask, Allow, QueryStats, Refuse, Reply
<1>4. QueryStats(k)
  BY <1>1, <1>2, <1>3
  DEF StatsInv, AskInv, AskStep, Ask, Allow, QueryStats, Refuse, Reply
<1> QED
  BY <1>1, <1>4 DEF QueryStats, Reply, StatsInv, AskInv, AskCalls

(* A task of a team that is left alone was not done lately. *)
LEMMA NoneDoneLately ==
    ASSUME StatsInv, NEW t \in Teams, now > stored[t] + Window, NEW u
    PROVE  DoneLately(t, u) = 0
<1>1. stored[t] \in Nat /\ Window \in Nat /\ now \in Nat
  BY StatsAssumption, TimedBoundAssumption
  DEF StatsInv, StoredInv, TimedInv, TimedTypeOK, Times
<1>2. ASSUME NEW id \in DoneBy(t, u), rows[id].closedAt # Null
      PROVE  ~(rows[id].closedAt >= now - Window)
  <2>1. id \in Ids /\ rows[id] # Null /\ rows[id].team = t
    BY <1>2 DEF DoneBy, TeamTasks, Live
  <2>2. rows[id] \in Row /\ InOrder(rows[id]) /\ rows[id].updatedAt <= stored[t]
    BY <2>1 DEF StatsInv, StoredInv, TimedInv, TimedTypeOK, TimesInOrder
  <2>3. /\ rows[id].closedAt \in Int /\ rows[id].updatedAt \in Int
        /\ rows[id].closedAt <= rows[id].updatedAt
    BY <1>2, <2>2, TimedBoundAssumption DEF Row, Times, InOrder
  <2> QED
    BY <1>1, <2>2, <2>3
<1>3. {id \in DoneBy(t, u) : rows[id].closedAt # Null
                              /\ rows[id].closedAt >= now - Window} = {}
  BY <1>2
<1> QED
  BY <1>3, FS_EmptySet DEF DoneLately

LEMMA NoTop ==
    ASSUME NEW t, \A u \in Assignees : DoneLately(t, u) = 0
    PROVE  StatsOf(t).topAssignees = <<>>
<1> DEFINE some == {u \in Assignees : DoneLately(t, u) > 0}
           ok(s) == \A i, j \in 1..Len(s) : i < j =>
                      \/ DoneLately(t, s[i]) > DoneLately(t, s[j])
                      \/ DoneLately(t, s[i]) = DoneLately(t, s[j]) /\ s[i] < s[j]
           all == CHOOSE s \in SetToSeqs(some) : ok(s)
           top == [i \in DOMAIN TopAssignees(t) |->
                     [user |-> TopAssignees(t)[i], closed |-> DoneLately(t, TopAssignees(t)[i])]]
<1>1. some = {}
  OBVIOUS
<1>2. SetToSeqs({}) = {<<>>}
  <2>1. ASSUME NEW f \in [1..0 -> {}] PROVE f = <<>>
    BY <2>1, EmptySeq
  <2>2. <<>> \in [1..0 -> {}]
    OBVIOUS
  <2> QED
    BY <2>1, <2>2, FS_EmptySet DEF SetToSeqs
<1>3. TopAssignees(t) = SubSeq(all, 1, IF TopSize < Len(all) THEN TopSize ELSE Len(all))
  BY DEF TopAssignees
<1>4. TopAssignees(t) = <<>>
  <2>1. ok(<<>>)
    OBVIOUS
  <2>2. SetToSeqs(some) = {<<>>}
    BY <1>1, <1>2
  <2> HIDE DEF some, ok
  <2>3. all = <<>>
    BY <2>1, <2>2
  <2> HIDE DEF all
  <2>4. TopAssignees(t) = SubSeq(<<>>, 1, 0)
    BY <1>3, <2>3, StatsAssumption
  <2> QED
    BY <2>4
<1>5. top \in [1..0 -> {}]
  BY <1>4
<1>6. top = <<>>
  BY <1>5, EmptySeq
<1> QED
  BY <1>6 DEF StatsOf

(* A team that is left alone for longer than the window has nobody in its    *)
(* top: a time of closing is not later than the moment it is stored          *)
(* (repository/stats.go:41-53).                                              *)
THEOREM IdleTeamsHaveNoTop == StatsSpec => IdleTeamHasNoTop
<1> DEFINE Idle(k) == Answers(k) /\ now > stored[askCall[k].team] + Window =>
                        report'[k].topAssignees = <<>>
<1>1. StatsInv /\ [StatsNext]_statsVars => [\A k \in Askers : Idle(k)]_statsVars
  <2> SUFFICES ASSUME StatsInv, StatsNext, NEW k \in Askers, Answers(k),
                      now > stored[askCall[k].team] + Window
               PROVE  report'[k].topAssignees = <<>>
    OBVIOUS
  <2>1. report'[k] = StatsOf(askCall[k].team) /\ askCall[k].team \in Teams
    BY AnswerIsStats
  <2>2. \A u \in Assignees : DoneLately(askCall[k].team, u) = 0
    BY <2>1, NoneDoneLately
  <2> QED
    BY <2>1, <2>2, NoTop
<1> QED
  BY <1>1, StatsInvHolds, PTL DEF StatsSpec, IdleTeamHasNoTop

(* The average of a report is over all the tasks that it counts as done: no  *)
(* task is done and has no time of closing (repository/stats.go:28-53).      *)
THEOREM AverageIsOverDone ==
    StatsSpec =>
      [][\A k \in Askers : Answers(k) =>
           report'[k].closeDuration.count = report'[k].tasksByStatus["done"]]_statsVars
<1> DEFINE Agree(k) == Answers(k) =>
                         report'[k].closeDuration.count = report'[k].tasksByStatus["done"]
<1>1. StatsInv /\ [StatsNext]_statsVars => [\A k \in Askers : Agree(k)]_statsVars
  <2> SUFFICES ASSUME StatsInv, StatsNext, NEW k \in Askers, Answers(k) PROVE Agree(k)
    OBVIOUS
  <2> DEFINE t == askCall[k].team
  <2>1. report'[k] = StatsOf(t)
    BY AnswerIsStats
  <2>2. Closed(t) = {id \in TeamTasks(t) : rows[id].status = "done"}
    BY DEF StatsInv, TimedInv, TimesInOrder, InOrder, Closed, TeamTasks, Live
  <2>3. StatsOf(t).closeDuration.count = Cardinality(Closed(t))
    BY DEF StatsOf, CloseDuration
  <2>4. StatsOf(t).tasksByStatus["done"] =
          Cardinality({id \in TeamTasks(t) : rows[id].status = "done"})
    BY DEF StatsOf, StatusCounts, Statuses
  <2> QED
    BY <2>1, <2>2, <2>3, <2>4
<1> QED
  BY <1>1, StatsInvHolds, PTL DEF StatsSpec
=============================================================================
