------------------------ MODULE CommentServiceProofs ------------------------
(***************************************************************************)
(* Theorems of CommentService, for every value of its constants: answers   *)
(* follow what they answer, lists are complete, and nobody comments or     *)
(* reads without access.                                                   *)
(***************************************************************************)
EXTENDS CommentService, TLAPS

CommentTypes ==
    /\ commentPc \in [Commenters -> {"idle", "find", "role", "stamp", "insert", "list"}]
    /\ commentCall \in [Commenters -> CommentCalls \cup {Null}]
    /\ taskTeam \in [Commenters -> Teams \cup {Null}]
    /\ stamp \in [Commenters -> (0..MaxClock) \cup {Null}]
    /\ commentReply \in [Commenters -> CommentOutcomes \cup {Null}]
    /\ listed \in [Commenters -> SUBSET CommentRow]
    /\ clock \in 0..MaxClock
    /\ earlier \in [CommentIds -> SUBSET CommentRow]
    /\ met \in [Commenters -> SUBSET {"visible", "member"}]

(* The ids of tasks are handed out once, and a deleted team has no members.    *)
TaskTablesOK ==
    /\ teams \in [Teams -> {"unused", "exists", "deleted"}]
    /\ members \in [Teams -> [Users -> Roles \cup {Null}]]
    /\ tasks \in [TaskIds -> TaskRow \cup {Null}]
    /\ lastTask \in 0..MaxTasks
    /\ \A id \in TaskIds : id > lastTask => tasks[id] = Null
    /\ \A t \in Teams : teams[t] = "deleted" => \A u \in Users : members[t][u] = Null

RowsOK ==
    /\ comments \subseteq CommentRow
    /\ lastComment \in 0..MaxComments
    /\ \A c, d \in comments : c.id = d.id => c = d
    /\ \A c \in comments : /\ tasks[c.task] # Null
                           /\ c.id <= lastComment /\ c.createdAt <= clock

(* What was answered is in the table, as it was answered, as long as its task's *)
(* row is there.                                                               *)
AnsweredOK(c) ==
    /\ c \in CommentRow
    /\ c.id <= lastComment /\ c.task <= lastTask /\ c.createdAt <= clock
    /\ c \in comments \/ tasks[c.task] = Null

(* Nobody was answered, before or now, a comment that is still to come.        *)
OrderOK ==
    /\ \A c \in answered : AnsweredOK(c)
    /\ \A c \in comments : earlier[c.id] \subseteq answered
    /\ AnswersFollow

(* A request that found its task in a team: the row goes with the team only.   *)
FoundOK(r) ==
    LET id == commentCall[r].task
    IN  /\ taskTeam[r] \in Teams /\ id <= lastTask
        /\ IF tasks[id] = Null THEN teams[taskTeam[r]] = "deleted"
                               ELSE tasks[id].team = taskTeam[r]

StampOK(r) ==
    /\ stamp[r] \in 0..clock
    /\ \A c \in known[r] : c.createdAt <= stamp[r]

CommenterOK(r) ==
    /\ known[r] \subseteq answered
    /\ commentPc[r] # "idle" =>
          /\ commentCall[r] \in CommentCalls /\ commentCall[r].task \in TaskIds
          /\ commentReply[r] = Null
    /\ commentPc[r] \in {"role", "stamp", "insert", "list"} =>
          FoundOK(r) /\ "visible" \in met[r]
    /\ commentPc[r] \in {"stamp", "insert", "list"} => "member" \in met[r]
    /\ commentPc[r] = "insert" => StampOK(r)

CInv ==
    /\ CommentTypes /\ TaskTablesOK /\ RowsOK /\ OrderOK
    /\ \A r \in Commenters : CommenterOK(r)

-----------------------------------------------------------------------------
(* What the statements of the other services leave to a request. *)

(* Rows keep their teams; a row goes with its team only, and for good.         *)
TablesMove ==
    /\ lastTask <= lastTask' /\ lastTask' \in Nat
    /\ \A t \in Teams : teams[t] = "deleted" => teams'[t] = "deleted"
    /\ \A id \in TaskIds :
          IF tasks[id] = Null THEN id <= lastTask => tasks'[id] = Null
          ELSE \/ tasks'[id] # Null /\ tasks'[id].team = tasks[id].team
               \/ tasks'[id] = Null /\ teams'[tasks[id].team] = "deleted"

LEMMA SameTables ==
    ASSUME TaskTablesOK, UNCHANGED tables
    PROVE  TaskTablesOK' /\ TablesMove
<1>1. UNCHANGED <<teams, members, tasks, lastTask>>
  BY DEF tables
<1>2. lastTask \in Nat
  BY MaxTasksAssumption DEF TaskTablesOK
<1> QED
  BY <1>1, <1>2 DEF TaskTablesOK, TablesMove

LEMMA StatementMoves ==
    ASSUME TaskTablesOK, OtherStatement
    PROVE  TaskTablesOK' /\ TablesMove
<1>1. lastTask \in Nat /\ MaxTasks \in Nat /\ TaskIds = 1..MaxTasks
  BY MaxTasksAssumption DEF TaskTablesOK, TaskIds
<1>2. ASSUME NEW t \in Teams, NEW u, CreateWithOwner(t, u), UNCHANGED taskTables
      PROVE  TaskTablesOK' /\ TablesMove
  <2>1. /\ teams' \in [Teams -> {"unused", "exists", "deleted"}]
        /\ \A s \in Teams : s # t => teams'[s] = teams[s] /\ members'[s] = members[s]
        /\ teams[t] = "unused" /\ teams'[t] = "exists"
    BY <1>2 DEF CreateWithOwner, TaskTablesOK
  <2>2. members' \in [Teams -> [Users -> Roles \cup {Null}]]
    BY <1>2 DEF CreateWithOwner, TaskTablesOK, Roles
  <2> QED
    BY <1>1, <1>2, <2>1, <2>2 DEF TaskTablesOK, TablesMove, taskTables
<1>3. ASSUME NEW t \in Teams, NEW u \in Users, UNCHANGED taskTables,
             AddMember(t, u, "member") \/ RemoveMember(t, u)
      PROVE  TaskTablesOK' /\ TablesMove
  <2>1. /\ teams' = teams /\ members' \in [Teams -> [Users -> Roles \cup {Null}]]
        /\ \A s \in Teams, v \in Users :
              members'[s][v] # Null => members[s][v] # Null \/ teams[s] = "exists"
    BY <1>3 DEF AddMember, RemoveMember, TeamExists, TaskTablesOK, Roles
  <2> QED
    BY <1>1, <1>3, <2>1 DEF TaskTablesOK, TablesMove, taskTables
<1>4. ASSUME NEW t \in Teams, DeleteTeam(t)
      PROVE  TaskTablesOK' /\ TablesMove
  <2>1. /\ \A s \in Teams : s # t => teams'[s] = teams[s] /\ members'[s] = members[s]
        /\ teams'[t] = "deleted" /\ members'[t] = [u \in Users |-> Null]
        /\ \A id \in TaskIds : tasks'[id] = IF id \in TeamTasks(t) THEN Null ELSE tasks[id]
        /\ lastTask' = lastTask
    BY <1>4 DEF DeleteTeam, TaskTablesOK
  <2>2. /\ teams' \in [Teams -> {"unused", "exists", "deleted"}]
        /\ members' \in [Teams -> [Users -> Roles \cup {Null}]]
        /\ tasks' \in [TaskIds -> TaskRow \cup {Null}]
    BY <1>4, <2>1 DEF DeleteTeam, TaskTablesOK
  <2>3. TaskTablesOK'
    BY <1>1, <2>1, <2>2 DEF TaskTablesOK
  <2>4. TablesMove
    BY <1>1, <2>1 DEF TablesMove, TeamTasks
  <2> QED
    BY <2>3, <2>4
<1>5. ASSUME NEW row \in TaskRow, NEW by, NEW changes, CreateWithHistory(row, by, changes),
             UNCHANGED teamTables
      PROVE  TaskTablesOK' /\ TablesMove
  <2>1. /\ lastTask' = lastTask + 1 /\ lastTask' \in 0..MaxTasks
        /\ tasks' = [tasks EXCEPT ![lastTask'] = row]
    BY <1>1, <1>5 DEF CreateWithHistory
  <2>2. tasks' \in [TaskIds -> TaskRow \cup {Null}]
        /\ \A id \in TaskIds : id # lastTask' => tasks'[id] = tasks[id]
    BY <2>1 DEF TaskTablesOK
  <2>3. tasks[lastTask'] = Null /\ lastTask' \in TaskIds
    BY <1>1, <2>1 DEF TaskTablesOK
  <2> QED
    BY <1>1, <1>5, <2>1, <2>2, <2>3 DEF TaskTablesOK, TablesMove, teamTables
<1>6. ASSUME NEW id \in TaskIds, NEW version, NEW by, SoftDeleteWithHistory(id, version, by),
             UNCHANGED teamTables
      PROVE  TaskTablesOK' /\ TablesMove
  <2>1. tasks[id] \in TaskRow /\ lastTask' = lastTask
    BY <1>6 DEF SoftDeleteWithHistory, Matches, Visible, TaskTablesOK
  <2> DEFINE row == [tasks[id] EXCEPT !.deletedAt = Time, !.version = tasks[id].version + 1]
  <2>2. row \in TaskRow /\ row.team = tasks[id].team /\ row # Null
    <3> DEFINE old == tasks[id]
    <3>1. old \in TaskRow /\ old.version + 1 \in Nat \ {0}
      BY <2>1 DEF TaskRow
    <3> HIDE DEF old
    <3>2. row \in TaskRow /\ row.team = old.team
      BY <3>1 DEF TaskRow, old
    <3> QED
      BY <3>2, NullRecordAssumption DEF old
  <2>3. tasks' = [tasks EXCEPT ![id] = row]
    BY <1>6 DEF SoftDeleteWithHistory
  <2> HIDE DEF row
  <2>4. /\ tasks' \in [TaskIds -> TaskRow \cup {Null}] /\ tasks'[id] = row
        /\ \A j \in TaskIds : j # id => tasks'[j] = tasks[j]
    BY <2>2, <2>3 DEF TaskTablesOK
  <2>5. tasks[id] # Null
    BY <2>1, NullRecordAssumption
  <2> QED
    BY <1>1, <1>6, <2>1, <2>2, <2>4, <2>5 DEF TaskTablesOK, TablesMove, teamTables
<1>7. ASSUME NEW t \in Teams, NEW u \in Users, NEW title \in Titles
      PROVE  [team |-> t, title |-> title, status |-> "todo", createdBy |-> u,
              assignee |-> Null, closedAt |-> Null, version |-> 1,
              deletedAt |-> Null] \in TaskRow
  BY DEF TaskRow, Statuses
<1> QED
  BY <1>2, <1>3, <1>4, <1>5, <1>6, <1>7 DEF OtherStatement

-----------------------------------------------------------------------------
(* What each step leaves to the requests that it is not of. *)

Kept(r) ==
    /\ commentPc'[r] = commentPc[r] /\ commentCall'[r] = commentCall[r]
    /\ taskTeam'[r] = taskTeam[r] /\ stamp'[r] = stamp[r]
    /\ commentReply'[r] = commentReply[r]

(* Ids and the clock do not go back, and what was answered stays so.           *)
RowsMove ==
    /\ lastComment <= lastComment' /\ {lastComment, lastComment'} \subseteq Nat
    /\ answered \subseteq answered'
    /\ clock <= clock' /\ {clock, clock'} \subseteq Nat

LEMMA KeptOK ==
    ASSUME CInv, Witness, TablesMove, RowsMove, NEW r \in Commenters, Kept(r)
    PROVE  CommenterOK(r)'
<1>1. CommentTypes /\ TaskTablesOK /\ CommenterOK(r)
  BY DEF CInv
<1>2. CASE commentPc[r] = "idle"
  <2>1. known'[r] = {} /\ commentPc'[r] = "idle"
    BY <1>2 DEF Kept, Witness
  <2> QED
    BY <2>1 DEF CommenterOK
<1>3. CASE commentPc[r] # "idle"
  <2>1. /\ known'[r] = known[r] /\ met'[r] = met[r] \cup Holds(r)'
        /\ commentPc'[r] = commentPc[r]
    BY <1>3 DEF Kept, Witness
  <2>2. known'[r] \subseteq answered'
    BY <1>1, <2>1 DEF CommenterOK, RowsMove
  <2>3. ASSUME commentPc[r] \in {"role", "stamp", "insert", "list"} PROVE FoundOK(r)'
    <3> DEFINE id == commentCall[r].task
               t == taskTeam[r]
    <3>1. /\ id \in TaskIds /\ t \in Teams /\ id <= lastTask
          /\ IF tasks[id] = Null THEN teams[t] = "deleted" ELSE tasks[id].team = t
      BY <1>1, <1>3, <2>3 DEF CommenterOK, FoundOK
    <3>2. commentCall'[r].task = id /\ taskTeam'[r] = t
      BY DEF Kept
    <3> HIDE DEF id, t
    <3>3. id <= lastTask'
      <4>1. lastTask \in Nat /\ id \in Int
        BY <1>1, <3>1, MaxTasksAssumption DEF TaskTablesOK, TaskIds
      <4> QED
        BY <3>1, <4>1 DEF TablesMove
    <3>4. IF tasks'[id] = Null THEN teams'[t] = "deleted" ELSE tasks'[id].team = t
      BY <3>1 DEF TablesMove
    <3> QED
      BY <3>1, <3>2, <3>3, <3>4 DEF FoundOK
  <2>4. ASSUME commentPc[r] = "insert" PROVE StampOK(r)'
    <3>1. StampOK(r) /\ stamp'[r] = stamp[r]
      BY <1>1, <2>4 DEF CommenterOK, Kept
    <3>2. stamp[r] \in 0..clock'
      BY <3>1 DEF StampOK, RowsMove
    <3> QED
      BY <2>1, <3>1, <3>2 DEF StampOK
  <2> QED
    BY <1>1, <1>3, <2>1, <2>2, <2>3, <2>4 DEF CommenterOK, Kept
<1> QED
  BY <1>2, <1>3

LEMMA EndedOK ==
    ASSUME Witness, NEW r \in Commenters, commentPc'[r] = "idle"
    PROVE  CommenterOK(r)'
<1>1. known'[r] = {}
  BY DEF Witness
<1> QED
  BY <1>1 DEF CommenterOK

\* The history variables, and the rest of the types.
LEMMA WitnessTypes ==
    ASSUME CInv, Witness
    PROVE  /\ met' \in [Commenters -> SUBSET {"visible", "member"}]
           /\ earlier' \in [CommentIds -> SUBSET CommentRow]
           /\ answered \subseteq answered'
           /\ ~(\E r \in Commenters : commentPc[r] = "insert" /\ commentReply'[r] = "ok")
                 => answered' = answered
           /\ lastComment' = lastComment => earlier' = earlier
<1>1. CommentTypes /\ \A r \in Commenters : known[r] \subseteq CommentRow
  BY DEF CInv, CommenterOK, OrderOK, AnsweredOK
<1>2. \A r \in Commenters : Holds(r)' \subseteq {"visible", "member"}
  BY DEF Holds
<1>3. met' \in [Commenters -> SUBSET {"visible", "member"}]
  BY <1>1, <1>2 DEF Witness, CommentTypes
<1>4. earlier' \in [CommentIds -> SUBSET CommentRow]
  BY <1>1 DEF Witness, CommentTypes
<1>5. ASSUME lastComment' = lastComment PROVE earlier' = earlier
  BY <1>1, <1>5 DEF Witness, CommentTypes
<1>6. answered \subseteq answered'
  BY DEF Witness
<1>7. ASSUME ~(\E r \in Commenters : commentPc[r] = "insert" /\ commentReply'[r] = "ok")
      PROVE  answered' = answered
  BY <1>7 DEF Witness
<1> QED
  BY <1>3, <1>4, <1>5, <1>6, <1>7

\* Steps that store nothing.
LEMMA RowsKeptOK ==
    ASSUME CInv, TablesMove, comments' \subseteq comments, lastComment' = lastComment,
           answered' = answered, earlier' = earlier, clock <= clock', clock' \in 0..MaxClock,
           \A c \in comments' : tasks'[c.task] # Null,
           \A c \in comments : c \in comments' \/ tasks'[c.task] = Null
    PROVE  RowsOK' /\ OrderOK' /\ RowsMove
<1>1. CommentTypes /\ RowsOK /\ OrderOK /\ TaskTablesOK
  BY DEF CInv
<1>2. clock \in Nat /\ clock' \in Nat /\ lastComment \in Nat
  BY <1>1, CommentBoundAssumption DEF CommentTypes, RowsOK
<1>3. \A c \in CommentRow : c.createdAt \in Nat /\ c.task \in TaskIds /\ c.task \in Nat
  BY CommentBoundAssumption, MaxTasksAssumption DEF CommentRow, TaskIds
<1>4. RowsOK'
  BY <1>1, <1>2, <1>3 DEF RowsOK
<1>5. ASSUME NEW c \in answered PROVE AnsweredOK(c)'
  <2>1. /\ c \in CommentRow /\ c.id <= lastComment /\ c.task <= lastTask
        /\ c.createdAt <= clock /\ (c \in comments \/ tasks[c.task] = Null)
    BY <1>1 DEF OrderOK, AnsweredOK
  <2>2. c.task <= lastTask' /\ c.createdAt <= clock'
    <3>1. lastTask \in Nat
      BY <1>1, MaxTasksAssumption DEF TaskTablesOK
    <3> QED
      BY <1>2, <1>3, <2>1, <3>1 DEF TablesMove
  <2>3. c \in comments' \/ tasks'[c.task] = Null
    BY <1>3, <2>1 DEF TablesMove
  <2> QED
    BY <2>1, <2>2, <2>3 DEF AnsweredOK
<1>6. OrderOK'
  BY <1>1, <1>5 DEF OrderOK, AnswersFollow
<1> QED
  BY <1>2, <1>4, <1>6 DEF RowsMove

\* A new comment is later than those its author had been answered
\* (comment/service.go:55-60).
LEMMA RowsStoredOK ==
    ASSUME CInv, Witness, NEW r \in Commenters, Store(r), UNCHANGED <<tables, clock>>,
           commentPc'[r] = "idle", \A s \in Commenters \ {r} : Kept(s)
    PROVE  RowsOK' /\ OrderOK' /\ RowsMove
<1> DEFINE id == lastComment + 1
           new == [id |-> id, task |-> commentCall[r].task,
                   user |-> commentCall[r].actor, createdAt |-> stamp[r]]
<1>1. CommentTypes /\ RowsOK /\ OrderOK /\ CommenterOK(r) /\ StampOK(r)
  BY DEF CInv, CommenterOK, Store
<1>2. /\ lastComment \in Nat /\ id \in CommentIds /\ MaxComments \in Nat
      /\ clock \in Nat /\ clock <= MaxClock /\ MaxClock \in Nat
  BY <1>1, CommentBoundAssumption DEF RowsOK, Store, CommentIds, CommentTypes
<1>3. /\ lastComment' = id /\ comments' = comments \cup {new}
      /\ tasks[commentCall[r].task] # Null /\ UNCHANGED <<tasks, clock>>
  BY DEF Store, tables
<1>4. /\ new \in CommentRow /\ new.id = id /\ new.task = commentCall[r].task
      /\ new.createdAt = stamp[r] /\ stamp[r] \in 0..clock
  <2>1. /\ commentCall[r].task \in TaskIds /\ commentCall[r].actor \in Users
    BY <1>1 DEF CommenterOK, Store, CommentCalls, CommentCall
  <2>2. stamp[r] \in 0..clock /\ stamp[r] \in 0..MaxClock
    BY <1>1, <1>2 DEF StampOK
  <2> QED
    BY <1>2, <2>1, <2>2 DEF CommentRow
<1> HIDE DEF new
<1>5. \A c \in comments : c.id \in Nat /\ c.id < id
  BY <1>1, <1>2 DEF RowsOK, CommentRow, CommentIds
<1>6. RowsOK'
  <2>1. ASSUME NEW c \in comments', NEW d \in comments', c.id = d.id PROVE c = d
    BY <1>1, <1>2, <1>3, <1>4, <1>5, <2>1 DEF RowsOK
  <2>2. ASSUME NEW c \in comments'
        PROVE  tasks'[c.task] # Null /\ c.id <= lastComment' /\ c.createdAt <= clock'
    <3>1. CASE c \in comments
      BY <1>1, <1>2, <1>3, <1>5, <3>1 DEF RowsOK
    <3>2. CASE c = new
      BY <1>2, <1>3, <1>4, <3>2
    <3> QED
      BY <1>3, <2>2, <3>1, <3>2
  <2>3. comments' \subseteq CommentRow /\ lastComment' \in 0..MaxComments
    BY <1>1, <1>2, <1>3, <1>4 DEF RowsOK, CommentIds
  <2> QED
    BY <2>1, <2>2, <2>3 DEF RowsOK
<1>7. earlier'[id] = known[r] /\ \A i \in CommentIds \ {id} : earlier'[i] = earlier[i]
  <2>1. {s \in Commenters : commentPc[s] = "insert" /\ commentPc'[s] = "idle"} = {r}
    BY DEF Store, Kept
  <2>2. lastComment' # lastComment
    BY <1>2, <1>3
  <2>3. \A i \in CommentIds :
           earlier'[i] = IF i = id THEN UNION {known[s] : s \in {r}} ELSE earlier[i]
    BY <1>3, <2>1, <2>2 DEF Witness
  <2>4. UNION {known[s] : s \in {r}} = known[r]
    OBVIOUS
  <2> QED
    BY <1>2, <2>3, <2>4
<1>8. answered \subseteq answered' /\ answered' \subseteq answered \cup {new}
  <2>1. ASSUME NEW s \in Commenters, commentPc[s] = "insert", commentReply'[s] = "ok"
        PROVE  s = r
    BY <2>1, NoReplyAssumption DEF CInv, CommenterOK, Kept, CommentOutcomes
  <2>2. Answer(r) = new
    BY <1>3 DEF Answer, new
  <2> QED
    BY <2>1, <2>2 DEF Witness
<1>9. OrderOK'
  <2>1. ASSUME NEW c \in answered' PROVE AnsweredOK(c)'
    <3>1. CASE c \in answered
      <4>1. AnsweredOK(c) /\ c.id \in Nat
        BY <1>1, <3>1 DEF OrderOK, AnsweredOK, CommentRow, CommentIds
      <4> QED
        BY <1>2, <1>3, <4>1 DEF AnsweredOK, tables
    <3>2. CASE c = new
      <4>1. commentCall[r].task <= lastTask /\ lastTask' = lastTask
        BY <1>1 DEF CommenterOK, Store, FoundOK, tables
      <4> QED
        BY <1>2, <1>3, <1>4, <3>2, <4>1 DEF AnsweredOK
    <3> QED
      BY <1>8, <2>1, <3>1, <3>2
  <2>2. ASSUME NEW d \in comments'
        PROVE  earlier'[d.id] \subseteq answered' /\ \A c \in earlier'[d.id] : Precedes(c, d)
    <3>1. CASE d \in comments
      <4>1. d.id \in CommentIds \ {id}
        BY <1>1, <1>5, <3>1 DEF RowsOK, CommentRow
      <4> QED
        BY <1>1, <1>7, <1>8, <3>1, <4>1 DEF OrderOK, AnswersFollow
    <3>2. CASE d = new
      <4>1. earlier'[d.id] = known[r] /\ known[r] \subseteq answered
        BY <1>1, <1>4, <1>7, <3>2 DEF CommenterOK
      <4>2. ASSUME NEW c \in known[r] PROVE Precedes(c, d)
        <5>1. /\ c.createdAt <= stamp[r] /\ c.id <= lastComment
              /\ c.id \in Nat /\ c.createdAt \in Nat /\ stamp[r] \in Nat
          BY <1>1, <1>2, <4>1, CommentBoundAssumption
          DEF StampOK, OrderOK, AnsweredOK, CommentRow, CommentIds
        <5> QED
          BY <1>2, <1>4, <3>2, <5>1 DEF Precedes
      <4> QED
        BY <1>8, <4>1, <4>2
    <3> QED
      BY <1>3, <2>2, <3>1, <3>2
  <2> QED
    BY <2>1, <2>2 DEF OrderOK, AnswersFollow
<1>10. RowsMove
  BY <1>2, <1>3, <1>8 DEF RowsMove
<1> QED
  BY <1>6, <1>9, <1>10

-----------------------------------------------------------------------------
(* The steps of a request *)

\* What a step of request r does, beside its own variables.
LEMMA StepShape ==
    ASSUME CInv, NEW r \in Commenters,
           (\E c \in CommentCalls : CommentReject(r, c) \/ CommentBegin(r, c)) \/ CommentStep(r)
    PROVE  /\ \A s \in Commenters \ {r} : Kept(s)
           /\ \/ /\ UNCHANGED commentTables
                 /\ commentPc[r] = "insert" => commentReply'[r] # "ok"
              \/ Store(r) /\ commentPc'[r] = "idle"
<1>1. CommentTypes
  BY DEF CInv
<1>2. ASSUME NEW outcome, NEW rows, CommentFinish(r, outcome, rows)
      PROVE  commentPc'[r] = "idle" /\ \A s \in Commenters \ {r} : Kept(s)
  BY <1>1, <1>2 DEF CommentFinish, CommentTypes, Kept
<1>3. ASSUME NEW c \in CommentCalls, CommentReject(r, c) \/ CommentBegin(r, c)
      PROVE  UNCHANGED commentTables /\ \A s \in Commenters \ {r} : Kept(s)
  BY <1>1, <1>2, <1>3 DEF CommentReject, CommentBegin, CommentTypes, Kept
<1>4. FindTask(r) => UNCHANGED commentTables /\ \A s \in Commenters \ {r} : Kept(s)
  BY <1>1, <1>2 DEF FindTask, CommentGoto, CommentTypes, Kept
<1>5. CheckMember(r) => UNCHANGED commentTables /\ \A s \in Commenters \ {r} : Kept(s)
  BY <1>1, <1>2 DEF CheckMember, CommentGoto, CommentTypes, Kept
<1>6. TakeTime(r) => UNCHANGED commentTables /\ \A s \in Commenters \ {r} : Kept(s)
  BY <1>1 DEF TakeTime, CommentGoto, CommentTypes, Kept
<1>7. Insert(r) \/ InsertUnknown(r) =>
         Store(r) /\ commentPc'[r] = "idle" /\ \A s \in Commenters \ {r} : Kept(s)
  BY <1>2 DEF Insert, InsertUnknown
<1>8. ListComments(r) \/ CommentFails(r) =>
         UNCHANGED commentTables /\ \A s \in Commenters \ {r} : Kept(s)
  BY <1>2 DEF ListComments, CommentFails
<1>9. CommentFails(r) => commentReply'[r] # "ok"
  BY <1>1 DEF CommentFails, CommentFinish, CommentTypes
<1>10. commentPc[r] = "insert" => Insert(r) \/ InsertUnknown(r) \/ CommentFails(r)
  BY DEF CommentReject, CommentBegin, CommentStep, FindTask, CheckMember, TakeTime, ListComments
<1> QED
  BY <1>3, <1>4, <1>5, <1>6, <1>7, <1>8, <1>9, <1>10 DEF CommentStep

LEMMA StepCommentTypes ==
    ASSUME CInv, Witness, NEW r \in Commenters, clock' = clock,
           (\E c \in CommentCalls : CommentReject(r, c) \/ CommentBegin(r, c)) \/ CommentStep(r)
    PROVE  CommentTypes'
<1>1. CommentTypes /\ CommenterOK(r) /\ RowsOK /\ TaskTablesOK
  BY DEF CInv
<1>2. ASSUME NEW outcome \in CommentOutcomes, NEW rows \in SUBSET CommentRow,
             CommentFinish(r, outcome, rows)
      PROVE  CommentTypes'
  BY <1>1, <1>2, WitnessTypes DEF CommentFinish, CommentTypes
<1>3. {} \in SUBSET CommentRow
      /\ {"ok", "invalid_input", "forbidden", "not_found", "error"} \subseteq CommentOutcomes
  BY DEF CommentOutcomes
<1>4. ASSUME NEW c \in CommentCalls, CommentReject(r, c) \/ CommentBegin(r, c)
      PROVE  CommentTypes'
  <2>1. CommentReject(r, c) => CommentTypes'
    BY <1>2, <1>3 DEF CommentReject
  <2>2. CommentBegin(r, c) => CommentTypes'
    BY <1>1, WitnessTypes DEF CommentBegin, CommentTypes
  <2> QED
    BY <1>4, <2>1, <2>2
<1>5. FindTask(r) => CommentTypes'
  <2>1. FindByID(commentCall[r].task) # Null => FindByID(commentCall[r].task).team \in Teams
    BY <1>1 DEF FindByID, Visible, TaskTablesOK, TaskRow
  <2> QED
    BY <1>1, <1>2, <1>3, <2>1, WitnessTypes DEF FindTask, CommentGoto, CommentTypes
<1>6. CheckMember(r) => CommentTypes'
  BY <1>1, <1>2, <1>3, WitnessTypes DEF CheckMember, CommentGoto, CommentTypes
<1>7. TakeTime(r) => CommentTypes'
  BY <1>1, WitnessTypes DEF TakeTime, CommentGoto, CommentTypes
<1>8. Insert(r) \/ InsertUnknown(r) \/ CommentFails(r) => CommentTypes'
  BY <1>2, <1>3 DEF Insert, InsertUnknown, CommentFails
<1>9. ListComments(r) => CommentTypes'
  <2>1. {c \in comments : c.task = commentCall[r].task} \in SUBSET CommentRow
    BY <1>1 DEF RowsOK
  <2> QED
    BY <1>2, <1>3, <2>1 DEF ListComments
<1> QED
  BY <1>4, <1>5, <1>6, <1>7, <1>8, <1>9 DEF CommentStep

\* What the checks of accessibleTask find is met from then on
\* (comment/service.go:76-91).
LEMMA OwnStepOK ==
    ASSUME CInv, Witness, NEW r \in Commenters, UNCHANGED <<tables, clock>>,
           (\E c \in CommentCalls : CommentReject(r, c) \/ CommentBegin(r, c)) \/ CommentStep(r),
           RowsMove
    PROVE  CommenterOK(r)'
<1>1. CommentTypes /\ CommenterOK(r) /\ RowsOK /\ TaskTablesOK /\ OrderOK
  BY DEF CInv
<1>2. UNCHANGED <<teams, members, tasks, lastTask, clock>>
  BY DEF tables
<1> SUFFICES ASSUME commentPc'[r] # "idle" PROVE CommenterOK(r)'
  BY EndedOK
<1>3. \A outcome, rows : ~CommentFinish(r, outcome, rows)
  BY <1>1 DEF CommentFinish, CommentTypes
<1>4. known'[r] = IF commentPc[r] = "idle" THEN answered ELSE known[r]
  BY DEF Witness
<1>5. known'[r] \subseteq answered'
  BY <1>1, <1>4 DEF CommenterOK, RowsMove
<1>6. met'[r] = met[r] \cup Holds(r)'
  BY DEF Witness
<1>7. ASSUME NEW c \in CommentCalls, CommentReject(r, c) \/ CommentBegin(r, c)
      PROVE  CommenterOK(r)'
  <2>1. CommentBegin(r, c)
    BY <1>3, <1>7 DEF CommentReject
  <2>2. /\ commentPc'[r] = "find" /\ commentCall'[r] = c /\ commentReply'[r] = Null
        /\ c.task # 0
    BY <1>1, <2>1 DEF CommentBegin, CommentTypes, CommentMalformed
  <2>3. c.task \in TaskIds
    BY <2>2, MaxTasksAssumption DEF CommentCalls, CommentCall, TaskIds
  <2> QED
    BY <1>5, <2>2, <2>3 DEF CommenterOK
<1>8. CASE FindTask(r)
  <2> DEFINE id == commentCall[r].task
  <2>1. /\ commentPc[r] = "find" /\ FindByID(id) # Null
        /\ commentPc'[r] = "role" /\ taskTeam'[r] = FindByID(id).team
        /\ commentCall'[r] = commentCall[r] /\ commentReply'[r] = commentReply[r]
    BY <1>1, <1>3, <1>8 DEF FindTask, CommentGoto, CommentTypes
  <2>2. /\ id \in TaskIds /\ Visible(id) /\ FindByID(id) = tasks[id] /\ tasks[id] # Null
        /\ commentCall[r] \in CommentCalls /\ commentReply[r] = Null
    BY <1>1, <2>1 DEF FindByID, Visible, CommenterOK
  <2>3. tasks[id].team \in Teams /\ id <= lastTask
    BY <1>1, <2>2, MaxTasksAssumption DEF TaskTablesOK, TaskRow, TaskIds
  <2>4. "visible" \in Holds(r)'
    BY <1>2, <2>1, <2>2 DEF Holds, Visible
  <2>5. FoundOK(r)'
    BY <1>2, <2>1, <2>2, <2>3 DEF FoundOK
  <2> QED
    BY <1>5, <1>6, <2>1, <2>2, <2>4, <2>5 DEF CommenterOK
<1>9. CASE CheckMember(r)
  <2> DEFINE id == commentCall[r].task
             t == taskTeam[r]
             u == commentCall[r].actor
  <2>1. /\ commentPc[r] = "role" /\ MemberRole(t, u) # Null
        /\ commentPc'[r] \in {"stamp", "list"}
        /\ commentCall'[r] = commentCall[r] /\ commentReply'[r] = commentReply[r]
    BY <1>1, <1>3, <1>9 DEF CheckMember, CommentGoto, CommentTypes
  <2>2. /\ id \in TaskIds /\ FoundOK(r) /\ u \in Users /\ "visible" \in met[r]
        /\ commentCall[r] \in CommentCalls /\ commentReply[r] = Null
    BY <1>1, <2>1 DEF CommenterOK, CommentCalls, CommentCall
  <2>3. tasks[id] # Null /\ tasks[id].team = t
    BY <1>1, <2>1, <2>2 DEF FoundOK, MemberRole, TaskTablesOK
  <2>4. "member" \in Holds(r)'
    BY <1>2, <2>1, <2>3 DEF Holds, MemberRole
  <2>5. taskTeam'[r] = taskTeam[r]
    BY <1>3, <1>9 DEF CheckMember
  <2>6. FoundOK(r)'
    BY <1>2, <2>1, <2>2, <2>5 DEF FoundOK
  <2> QED
    BY <1>5, <1>6, <2>1, <2>2, <2>4, <2>6 DEF CommenterOK
<1>10. CASE TakeTime(r)
  <2>1. /\ commentPc[r] = "stamp" /\ commentPc'[r] = "insert" /\ stamp'[r] = clock
        /\ commentCall'[r] = commentCall[r] /\ commentReply'[r] = commentReply[r]
        /\ taskTeam'[r] = taskTeam[r]
    BY <1>1, <1>10 DEF TakeTime, CommentGoto, CommentTypes
  <2>2. clock \in Nat
    BY <1>1, CommentBoundAssumption DEF CommentTypes
  <2>3. known'[r] = known[r] /\ \A c \in known[r] : c.createdAt <= clock
    BY <1>1, <1>4, <2>1 DEF CommenterOK, OrderOK, AnsweredOK
  <2>4. StampOK(r)'
    BY <1>2, <2>1, <2>2, <2>3 DEF StampOK
  <2>5. FoundOK(r)'
    BY <1>1, <1>2, <2>1 DEF CommenterOK, FoundOK
  <2> QED
    BY <1>1, <1>5, <1>6, <2>1, <2>4, <2>5 DEF CommenterOK
<1> QED
  BY <1>3, <1>7, <1>8, <1>9, <1>10
  DEF CommentStep, Insert, InsertUnknown, ListComments, CommentFails

LEMMA CommentStepOK ==
    ASSUME CInv, Witness, NEW r \in Commenters, UNCHANGED <<tables, clock>>,
           (\E c \in CommentCalls : CommentReject(r, c) \/ CommentBegin(r, c)) \/ CommentStep(r)
    PROVE  CInv'
<1>1. CommentTypes' /\ TaskTablesOK' /\ TablesMove
  BY StepCommentTypes, SameTables DEF CInv
<1>2. /\ \A s \in Commenters \ {r} : Kept(s)
      /\ \/ UNCHANGED commentTables /\ (commentPc[r] = "insert" => commentReply'[r] # "ok")
         \/ Store(r) /\ commentPc'[r] = "idle"
  BY StepShape
<1>3. RowsOK' /\ OrderOK' /\ RowsMove
  <2>1. CASE UNCHANGED commentTables /\ (commentPc[r] = "insert" => commentReply'[r] # "ok")
    <3>1. /\ comments' = comments /\ lastComment' = lastComment /\ tasks' = tasks
          /\ clock' = clock /\ clock \in 0..MaxClock /\ clock <= clock
          /\ \A c \in comments : tasks[c.task] # Null
      BY <2>1, CommentBoundAssumption DEF CInv, CommentTypes, RowsOK, commentTables, tables
    <3>2. ASSUME NEW s \in Commenters, commentPc[s] = "insert", commentReply'[s] = "ok"
          PROVE  FALSE
      BY <1>2, <2>1, <3>2, NoReplyAssumption DEF CInv, CommenterOK, Kept, CommentOutcomes
    <3>3. answered' = answered /\ earlier' = earlier
      BY <3>1, <3>2, WitnessTypes
    <3> QED
      BY <1>1, <3>1, <3>3, RowsKeptOK
  <2>2. CASE Store(r) /\ commentPc'[r] = "idle"
    BY <1>2, <2>2, RowsStoredOK
  <2> QED
    BY <1>2, <2>1, <2>2
<1>4. \A s \in Commenters : CommenterOK(s)'
  BY <1>1, <1>2, <1>3, KeptOK, OwnStepOK
<1> QED
  BY <1>1, <1>3, <1>4 DEF CInv

-----------------------------------------------------------------------------
(* The steps of the others, the clock, and a crash *)

LEMMA AsideOK ==
    ASSUME CInv, Witness, UNCHANGED commentVars \/ CommentCrash,
           \/ OtherStatement /\ comments' = Cascade /\ UNCHANGED <<lastComment, clock>>
           \/ UNCHANGED <<tables, commentTables>> /\ (Tick \/ UNCHANGED clock)
    PROVE  CInv'
<1>1. CommentTypes /\ TaskTablesOK /\ RowsOK
  BY DEF CInv
<1>2. clock <= clock' /\ clock' \in 0..MaxClock
  BY <1>1, CommentBoundAssumption DEF CommentTypes, Tick
<1>3. CommentTypes'
  <2>1. CASE UNCHANGED commentVars
    BY <1>1, <1>2, <2>1, WitnessTypes DEF CommentTypes, commentVars
  <2>2. CASE CommentCrash
    BY <1>1, <1>2, <2>2, WitnessTypes DEF CommentTypes, CommentCrash
  <2> QED
    BY <2>1, <2>2
<1>4. TaskTablesOK' /\ TablesMove
  BY <1>1, SameTables, StatementMoves
<1>5. /\ comments' \subseteq comments /\ lastComment' = lastComment
      /\ \A c \in comments' : tasks'[c.task] # Null
      /\ \A c \in comments : c \in comments' \/ tasks'[c.task] = Null
  BY <1>1 DEF Cascade, RowsOK, commentTables, tables
<1>6. RowsOK' /\ OrderOK' /\ RowsMove
  <2>1. ASSUME NEW s \in Commenters, commentPc[s] = "insert", commentReply'[s] = "ok"
        PROVE  FALSE
    BY <2>1, NoReplyAssumption
    DEF CInv, CommenterOK, CommentOutcomes, commentVars, CommentCrash
  <2>2. answered' = answered /\ earlier' = earlier
    BY <1>5, <2>1, WitnessTypes
  <2> QED
    BY <1>2, <1>4, <1>5, <2>2, RowsKeptOK
<1>7. ASSUME NEW r \in Commenters PROVE CommenterOK(r)'
  <2>1. CASE UNCHANGED commentVars
    <3>1. Kept(r)
      BY <2>1 DEF commentVars, Kept
    <3> QED
      BY <1>4, <1>6, <3>1, KeptOK
  <2>2. CASE CommentCrash
    BY <2>2, EndedOK DEF CommentCrash
  <2> QED
    BY <2>1, <2>2
<1> QED
  BY <1>3, <1>4, <1>6, <1>7 DEF CInv

LEMMA CommentUnchangedOK ==
    ASSUME CInv, UNCHANGED allVars
    PROVE  CInv'
<1>1. /\ UNCHANGED tables /\ UNCHANGED commentTables /\ UNCHANGED clock
      /\ UNCHANGED commentVars /\ UNCHANGED witnesses
  BY DEF allVars
<1>2. CommentTypes' /\ TaskTablesOK' /\ RowsOK' /\ OrderOK'
  BY <1>1 DEF CInv, CommentTypes, TaskTablesOK, RowsOK, OrderOK, AnsweredOK, AnswersFollow,
     tables, commentTables, commentVars, witnesses
<1>3. \A r \in Commenters : CommenterOK(r)'
  BY <1>1 DEF CInv, CommenterOK, FoundOK, StampOK, tables, commentVars, witnesses
<1> QED
  BY <1>2, <1>3 DEF CInv

LEMMA CommentNextOK ==
    ASSUME CInv, [CommentNext]_allVars
    PROVE  CInv'
<1>1. CASE UNCHANGED allVars
  BY <1>1, CommentUnchangedOK
<1>2. CASE CommentNext
  <2>1. Witness
    BY <1>2 DEF CommentNext
  <2>2. ASSUME NEW r \in Commenters, UNCHANGED <<tables, clock>>,
               \/ \E c \in CommentCalls : CommentReject(r, c) \/ CommentBegin(r, c)
               \/ CommentStep(r)
        PROVE  CInv'
    BY <2>1, <2>2, CommentStepOK
  <2>3. CASE OtherStatement /\ comments' = Cascade /\ UNCHANGED <<lastComment, clock, commentVars>>
    BY <2>1, <2>3, AsideOK
  <2>4. CASE Tick /\ UNCHANGED <<tables, commentTables, commentVars>>
    BY <2>1, <2>4, AsideOK
  <2>5. CASE CommentCrash /\ UNCHANGED <<tables, commentTables, clock>>
    BY <2>1, <2>5, AsideOK
  <2> QED
    BY <1>2, <2>2, <2>3, <2>4, <2>5 DEF CommentNext
<1> QED
  BY <1>1, <1>2

LEMMA CommentInitOK ==
    ASSUME CommentInit
    PROVE  CInv
<1>1. CommentTypes
  BY CommentBoundAssumption DEF CommentInit, CommentTypes
<1>2. TaskTablesOK
  BY MaxTasksAssumption DEF CommentInit, TablesInit, TaskTablesOK
<1>3. RowsOK /\ OrderOK
  BY CommentBoundAssumption DEF CommentInit, RowsOK, OrderOK, AnswersFollow
<1>4. \A r \in Commenters : CommenterOK(r)
  BY DEF CommentInit, CommenterOK
<1> QED
  BY <1>1, <1>2, <1>3, <1>4 DEF CInv

-----------------------------------------------------------------------------
(* Theorems *)

\* The inductive invariant: what a request has found so far, what it has met,
\* and that no comment it was answered is later than the time it has taken.
THEOREM CommentInvariance == CommentSpec => []CInv
<1>1. CommentInit => CInv
  BY CommentInitOK
<1>2. CInv /\ [CommentNext]_allVars => CInv'
  BY CommentNextOK
<1> QED
  BY <1>1, <1>2, PTL DEF CommentSpec

\* The variables keep their types, and every comment has its task's row
\* (comment/types.go, 000001_init.up.sql:88).
THEOREM CommentTypesCorrect == CommentSpec => []CommentTypeOK
<1>1. CInv => CommentTypeOK
  BY DEF CInv, CommentTypes, RowsOK, CommentTypeOK
<1> QED
  BY <1>1, CommentInvariance, PTL

\* A comment that was answered before another was sent is listed before it,
\* also when the clock stood still between them (comment/service.go:55-60).
THEOREM AnswersDoFollow == CommentSpec => []AnswersFollow
<1>1. CInv => AnswersFollow
  BY DEF CInv, OrderOK
<1> QED
  BY <1>1, CommentInvariance, PTL

\* A reply of ok is that of the step.
LEMMA WhoRepliesOK ==
    ASSUME CInv, [CommentNext]_allVars, NEW r \in Commenters,
           commentPc[r] # "idle", commentReply'[r] = "ok"
    PROVE  Insert(r) \/ ListComments(r)
<1>1. /\ CommentTypes /\ commentReply[r] = Null /\ Null # "ok"
  BY NoReplyAssumption DEF CInv, CommenterOK, CommentOutcomes
<1>2. ASSUME NEW s \in Commenters, NEW outcome, NEW rows, CommentFinish(s, outcome, rows)
      PROVE  s = r /\ outcome = "ok"
  BY <1>1, <1>2 DEF CommentFinish, CommentTypes
<1>3. commentReply'[r] # commentReply[r]
  BY <1>1
<1>4. ASSUME NEW s \in Commenters, NEW c \in CommentCalls, CommentReject(s, c) \/ CommentBegin(s, c)
      PROVE  FALSE
  <2>1. CASE CommentReject(s, c)
    BY <1>2, <2>1 DEF CommentReject
  <2>2. CASE CommentBegin(s, c)
    BY <1>1, <2>2 DEF CommentBegin, CommentTypes
  <2> QED
    BY <1>4, <2>1, <2>2
<1>5. ASSUME NEW s \in Commenters, CommentStep(s)
      PROVE  s = r /\ (Insert(s) \/ ListComments(s))
  <2>1. ~FindTask(s)
    BY <1>2, <1>3 DEF FindTask, CommentGoto
  <2>2. ~CheckMember(s)
    BY <1>2, <1>3 DEF CheckMember, CommentGoto
  <2>3. ~TakeTime(s)
    BY <1>3 DEF TakeTime, CommentGoto
  <2>4. ~InsertUnknown(s) /\ ~CommentFails(s)
    BY <1>2 DEF InsertUnknown, CommentFails
  <2>5. Insert(s) \/ ListComments(s) => s = r
    BY <1>2 DEF Insert, ListComments
  <2> QED
    BY <1>5, <2>1, <2>2, <2>3, <2>4, <2>5 DEF CommentStep
<1>6. ~(UNCHANGED commentVars) /\ ~CommentCrash
  BY <1>1, <1>3 DEF commentVars, CommentCrash
<1> QED
  BY <1>4, <1>5, <1>6 DEF CommentNext, allVars

\* What was answered before a list was asked for is in the list as it was
\* answered, unless the team has been deleted: a comment is lost in no race and
\* in no crash, nor when its author leaves (comment/service.go:63-74).
THEOREM ListsAreComplete == CommentSpec => ListIsComplete
<1> DEFINE Complete(r) ==
       commentPc[r] = "list" /\ commentReply'[r] = "ok" =>
         \A c \in known[r] : c.task = commentCall[r].task =>
             c \in listed'[r] \/ teams[taskTeam[r]] = "deleted"
<1>1. CInv /\ [CommentNext]_allVars => \A r \in Commenters : Complete(r)
  <2> SUFFICES ASSUME CInv, [CommentNext]_allVars, NEW r \in Commenters,
                      commentPc[r] = "list", commentReply'[r] = "ok",
                      NEW c \in known[r], c.task = commentCall[r].task,
                      teams[taskTeam[r]] # "deleted"
               PROVE  c \in listed'[r]
    OBVIOUS
  <2>1. ListComments(r)
    BY WhoRepliesOK DEF Insert, Store
  <2>2. tasks[c.task] # Null
    BY DEF CInv, CommenterOK, FoundOK
  <2>3. c \in comments
    BY <2>2 DEF CInv, CommenterOK, OrderOK, AnsweredOK
  <2> QED
    BY <2>1, <2>3 DEF ListComments, CommentFinish, CInv, CommentTypes
<1>2. CInv /\ [CommentNext]_allVars => [\A r \in Commenters : Complete(r)]_allVars
  BY <1>1
<1> QED
  BY <1>2, CommentInvariance, PTL DEF CommentSpec, ListIsComplete

\* Nobody comments or is shown comments without having had access at some
\* moment of the request, though the task may be deleted and he be removed
\* between its checks (comment/service.go:76-91).
THEOREM AccessWasHad == CommentSpec => AccessWasThere
<1> DEFINE Had(r) ==
       commentPc[r] # "idle" /\ commentReply'[r] = "ok" => met[r] = {"visible", "member"}
<1>1. CInv /\ [CommentNext]_allVars => \A r \in Commenters : Had(r)
  <2> SUFFICES ASSUME CInv, [CommentNext]_allVars, NEW r \in Commenters,
                      commentPc[r] # "idle", commentReply'[r] = "ok"
               PROVE  met[r] = {"visible", "member"}
    OBVIOUS
  <2>1. commentPc[r] \in {"insert", "list"}
    BY WhoRepliesOK DEF Insert, Store, ListComments
  <2>2. met[r] \subseteq {"visible", "member"} /\ {"visible", "member"} \subseteq met[r]
    BY <2>1 DEF CInv, CommentTypes, CommenterOK
  <2> QED
    BY <2>2
<1>2. CInv /\ [CommentNext]_allVars => [\A r \in Commenters : Had(r)]_allVars
  BY <1>1
<1> QED
  BY <1>2, CommentInvariance, PTL DEF CommentSpec, AccessWasThere
=============================================================================
