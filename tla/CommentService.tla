--------------------------- MODULE CommentService ---------------------------
(***************************************************************************)
(* internal/comment/service.go: concurrent Create and List requests on the *)
(* comments of tasks, between the statements of the other two services.    *)
(* Each step of a request ends with a call to MySQL or a look at the       *)
(* clock.  A text is valid or not; created_at is a reading of a clock that *)
(* may stand still between two readings, as DATETIME(6) keeps microseconds *)
(* only.  One process serves, so there is one clock.                       *)
(***************************************************************************)
EXTENDS Repository

CONSTANTS
    Commenters,     \* slots for comment requests in flight
    MaxComments,    \* BOUND: how many ids AUTO_INCREMENT may hand out
    MaxClock        \* BOUND: how far the clock goes

ASSUME CommentBoundAssumption == MaxComments \in Nat /\ MaxClock \in Nat

VARIABLES
    comments,       \* the rows of task_comments
    lastComment,    \* the last id AUTO_INCREMENT handed out
    clock,
    commentPc,      \* commentPc[r]: the call that request r makes next
    commentCall,    \* commentCall[r]: what its client asked for
    taskTeam,       \* taskTeam[r]: the team of the row that FindByID returned
    stamp,          \* stamp[r]: the time it has taken
    commentReply,   \* commentReply[r]: the last outcome of slot r
    listed,         \* listed[r]: the rows it answered
    \* History variables: they are read by the properties only.
    answered,       \* the comments that clients were told they had created
    known,          \* known[r]: answered when r began
    earlier,        \* earlier[id]: known of the request that created id
    met             \* met[r]: what held at some moment since r began

commentTables == <<comments, lastComment>>
commentVars == <<commentPc, commentCall, taskTeam, stamp, commentReply, listed>>
witnesses == <<answered, known, earlier, met>>
allVars == <<tables, commentTables, clock, commentVars, witnesses>>

CommentIds == 1..MaxComments
CommentRow == [id : CommentIds, task : TaskIds, user : Users, createdAt : 0..MaxClock]
CommentCall == [op : {"create", "list"}, actor : Users, task : 0..MaxTasks,
                content : {"text", Invalid}]
CommentCalls == {c \in CommentCall : c.op = "list" => c.content = "text"}
CommentOutcomes == {"ok", "invalid_input", "forbidden", "not_found", "error"}

ASSUME NoReplyAssumption == Null \notin CommentOutcomes

CommentInit ==
    /\ TablesInit
    /\ comments = {}
    /\ lastComment = 0
    /\ clock = 0
    /\ commentPc = [r \in Commenters |-> "idle"]
    /\ commentCall = [r \in Commenters |-> Null]
    /\ taskTeam = [r \in Commenters |-> Null]
    /\ stamp = [r \in Commenters |-> Null]
    /\ commentReply = [r \in Commenters |-> Null]
    /\ listed = [r \in Commenters |-> {}]
    /\ answered = {}
    /\ known = [r \in Commenters |-> {}]
    /\ earlier = [id \in CommentIds |-> {}]
    /\ met = [r \in Commenters |-> {}]

-----------------------------------------------------------------------------
(* The steps of a request *)

\* Wrong: the newest of the same microsecond comes first.
PrecedesNewestFirst(c, d) ==
    c.createdAt < d.createdAt \/ (c.createdAt = d.createdAt /\ c.id > d.id)

\* ORDER BY created_at ASC, id ASC.
Precedes(c, d) ==
    c.createdAt < d.createdAt \/ (c.createdAt = d.createdAt /\ c.id < d.id)

CommentGoto(r, step) ==
    /\ commentPc' = [commentPc EXCEPT ![r] = step]
    /\ UNCHANGED <<commentCall, commentReply, listed>>

CommentFinish(r, outcome, rows) ==
    /\ commentPc' = [commentPc EXCEPT ![r] = "idle"]
    /\ commentCall' = [commentCall EXCEPT ![r] = Null]
    /\ taskTeam' = [taskTeam EXCEPT ![r] = Null]
    /\ stamp' = [stamp EXCEPT ![r] = Null]
    /\ commentReply' = [commentReply EXCEPT ![r] = outcome]
    /\ listed' = [listed EXCEPT ![r] = rows]

CommentMalformed(c) == c.task = 0 \/ c.content = Invalid

CommentReject(r, c) ==
    /\ commentPc[r] = "idle" /\ CommentMalformed(c)
    /\ CommentFinish(r, "invalid_input", {})
    /\ UNCHANGED commentTables

CommentBegin(r, c) ==
    /\ commentPc[r] = "idle" /\ ~CommentMalformed(c)
    /\ commentPc' = [commentPc EXCEPT ![r] = "find"]
    /\ commentCall' = [commentCall EXCEPT ![r] = c]
    /\ commentReply' = [commentReply EXCEPT ![r] = Null]
    /\ listed' = [listed EXCEPT ![r] = {}]
    /\ UNCHANGED <<taskTeam, stamp, commentTables>>

\* accessibleTask: FindByID ...
FindTask(r) ==
    /\ commentPc[r] = "find"
    /\ LET row == FindByID(commentCall[r].task)
       IN  IF row = Null
           THEN CommentFinish(r, "not_found", {})
           ELSE /\ CommentGoto(r, "role")
                /\ taskTeam' = [taskTeam EXCEPT ![r] = row.team]
                /\ UNCHANGED stamp
    /\ UNCHANGED commentTables

\* Wrong: nobody asks whose team it is.
AnyoneComments(r) ==
    /\ commentPc[r] = "role"
    /\ CommentGoto(r, IF commentCall[r].op = "create" THEN "stamp" ELSE "list")
    /\ UNCHANGED <<taskTeam, stamp, commentTables>>

\* ... and MemberRole.
CheckMember(r) ==
    /\ commentPc[r] = "role"
    /\ IF MemberRole(taskTeam[r], commentCall[r].actor) = Null
       THEN CommentFinish(r, "forbidden", {})
       ELSE /\ CommentGoto(r, IF commentCall[r].op = "create" THEN "stamp" ELSE "list")
            /\ UNCHANGED <<taskTeam, stamp>>
    /\ UNCHANGED commentTables

\* service.now().
TakeTime(r) ==
    /\ commentPc[r] = "stamp"
    /\ CommentGoto(r, "insert")
    /\ stamp' = [stamp EXCEPT ![r] = clock]
    /\ UNCHANGED <<taskTeam, commentTables>>

\* INSERT INTO task_comments: the foreign key wants the row of the task, which
\* may be a deleted one.
Store(r) ==
    /\ commentPc[r] = "insert" /\ lastComment < MaxComments
    /\ tasks[commentCall[r].task] # Null
    /\ lastComment' = lastComment + 1
    /\ comments' = comments \cup
          {[id |-> lastComment + 1, task |-> commentCall[r].task,
            user |-> commentCall[r].actor, createdAt |-> stamp[r]]}

Insert(r) == Store(r) /\ CommentFinish(r, "ok", {})

\* The row is there, and the answer of MySQL is lost.
InsertUnknown(r) == Store(r) /\ CommentFinish(r, "error", {})

\* The rows of the task, in the order of Precedes.
ListComments(r) ==
    /\ commentPc[r] = "list"
    /\ CommentFinish(r, "ok", {c \in comments : c.task = commentCall[r].task})
    /\ UNCHANGED commentTables

\* A call to MySQL fails: the foreign key, a lost connection, a cancelled request.
CommentFails(r) ==
    /\ commentPc[r] \in {"find", "role", "insert", "list"}
    /\ CommentFinish(r, "error", {})
    /\ UNCHANGED commentTables

CommentStep(r) ==
    \/ FindTask(r) \/ CheckMember(r) \/ TakeTime(r) \/ Insert(r) \/ InsertUnknown(r)
    \/ ListComments(r) \/ CommentFails(r)

-----------------------------------------------------------------------------
(* What goes on beside them *)

\* The task and the team services, as far as comments can tell: updates of
\* tasks and roles change nothing that comments read.
OtherStatement ==
    \/ \E t \in Teams, u \in Founders : CreateWithOwner(t, u) /\ UNCHANGED taskTables
    \/ \E t \in Teams, u \in Users :
          (AddMember(t, u, "member") \/ RemoveMember(t, u)) /\ UNCHANGED taskTables
    \/ \E t \in Teams : DeleteTeam(t)
    \/ /\ \E t \in Teams, u \in Users, title \in Titles :
             LET row == [team |-> t, title |-> title, status |-> "todo", createdBy |-> u,
                         assignee |-> Null, closedAt |-> Null, version |-> 1,
                         deletedAt |-> Null]
             IN  MemberRole(t, u) # Null /\ CreateWithHistory(row, u, Snapshot(row))
       /\ UNCHANGED teamTables
    \/ /\ \E id \in TaskIds : /\ Visible(id)
                              /\ SoftDeleteWithHistory(id, tasks[id].version, tasks[id].createdBy)
       /\ UNCHANGED teamTables

\* Wrong: a comment goes with its author's membership.
CascadeFromMembers ==
    {c \in comments : tasks'[c.task] # Null /\ members'[tasks'[c.task].team][c.user] # Null}

\* ON DELETE CASCADE of task_comments.
Cascade == {c \in comments : tasks'[c.task] # Null}

Tick ==
    /\ clock < MaxClock
    /\ clock' = clock + 1

\* The process dies with the requests in flight.
CommentCrash ==
    /\ commentPc' = [r \in Commenters |-> "idle"]
    /\ commentCall' = [r \in Commenters |-> Null]
    /\ taskTeam' = [r \in Commenters |-> Null]
    /\ stamp' = [r \in Commenters |-> Null]
    /\ commentReply' = [r \in Commenters |-> Null]
    /\ listed' = [r \in Commenters |-> {}]

-----------------------------------------------------------------------------
(* The history variables *)

\* What the checks of r would find now.
Holds(r) ==
    LET row == tasks[commentCall[r].task]
    IN  {x \in {"visible", "member"} :
            \/ x = "visible" /\ Visible(commentCall[r].task)
            \/ x = "member" /\ row # Null /\ MemberRole(row.team, commentCall[r].actor) # Null}

\* The body of 201 for r: the id of the new row, and what r asked to store.
Answer(r) == [id |-> lastComment', task |-> commentCall[r].task,
              user |-> commentCall[r].actor, createdAt |-> stamp[r]]

Witness ==
    /\ answered' = answered \cup
          {Answer(r) : r \in {s \in Commenters :
                                commentPc[s] = "insert" /\ commentReply'[s] = "ok"}}
    /\ known' = [r \in Commenters |->
          IF commentPc'[r] = "idle" THEN {}
          ELSE IF commentPc[r] = "idle" THEN answered ELSE known[r]]
    /\ earlier' = [id \in CommentIds |->
          IF id = lastComment' /\ id # lastComment
          THEN UNION {known[r] : r \in {s \in Commenters :
                                 commentPc[s] = "insert" /\ commentPc'[s] = "idle"}}
          ELSE earlier[id]]
    /\ met' = [r \in Commenters |->
          IF commentPc'[r] = "idle" THEN {}
          ELSE met[r] \cup Holds(r)']

CommentNext ==
    /\ \/ /\ \E r \in Commenters :
                \/ \E c \in CommentCalls : CommentReject(r, c) \/ CommentBegin(r, c)
                \/ CommentStep(r)
          /\ UNCHANGED <<tables, clock>>
       \/ /\ OtherStatement
          /\ comments' = Cascade
          /\ UNCHANGED <<lastComment, clock, commentVars>>
       \/ Tick /\ UNCHANGED <<tables, commentTables, commentVars>>
       \/ CommentCrash /\ UNCHANGED <<tables, commentTables, clock>>
    /\ Witness

CommentSpec == CommentInit /\ [][CommentNext]_allVars

-----------------------------------------------------------------------------
(* Properties *)

\* Types of the variables, and the foreign key: a comment has its task's row
\* (comment/types.go, 000001_init.up.sql:88).
CommentTypeOK ==
    /\ comments \subseteq CommentRow
    /\ \A c, d \in comments : c.id = d.id => c = d
    /\ \A c \in comments : tasks[c.task] # Null /\ c.id <= lastComment
    /\ lastComment \in 0..MaxComments
    /\ clock \in 0..MaxClock
    /\ commentPc \in [Commenters -> {"idle", "find", "role", "stamp", "insert", "list"}]
    /\ commentCall \in [Commenters -> CommentCalls \cup {Null}]
    /\ taskTeam \in [Commenters -> Teams \cup {Null}]
    /\ stamp \in [Commenters -> (0..MaxClock) \cup {Null}]
    /\ commentReply \in [Commenters -> CommentOutcomes \cup {Null}]
    /\ \A r \in Commenters : listed[r] \subseteq CommentRow

\* Who comments on a comment he has been shown, or was told of, is listed after
\* it: the time is taken before the INSERT and by whoever gets there first, and
\* may be the same, but a comment that was answered before another was sent
\* comes before it (service.go:55-60; docs/openapi.yaml:418).
AnswersFollow ==
    \A d \in comments : \A c \in earlier[d.id] : Precedes(c, d)

\* No comment that was answered is lost: a list has, as they were answered, all
\* that were answered for its task before the list was asked for, whoever has
\* left the team since, unless the team itself has been deleted
\* (comment/service.go:63-74; 000001_init.up.sql:88).
ListIsComplete ==
    [][\A r \in Commenters : commentPc[r] = "list" /\ commentReply'[r] = "ok" =>
         \A c \in known[r] : c.task = commentCall[r].task =>
             c \in listed'[r] \/ teams[taskTeam[r]] = "deleted"]_allVars

\* A comment is taken, or comments are shown, only if at some moment of the
\* request the task was to be seen, and at some moment the actor was of its
\* team: they need not be so at the end, nor at one moment, but a request that
\* comes after the deletion or the removal gets nothing (service.go:76-91).
AccessWasThere ==
    [][\A r \in Commenters : commentPc[r] # "idle" /\ commentReply'[r] = "ok" =>
         met[r] = {"visible", "member"}]_allVars
=============================================================================
