------------------------------ MODULE TeamStats ------------------------------
(***************************************************************************)
(* GET /teams/{id}/stats: internal/stats/service.go and its one statement  *)
(* over tasks, users and task_comments (internal/repository/stats.go),     *)
(* beside the writers of TimedTasks, comments and changes of roles.        *)
(*                                                                         *)
(* The statement is one consistent read.  MySQL's clock is that of the     *)
(* process; an instant of the clock is a second.  An average is kept as    *)
(* its sum and its count.  A team is not deleted here.                     *)
(***************************************************************************)
EXTENDS TimedTasks, SequencesExt

CONSTANTS
    Askers,         \* slots for requests of a report
    Window,         \* INTERVAL 30 DAY
    TopSize,        \* LIMIT 3
    MaxComments,    \* BOUND: how many comments a task may get
    RoleChanges     \* BOUND: the roles that members may get

TeamRoles == {"owner", "admin", "member"}

ASSUME StatsAssumption ==
    /\ Window \in Nat /\ TopSize \in Nat /\ MaxComments \in Nat
    /\ RoleChanges \subseteq TeamRoles \cup {Null}

VARIABLES
    comments,       \* comments[id]: how many rows of task_comments task id has
    roleOf,         \* roleOf[t][u]: the role of u in team t, or Null
    askPc,          \* askPc[k]: the call that request k makes next
    askCall,        \* askCall[k]: who asks, for which team
    report,         \* report[k]: what k was answered last, or Null
    \* A history variable: it is read by the properties only.
    stored          \* stored[t]: when a task of t was last stored

statsVars == <<timedVars, comments, roleOf, askPc, askCall, report, stored>>

AskCalls == [actor : Assignees, team : Teams]

StatsInit ==
    /\ TimedInit
    /\ comments = [id \in Ids |-> 0]
    /\ roleOf = [t \in Teams |-> [u \in Assignees |-> Null]]
    /\ askPc = [k \in Askers |-> "idle"]
    /\ askCall = [k \in Askers |-> Null]
    /\ report = [k \in Askers |-> Null]
    /\ stored = [t \in Teams |-> 0]

-----------------------------------------------------------------------------
(* The statement *)

\* team_tasks.
TeamTasks(t) == {id \in Ids : Live(id) /\ rows[id].team = t}

\* status_counts.
StatusCounts(t) ==
    [s \in Statuses |-> Cardinality({id \in TeamTasks(t) : rows[id].status = s})]

DoneBy(t, u) == {id \in TeamTasks(t) : rows[id].status = "done" /\ rows[id].assignee = u}

\* Wrong: there is no time limit.
DoneEver(t, u) == Cardinality(DoneBy(t, u))

DoneLately(t, u) ==
    Cardinality({id \in DoneBy(t, u) : rows[id].closedAt # Null
                                       /\ rows[id].closedAt >= now - Window})

\* top_assignees: ORDER BY closed_tasks_count DESC, user_id ASC LIMIT 3.
TopAssignees(t) ==
    LET ahead(u, v) ==
            \/ DoneLately(t, u) > DoneLately(t, v)
            \/ DoneLately(t, u) = DoneLately(t, v) /\ u < v
        all == CHOOSE s \in SetToSeqs({u \in Assignees : DoneLately(t, u) > 0}) :
                  \A i, j \in 1..Len(s) : i < j => ahead(s[i], s[j])
    IN  SubSeq(all, 1, IF TopSize < Len(all) THEN TopSize ELSE Len(all))

\* close_metrics.
Closed(t) == {id \in TeamTasks(t) : rows[id].status = "done" /\ rows[id].closedAt # Null}

CloseDuration(t) ==
    [sum |-> MapThenSumSet(LAMBDA id : rows[id].closedAt - rows[id].createdAt, Closed(t)),
     count |-> Cardinality(Closed(t))]

\* comment_metrics.
CommentCount(t) == MapThenSumSet(LAMBDA id : comments[id], TeamTasks(t))

StatsOf(t) ==
    [tasksByStatus |-> StatusCounts(t),
     topAssignees |-> [i \in DOMAIN TopAssignees(t) |->
                          [user |-> TopAssignees(t)[i],
                           closed |-> DoneLately(t, TopAssignees(t)[i])]],
     closeDuration |-> CloseDuration(t),
     comments |-> CommentCount(t)]

-----------------------------------------------------------------------------
(* The steps of a request *)

Ask(k, c) ==
    /\ askPc[k] = "idle"
    /\ askPc' = [askPc EXCEPT ![k] = "role"]
    /\ askCall' = [askCall EXCEPT ![k] = c]
    /\ report' = [report EXCEPT ![k] = Null]

Reply(k, answer) ==
    /\ askPc' = [askPc EXCEPT ![k] = "idle"]
    /\ askCall' = [askCall EXCEPT ![k] = Null]
    /\ report' = [report EXCEPT ![k] = answer]

Boss(t, u) == roleOf[t][u] \in {"owner", "admin"}

Allow(k) ==
    /\ askPc[k] = "role" /\ Boss(askCall[k].team, askCall[k].actor)
    /\ askPc' = [askPc EXCEPT ![k] = "query"]
    /\ UNCHANGED <<askCall, report>>

QueryStats(k) == askPc[k] = "query" /\ Reply(k, StatsOf(askCall[k].team))

\* It is not allowed, or a call fails, or the process dies.
Refuse(k) == askPc[k] # "idle" /\ Reply(k, Null)

AskStep(k) ==
    \/ \E c \in AskCalls : Ask(k, c)
    \/ Allow(k) \/ QueryStats(k) \/ Refuse(k)

\* CommentService: a deleted task may get one too.
Comment(id) ==
    /\ rows[id] # Null /\ comments[id] < MaxComments
    /\ comments' = [comments EXCEPT ![id] = @ + 1]

\* TeamService.
SetRole(t, u, role) == roleOf' = [roleOf EXCEPT ![t][u] = role]

StatsNext ==
    /\ \/ /\ TimedNext
          /\ UNCHANGED <<comments, roleOf, askPc, askCall, report>>
       \/ /\ \E k \in Askers : AskStep(k)
          /\ UNCHANGED <<timedVars, comments, roleOf>>
       \/ /\ \E id \in Ids : Comment(id)
          /\ UNCHANGED <<timedVars, roleOf, askPc, askCall, report>>
       \/ /\ \E t \in Teams, u \in Assignees, role \in RoleChanges : SetRole(t, u, role)
          /\ UNCHANGED <<timedVars, comments, askPc, askCall, report>>
    /\ stored' = [t \in Teams |->
          IF \E id \in Ids : rows'[id] # rows[id] /\ rows'[id].team = t THEN now ELSE stored[t]]

StatsSpec == StatsInit /\ [][StatsNext]_statsVars

-----------------------------------------------------------------------------
(* Properties *)

Answers(k) == askPc[k] = "query" /\ report'[k] # Null

StatsTypeOK ==
    /\ TimedTypeOK
    /\ comments \in [Ids -> 0..MaxComments]
    /\ roleOf \in [Teams -> [Assignees -> TeamRoles \cup {Null}]]
    /\ askPc \in [Askers -> {"idle", "role", "query"}]
    /\ askCall \in [Askers -> AskCalls \cup {Null}]
    /\ \A k \in Askers : report[k] # Null =>
          /\ report[k].tasksByStatus \in [Statuses -> 0..MaxRows]
          /\ Len(report[k].topAssignees) <= TopSize
          /\ report[k].closeDuration.count \in 0..MaxRows
          /\ report[k].comments \in Nat
    /\ stored \in [Teams -> Times]

\* A report adds up: the average is over all tasks counted as done, none of
\* them was closed before it was created, and nobody in the top is given
\* more than there are (repository/stats.go:28-53).
ReportAddsUp ==
    [][\A k \in Askers : Answers(k) =>
         LET r == report'[k]
         IN  /\ r.closeDuration.count = r.tasksByStatus["done"]
             /\ r.closeDuration.sum \in 0..(now * r.closeDuration.count)
             /\ FoldFunction(+, 0, [i \in DOMAIN r.topAssignees |-> r.topAssignees[i].closed])
                    <= r.tasksByStatus["done"]]_statsVars

\* A team whose tasks were left alone for longer than 30 days has nobody in
\* its top ("за последние 30 дней", docs/openapi.yaml:438): a time
\* of closing is never later than the moment it is stored.
IdleTeamHasNoTop ==
    [][\A k \in Askers : Answers(k)
                         /\ now > stored[askCall[k].team] + Window =>
         report'[k].topAssignees = <<>>]_statsVars
=============================================================================
