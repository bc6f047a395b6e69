------------------------------- MODULE Rights -------------------------------
(***************************************************************************)
(* What a request's checks are worth when it writes: TaskManager with      *)
(* history variables that keep what its checks could have found since the  *)
(* request began.                                                          *)
(***************************************************************************)
EXTENDS TaskManager

VARIABLES
    actorHad,       \* actorHad[r]: the roles that the actor of a removal has had
    allowed,        \* allowed[r]: some role he has had allowed it then or later
    mates           \* mates[r]: who has been of the team of task request r's task

rightsVars == <<managerVars, actorHad, allowed, mates>>

RightsInit ==
    /\ ManagerInit
    /\ actorHad = [r \in TeamRequests |-> {}]
    /\ allowed = [r \in TeamRequests |-> FALSE]
    /\ mates = [r \in Requests |-> {}]

RoleIn(t, u) == IF t \in Teams /\ u \in Users THEN MemberRole(t, u) ELSE Null

\* The team of the task a request is about.
TeamOf(c) == IF c.op = "create" THEN c.team ELSE
             IF c.task \in TaskIds /\ tasks[c.task] # Null THEN tasks[c.task].team ELSE Null

Removing(r) == teamPc[r] # "idle" /\ teamCall[r].op = "remove"

Allowed(r) ==
    LET c == teamCall[r]
        member == RoleIn(c.team, c.member)
    IN  /\ member \in {"admin", "member"}
        /\ \/ c.actor = c.member
           \/ "owner" \in actorHad[r]
           \/ "admin" \in actorHad[r] /\ member = "member"

Remember ==
    /\ actorHad' = [r \in TeamRequests |->
          IF Removing(r)' THEN actorHad[r] \cup {RoleIn(teamCall[r].team, teamCall[r].actor)'}
                          ELSE {}]
    /\ allowed' = [r \in TeamRequests |-> Removing(r)' /\ (allowed[r] \/ Allowed(r)')]
    /\ mates' = [r \in Requests |->
          IF pc'[r] = "idle" THEN {}
          ELSE mates[r] \cup {u \in Users : RoleIn(TeamOf(call[r]), u)' # Null}]

RightsNext == ManagerNext /\ Remember

RightsSpec == RightsInit /\ [][RightsNext]_rightsVars

FairRightsSpec == RightsSpec /\ ManagerFairness

-----------------------------------------------------------------------------
(* Properties *)

\* A member is removed only if the actor had a role that allows it, and the
\* member, then or later, the role it was decided for: at the DELETE the actor may
\* be demoted and the member promoted, but who had lost his right before the
\* request, or whose target was an admin all along, removes nobody
\* (team/service.go:124-157, 198-208).
RemovalWasAllowed ==
    [][\A t \in Teams, u \in Users :
         members[t][u] # Null /\ members'[t][u] = Null /\ TeamExists(t)' =>
             \E r \in TeamRequests : /\ Removing(r) /\ allowed[r]
                                    /\ teamCall[r].team = t
                                    /\ teamCall[r].member = u]_rightsVars

\* A task is written with an assignee only if he was of its team at some moment
\* of the request, though perhaps no more (task/service.go:332-358).
AssigneeWasMember ==
    [][\A r \in Requests :
         pc[r] = "write" /\ pc'[r] # "write" /\ tasks' # tasks /\ call[r].op # "delete" =>
             Written(r).assignee \in mates[r] \cup {Null}]_rightsVars
=============================================================================
