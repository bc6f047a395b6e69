----------------------------- MODULE TaskManager -----------------------------
(***************************************************************************)
(* The task and the team services over the same tables, in one process     *)
(* (cmd/api/main.go).  TaskService lets any team statement happen at any   *)
(* time; here a request of TeamService issues each of them.                *)
(***************************************************************************)
EXTENDS TaskService, TeamService

managerVars == <<taskVars, teamVars>>

ManagerInit == TaskInit /\ TeamInit

ManagerNext ==
    \/ RequestNext /\ UNCHANGED teamVars
    \/ TeamNext /\ UNCHANGED <<requestVars, generation>>
    \/ Crash /\ TeamCrash

ManagerSpec == ManagerInit /\ [][ManagerNext]_managerVars

\* A goroutine that has a call to make makes it, and the call returns: the
\* scheduler of Go is fair and neither MySQL nor Redis keeps a call for ever.
ManagerFairness ==
    /\ \A r \in Requests : WF_taskVars(RequestStep(r))
    /\ \A r \in TeamRequests :
          WF_managerVars(TeamStep(r) /\ UNCHANGED <<requestVars, generation>>)

-----------------------------------------------------------------------------
(* Properties *)

\* Types of the variables of team requests (internal/team/types.go).
TeamTypeOK ==
    /\ teams \in [Teams -> {"unused", "exists", "deleted"}]
    /\ members \in [Teams -> [Users -> Roles \cup {Null}]]
    /\ teamPc \in [TeamRequests -> TeamSteps]
    /\ teamCall \in [TeamRequests -> TeamCalls \cup {Null}]
    /\ actorRole \in [TeamRequests -> Roles \cup {Null}]
    /\ teamReply \in [TeamRequests -> TeamOutcomes \cup {Null}]

\* A team that exists has one owner, and any other has no member at all,
\* whatever promotions, removals and deletions race (team/service.go:112, 141;
\* repository/team.go:141, 165; the cascade of 000001_init.up.sql:30).
OneOwner ==
    \A t \in Teams :
        \/ TeamExists(t) /\ \E u \in Users : \A v \in Users : members[t][v] = "owner" <=> v = u
        \/ ~TeamExists(t) /\ \A u \in Users : members[t][u] = Null

\* Who appoints or demotes an admin, or deletes the team, is its owner at that
\* very step and not only when the request read his role: the owner's check is
\* never out of date (team/service.go:96, 167, 190).
OwnerActsNow ==
    [][\A t \in Teams, u \in Users :
         /\ TeamExists(t)
         /\ \/ members[t][u] # "admin" /\ members'[t][u] = "admin"
            \/ members[t][u] = "admin" /\ members'[t][u] = "member"
            \/ ~TeamExists(t)'
         => \E r \in TeamRequests : /\ teamPc[r] = "write" /\ teamCall[r].team = t
                                    /\ members[t][teamCall[r].actor] = "owner"]_managerVars

\* Every request of either service is answered, or is lost in a crash: none of
\* its steps waits for a state of the tables that may never come (net/http
\* writes the response when the handler returns).
AllRequestsReturn ==
    /\ \A r \in Requests : pc[r] # "idle" ~> pc[r] = "idle"
    /\ \A r \in TeamRequests : teamPc[r] # "idle" ~> teamPc[r] = "idle"

\* What team requests do to the tables is what TaskService expects of them: its
\* TeamStatement stands for all of team/service.go.
TaskServiceSpec == Spec

\* No member with open assigned tasks is removed: "Нельзя исключить owner или
\* участника с незакрытыми назначенными задачами" (docs/openapi.yaml:189).
NoRemovalWithOpenTasks ==
    [][\A t \in Teams, u \in Users :
         members[t][u] # Null /\ members'[t][u] = Null /\ TeamExists(t)'
         => ~HasOpenAssignedTasks(t, u)]_managerVars
=============================================================================
