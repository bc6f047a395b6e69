----------------------------- MODULE TeamService -----------------------------
(***************************************************************************)
(* internal/team/service.go: concurrent requests to create and delete      *)
(* teams and to invite, promote, demote and remove their members.  As in   *)
(* TaskService each step of a request ends with one call to MySQL, and a   *)
(* slot of TeamRequests serves one request after another.  What the checks *)
(* of a request read may be old when it writes.                            *)
(***************************************************************************)
EXTENDS Repository

CONSTANTS
    TeamRequests,   \* slots for team requests in flight
    TeamOps         \* BOUND: the operations that clients call

VARIABLES
    teamPc,         \* teamPc[r]: the call that request r makes next
    teamCall,       \* teamCall[r]: what the client asked for
    actorRole,      \* actorRole[r]: the actor's role that MemberRole returned
    teamReply       \* teamReply[r]: the last outcome of slot r

teamVars == <<teamPc, teamCall, actorRole, teamReply>>

\* A create has no team yet.  member is Null for an email that nobody
\* registered; arg is the role asked for, and of a create it only tells a valid
\* name from an invalid one.
TeamCall == [op : {"create", "invite", "change_role", "remove", "delete"},
             actor : Users, team : Teams \cup {Null}, member : Users \cup {Null, Invalid},
             arg : Roles \cup {Null, Invalid}]

CreateTeamCalls == [op : {"create"}, actor : Founders, team : {Null},
                    member : {Null}, arg : {Null, Invalid}]
InviteCalls == [op : {"invite"}, actor : Users, team : Teams,
                member : Users \cup {Null, Invalid}, arg : Roles \cup {Invalid}]
MemberCalls(op, args) == [op : {op}, actor : Users, team : Teams,
                          member : Users \cup {Invalid}, arg : args]
DeleteTeamCalls == [op : {"delete"}, actor : Users, team : Teams,
                    member : {Null}, arg : {Null}]
TeamCalls == {c \in CreateTeamCalls \cup InviteCalls \cup DeleteTeamCalls
                    \cup MemberCalls("change_role", Roles \cup {Invalid})
                    \cup MemberCalls("remove", {Null}) : c.op \in TeamOps}

TeamSteps == {"idle", "actor", "user", "member", "tasks", "write"}
TeamOutcomes == {"ok", "invalid_input", "forbidden", "not_found", "already_member",
                 "open_tasks", "owner_change", "error"}

ASSUME TeamAssumption ==
    /\ Founders \subseteq Users
    /\ Invalid # Null /\ Invalid \notin Users \cup Roles
    /\ Null \notin TeamCall

TeamInit ==
    /\ teamPc = [r \in TeamRequests |-> "idle"]
    /\ teamCall = [r \in TeamRequests |-> Null]
    /\ actorRole = [r \in TeamRequests |-> Null]
    /\ teamReply = [r \in TeamRequests |-> Null]

-----------------------------------------------------------------------------
(* Pure parts of the service *)

\* The checks made before any call.
TeamMalformed(c) ==
    \/ c.op = "create" /\ c.arg = Invalid
    \/ c.op \in {"change_role", "remove"} /\ c.member = Invalid

\* Wrong: an admin may appoint another.
CanInviteAnyone(actor, invited) ==
    actor \in {"owner", "admin"} /\ invited \in {"admin", "member"}

CanInvite(actor, invited) ==
    \/ actor = "owner" /\ invited \in {"admin", "member"}
    \/ actor = "admin" /\ invited = "member"

\* Wrong: an admin may remove another.
CanRemoveAnyone(c, actor, member) ==
    IF c.actor = c.member THEN actor \in {"admin", "member"}
    ELSE actor \in {"owner", "admin"} /\ member \in {"admin", "member"}

CanRemoveMember(c, actor, member) ==
    IF c.actor = c.member THEN actor \in {"admin", "member"}
    ELSE \/ actor = "owner" /\ member \in {"admin", "member"}
         \/ actor = "admin" /\ member = "member"

\* The checks of the actor's role, Null for none.
InviteVerdict(c, actor) ==
    IF c.arg \notin {"admin", "member"} THEN "invalid_input"
    ELSE IF ~CanInvite(actor, c.arg) THEN "forbidden"
    ELSE IF c.member = Invalid THEN "invalid_input"
    ELSE "pass"

\* Wrong: any role may be given, or any text.
ChangeRoleVerdictWithOwner(c, actor) ==
    IF actor # "owner" THEN "forbidden"
    ELSE IF c.arg \notin Roles THEN "invalid_input"
    ELSE "pass"
ChangeRoleVerdictUnchecked(c, actor) == IF actor # "owner" THEN "forbidden" ELSE "pass"

ChangeRoleVerdict(c, actor) ==
    IF actor # "owner" THEN "forbidden"
    ELSE IF c.arg \notin {"admin", "member"} THEN "invalid_input"
    ELSE "pass"

ActorVerdict(c, actor) ==
    IF actor = Null \/ (c.op = "delete" /\ actor # "owner") THEN "forbidden"
    ELSE IF c.op = "invite" THEN InviteVerdict(c, actor)
    ELSE IF c.op = "change_role" THEN ChangeRoleVerdict(c, actor)
    ELSE "pass"

AfterActor == [invite |-> "user", change_role |-> "member", remove |-> "member",
               delete |-> "write"]

\* The checks of the role of the member that the request is about.
MemberVerdict(c, actor, member) ==
    IF member = Null THEN "not_found"
    ELSE IF member = "owner" THEN "owner_change"
    ELSE IF c.op = "change_role" /\ member = c.arg THEN "ok"
    ELSE IF c.op = "remove" /\ ~CanRemoveMember(c, actor, member) THEN "forbidden"
    ELSE "pass"

-----------------------------------------------------------------------------
(* The steps of a request *)

TeamFinish(r, outcome) ==
    /\ teamPc' = [teamPc EXCEPT ![r] = "idle"]
    /\ teamCall' = [teamCall EXCEPT ![r] = Null]
    /\ actorRole' = [actorRole EXCEPT ![r] = Null]
    /\ teamReply' = [teamReply EXCEPT ![r] = outcome]

\* What follows a read: the verdict of the checks is an outcome to return, or to
\* go on with the next step.
TeamDecide(r, actor, verdict, next) ==
    /\ \/ /\ verdict = "pass"
          /\ teamPc' = [teamPc EXCEPT ![r] = next]
          /\ actorRole' = [actorRole EXCEPT ![r] = actor]
          /\ UNCHANGED <<teamCall, teamReply>>
       \/ /\ verdict # "pass"
          /\ TeamFinish(r, verdict)
    /\ UNCHANGED tables

TeamReject(r, c) ==
    /\ teamPc[r] = "idle" /\ TeamMalformed(c)
    /\ TeamFinish(r, "invalid_input")
    /\ UNCHANGED tables

TeamBegin(r, c) ==
    /\ teamPc[r] = "idle" /\ ~TeamMalformed(c)
    /\ teamPc' = [teamPc EXCEPT ![r] = IF c.op = "create" THEN "write" ELSE "actor"]
    /\ teamCall' = [teamCall EXCEPT ![r] = c]
    /\ teamReply' = [teamReply EXCEPT ![r] = Null]
    /\ UNCHANGED <<tables, actorRole>>

ReadActor(r) ==
    /\ teamPc[r] = "actor"
    /\ LET c == teamCall[r]
           actor == MemberRole(c.team, c.actor)
       IN  TeamDecide(r, actor, ActorVerdict(c, actor), AfterActor[c.op])

\* Invite: FindByEmail.
FindUser(r) ==
    /\ teamPc[r] = "user"
    /\ TeamDecide(r, actorRole[r],
                  IF teamCall[r].member = Null THEN "not_found" ELSE "pass", "write")

ReadMember(r) ==
    /\ teamPc[r] = "member"
    /\ LET c == teamCall[r]
       IN  TeamDecide(r, actorRole[r],
                      MemberVerdict(c, actorRole[r], MemberRole(c.team, c.member)),
                      IF c.op = "remove" THEN "tasks" ELSE "write")

\* RemoveMember: HasOpenAssignedTasks, a statement before the DELETE.
CheckOpenTasks(r) ==
    /\ teamPc[r] = "tasks"
    /\ LET open == HasOpenAssignedTasks(teamCall[r].team, teamCall[r].member)
       IN  TeamDecide(r, actorRole[r], IF open THEN "open_tasks" ELSE "pass", "write")

\* The statement, or the transaction, that the request ends with.
TeamStatementOf(c) ==
    \/ /\ c.op = "create" /\ \E t \in Teams : CreateWithOwner(t, c.actor)
       /\ UNCHANGED taskTables
    \/ /\ c.op = "invite" /\ AddMember(c.team, c.member, c.arg)
       /\ UNCHANGED taskTables
    \/ /\ c.op = "change_role" /\ ChangeMemberRole(c.team, c.member, c.arg)
       /\ UNCHANGED taskTables
    \/ /\ c.op = "remove" /\ RemoveMember(c.team, c.member)
       /\ UNCHANGED taskTables
    \/ /\ c.op = "delete" /\ DeleteTeam(c.team)

TeamWrite(r) ==
    /\ teamPc[r] = "write"
    /\ TeamStatementOf(teamCall[r])
    /\ TeamFinish(r, "ok")

\* The statement changes no row, or violates a key; no id is left for a create.
StatementFails(c, outcome) ==
    LET member == MemberRole(c.team, c.member)
    IN  \/ /\ outcome = "error" /\ c.op = "create"
           /\ "unused" \notin {teams[t] : t \in Teams}
        \/ outcome = "error" /\ c.op = "invite" /\ ~TeamExists(c.team)
        \/ outcome = "already_member" /\ c.op = "invite" /\ member # Null
        \/ /\ outcome = "not_found"
           /\ \/ c.op = "change_role" /\ member \in {Null, "owner", c.arg}
              \/ c.op = "remove" /\ member \in {Null, "owner"}
              \/ c.op = "delete" /\ ~TeamExists(c.team)

TeamWriteFails(r) ==
    /\ teamPc[r] = "write"
    /\ \E outcome \in TeamOutcomes : /\ StatementFails(teamCall[r], outcome)
                                     /\ TeamFinish(r, outcome)
    /\ UNCHANGED tables

TeamStep(r) ==
    \/ ReadActor(r) \/ FindUser(r) \/ ReadMember(r) \/ CheckOpenTasks(r)
    \/ TeamWrite(r) \/ TeamWriteFails(r)

-----------------------------------------------------------------------------
(* Failures *)

\* A call to MySQL returns an error and has no effect.
TeamCallFails(r) ==
    /\ teamPc[r] # "idle"
    /\ TeamFinish(r, "error")
    /\ UNCHANGED tables

\* The statement takes effect but its answer is lost.
TeamWriteUnknown(r) ==
    /\ teamPc[r] = "write"
    /\ TeamStatementOf(teamCall[r])
    /\ TeamFinish(r, "error")

TeamCrash ==
    /\ teamPc' = [r \in TeamRequests |-> "idle"]
    /\ teamCall' = [r \in TeamRequests |-> Null]
    /\ actorRole' = [r \in TeamRequests |-> Null]
    /\ teamReply' = [r \in TeamRequests |-> Null]

TeamNext ==
    \E r \in TeamRequests :
        \/ \E c \in TeamCalls : TeamReject(r, c) \/ TeamBegin(r, c)
        \/ TeamStep(r)
        \/ TeamCallFails(r) \/ TeamWriteUnknown(r)
=============================================================================
