-------------------------- MODULE TaskManagerProofs --------------------------
(***************************************************************************)
(* Theorems of TaskManager and Rights, for every value of their constants: *)
(* team requests are among the statements that TaskService allows for, a   *)
(* team keeps its one owner, the owner's checks are never out of date, and *)
(* whoever is removed or assigned was checked during the request.          *)
(***************************************************************************)
EXTENDS Rights, TaskServiceProofs

(* The checks that a request has passed at each of its steps. *)
TeamRequestOK(r) ==
    /\ teamPc[r] # "idle" => teamCall[r] \in TeamCalls /\ ~TeamMalformed(teamCall[r])
    /\ teamPc[r] \in {"actor", "user", "member", "tasks"} => teamCall[r].op # "create"
    /\ teamPc[r] = "user" => teamCall[r].op = "invite"
    /\ teamPc[r] = "member" => teamCall[r].op \in {"change_role", "remove"}
    /\ teamPc[r] = "tasks" => teamCall[r].op = "remove"
    /\ teamPc[r] \in {"user", "write"} /\ teamCall[r].op = "invite" =>
          teamCall[r].arg \in {"admin", "member"} /\ teamCall[r].member # Invalid
    /\ teamPc[r] = "write" /\ teamCall[r].op = "invite" => teamCall[r].member # Null
    /\ teamPc[r] \in {"member", "write"} /\ teamCall[r].op = "change_role" =>
          teamCall[r].arg \in {"admin", "member"}

(* The steps that only an owner's request reaches. *)
OwnerOnly(r) ==
    \/ teamPc[r] \in {"member", "write"} /\ teamCall[r].op = "change_role"
    \/ teamPc[r] \in {"user", "write"} /\ teamCall[r].op = "invite" /\ teamCall[r].arg = "admin"
    \/ teamPc[r] = "write" /\ teamCall[r].op = "delete"

(* An owner is one as long as the team lives. *)
OwnerStays(r) ==
    OwnerOnly(r) => \/ teams[teamCall[r].team] = "deleted"
                    \/ members[teamCall[r].team][teamCall[r].actor] = "owner"

TInv ==
    /\ TeamTypeOK
    /\ OneOwner
    /\ \A r \in TeamRequests : TeamRequestOK(r) /\ OwnerStays(r)

-----------------------------------------------------------------------------
(* The statements *)

TeamTablesOK ==
    /\ teams \in [Teams -> {"unused", "exists", "deleted"}]
    /\ members \in [Teams -> [Users -> Roles \cup {Null}]]
    /\ OneOwner

(* What no statement does: bring a team back, or take its owner away. *)
Kept ==
    \A t \in Teams :
        /\ teams[t] = "deleted" => teams'[t] = "deleted"
        /\ \A u \in Users : members[t][u] = "owner" =>
              teams'[t] = "deleted" \/ members'[t][u] = "owner"

LEMMA NullIsNoRole == Null \notin Roles
  BY NullAssumption

LEMMA CreateWithOwnerOK ==
    ASSUME TeamTablesOK, NEW t \in Teams, NEW u \in Users, CreateWithOwner(t, u)
    PROVE  TeamTablesOK' /\ Kept
  BY NullIsNoRole DEF TeamTablesOK, Kept, OneOwner, CreateWithOwner, TeamExists, Roles

\* A step that gives one member, who is no owner, a role that is not the owner's.
LEMMA MemberStepOK ==
    ASSUME TeamTablesOK, NEW t \in Teams, NEW u \in Users,
           NEW m \in {"admin", "member", Null},
           TeamExists(t), members[t][u] # "owner",
           members' = [members EXCEPT ![t][u] = m], teams' = teams
    PROVE  TeamTablesOK' /\ Kept
  BY NullIsNoRole DEF TeamTablesOK, Kept, OneOwner, TeamExists, Roles

LEMMA AddMemberOK ==
    ASSUME TeamTablesOK, NEW t \in Teams, NEW u \in Users, NEW m \in {"admin", "member"},
           AddMember(t, u, m)
    PROVE  TeamTablesOK' /\ Kept
  BY MemberStepOK, NullIsNoRole DEF AddMember, Roles

LEMMA ChangeMemberRoleOK ==
    ASSUME TeamTablesOK, NEW t \in Teams, NEW u \in Users, NEW m \in {"admin", "member"},
           ChangeMemberRole(t, u, m)
    PROVE  TeamTablesOK' /\ Kept
<1>1. TeamExists(t)
  BY DEF TeamTablesOK, OneOwner, ChangeMemberRole
<1> QED
  BY <1>1, MemberStepOK DEF ChangeMemberRole

LEMMA RemoveMemberOK ==
    ASSUME TeamTablesOK, NEW t \in Teams, NEW u \in Users, RemoveMember(t, u)
    PROVE  TeamTablesOK' /\ Kept
<1>1. TeamExists(t)
  BY DEF TeamTablesOK, OneOwner, RemoveMember
<1> QED
  BY <1>1, MemberStepOK DEF RemoveMember

LEMMA DeleteTeamOK ==
    ASSUME TeamTablesOK, NEW t \in Teams, DeleteTeam(t)
    PROVE  TeamTablesOK' /\ Kept
  BY NullIsNoRole DEF TeamTablesOK, Kept, OneOwner, DeleteTeam, TeamExists, Roles

LEMMA UnchangedOK ==
    ASSUME TeamTablesOK, UNCHANGED teamTables
    PROVE  TeamTablesOK' /\ Kept
  BY DEF TeamTablesOK, Kept, OneOwner, TeamExists, teamTables

\* Any team statement, as TaskService allows for them.
LEMMA TeamStatementKeeps ==
    ASSUME TeamTablesOK, TeamStatement
    PROVE  TeamTablesOK' /\ Kept
  BY CreateWithOwnerOK, AddMemberOK, ChangeMemberRoleOK, RemoveMemberOK, DeleteTeamOK,
     TeamAssumption DEF TeamStatement

-----------------------------------------------------------------------------
(* Requests *)

\* The calls, by their operation.
LEMMA CallFields ==
    ASSUME NEW c \in TeamCalls, ~TeamMalformed(c)
    PROVE  /\ c \in TeamCall /\ c.actor \in Users
           /\ c.op \in {"create", "invite", "change_role", "remove", "delete"}
           /\ c.op = "create" => c.actor \in Founders
           /\ c.op # "create" => c.team \in Teams
           /\ c.op = "invite" => c.member \in Users \cup {Null, Invalid}
           /\ c.op \in {"change_role", "remove"} => c.member \in Users
  BY TeamAssumption DEF TeamCalls, CreateTeamCalls, InviteCalls, MemberCalls,
     DeleteTeamCalls, TeamCall, TeamMalformed

\* The statement of a request is one that TaskService allows for.
LEMMA WriteIsTeamStatement ==
    ASSUME TInv, NEW r \in TeamRequests, teamPc[r] = "write",
           TeamStatementOf(teamCall[r]), UNCHANGED <<requestVars, generation>>
    PROVE  TeamStatement
<1> DEFINE c == teamCall[r]
<1>1. /\ c \in TeamCalls /\ ~TeamMalformed(c)
      /\ c.op = "invite" => c.arg \in {"admin", "member"} /\ c.member \notin {Null, Invalid}
      /\ c.op = "change_role" => c.arg \in {"admin", "member"}
  BY DEF TInv, TeamRequestOK
<1> HIDE DEF c
<1>2. /\ c.op \in {"create", "invite", "change_role", "remove", "delete"}
      /\ c.op = "create" => c.actor \in Founders
      /\ c.op # "create" => c.team \in Teams
      /\ c.op \in {"invite", "change_role", "remove"} => c.member \in Users
  BY <1>1, CallFields
<1>3. TeamStatementOf(c)
  BY DEF c
<1> QED
  BY <1>1, <1>2, <1>3 DEF TeamStatementOf, TeamStatement

\* A request that a step does not touch still has what its checks gave it.
LEMMA OtherRequestOK ==
    ASSUME TInv, Kept, NEW r \in TeamRequests,
           teamPc'[r] = teamPc[r], teamCall'[r] = teamCall[r]
    PROVE  TeamRequestOK(r)' /\ OwnerStays(r)'
<1>1. TeamRequestOK(r) /\ OwnerStays(r)
  BY DEF TInv
<1>2. TeamRequestOK(r)'
  BY <1>1 DEF TeamRequestOK
<1>3. OwnerStays(r)'
  <2> SUFFICES ASSUME OwnerOnly(r)'
               PROVE  \/ teams'[teamCall[r].team] = "deleted"
                      \/ members'[teamCall[r].team][teamCall[r].actor] = "owner"
    BY DEF OwnerStays
  <2>1. OwnerOnly(r)
    BY DEF OwnerOnly
  <2>2. teamCall[r].team \in Teams /\ teamCall[r].actor \in Users
    BY <1>1, <2>1, CallFields DEF TeamRequestOK, OwnerOnly
  <2> QED
    BY <1>1, <2>1, <2>2 DEF OwnerStays, Kept
<1> QED
  BY <1>2, <1>3

\* A request that returns.
LEMMA TeamFinishOK ==
    ASSUME TInv, TeamTablesOK', Kept, NEW r \in TeamRequests, NEW outcome \in TeamOutcomes,
           TeamFinish(r, outcome)
    PROVE  TInv'
<1>1. TeamTypeOK'
  BY DEF TInv, TeamTypeOK, TeamFinish, TeamSteps, TeamTablesOK
<1>2. ASSUME NEW q \in TeamRequests
      PROVE  TeamRequestOK(q)' /\ OwnerStays(q)'
  <2>1. CASE q = r
    <3>1. teamPc'[q] = "idle"
      BY <2>1 DEF TInv, TeamTypeOK, TeamFinish
    <3> QED
      BY <3>1 DEF TeamRequestOK, OwnerStays, OwnerOnly
  <2>2. CASE q # r
    <3>1. teamPc'[q] = teamPc[q] /\ teamCall'[q] = teamCall[q]
      BY <2>2 DEF TInv, TeamTypeOK, TeamFinish
    <3> QED
      BY <3>1, OtherRequestOK
  <2> QED
    BY <2>1, <2>2
<1> QED
  BY <1>1, <1>2 DEF TInv, TeamTablesOK

\* A request that goes on after a read, when the checks allow for its next step.
LEMMA PassOK ==
    ASSUME TInv, UNCHANGED tables, NEW r \in TeamRequests,
           NEW actor \in Roles \cup {Null}, NEW next \in TeamSteps,
           teamPc' = [teamPc EXCEPT ![r] = next],
           actorRole' = [actorRole EXCEPT ![r] = actor],
           UNCHANGED <<teamCall, teamReply>>,
           TeamRequestOK(r)', OwnerStays(r)'
    PROVE  TInv'
<1>1. TeamTablesOK' /\ Kept
  BY UnchangedOK DEF TInv, TeamTypeOK, TeamTablesOK, tables, teamTables
<1>2. TeamTypeOK'
  BY <1>1 DEF TInv, TeamTypeOK, TeamTablesOK
<1>3. ASSUME NEW q \in TeamRequests
      PROVE  TeamRequestOK(q)' /\ OwnerStays(q)'
  <2>1. CASE q # r
    <3>1. teamPc'[q] = teamPc[q] /\ teamCall'[q] = teamCall[q]
      BY <2>1 DEF TInv, TeamTypeOK
    <3> QED
      BY <1>1, <3>1, OtherRequestOK
  <2> QED
    BY <2>1
<1> QED
  BY <1>1, <1>2, <1>3 DEF TInv, TeamTablesOK

-----------------------------------------------------------------------------
(* The steps of a request *)

LEMMA TeamBeginOK ==
    ASSUME TInv, NEW r \in TeamRequests, NEW c \in TeamCalls,
           TeamReject(r, c) \/ TeamBegin(r, c)
    PROVE  TInv'
<1>1. TeamTablesOK' /\ Kept
  BY UnchangedOK DEF TInv, TeamTypeOK, TeamTablesOK, tables, teamTables, TeamReject, TeamBegin
<1>2. CASE TeamReject(r, c)
  BY <1>1, <1>2, TeamFinishOK DEF TeamReject, TeamOutcomes
<1>3. CASE TeamBegin(r, c)
  <2>1. TeamTypeOK'
    BY <1>1, <1>3 DEF TInv, TeamTypeOK, TeamTablesOK, TeamBegin, TeamSteps
  <2>2. /\ teamCall'[r] = c /\ ~TeamMalformed(c)
        /\ teamPc'[r] = IF c.op = "create" THEN "write" ELSE "actor"
    BY <1>3 DEF TInv, TeamTypeOK, TeamBegin
  <2>3. TeamRequestOK(r)' /\ OwnerStays(r)'
    BY <2>2 DEF TeamRequestOK, OwnerStays, OwnerOnly, TeamMalformed
  <2>4. ASSUME NEW q \in TeamRequests
        PROVE  TeamRequestOK(q)' /\ OwnerStays(q)'
    <3>1. CASE q # r
      <4>1. teamPc'[q] = teamPc[q] /\ teamCall'[q] = teamCall[q]
        BY <1>3, <3>1 DEF TInv, TeamTypeOK, TeamBegin
      <4> QED
        BY <1>1, <4>1, OtherRequestOK
    <3> QED
      BY <2>3, <3>1
  <2> QED
    BY <1>1, <2>1, <2>4 DEF TInv, TeamTablesOK
<1> QED
  BY <1>2, <1>3

\* What the checks leave of the call of a request that is under way.
LEMMA CallOK ==
    ASSUME TInv, NEW r \in TeamRequests, teamPc[r] # "idle"
    PROVE  /\ teamCall[r] \in TeamCalls /\ ~TeamMalformed(teamCall[r])
           /\ teamCall[r].op \in {"create", "invite", "change_role", "remove", "delete"}
           /\ teamCall[r].actor \in Users
           /\ teamCall[r].op # "create" => teamCall[r].team \in Teams
           /\ teamCall[r].op \in {"change_role", "remove"} => teamCall[r].member \in Users
  BY CallFields DEF TInv, TeamRequestOK

\* The outcomes that the checks may return.
LEMMA VerdictTypes ==
    ASSUME NEW c, NEW actor, NEW member
    PROVE  /\ ActorVerdict(c, actor) \in TeamOutcomes \cup {"pass"}
           /\ MemberVerdict(c, actor, member) \in TeamOutcomes \cup {"pass"}
  BY DEF ActorVerdict, InviteVerdict, ChangeRoleVerdict, MemberVerdict, TeamOutcomes

\* A read whose checks decide: it ends the request, or what they passed holds.
LEMMA TeamDecideOK ==
    ASSUME TInv, NEW r \in TeamRequests, NEW actor \in Roles \cup {Null},
           NEW verdict \in TeamOutcomes \cup {"pass"}, NEW next \in TeamSteps,
           TeamDecide(r, actor, verdict, next),
           verdict = "pass" /\ teamPc'[r] = next /\ teamCall' = teamCall
              /\ UNCHANGED tables => TeamRequestOK(r)' /\ OwnerStays(r)'
    PROVE  TInv'
<1>1. UNCHANGED tables
  BY DEF TeamDecide
<1>2. TeamTablesOK' /\ Kept
  BY <1>1, UnchangedOK DEF TInv, TeamTypeOK, TeamTablesOK, tables, teamTables
<1>3. CASE verdict # "pass"
  BY <1>2, <1>3, TeamFinishOK DEF TeamDecide
<1>4. CASE verdict = "pass"
  <2>1. /\ teamPc' = [teamPc EXCEPT ![r] = next]
        /\ actorRole' = [actorRole EXCEPT ![r] = actor]
        /\ UNCHANGED <<teamCall, teamReply>>
    BY <1>4 DEF TeamDecide, TeamFinish
  <2>2. teamPc'[r] = next /\ teamCall' = teamCall
    BY <2>1 DEF TInv, TeamTypeOK
  <2> QED
    BY <1>1, <1>4, <2>1, <2>2, PassOK
<1> QED
  BY <1>3, <1>4

LEMMA ReadActorOK ==
    ASSUME TInv, NEW r \in TeamRequests, ReadActor(r)
    PROVE  TInv'
<1> DEFINE c == teamCall[r]
           actor == MemberRole(c.team, c.actor)
           next == AfterActor[c.op]
<1>1. /\ teamPc[r] = "actor" /\ c.op # "create"
      /\ TeamDecide(r, actor, ActorVerdict(c, actor), next)
  BY DEF ReadActor, TInv, TeamRequestOK
<1>2. /\ c \in TeamCalls /\ ~TeamMalformed(c) /\ c.actor \in Users /\ c.team \in Teams
      /\ c.op \in {"invite", "change_role", "remove", "delete"}
  BY <1>1, CallOK
<1>3. actor \in Roles \cup {Null} /\ actor = members[c.team][c.actor]
  BY <1>2 DEF TInv, TeamTypeOK, MemberRole
<1>4. /\ next \in TeamSteps
      /\ c.op = "invite" => next = "user"
      /\ c.op \in {"change_role", "remove"} => next = "member"
      /\ c.op = "delete" => next = "write"
  BY <1>2 DEF AfterActor, TeamSteps
<1>5. ASSUME ActorVerdict(c, actor) = "pass", teamPc'[r] = next, teamCall' = teamCall,
             UNCHANGED tables
      PROVE  TeamRequestOK(r)' /\ OwnerStays(r)'
  <2> HIDE DEF c, actor, next
  <2>1. /\ c.op = "invite" => /\ c.arg \in {"admin", "member"} /\ c.member # Invalid
                              /\ c.arg = "admin" => actor = "owner"
        /\ c.op = "change_role" => c.arg \in {"admin", "member"} /\ actor = "owner"
        /\ c.op = "delete" => actor = "owner"
    BY <1>5 DEF ActorVerdict, InviteVerdict, ChangeRoleVerdict, CanInvite
  <2>2. teamCall'[r] = c /\ members' = members
    BY <1>5 DEF c, tables
  <2>3. TeamRequestOK(r)'
    BY <1>2, <1>4, <1>5, <2>1, <2>2 DEF TeamRequestOK
  <2>4. OwnerStays(r)'
    BY <1>2, <1>3, <1>4, <1>5, <2>1, <2>2 DEF OwnerStays, OwnerOnly
  <2> QED
    BY <2>3, <2>4
<1> HIDE DEF c, actor, next
<1> QED
  BY <1>1, <1>3, <1>4, <1>5, VerdictTypes, TeamDecideOK

LEMMA FindUserOK ==
    ASSUME TInv, NEW r \in TeamRequests, FindUser(r)
    PROVE  TInv'
<1> DEFINE verdict == IF teamCall[r].member = Null THEN "not_found" ELSE "pass"
<1>1. /\ teamPc[r] = "user" /\ TeamRequestOK(r) /\ OwnerStays(r)
      /\ TeamDecide(r, actorRole[r], verdict, "write")
  BY DEF FindUser, TInv
<1>2. actorRole[r] \in Roles \cup {Null} /\ "write" \in TeamSteps
      /\ verdict \in TeamOutcomes \cup {"pass"}
  BY DEF TInv, TeamTypeOK, TeamSteps, TeamOutcomes
<1>3. ASSUME verdict = "pass", teamPc'[r] = "write", teamCall' = teamCall, UNCHANGED tables
      PROVE  TeamRequestOK(r)' /\ OwnerStays(r)'
  BY <1>1, <1>3 DEF TeamRequestOK, OwnerStays, OwnerOnly, tables
<1> HIDE DEF verdict
<1> QED
  BY <1>1, <1>2, <1>3, TeamDecideOK

LEMMA ReadMemberOK ==
    ASSUME TInv, NEW r \in TeamRequests, ReadMember(r)
    PROVE  TInv'
<1> DEFINE c == teamCall[r]
           verdict == MemberVerdict(c, actorRole[r], MemberRole(c.team, c.member))
           next == IF c.op = "remove" THEN "tasks" ELSE "write"
<1>1. /\ teamPc[r] = "member" /\ TeamRequestOK(r) /\ OwnerStays(r)
      /\ TeamDecide(r, actorRole[r], verdict, next)
  BY DEF ReadMember, TInv
<1>2. actorRole[r] \in Roles \cup {Null} /\ next \in TeamSteps
      /\ verdict \in TeamOutcomes \cup {"pass"}
  BY VerdictTypes DEF TInv, TeamTypeOK, TeamSteps
<1>3. ASSUME verdict = "pass", teamPc'[r] = next, teamCall' = teamCall, UNCHANGED tables
      PROVE  TeamRequestOK(r)' /\ OwnerStays(r)'
  BY <1>1, <1>3 DEF TeamRequestOK, OwnerStays, OwnerOnly, tables
<1> HIDE DEF verdict, next
<1> QED
  BY <1>1, <1>2, <1>3, TeamDecideOK

LEMMA CheckOpenTasksOK ==
    ASSUME TInv, NEW r \in TeamRequests, CheckOpenTasks(r)
    PROVE  TInv'
<1> DEFINE verdict == IF HasOpenAssignedTasks(teamCall[r].team, teamCall[r].member)
                      THEN "open_tasks" ELSE "pass"
<1>1. /\ teamPc[r] = "tasks" /\ TeamRequestOK(r) /\ OwnerStays(r)
      /\ TeamDecide(r, actorRole[r], verdict, "write")
  BY DEF CheckOpenTasks, TInv
<1>2. actorRole[r] \in Roles \cup {Null} /\ "write" \in TeamSteps
      /\ verdict \in TeamOutcomes \cup {"pass"}
  BY DEF TInv, TeamTypeOK, TeamSteps, TeamOutcomes
<1>3. ASSUME verdict = "pass", teamPc'[r] = "write", teamCall' = teamCall, UNCHANGED tables
      PROVE  TeamRequestOK(r)' /\ OwnerStays(r)'
  BY <1>1, <1>3 DEF TeamRequestOK, OwnerStays, OwnerOnly, tables
<1> HIDE DEF verdict
<1> QED
  BY <1>1, <1>2, <1>3, TeamDecideOK

\* The write of a request, whatever its client is told.
LEMMA TeamWriteOK ==
    ASSUME TInv, NEW r \in TeamRequests,
           TeamWrite(r) \/ TeamWriteFails(r) \/ TeamWriteUnknown(r) \/ TeamCallFails(r),
           UNCHANGED <<requestVars, generation>>
    PROVE  TInv'
<1>1. PICK outcome \in TeamOutcomes : TeamFinish(r, outcome)
  BY DEF TeamWrite, TeamWriteFails, TeamWriteUnknown, TeamCallFails, TeamOutcomes
<1>2. TeamStatement \/ UNCHANGED tables
  BY WriteIsTeamStatement DEF TeamWrite, TeamWriteFails, TeamWriteUnknown, TeamCallFails
<1>3. TeamTablesOK' /\ Kept
  BY <1>2, TeamStatementKeeps, UnchangedOK DEF TInv, TeamTypeOK, TeamTablesOK, tables, teamTables
<1> QED
  BY <1>1, <1>3, TeamFinishOK

-----------------------------------------------------------------------------
(* Theorems *)

LEMMA ManagerInitOK == ManagerInit => TInv
  BY NullIsNoRole DEF ManagerInit, TaskInit, TablesInit, TeamInit, TInv, TeamTypeOK, OneOwner,
     TeamExists, TeamRequestOK, OwnerStays, OwnerOnly, TeamSteps, Roles

LEMMA TeamNextOK ==
    ASSUME TInv, TeamNext, UNCHANGED <<requestVars, generation>>
    PROVE  TInv'
  BY TeamBeginOK, ReadActorOK, FindUserOK, ReadMemberOK, CheckOpenTasksOK, TeamWriteOK
     DEF TeamNext, TeamStep

\* The steps of task requests, and a stutter, leave teams and their requests.
LEMMA TaskStepOK ==
    ASSUME TInv, UNCHANGED teamTables, UNCHANGED teamVars
    PROVE  TInv'
<1>1. TeamTablesOK' /\ Kept
  BY UnchangedOK DEF TInv, TeamTypeOK, TeamTablesOK
<1>2. TeamTypeOK'
  BY <1>1 DEF TInv, TeamTypeOK, TeamTablesOK, teamVars
<1>3. \A q \in TeamRequests : TeamRequestOK(q)' /\ OwnerStays(q)'
  BY <1>1, OtherRequestOK DEF teamVars
<1> QED
  BY <1>1, <1>2, <1>3 DEF TInv, TeamTablesOK

LEMMA RequestNextKeepsTeams ==
    RequestNext => UNCHANGED teamTables
  BY DEF RequestNext, RequestStep, Fault, Reject, Begin, Find, Decide, CreateRole, UpdateRole,
     DeleteRole, HistoryRole, CheckAssignee, Write, Commit, WriteConflict, InsertFails,
     ListHistory, InvalidateTeam, CallFails, CommitUnknown, InvalidateFails, tables, teamTables

LEMMA TeamCrashOK ==
    ASSUME TInv, Crash, TeamCrash
    PROVE  TInv'
<1>1. TeamTablesOK'
  BY UnchangedOK DEF TInv, TeamTypeOK, TeamTablesOK, Crash, tables, teamTables
<1>2. /\ teamPc' = [r \in TeamRequests |-> "idle"]
      /\ teamCall' = [r \in TeamRequests |-> Null]
      /\ actorRole' = [r \in TeamRequests |-> Null]
      /\ teamReply' = [r \in TeamRequests |-> Null]
  BY DEF TeamCrash
<1>3. TeamTypeOK'
  BY <1>1, <1>2 DEF TeamTypeOK, TeamTablesOK, TeamSteps
<1>4. \A r \in TeamRequests : TeamRequestOK(r)' /\ OwnerStays(r)'
  BY <1>2 DEF TeamRequestOK, OwnerStays, OwnerOnly
<1> QED
  BY <1>1, <1>3, <1>4 DEF TInv, TeamTablesOK

\* The checks of a team request hold until its write, however requests, faults
\* and crashes are interleaved (team/service.go:50-188).
THEOREM ManagerInvariance == ManagerSpec => []TInv
<1>1. TInv /\ [ManagerNext]_managerVars => TInv'
  <2> SUFFICES ASSUME TInv, [ManagerNext]_managerVars PROVE TInv'
    OBVIOUS
  <2>1. CASE RequestNext /\ UNCHANGED teamVars
    BY <2>1, RequestNextKeepsTeams, TaskStepOK
  <2>2. CASE TeamNext /\ UNCHANGED <<requestVars, generation>>
    BY <2>2, TeamNextOK
  <2>3. CASE Crash /\ TeamCrash
    BY <2>3, TeamCrashOK
  <2>4. CASE UNCHANGED managerVars
    BY <2>4, TaskStepOK DEF managerVars, taskVars, tables, teamTables
  <2> QED
    BY <2>1, <2>2, <2>3, <2>4 DEF ManagerNext
<1> QED
  BY <1>1, ManagerInitOK, PTL DEF ManagerSpec

\* The variables of team requests keep their types (team/service.go).
THEOREM TeamTypeCorrect == ManagerSpec => []TeamTypeOK
<1>1. TInv => TeamTypeOK
  BY DEF TInv
<1> QED
  BY <1>1, ManagerInvariance, PTL

\* A team that exists has exactly one owner, and no other team has a member
\* (repository/team.go:21-66, 138-183; team/service.go:100, 112, 141).
THEOREM TeamHasOneOwner == ManagerSpec => []OneOwner
<1>1. TInv => OneOwner
  BY DEF TInv
<1> QED
  BY <1>1, ManagerInvariance, PTL

\* Admins are appointed and demoted, and teams deleted, by who is the owner at
\* that step (team/service.go:61, 96, 167).
THEOREM OwnerActs == ManagerSpec => OwnerActsNow
<1>1. ASSUME TInv, [ManagerNext]_managerVars, NEW t \in Teams, NEW u \in Users, TeamExists(t),
             \/ members[t][u] # "admin" /\ members'[t][u] = "admin"
             \/ members[t][u] = "admin" /\ members'[t][u] = "member"
             \/ ~TeamExists(t)'
      PROVE  \E r \in TeamRequests : /\ teamPc[r] = "write" /\ teamCall[r].team = t
                                     /\ members[t][teamCall[r].actor] = "owner"
  <2>1. ~UNCHANGED teamTables
    BY <1>1 DEF teamTables, TeamExists
  <2>2. PICK r \in TeamRequests : /\ teamPc[r] = "write" /\ TeamStatementOf(teamCall[r])
    BY <1>1, <2>1, RequestNextKeepsTeams
       DEF ManagerNext, managerVars, taskVars, tables, teamTables, Crash, TeamNext, TeamReject,
           TeamBegin, TeamStep, ReadActor, FindUser, ReadMember, CheckOpenTasks, TeamDecide,
           TeamWrite, TeamWriteFails, TeamCallFails, TeamWriteUnknown
  <2> DEFINE c == teamCall[r]
  <2>3. /\ TeamRequestOK(r) /\ OwnerStays(r) /\ teamPc[r] = "write"
        /\ c.op # "create" => c.team \in Teams
        /\ c.op \in {"create", "invite", "change_role", "remove", "delete"}
        /\ c.op \in {"change_role", "remove"} => c.member \in Users
        /\ c.op = "invite" => c.member \in Users
    BY <1>1, <2>2, CallOK, CallFields DEF TInv, TeamRequestOK
  <2>4. /\ teams \in [Teams -> {"unused", "exists", "deleted"}]
        /\ members \in [Teams -> [Users -> Roles \cup {Null}]]
    BY <1>1 DEF TInv, TeamTypeOK
  <2>5. c.team = t /\ OwnerOnly(r)
    <3>1. CASE c.op = "create"
      BY <1>1, <2>2, <2>4, <3>1 DEF TeamStatementOf, CreateWithOwner, TeamExists
    <3>2. CASE c.op = "invite"
      BY <1>1, <2>2, <2>3, <2>4, <3>2, NullIsNoRole
         DEF TeamStatementOf, AddMember, TeamExists, OwnerOnly, Roles
    <3>3. CASE c.op = "change_role"
      BY <1>1, <2>2, <2>3, <2>4, <3>3
         DEF TeamStatementOf, ChangeMemberRole, TeamExists, OwnerOnly
    <3>4. CASE c.op = "remove"
      BY <1>1, <2>2, <2>3, <2>4, <3>4, NullIsNoRole
         DEF TeamStatementOf, RemoveMember, TeamExists, Roles
    <3>5. CASE c.op = "delete"
      BY <1>1, <2>2, <2>3, <2>4, <3>5
         DEF TeamStatementOf, DeleteTeam, TeamExists, OwnerOnly
    <3> QED
      BY <2>3, <3>1, <3>2, <3>3, <3>4, <3>5
  <2> QED
    BY <1>1, <2>2, <2>3, <2>5 DEF OwnerStays, TeamExists
<1>2. TInv /\ [ManagerNext]_managerVars =>
        [\A t \in Teams, u \in Users :
           /\ TeamExists(t)
           /\ \/ members[t][u] # "admin" /\ members'[t][u] = "admin"
              \/ members[t][u] = "admin" /\ members'[t][u] = "member"
              \/ ~TeamExists(t)'
           => \E r \in TeamRequests : /\ teamPc[r] = "write" /\ teamCall[r].team = t
                                      /\ members[t][teamCall[r].actor] = "owner"]_managerVars
  BY <1>1
<1> QED
  BY <1>2, ManagerInvariance, PTL DEF ManagerSpec, OwnerActsNow

\* A step of the two services is one that TaskService allows for.
LEMMA TaskStepOfManager ==
    ASSUME TInv, [ManagerNext]_managerVars
    PROVE  [Next]_taskVars
<1>1. CASE RequestNext /\ UNCHANGED teamVars
  BY <1>1 DEF Next
<1>2. CASE TeamNext /\ UNCHANGED <<requestVars, generation>>
  <2>1. TeamStatement \/ UNCHANGED tables
    BY <1>2, WriteIsTeamStatement
       DEF TeamNext, TeamReject, TeamBegin, TeamStep, ReadActor, FindUser, ReadMember,
           CheckOpenTasks, TeamDecide, TeamWrite, TeamWriteFails, TeamCallFails,
           TeamWriteUnknown
  <2> QED
    BY <1>2, <2>1 DEF Next, taskVars
<1>3. CASE Crash /\ TeamCrash
  BY <1>3 DEF Next
<1>4. CASE UNCHANGED managerVars
  BY <1>4 DEF managerVars
<1> QED
  BY <1>1, <1>2, <1>3, <1>4 DEF ManagerNext

\* What team requests do to the tables is what TaskService allows for: its
\* theorems are theorems of the two services together (team/service.go).
THEOREM ManagerImplementsTaskService == ManagerSpec => TaskServiceSpec
<1>1. ManagerInit => TaskInit
  BY DEF ManagerInit
<1>2. TInv /\ [ManagerNext]_managerVars => [Next]_taskVars
  BY TaskStepOfManager
<1> QED
  BY <1>1, <1>2, ManagerInvariance, PTL DEF ManagerSpec, TaskServiceSpec, Spec

\* With its team requests the service still is a store of tasks and histories
\* that changes one row and its history at a time (repository/task.go:23-225,
\* team.go:202-217), and the rows its requests hold are fresh.
THEOREM ManagerImplementsStore == ManagerSpec => StoreSpec /\ []SnapshotFresh
  BY ManagerImplementsTaskService, ServiceImplementsStore, SnapshotsAreFresh, PTL
     DEF TaskServiceSpec

-----------------------------------------------------------------------------
(* What the checks are worth: Rights. *)

(* A row that a request holds and the row of the table are of the same team; a *)
(* row that is gone went with its team.                                        *)
HeldTeam(r) ==
    current[r] # Null =>
        LET row == tasks[call[r].task]
        IN  IF row = Null THEN teams[current[r].team] = "deleted"
                          ELSE row.team = current[r].team

AssigneeOK(r) ==
    pc[r] = "write" /\ call[r].op # "delete" => Written(r).assignee \in mates[r] \cup {Null}

RemovalOK(r) ==
    Removing(r) /\ teamPc[r] # "actor" =>
        /\ actorRole[r] \in actorHad[r]
        /\ teamPc[r] \in {"tasks", "write"} => allowed[r]

(* The inductive invariant of the history variables: the team is the same when *)
(* the assignee is checked as when the task was read, or there is none.        *)
RInv ==
    /\ \A r \in Requests : HeldTeam(r) /\ AssigneeOK(r)
    /\ \A r \in TeamRequests : RemovalOK(r)

\* A row keeps its team, and it goes with its team only (repository/team.go:202-217,
\* the cascade of 000001_init.up.sql).
LEMMA RowKeepsTeam ==
    ASSUME IInv, IInv', Next, NEW id \in 1..lastTask
    PROVE  IF tasks[id] = Null THEN tasks'[id] = Null
           ELSE IF tasks'[id] = Null THEN teams'[tasks[id].team] = "deleted"
           ELSE tasks'[id].team = tasks[id].team
<1>1. /\ tasks \in [TaskIds -> TaskRow \cup {Null}] /\ lastTask \in 0..MaxTasks
      /\ teams \in [Teams -> {"unused", "exists", "deleted"}]
      /\ id \in TaskIds /\ id # lastTask + 1
  BY MaxTasksAssumption DEF IInv, TypeOK, TaskIds
<1>2. CASE UNCHANGED taskTables
  BY <1>2 DEF taskTables
<1>3. ASSUME NEW t \in Teams, DeleteTeam(t)
      PROVE  IF tasks[id] = Null THEN tasks'[id] = Null
             ELSE IF tasks'[id] = Null THEN teams'[tasks[id].team] = "deleted"
             ELSE tasks'[id].team = tasks[id].team
  BY <1>1, <1>3 DEF DeleteTeam, TeamTasks
<1>4. ASSUME NEW r \in Requests, Commit(r)
      PROVE  IF tasks[id] = Null THEN tasks'[id] = Null
             ELSE /\ tasks'[id] # Null
                  /\ tasks'[id].team = tasks[id].team
  <2>1. CASE call[r].op = "create"
    <3>1. tasks' = [tasks EXCEPT ![lastTask + 1] = NewTask(call[r])]
      BY <1>4, <2>1 DEF Commit, CreateWithHistory
    <3> QED
      BY <1>1, <3>1
  <2>2. CASE call[r].op # "create"
    <3> DEFINE new == [current[r] EXCEPT !.deletedAt = Time,
                                         !.version = current[r].version + 1]
    <3>1. /\ \A i \in TaskIds \ {call[r].task} : tasks'[i] = tasks[i]
          /\ tasks[call[r].task] = current[r] /\ current[r] \in TaskRow
          /\ tasks'[call[r].task] \in TaskRow
          /\ \/ tasks'[call[r].task] = Rewrite(current[r], Written(r))
             \/ tasks'[call[r].task] = new
      BY <1>4, <2>2, CommitEffect
    <3>2. Rewrite(current[r], Written(r)).team = current[r].team
      BY <3>1 DEF Rewrite, TaskRow
    <3>3. new.team = current[r].team
      BY <3>1 DEF TaskRow
    <3> HIDE DEF new
    <3> QED
      BY <1>1, <3>1, <3>2, <3>3, NullRecordAssumption
  <2> QED
    BY <2>1, <2>2
<1> QED
  BY <1>2, <1>3, <1>4, WhoWrites DEF Write, CommitUnknown

\* Where a request's row comes from.
LEMMA RowRead ==
    ASSUME IInv, NEW r \in Requests,
           \/ \E c \in Calls : Reject(r, c) \/ Begin(r, c)
           \/ RequestStep(r)
           \/ Fault(r)
    PROVE  \/ current'[r] = Null
           \/ current'[r] = current[r] /\ call'[r] = call[r]
           \/ /\ current'[r] = tasks[call[r].task] /\ call'[r] = call[r]
              /\ UNCHANGED tables
<1>1. /\ current \in [Requests -> TaskRow \cup {Null}] /\ RequestOK(r)
      /\ call \in [Requests -> Call \cup {Null}]
  BY DEF IInv, TypeOK
<1>2. ASSUME NEW outcome \in Outcomes, Finish(r, outcome) PROVE current'[r] = Null
  BY <1>1, <1>2 DEF Finish
<1>3. ASSUME NEW c \in Calls, Begin(r, c) PROVE current'[r] = Null
  BY <1>1, <1>3 DEF Begin, RequestOK
<1>4. CASE Find(r)
  BY <1>1, <1>4 DEF Find, Finish, FindByID
<1>5. CASE CreateRole(r) \/ UpdateRole(r) \/ DeleteRole(r) \/ HistoryRole(r)
  BY <1>1, <1>5 DEF CreateRole, UpdateRole, DeleteRole, HistoryRole, Decide, Finish
<1>6. CASE CheckAssignee(r) \/ Write(r)
  BY <1>1, <1>6 DEF CheckAssignee, Write, Finish
<1> QED
  BY <1>2, <1>3, <1>4, <1>5, <1>6
  DEF RequestStep, Fault, Reject, WriteConflict, InsertFails, ListHistory,
      InvalidateTeam, CallFails, CommitUnknown, InvalidateFails, Outcomes

LEMMA HeldTeamStep ==
    ASSUME IInv, IInv', TInv, TInv', NEW r \in Requests, HeldTeam(r), [ManagerNext]_managerVars
    PROVE  HeldTeam(r)'
<1>1. [Next]_taskVars
  BY TaskStepOfManager
<1>2. Kept
  <2>1. TeamTablesOK
    BY DEF TInv, TeamTypeOK, TeamTablesOK
  <2>2. CASE Next
    <3>1. RequestNext \/ Crash => UNCHANGED teamTables
      BY RequestNextKeepsTeams DEF Crash, tables, teamTables
    <3> QED
      BY <2>1, <2>2, <3>1, TeamStatementKeeps, UnchangedOK DEF Next
  <2>3. CASE UNCHANGED taskVars
    BY <2>1, <2>3, UnchangedOK DEF taskVars, tables, teamTables
  <2> QED
    BY <1>1, <2>2, <2>3
<1>3. \/ current'[r] = Null
      \/ current'[r] = current[r] /\ call'[r] = call[r]
      \/ /\ current'[r] = tasks[call[r].task] /\ call'[r] = call[r]
         /\ UNCHANGED tables
  <2>1. CASE RequestNext
    <3> PICK s \in Requests : \/ \E c \in Calls : Reject(s, c) \/ Begin(s, c)
                             \/ RequestStep(s)
                             \/ Fault(s)
      BY <2>1 DEF RequestNext
    <3>1. CASE s = r
      BY <3>1, RowRead
    <3>2. CASE s # r
      BY <3>2, OthersUnmoved DEF Unmoved
    <3> QED
      BY <3>1, <3>2
  <2>2. CASE Crash
    BY <2>2 DEF Crash
  <2>3. CASE TeamStatement \/ UNCHANGED taskVars
    BY <2>3 DEF TeamStatement, taskVars, requestVars
  <2> QED
    BY <1>1, <2>1, <2>2, <2>3 DEF Next
<1>4. CASE current'[r] = current[r] /\ call'[r] = call[r]
  <2> SUFFICES ASSUME current[r] # Null
               PROVE  LET row == tasks'[call[r].task]
                      IN  IF row = Null THEN teams'[current[r].team] = "deleted"
                                        ELSE row.team = current[r].team
    BY <1>4 DEF HeldTeam
  <2>1. call[r].task \in 1..lastTask /\ current[r].team \in Teams
    BY DEF IInv, TypeOK, RequestOK, TaskRow
  <2>2. CASE Next
    BY <1>2, <2>1, <2>2, RowKeepsTeam DEF HeldTeam, Kept
  <2>3. CASE UNCHANGED taskVars
    BY <2>3 DEF taskVars, tables, HeldTeam
  <2> QED
    BY <1>1, <2>2, <2>3
<1>5. CASE /\ current'[r] = tasks[call[r].task] /\ call'[r] = call[r]
           /\ UNCHANGED tables
  BY <1>5 DEF HeldTeam, tables
<1> QED
  BY <1>3, <1>4, <1>5 DEF HeldTeam

\* Whom validateAssignee lets pass is of the task's team at that step
\* (task/service.go:332-358).
LEMMA CheckedIsMember ==
    ASSUME IInv, TInv, RInv, NEW r \in Requests, CheckAssignee(r), pc'[r] = "write",
           call[r].op # "delete", Remember
    PROVE  Written(r).assignee \in mates'[r] \cup {Null}
<1> DEFINE c == call[r]
           w == Written(r)
<1> SUFFICES ASSUME w.assignee # Null PROVE w.assignee \in mates'[r]
  OBVIOUS
<1>1. /\ TypeOK /\ RequestOK(r) /\ pc[r] = "assignee" /\ UNCHANGED tables
      /\ c \in Calls /\ c \in Call /\ ~Malformed(c)
  BY CallsType DEF IInv, RequestOK, CheckAssignee
<1>2. MemberRole(w.team, w.assignee) # Null /\ call' = call
  BY <1>1 DEF CheckAssignee, Finish, Goto, TypeOK, Steps
<1>3. /\ w \in TaskRow
      /\ c.op = "create" => w.team = c.team
      /\ c.op # "create" => /\ w.team = current[r].team /\ current[r] # Null
  <2>1. CASE c.op = "create"
    <3>1. c.team # Null /\ ~InvalidFields(c.input)
      BY <1>1, <2>1 DEF Malformed, RequestOK
    <3>2. w = NewTask(c)
      BY <2>1 DEF Written
    <3> QED
      BY <1>1, <2>1, <3>1, <3>2, NewTaskType DEF NewTask
  <2>2. CASE c.op # "create"
    <3>1. /\ current[r] \in TaskRow /\ c.input \in Input /\ ~InvalidFields(c.input)
          /\ current[r] # Null
      BY <1>1, <2>2 DEF RequestOK, TypeOK, Call
    <3>2. w = ApplyUpdate(current[r], c.input)
      BY <2>2 DEF Written
    <3> QED
      BY <2>2, <3>1, <3>2, ApplyUpdateType
  <2> QED
    BY <2>1, <2>2
<1>4. TeamOf(c)' = w.team
  <2>1. CASE c.op = "create"
    BY <1>2, <1>3, <2>1 DEF TeamOf
  <2>2. CASE c.op # "create"
    <3>1. c.task \in 1..lastTask /\ c.task \in TaskIds
      BY <1>1, <1>3, <2>2, MaxTasksAssumption DEF RequestOK, TypeOK, TaskIds
    <3>2. w.team \in Teams
      BY <1>3 DEF TaskRow
    <3>3. tasks[c.task] # Null
      <4> SUFFICES ASSUME tasks[c.task] = Null PROVE FALSE
        OBVIOUS
      <4>1. teams[w.team] = "deleted"
        BY <1>3, <2>2 DEF RInv, HeldTeam
      <4>2. \A u \in Users : members[w.team][u] = Null
        BY <3>2, <4>1 DEF TInv, OneOwner, TeamExists
      <4>3. w.assignee \in Users
        BY <1>3 DEF TaskRow
      <4> QED
        BY <1>2, <4>2, <4>3 DEF MemberRole
    <3>4. tasks[c.task].team = w.team
      BY <1>3, <2>2, <3>3 DEF RInv, HeldTeam
    <3> QED
      BY <1>1, <1>2, <2>2, <3>1, <3>3, <3>4 DEF TeamOf, tables
  <2> QED
    BY <2>1, <2>2
<1>5. w.team \in Teams /\ w.assignee \in Users
  BY <1>3 DEF TaskRow
<1>6. members'[w.team][w.assignee] # Null
  BY <1>1, <1>2 DEF MemberRole, tables
<1>7. {u \in Users : members'[w.team][u] # Null} \subseteq mates'[r]
  <2>1. \A u \in Users : RoleIn(TeamOf(c), u)' = members'[w.team][u]
    BY <1>4, <1>5 DEF RoleIn, MemberRole
  <2>2. mates'[r] = mates[r] \cup {u \in Users : RoleIn(TeamOf(c), u)' # Null}
    BY <1>2 DEF Remember
  <2> QED
    BY <2>1, <2>2
<1> QED
  BY <1>5, <1>6, <1>7

\* The steps to a write of a create or an update: the check of its assignee, or a
\* read of the role that finds no assignee to check (service.go:39-72, 146-157).
LEMMA WayToWrite ==
    ASSUME IInv, NEW r \in Requests, pc'[r] = "write", call'[r].op # "delete",
           \/ \E c \in Calls : Reject(r, c) \/ Begin(r, c)
           \/ RequestStep(r)
           \/ Fault(r)
    PROVE  /\ Written(r)' = Written(r) /\ call'[r] = call[r]
           /\ \/ CheckAssignee(r)
              \/ Written(r).assignee = Null
<1>1. /\ pc \in [Requests -> Steps] /\ call \in [Requests -> Call \cup {Null}]
      /\ current \in [Requests -> TaskRow \cup {Null}]
  BY DEF IInv, TypeOK
<1>2. ASSUME NEW outcome \in Outcomes, Finish(r, outcome) PROVE FALSE
  BY <1>1, <1>2 DEF Finish, Goto
<1>3. ASSUME NEW c \in Calls, Begin(r, c) PROVE FALSE
  BY <1>1, <1>3 DEF Begin, Goto
<1>4. ~Find(r) /\ ~HistoryRole(r)
  BY <1>1 DEF Find, HistoryRole, Decide, Finish, Goto
<1>5. ~Write(r) /\ ~DeleteRole(r)
  BY <1>1 DEF Write, DeleteRole, At, Decide, Finish, Goto
<1>6. CASE CreateRole(r)
  <2>1. /\ call[r].op = "create" /\ call' = call /\ current' = current
        /\ pc' = [pc EXCEPT ![r] = AssigneeStep(NewTask(call[r]))]
    BY <1>1, <1>6 DEF CreateRole, At, Decide, Finish, Goto
  <2>2. NewTask(call[r]).assignee = Null
    BY <1>1, <2>1 DEF AssigneeStep
  <2> QED
    BY <2>1, <2>2 DEF Written
<1>7. CASE UpdateRole(r)
  <2>1. /\ call[r].op = "update" /\ call' = call /\ current' = current
        /\ pc' = [pc EXCEPT ![r] = AssigneeStep(ApplyUpdate(current[r], call[r].input))]
    BY <1>1, <1>7 DEF UpdateRole, At, Decide, Finish, Goto
  <2>2. ApplyUpdate(current[r], call[r].input).assignee = Null
    BY <1>1, <2>1 DEF AssigneeStep
  <2> QED
    BY <2>1, <2>2 DEF Written
<1>8. CASE CheckAssignee(r)
  <2>1. call' = call /\ current' = current
    BY <1>1, <1>8 DEF CheckAssignee, Finish, Goto
  <2> QED
    BY <1>8, <2>1 DEF Written
<1> QED
  BY <1>2, <1>3, <1>4, <1>5, <1>6, <1>7, <1>8
  DEF RequestStep, Fault, Reject, WriteConflict, InsertFails, ListHistory,
      InvalidateTeam, CallFails, CommitUnknown, InvalidateFails, Outcomes

LEMMA AssigneeStepOK ==
    ASSUME IInv, TInv, RInv, NEW r \in Requests, [RightsNext]_rightsVars
    PROVE  AssigneeOK(r)'
<1> SUFFICES ASSUME pc'[r] = "write", call'[r].op # "delete"
             PROVE  (Written(r).assignee)' \in mates'[r] \cup {Null}
  BY DEF AssigneeOK
<1>1. AssigneeOK(r)
  BY DEF RInv
<1>2. CASE UNCHANGED rightsVars
  BY <1>1, <1>2 DEF rightsVars, managerVars, taskVars, requestVars, AssigneeOK, Written
<1>3. CASE RightsNext
  <2>1. mates[r] \subseteq mates'[r]
    BY <1>3 DEF RightsNext, Remember
  <2>2. CASE Unmoved(r)
    BY <1>1, <2>1, <2>2 DEF Unmoved, AssigneeOK, Written
  <2>3. CASE RequestNext /\ ~Unmoved(r)
    <3>1. \/ \E c \in Calls : Reject(r, c) \/ Begin(r, c)
          \/ RequestStep(r)
          \/ Fault(r)
      BY <2>3, OthersUnmoved DEF RequestNext
    <3>2. /\ Written(r)' = Written(r) /\ call'[r] = call[r]
          /\ CheckAssignee(r) \/ Written(r).assignee = Null
      BY <3>1, WayToWrite
    <3> QED
      BY <1>3, <3>2, CheckedIsMember DEF RightsNext
  <2>4. RequestNext \/ Unmoved(r)
    BY <1>3 DEF RightsNext, ManagerNext, Crash, requestVars, Unmoved
  <2> QED
    BY <2>2, <2>3, <2>4
<1> QED
  BY <1>2, <1>3

\* A read of a team request that decides passes on the role it was made with.
LEMMA DecidedActor ==
    ASSUME TInv, NEW r \in TeamRequests, NEW actor, NEW verdict, NEW next,
           TeamDecide(r, actor, verdict, next), teamPc'[r] # "idle"
    PROVE  /\ verdict = "pass" /\ teamPc'[r] = next /\ actorRole'[r] = actor
           /\ teamCall' = teamCall /\ UNCHANGED tables
<1>1. ~TeamFinish(r, verdict)
  BY DEF TInv, TeamTypeOK, TeamFinish
<1> QED
  BY <1>1 DEF TInv, TeamTypeOK, TeamDecide

\* A removal that its checks let pass was allowed at the step of the check
\* (team/service.go:124-157, 198-208).
LEMMA RemovalChecked ==
    ASSUME TInv, NEW r \in TeamRequests, RemovalOK(r), Remember, ReadMember(r),
           Removing(r)', UNCHANGED <<requestVars, generation>>
    PROVE  teamPc'[r] = "tasks" /\ actorRole'[r] \in actorHad[r] /\ Allowed(r)'
<1> DEFINE c == teamCall[r]
           member == MemberRole(c.team, c.member)
           verdict == MemberVerdict(c, actorRole[r], member)
<1>1. /\ teamPc[r] = "member"
      /\ TeamDecide(r, actorRole[r], verdict, IF c.op = "remove" THEN "tasks" ELSE "write")
  BY DEF ReadMember
<1>2. /\ verdict = "pass" /\ actorRole'[r] = actorRole[r]
      /\ teamCall' = teamCall /\ UNCHANGED tables
      /\ teamPc'[r] = IF c.op = "remove" THEN "tasks" ELSE "write"
  BY <1>1, DecidedActor DEF Removing
<1>3. c.op = "remove" /\ c.team \in Teams /\ c.member \in Users /\ c.actor \in Users
  BY <1>1, <1>2, CallOK DEF Removing
<1>4. actorRole[r] \in actorHad[r] /\ actorHad[r] \subseteq actorHad'[r]
  BY <1>1, <1>3 DEF RemovalOK, Removing, Remember
<1>5. member \in Roles /\ member # "owner" /\ CanRemoveMember(c, actorRole[r], member)
  BY <1>2, <1>3, NullIsNoRole DEF MemberVerdict, TInv, TeamTypeOK, MemberRole
<1>6. RoleIn(c.team, c.member)' = member
  BY <1>2, <1>3 DEF RoleIn, MemberRole, tables
<1> HIDE DEF member, verdict
<1>7. Allowed(r)'
  BY <1>2, <1>4, <1>5, <1>6 DEF Allowed, CanRemoveMember, Roles
<1> QED
  BY <1>2, <1>3, <1>4, <1>7

LEMMA RemovalStepOK ==
    ASSUME TInv, RInv, NEW r \in TeamRequests, [RightsNext]_rightsVars
    PROVE  RemovalOK(r)'
<1> SUFFICES ASSUME Removing(r)', teamPc'[r] # "actor"
             PROVE  /\ actorRole'[r] \in actorHad'[r]
                    /\ teamPc'[r] \in {"tasks", "write"} => allowed'[r]
  BY DEF RemovalOK
<1>1. RemovalOK(r) /\ TeamRequestOK(r)
  BY DEF RInv, TInv
<1>2. CASE UNCHANGED rightsVars
  BY <1>1, <1>2 DEF rightsVars, managerVars, teamVars, RemovalOK, Removing
<1>3. CASE RightsNext
  <2>1. /\ actorHad'[r] = actorHad[r] \cup {RoleIn(teamCall[r].team, teamCall[r].actor)'}
        /\ Removing(r)' /\ (allowed[r] \/ Allowed(r)') => allowed'[r]
    BY <1>3 DEF RightsNext, Remember
  <2>2. CASE teamPc'[r] = teamPc[r] /\ teamCall'[r] = teamCall[r]
             /\ actorRole'[r] = actorRole[r]
    BY <1>1, <2>1, <2>2 DEF RemovalOK, Removing
  <2>3. ~(Crash /\ TeamCrash)
    BY DEF TeamCrash, Removing
  <2>4. CASE TeamNext /\ UNCHANGED <<requestVars, generation>>
    <3> PICK q \in TeamRequests :
                  \/ \E c \in TeamCalls : TeamReject(q, c) \/ TeamBegin(q, c)
                  \/ TeamStep(q)
                  \/ TeamCallFails(q) \/ TeamWriteUnknown(q)
      BY <2>4 DEF TeamNext
    <3>1. /\ teamPc \in [TeamRequests -> TeamSteps]
          /\ teamCall \in [TeamRequests -> TeamCalls \cup {Null}]
          /\ actorRole \in [TeamRequests -> Roles \cup {Null}]
      BY DEF TInv, TeamTypeOK
    <3>2. ASSUME q # r PROVE teamPc'[r] = teamPc[r] /\ teamCall'[r] = teamCall[r]
                             /\ actorRole'[r] = actorRole[r]
      BY <3>1, <3>2 DEF TeamReject, TeamBegin, TeamStep, TeamCallFails, TeamWriteUnknown,
         ReadActor, FindUser, ReadMember, CheckOpenTasks, TeamWrite, TeamWriteFails,
         TeamDecide, TeamFinish
    <3>3. CASE q = r
      <4>1. \A outcome : ~TeamFinish(r, outcome)
        BY <3>1 DEF TeamFinish, Removing
      <4>2. ASSUME NEW c \in TeamCalls PROVE ~TeamReject(r, c) /\ ~TeamBegin(r, c)
        BY <3>1, <4>1 DEF TeamReject, TeamBegin, Removing
      <4>3. CASE ReadActor(r)
        <5> DEFINE c == teamCall[r]
                   actor == MemberRole(c.team, c.actor)
        <5>1. /\ teamPc[r] = "actor" /\ TeamDecide(r, actor, ActorVerdict(c, actor), AfterActor[c.op])
          BY <4>3 DEF ReadActor
        <5>2. /\ teamPc'[r] = AfterActor[c.op] /\ actorRole'[r] = actor
              /\ teamCall' = teamCall /\ UNCHANGED tables
          BY <5>1, DecidedActor DEF Removing
        <5>3. c.op = "remove" /\ c.team \in Teams /\ c.actor \in Users
          BY <5>1, <5>2, CallOK DEF Removing
        <5>4. RoleIn(teamCall[r].team, teamCall[r].actor)' = actor
          BY <5>2, <5>3 DEF RoleIn, MemberRole, tables
        <5>5. teamPc'[r] = "member"
          BY <5>2, <5>3 DEF AfterActor
        <5> QED
          BY <2>1, <5>2, <5>4, <5>5
      <4>4. CASE ReadMember(r)
        BY <1>1, <1>3, <2>1, <2>4, <4>4, RemovalChecked DEF RightsNext
      <4>5. CASE CheckOpenTasks(r)
        <5>1. /\ teamPc[r] = "tasks" /\ teamPc'[r] = "write" /\ actorRole'[r] = actorRole[r]
              /\ teamCall' = teamCall
          BY <4>5, DecidedActor DEF CheckOpenTasks, Removing
        <5> QED
          BY <1>1, <2>1, <5>1 DEF RemovalOK, Removing
      <4>6. CASE FindUser(r)
        <5>1. teamPc[r] = "user" /\ teamCall' = teamCall
          BY <4>6, DecidedActor DEF FindUser, Removing
        <5> QED
          BY <1>1, <5>1 DEF TeamRequestOK, Removing
      <4> QED
        BY <3>3, <4>1, <4>2, <4>3, <4>4, <4>5, <4>6
        DEF TeamStep, TeamCallFails, TeamWriteUnknown, TeamWrite, TeamWriteFails
    <3> QED
      BY <2>2, <3>2, <3>3
  <2> QED
    BY <1>3, <2>2, <2>3, <2>4 DEF RightsNext, ManagerNext, teamVars
<1> QED
  BY <1>2, <1>3

-----------------------------------------------------------------------------
(* Theorems of Rights *)

\* The history variables watch the two services and change nothing of them.
THEOREM RightsImplementsManager == RightsSpec => ManagerSpec
<1>1. RightsInit => ManagerInit
  BY DEF RightsInit
<1>2. [RightsNext]_rightsVars => [ManagerNext]_managerVars
  BY DEF RightsNext, rightsVars
<1> QED
  BY <1>1, <1>2, PTL DEF RightsSpec, ManagerSpec

\* What the checks of a removal and of an assignee found is kept until the write
\* (team/service.go:124-157; task/service.go:332-358).
THEOREM RightsInvariance == RightsSpec => [](IInv /\ TInv /\ RInv)
<1>1. RightsSpec => [](IInv /\ TInv)
  BY RightsImplementsManager, ManagerImplementsTaskService, ManagerInvariance, Invariance, PTL
     DEF TaskServiceSpec
<1>2. RightsInit => RInv
  BY DEF RightsInit, ManagerInit, TaskInit, TeamInit, RInv, HeldTeam, AssigneeOK, RemovalOK,
         Removing
<1>3. IInv /\ IInv' /\ TInv /\ TInv' /\ RInv /\ [RightsNext]_rightsVars => RInv'
  <2> SUFFICES ASSUME IInv, IInv', TInv, TInv', RInv, [RightsNext]_rightsVars PROVE RInv'
    OBVIOUS
  <2>1. [ManagerNext]_managerVars
    BY DEF RightsNext, rightsVars
  <2>2. \A r \in Requests : HeldTeam(r)' /\ AssigneeOK(r)'
    BY <2>1, HeldTeamStep, AssigneeStepOK DEF RInv
  <2>3. \A r \in TeamRequests : RemovalOK(r)'
    BY RemovalStepOK
  <2> QED
    BY <2>2, <2>3 DEF RInv
<1> QED
  BY <1>1, <1>2, <1>3, PTL DEF RightsSpec

\* Nobody is removed but by a request whose actor had a role that allows it, for a
\* role that the member had then or later: no race of promotions and removals takes
\* out the owner, or an admin by an admin (team/service.go:124-157, 198-208).
THEOREM RemovalsWereAllowed == RightsSpec => RemovalWasAllowed
<1>1. IInv /\ TInv /\ RInv /\ [RightsNext]_rightsVars =>
        [\A t \in Teams, u \in Users :
           members[t][u] # Null /\ members'[t][u] = Null /\ TeamExists(t)' =>
               \E r \in TeamRequests : /\ Removing(r) /\ allowed[r]
                                      /\ teamCall[r].team = t
                                      /\ teamCall[r].member = u]_rightsVars
  <2> SUFFICES ASSUME TInv, RInv, RightsNext, NEW t \in Teams, NEW u \in Users,
                      members[t][u] # Null, members'[t][u] = Null, TeamExists(t)'
               PROVE  \E r \in TeamRequests : /\ Removing(r) /\ allowed[r]
                                             /\ teamCall[r].team = t
                                             /\ teamCall[r].member = u
    OBVIOUS
  <2>1. ~UNCHANGED teamTables /\ ManagerNext
    BY DEF teamTables, RightsNext
  <2>2. PICK r \in TeamRequests : teamPc[r] = "write" /\ TeamStatementOf(teamCall[r])
    BY <2>1, RequestNextKeepsTeams
       DEF ManagerNext, tables, teamTables, Crash, TeamNext, TeamReject,
           TeamBegin, TeamStep, ReadActor, FindUser, ReadMember, CheckOpenTasks, TeamDecide,
           TeamWrite, TeamWriteFails, TeamCallFails, TeamWriteUnknown
  <2> DEFINE c == teamCall[r]
  <2>3. /\ c.op # "create" => c.team \in Teams
        /\ c.op \in {"create", "invite", "change_role", "remove", "delete"}
        /\ c.op \in {"change_role", "remove"} => c.member \in Users
        /\ c.op = "invite" => c.member \in Users /\ c.arg \in Roles
        /\ c.op = "create" => c.actor \in Users
        /\ c.op = "change_role" => c.arg \in Roles
    BY <2>2, CallOK, CallFields DEF TInv, TeamRequestOK, Roles
  <2>4. /\ teams \in [Teams -> {"unused", "exists", "deleted"}]
        /\ members \in [Teams -> [Users -> Roles \cup {Null}]]
    BY DEF TInv, TeamTypeOK
  <2>5. c.op = "remove" /\ c.team = t /\ c.member = u
    <3>1. c.op # "create"
      <4> SUFFICES ASSUME c.op = "create" PROVE FALSE
        OBVIOUS
      <4> PICK x \in Teams : CreateWithOwner(x, c.actor)
        BY <2>2 DEF TeamStatementOf
      <4>1. "owner" \in Roles
        BY DEF Roles
      <4> QED
        BY <2>3, <2>4, <4>1, NullIsNoRole DEF CreateWithOwner
    <3>2. c.op # "invite"
      BY <2>2, <2>3, <2>4, NullIsNoRole DEF TeamStatementOf, AddMember
    <3>3. c.op # "change_role"
      BY <2>2, <2>3, <2>4, NullIsNoRole DEF TeamStatementOf, ChangeMemberRole
    <3>4. c.op # "delete"
      BY <2>2, <2>3, <2>4 DEF TeamStatementOf, DeleteTeam, TeamExists
    <3>5. c.op = "remove"
      BY <2>3, <3>1, <3>2, <3>3, <3>4
    <3> QED
      BY <2>2, <2>3, <2>4, <3>5 DEF TeamStatementOf, RemoveMember
  <2> QED
    BY <2>2, <2>5 DEF RInv, RemovalOK, Removing
<1> QED
  BY <1>1, RightsInvariance, PTL DEF RightsSpec, RemovalWasAllowed

\* A task is written with an assignee only if he was of its team at some moment of
\* the request, whoever leaves in between (task/service.go:332-358).
THEOREM AssigneesWereMembers == RightsSpec => AssigneeWasMember
<1>1. IInv /\ TInv /\ RInv /\ [RightsNext]_rightsVars =>
        [\A r \in Requests :
           pc[r] = "write" /\ pc'[r] # "write" /\ tasks' # tasks /\ call[r].op # "delete" =>
               Written(r).assignee \in mates[r] \cup {Null}]_rightsVars
  BY DEF RInv, AssigneeOK
<1> QED
  BY <1>1, RightsInvariance, PTL DEF RightsSpec, AssigneeWasMember
=============================================================================
