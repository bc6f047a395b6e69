SPECIFICATION FairRightsSpec
CONSTANTS
    u1 = u1
    u2 = u2
    u3 = u3
    t1 = t1
    r1 = r1
    s1 = s1
    s2 = s2
    Null = Null
    Absent = Absent
    Invalid = Invalid
    Users = {u1, u2}
    Founders = {u1}
    Teams = {a}
    Titles = {t1}
    Requests = {r1}
    TeamRequests = {s1}
    RedisFails = FALSE
    ClientOps = {"create", "update"}
    TeamOps = {"create", "invite", "change_role", "remove", "delete"}
    MaxTasks = 1
    MaxVersion = 1
    CreateInputs <- MCAssignInputs
    UpdateInputs <- MCUpdateInputs
PROPERTIES TaskServiceSpec AllRequestsReturn AssigneeWasMember
