SPECIFICATION RightsSpec
CONSTANTS
    u1 = u1
    u2 = u2
    u3 = u3
    t1 = t1
    r1 = r1
    s1 = s1
    s2 = s2
    Null = Null
    Absent = Absent
    Invalid = Invalid
    Users = {u1, u2, u3}
    Founders = {u1}
    Teams = {a}
    Titles = {t1}
    Requests = {}
    TeamRequests = {s1, s2}
    RedisFails = FALSE
    ClientOps = {}
    TeamOps = {"create", "invite", "change_role", "remove", "delete"}
    MaxTasks = 0
    MaxVersion = 0
    CreateInputs <- None
    UpdateInputs <- None
INVARIANTS TeamTypeOK OneOwner
PROPERTIES OwnerActsNow RemovalWasAllowed
VIEW MCView
SYMMETRY MCSymmetry
