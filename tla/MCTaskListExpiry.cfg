SPECIFICATION FairListSpec
CONSTANTS
    u1 = u1
    t1 = t1
    t2 = t2
    r1 = r1
    r2 = r2
    q1 = q1
    q2 = q2
    Null = Null
    Absent = Absent
    Invalid = Invalid
    Users = {u1}
    Founders = {u1}
    Teams = {a}
    Titles = {t1, t2}
    Requests = {r1}
    Readers = {q1}
    RedisFails = TRUE
    RedisLoses = TRUE
    ClientOps = {"create", "update", "delete"}
    MaxTasks = 1
    MaxVersion = 1
    MaxGeneration = 4
    Filters <- AllStatuses
    CreateInputs <- MCCreateInputs
    UpdateInputs <- OneUpdate
PROPERTIES StaleListsVanish
