SPECIFICATION Spec
CONSTANTS
    u1 = u1
    u2 = u2
    t1 = t1
    t2 = t2
    r1 = r1
    r2 = r2
    Null = Null
    Absent = Absent
    Invalid = Invalid
    Users = {u1, u2}
    Founders = {u1}
    Teams = {a}
    Titles = {t1, t2}
    Requests = {r1, r2}
    RedisFails = TRUE
    ClientOps = {"create", "update", "delete", "history"}
    MaxTasks = 1
    MaxVersion = 1
    CreateInputs <- MCCreateInputs
    UpdateInputs <- MCUpdateInputs
INVARIANTS TypeOK SnapshotFresh HistoryExplainsRow ClosedIffDone
PROPERTIES OneWinnerPerVersion UpdateIsAsAsked ExecutorChangesOnlyStatus ConflictIsReal StoreSpec DeletedIsFinal
VIEW MCView
SYMMETRY MCSymmetry
