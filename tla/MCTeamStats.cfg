SPECIFICATION StatsSpec
CONSTANTS
    w1 = w1
    k1 = k1
    Null = Null
    Teams = {a}
    Assignees = {1}
    Wanted = {"todo", "done"}
    Writers = {w1}
    Askers = {k1}
    Window = 0
    TopSize = 1
    RoleChanges = {"owner", "member"}
    MaxComments = 1
    MaxRows = 2
    MaxNow = 1
    MaxEdits = 2
INVARIANTS TimesInOrder
PROPERTIES ReportAddsUp IdleTeamHasNoTop
VIEW MCView
