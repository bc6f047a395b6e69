SPECIFICATION PagesSpec
CONSTANTS
    w1 = w1
    w2 = w2
    q1 = q1
    Null = Null
    Teams = {a}
    Assignees = {}
    Wanted = {"todo"}
    Writers = {w1, w2}
    Pagers = {q1}
    Limit = 1
    MaxRows = 2
    MaxNow = 1
    MaxEdits = 1
    MaxGeneration = 2
PROPERTIES UpdatedNeverBack QuietPagesExact UntouchedNotSkipped
SYMMETRY MCSymmetry
VIEW MCView
