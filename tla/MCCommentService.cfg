SPECIFICATION CommentSpec
CONSTANTS
    u1 = u1
    u2 = u2
    t1 = t1
    r1 = r1
    r2 = r2
    Null = Null
    Invalid = Invalid
    Users = {u1, u2}
    Founders = {u1}
    Teams = {a}
    Titles = {t1}
    MaxTasks = 1
    Commenters = {r1, r2}
    MaxComments = 2
    MaxClock = 1
INVARIANTS AnswersFollow
PROPERTIES ListIsComplete AccessWasThere
VIEW MCView
SYMMETRY MCSymmetry
