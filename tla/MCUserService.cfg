SPECIFICATION AccountSpec
CONSTANTS
    plain = plain
    accented = accented
    other = other
    r1 = r1
    r2 = r2
    p1 = p1
    p2 = p2
    long = long
    empty = empty
    TextOf <- MCTextOf
    Null = Null
    Invalid = Invalid
    Addresses <- MCAddresses
    Emails = {plain, accented, other}
    Normal <- MCNormal
    Collated <- MCCollated
    Passwords = {p1, p2, long, empty}
    UserRequests = {r1, r2}
    Callers = {c1}
    MaxUsers = 2
    MaxTime = 2
    Second = 2
    Ttl = 1
INVARIANTS WelcomeIsKept TokenLifetime
PROPERTIES RegisteredCanLogIn
VIEW MCView
SYMMETRY MCSymmetry
