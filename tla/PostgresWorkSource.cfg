SPECIFICATION Spec
CONSTANTS
    c1 = c1
    c2 = c2
    w1 = w1
    w2 = w2
    r1 = r1
    Client = {c1, c2}
    Key = {w1, w2}
    ReviewKey = {r1}
    NoKey = NoKey
    Free = Free
    Ttl = 1
    Delay = {0}
    MaxTime = 1
    MaxToken = 2
INVARIANTS
    ConflictsResolve
PROPERTIES
    FollowsWorkSource
SYMMETRY Symmetry
CHECK_DEADLOCK FALSE
