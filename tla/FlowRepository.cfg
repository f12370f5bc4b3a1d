CONSTANTS
    c1 = c1
    c2 = c2
    Client <- MCClient
    Results <- MCResults
    Ends <- MCEnds
    MaxInvocations = 2
    Ttl = 2
    Lag = 1
    MaxTime = 4
    MaxToken = 3
    MaxRevision = 7
    MaxLog = 6
SPECIFICATION Spec
CONSTRAINT Bounds
INVARIANTS
    RepositoryInv
PROPERTIES
    LinearizableLifecycle
    NewestTokenWrites
    LeaseExclusive
SYMMETRY Symmetry
CHECK_DEADLOCK FALSE
