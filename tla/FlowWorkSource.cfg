\* The PostgreSQL source: clock readings may be stale when the row lock is granted,
\* and claim steps over rows other transactions hold.
CONSTANTS
    w1 = w1
    w2 = w2
    r1 = r1
    r2 = r2
    NoKey = NoKey
    Key <- MCKey
    ReviewKey <- MCReviewKey
    Ttl = 2
    Delay <- MCDelay
    Lag = 1
    LockedSets <- PostgresLockedSets
    MaxTime = 4
    MaxToken = 4
SPECIFICATION Spec
INVARIANTS
    QueueInv
    ReviewBalance
PROPERTIES
    SupersededIsFenced
    DeliveryExclusive
SYMMETRY Symmetry
\* A queue whose items are all settled has nothing left to do.
CHECK_DEADLOCK FALSE
