SPECIFICATION MCSpec
CONSTANTS
    Msg = {m1, m2, m3}
    Conv = {c1, c2}
    Task = {t1, t2}
    NoTask = NoTask
    NoRun = NoRun
    m1 = m1
    m2 = m2
    m3 = m3
    c1 = c1
    c2 = c2
    t1 = t1
    t2 = t2
    Info <- MCThread
    BatchSize = 3
    CompletedLimit = 2
    Durable = FALSE
    Unparseable = FALSE
    MaxCrashes = 1
    MaxErrors = 1
INVARIANTS
    JournalInv
    RepliesSettled
    RetainedWhileActive
PROPERTIES
    NoRerun
CHECK_DEADLOCK FALSE
