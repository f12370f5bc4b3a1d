SPECIFICATION MCSpec
CONSTANTS
    e1 = e1
    e2 = e2
    e3 = e3
    c1 = c1
    Executor = {e1, e2, e3}
    First <- MCFirst
    Canceller = {c1}
    MaxWaits = 2
    MaxErrors = 0
    MaxInterrupts = 0
    Sequential = FALSE
INVARIANTS
    OneExecutor
    RestingRunIsSound
PROPERTIES
    StatusFollowsLifecycle
    CancelNeverLost
SYMMETRY Resumes
CHECK_DEADLOCK FALSE
