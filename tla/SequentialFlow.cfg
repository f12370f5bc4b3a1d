SPECIFICATION MCSpec
CONSTANTS
    run = run
    r1 = r1
    r2 = r2
    cancel = cancel
    Call <- MCCall
    Op <- MCOp
    Agents = 2
    MaxInvocations = 2
    MaxCalls = 2
    Timed = TRUE
    Deadline = 1
    MaxFaults = 1
    Results = {"completed", "waiting", "failed", "cancelled"}
CONSTRAINT Bounds
CHECK_DEADLOCK FALSE
INVARIANTS
    DriverInv
    ResultAgrees
    NothingLeftBehind
PROPERTIES
    BudgetStopsInvoke
