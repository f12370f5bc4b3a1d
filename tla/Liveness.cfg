SPECIFICATION MCFairSpec
CONSTANTS
    Call <- MCCall
    Op <- MCOp
    Agents = 1
    MaxInvocations = 1
    MaxCalls = 2
    Timed = TRUE
    Deadline = 1
    Results = {"waiting"}
    MaxFaults = 1
    v1 = v1
    v2 = v2
    NoWorker = NoWorker
    m1 = m1
    m2 = m2
    c1 = c1
    t1 = t1
    NoTask = NoTask
    NoRaftRun = NoRaftRun
PROPERTIES
    WorkSettles
    SequentialCallsEnd
    StopsWhenCancelled
    EveryMessageHandled
    ServerLetsGo
CHECK_DEADLOCK FALSE
