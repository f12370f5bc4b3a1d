SPECIFICATION MCFairSpec
CONSTANTS
    StepId = {"a", "b", "c"}
    Draft <- ChainAndOdd
    Supplied <- WithHistory
    MaxFuture = 2
    ReplanAfterStep = TRUE
    Summarize = TRUE
    MaxIterations = 2
    MaxSteps = 7
    Unasked = FALSE
    MaxInterrupts = 1
INVARIANTS
    PlanInv
    PlanAgreesWithRun
PROPERTIES
    HistoryKept
    Stops
CHECK_DEADLOCK FALSE
