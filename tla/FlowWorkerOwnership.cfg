CONSTANTS
    v1 = v1
    v2 = v2
    execute = execute
    recover = recover
    resume = resume
    cancel = cancel
    NoWorker = NoWorker
    Worker <- MCWorkers
    Work <- AllWork
    Kind <- AllKind
    Answered = {resume}
    Results <- MCResults
    MaxInvocations = 1
    MaxFaults = 1
SPECIFICATION Spec
PROPERTIES
    HandlerOwnsBoth
CHECK_DEADLOCK FALSE
