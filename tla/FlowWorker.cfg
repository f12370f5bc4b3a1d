CONSTANTS
    v1 = v1
    v2 = v2
    execute = execute
    recover = recover
    resume = resume
    cancel = cancel
    NoWorker = NoWorker
    Worker <- MCWorkers
    Work <- MCWork
    Kind <- MCKind
    Answered = {resume}
    Results <- MCResults
    MaxInvocations = 2
    MaxFaults = 2
SPECIFICATION Spec
CONSTRAINT Bounds
INVARIANTS
    WorkerInv
    NoStrandedFlow
SYMMETRY Symmetry
CHECK_DEADLOCK FALSE
