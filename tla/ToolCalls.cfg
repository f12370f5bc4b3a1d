CONSTANTS
    unsafe = unsafe
    idem = idem
    a1 = a1
    a2 = a2
    a3 = a3
    Call <- MCCall
    Idempotent = {idem}
    Attempt <- MCAttempt
    MaxRevision = 6
SPECIFICATION MCFairSpec
INVARIANTS
    EffectsInv
    BatchInv
PROPERTIES
    ResourcesReleased
    ToolCallsEnd
CHECK_DEADLOCK FALSE
