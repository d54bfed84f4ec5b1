SPECIFICATION Spec
CONSTANTS
    MaxPuts = 3
    Blocks = 2
    PipeCapacity = 1
    maxNumberOfSuccessivePASVAttempts = 2
    HasPASV = "unknown"
    NoUtime = {"MFMT"}
    DataPortMode = "fallback"
INVARIANTS
    RepliesMatch
    OkMeansStored
    DataClosedBetweenCalls
CHECK_DEADLOCK FALSE
