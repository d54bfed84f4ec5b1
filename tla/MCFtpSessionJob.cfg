SPECIFICATION FairSpec
CONSTANTS
    MaxPuts = 3
    Blocks = 1
    PipeCapacity = 1
    maxNumberOfSuccessivePASVAttempts = 2
    HasPASV = "unknown"
    NoUtime = {"MFF"}
    DataPortMode = "passive"
PROPERTIES
    ImplementsJob
    PutsReturn
CHECK_DEADLOCK FALSE
