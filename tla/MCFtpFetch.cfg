SPECIFICATION Spec
CONSTANTS
    MaxLen = 2
    MaxCalls = 2
    MaxSessions = 2
    MaxVersion = 2
    Gap = 2
    Threshold = 5
    Heuristic = {2}
    Calls <- AllCalls
    Servers <- SomeServers
INVARIANTS
    NeverSpliced
    OkMeansFetched
    
    DeletedMeansHeld
    NothingLeftBehind
CHECK_DEADLOCK FALSE
