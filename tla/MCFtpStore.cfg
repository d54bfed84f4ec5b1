SPECIFICATION Spec
CONSTANTS
    MaxLen = 2
    MaxCalls = 2
    MaxSessions = 2
    MaxVersion = 2
    Gap = 2
    NoAPPE = {"unknown", "no"}
    Calls <- AllCalls
    Servers <- SomeServers
INVARIANTS
    RemoteNeverSpliced
    OkMeansStored
    DeletedMeansStored
    FinalNeverPartial
CHECK_DEADLOCK FALSE
