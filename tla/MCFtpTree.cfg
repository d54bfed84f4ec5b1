CONSTANTS
    Names = {"a", "b"}
    Trees <- SomeTrees
    Servers <- SomeServers
    Args <- SomeArgs
    ChdirFlags <- SomeFlags
    LinkTarget <- Link
    MaxCalls = 2
    MaxFault = 5
    DepthLimit = 3
    MaxDepth = 3
SPECIFICATION Spec
INVARIANTS CacheTrue LeavesAsFound OkMeansDone
CHECK_DEADLOCK FALSE
