CONSTANTS
    NameSeq <- TwoNames
    Contents = {"x", "y"}
    Depth = 4
    Remotes <- SomeRemotes
    Locals <- SomeLocals
    Patterns <- SomePatterns
    DstDirs <- SomeDirs
    Options <- SomeOptions
    MaxCalls = 2
    MaxFaults = 1
SPECIFICATION Spec
INVARIANTS BatchArrives BatchKeepsRest
CHECK_DEADLOCK FALSE
