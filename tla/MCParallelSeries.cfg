CONSTANTS
    ITERATIONS = 6
    threadCount = 3
    MaxSpawnFailures = 1
SPECIFICATION FairSpec
INVARIANTS
    NoWorkerOutlivesJoin
    MultiMatchesSingle
PROPERTY Terminates
