CONSTANTS
    People <- SomePeople
    AssetIds <- SomeAssets
    MaxAgents = 2
    MaxAssets = 2
SPECIFICATION Spec
INVARIANT ReadsBack
CHECK_DEADLOCK FALSE
