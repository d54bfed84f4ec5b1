SPECIFICATION FairSpec
CHECK_DEADLOCK FALSE
CONSTANTS
    MaxChanges = 4
INVARIANTS
    FrameOutlivesThread
PROPERTIES
    ForwardReturns
