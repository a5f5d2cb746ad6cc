SPECIFICATION FairSpec
CONSTANTS
    Capacity = 3
    Buffer = 2
    MaxData = 5
INVARIANTS
    OutputIsComplete
    BlockedOnStderrOnly
    LittleIsLost
PROPERTY CommandReturns
\* the command has returned
CHECK_DEADLOCK FALSE
