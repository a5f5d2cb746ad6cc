SPECIFICATION FairSpec
CONSTANTS
    Proc = {r, c, d}
    Root = r
    NoProc = NoProc
    Allowed = {"signal", "detach"}
PROPERTIES
    RootEndReturns
    StopsAreResumed
\* r4r goes on to its next task, or has ended
CHECK_DEADLOCK FALSE
