SPECIFICATION FairSpec
CONSTANTS
    Key = {k1, k2, k3, k4}
    parallel = 2
INVARIANTS
    OnlyUnaskedAreLost
    FewAreAnswered
PROPERTY RunReturns
\* run() has returned
CHECK_DEADLOCK FALSE
