SPECIFICATION Spec
CONSTANTS
    c1 = c1
    c2 = c2
    i = i
    j = j
    k = k
    u = u
    v = v
    w = w
    d = d
    e = e
    Call = {c1, c2}
    Image = {i, j, k}
    list <- Lists
    MaxLines = 2
    patterns = {v}
    MaxLost = 1
    MaxSigints = 2
    Dir = {d, e}
    Images <- SomeImages
    Dirs <- OneOrTwoDirs
    session = session
    unnamed = unnamed
    Nothing = Nothing
SYMMETRY Names
ACTION_CONSTRAINT Followed
INVARIANTS
    IgnoredAreInImage
    ArtefactsMatch
    SuccessIsFresh
    SignalsFindTheTracer
\* all calls have ended
CHECK_DEADLOCK FALSE
