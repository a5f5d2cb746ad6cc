SPECIFICATION Spec
CONSTANTS
    a = a
    b = b
    l = l
    m = m
    File = {a, b}
    Link = {l, m}
    target <- Target
    Kinds <- Sorts
    Statuses = {"file", "alink", "rlink", "dir", "unreadable", "hidden", "gone"}
    LinkStatuses = {"link", "hidden", "gone"}
    Cuts <- CutsOfB
    DebLink = {m}
    Known = TRUE
    MaxChanges = 1
    MayEdit = TRUE
ACTION_CONSTRAINT Followed
INVARIANTS
    InputsReachImage
    ArchiveIsChosen
    ThrowsForAReason
    AskedAreFetched
PROPERTY EachFileOneFate
\* the last task has ended
CHECK_DEADLOCK FALSE
