SPECIFICATION Spec
CONSTANTS
    Proc = {r, c, d}
    Root = r
    NoProc = NoProc
    Allowed = {"orphan", "detach", "stop", "kill", "signal"}
SYMMETRY Descendants
INVARIANTS
    NoTraceeForgotten
    ResultIsRootEnd
PROPERTIES
    AnnouncesEverySyscall
    AbortsForTheDeadOnly
\* r4r goes on to its next task, or has ended
CHECK_DEADLOCK FALSE
