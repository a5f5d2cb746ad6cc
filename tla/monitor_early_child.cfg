SPECIFICATION Spec
CONSTANTS
    Proc = {r, c}
    Root = r
    NoProc = NoProc
    Allowed = {"early"}
INVARIANT NoSilentSyscall
\* r4r goes on to its next task, or has ended
CHECK_DEADLOCK FALSE
