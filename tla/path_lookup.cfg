SPECIFICATION Spec
CONSTANTS
    usr = usr
    lib = lib
    bin = bin
    f = f
    NoValue = NoValue
    Part = {usr, lib, bin, f}
    Path <- Paths
    Value = {k1, k2}
    Lists <- ShortLists
    RootLinks <- Links
    Queries <- Asked
INVARIANTS
    LastMatching
    CopyIsEqual
    LookupAgrees
PROPERTY StoresLast
\* a lookup has been answered, or a copy made
CHECK_DEADLOCK FALSE
