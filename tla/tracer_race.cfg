SPECIFICATION Spec
CONSTANTS
    Proc = {p, q}
    Path = {inp, out}
    Initial = {inp}
    Link = {}
    Hidden = {}
    Special = {}
    Ignored = {}
    Unreadable = {}
    Kinds = {"open"}
    Allowed = {"unlink", "creat", "chdir", "die"}
    MaxGen = 2
INVARIANTS
    FilesWereUsed
    ResultsWereCreated
\* the program ends, or is at the bound MaxGen
CHECK_DEADLOCK FALSE
