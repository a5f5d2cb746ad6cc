SPECIFICATION Spec
CONSTANTS
    Proc = {p}
    Path = {inp, out, link, alt, dev}
    Initial = {inp, link, alt, dev}
    Link = {link, alt}
    Hidden = {alt}
    Special = {dev}
    Ignored = {}
    Unreadable = {alt}
    Kinds = {"open", "stat", "readlink", "exec"}
    Allowed = {"unlink"}
    MaxGen = 2
INVARIANTS
    FilesWereUsed
    InputsWereThere
    RecordsAreComplete
\* the program ends, or is at the bound MaxGen
CHECK_DEADLOCK FALSE
