SPECIFICATION ImageSpec
CONSTANTS
    opt = opt
    home = home
    proj = proj
    out = out
    libs = libs
    a = a
    b = b
    r = r
    R = R
    Dir = {opt, home, proj, out}
    up <- Up
    Home = home
    BaseDirs = {opt}
    File = {R, libs, a, b, r}
    dir <- Place
    Tools = {R, libs}
    Brought <- Packages
    Owners <- AllOwners
INVARIANTS
    BuildFailsForAReason
    ResultsHavePlaces
    FilesAsOnHost
    DeniedOutsideOnly
\* the program has run in the container, or the build has failed
CHECK_DEADLOCK FALSE
