SPECIFICATION FairSpec
CONSTANTS
    Pkg = {a, b, c}
    MaxParallel = 2
    Allowed = {"preinstalled"}
INVARIANTS
    PlanIsOrdered
    PlanIsExact
    JobsFindDependencies
    InstalledIsThere
PROPERTY InstallationEnds
\* the script has ended
CHECK_DEADLOCK FALSE
