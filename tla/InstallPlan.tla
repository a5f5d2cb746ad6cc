------------------------------ MODULE InstallPlan ------------------------------
(***************************************************************************)
(* How r4r installs the R packages of the traced program in the image:     *)
(* RpkgDatabase::get_installation_plan (src/src/rpkg_database.h) walks the *)
(* dependencies depth first and gives each package a level above those of  *)
(* its dependencies; InstallRPackageScriptBuilder                          *)
(* (src/src/install_r_package_builder.h) cuts the levels into batches of   *)
(* at most max_parallel packages and writes a script that installs one     *)
(* batch after the other, the packages of a batch in parallel jobs.        *)
(*                                                                         *)
(* The script is run by docker build (tracer.h:586-615).  R, the shell and *)
(* the package repositories are external: a job may fail, and the image    *)
(* may already have a package in another version.                          *)
(***************************************************************************)
EXTENDS Integers, FiniteSets, Sequences

CONSTANTS
    Pkg,            \* the packages in the RpkgDatabase
    MaxParallel,    \* max_parallel_, 24 in tracer.h:607
    Allowed         \* {"preinstalled"}: the image may have other versions

ASSUME ConstantsAssumption ==
    /\ IsFiniteSet(Pkg)
    /\ MaxParallel \in Nat \ {0}
    /\ Allowed \subseteq {"preinstalled"}

VARIABLES
    deps,       \* RPackage::dependencies of each package
    base,       \* RPackage::is_base
    wanted,     \* Manifest::r_packages
    pc,         \* where the planning, or the script, is
    stack,      \* the calls of dfs_visit that are open, the innermost last
    in_stack,   \* the set that dfs_visit keeps of their packages
    todo,       \* the dependencies an open dfs_visit has still to look at
    level,      \* its local variable `level'
    levels,     \* dependency_levels; NoLevel is no key
    max_level,  \* the highest level given
    current,    \* the level whose packages are being installed
    left,       \* the packages of that level in no batch so far
    job,        \* the job that installs each package
    lib         \* the version of each package in the image's library

inputVars == <<deps, base, wanted>>
planVars == <<stack, in_stack, todo, level, levels, max_level>>
scriptVars == <<current, left, job, lib>>
vars == <<inputVars, pc, planVars, scriptVars>>

-------------------------------------------------------------------------------
NoLevel == -1

PCs == {"planning", "threw", "batch", "jobs", "verify", "failed", "installed"}
Ended == {"threw", "failed", "installed"}

TypeOK ==
    /\ deps \in [Pkg -> SUBSET Pkg]
    /\ base \subseteq Pkg
    /\ wanted \subseteq Pkg
    /\ pc \in PCs
    /\ stack \in Seq(Pkg)
    /\ in_stack \subseteq Pkg
    /\ todo \in [Pkg -> SUBSET Pkg]
    /\ level \in [Pkg -> Nat]
    /\ levels \in [Pkg -> Nat \cup {NoLevel}]
    /\ max_level \in Nat
    /\ current \in Nat
    /\ left \subseteq Pkg
    /\ job \in [Pkg -> {"none", "running", "succeeded", "failed"}]
    /\ lib \in [Pkg -> {"none", "expected", "other"}]

\* parse_r_packages drops dependencies that are not in the database.  A base
\* package needs base packages only and comes with R.
Init ==
    /\ deps \in [Pkg -> SUBSET Pkg]
    /\ base \in SUBSET Pkg
    /\ \A p \in base : deps[p] \subseteq base
    /\ wanted \in (SUBSET Pkg) \ {{}}
    /\ pc = "planning"
    /\ stack = <<>>
    /\ in_stack = {}
    /\ todo = [p \in Pkg |-> {}]
    /\ level = [p \in Pkg |-> 0]
    /\ levels = [p \in Pkg |-> NoLevel]
    /\ max_level = 0
    /\ current = 0
    /\ left = {}
    /\ job = [p \in Pkg |-> "none"]
    /\ lib \in [Pkg -> {"none", "expected", "other"}]
    /\ \A p \in Pkg :
          /\ lib[p] = "expected" <=> p \in base
          /\ lib[p] = "other" => "preinstalled" \in Allowed

-------------------------------------------------------------------------------
(***************************************************************************)
(* RpkgDatabase::get_installation_plan and dfs_visit.                      *)
(***************************************************************************)
planned(p) == levels[p] # NoLevel
top == stack[Len(stack)]

\* A call of dfs_visit.
Visit(p) ==
    /\ stack' = Append(stack, p)
    /\ in_stack' = in_stack \cup {p}
    /\ todo' = [todo EXCEPT ![p] = deps[p]]
    /\ level' = [level EXCEPT ![p] = 0]

\* The loop over the packages asked for.
VisitWanted(p) ==
    /\ pc = "planning"
    /\ stack = <<>>
    /\ p \in wanted
    /\ ~planned(p)
    /\ Visit(p)
    /\ UNCHANGED <<inputVars, pc, levels, max_level, scriptVars>>

\* Mutant: the exception is swallowed and the dependency looked at again.
MutantRetries(d) ==
    /\ pc = "planning"
    /\ stack # <<>>
    /\ d \in todo[top] \cap in_stack
    /\ UNCHANGED vars

\* A dependency with an open dfs_visit: the exception leaves the pipeline.
CycleDetected(d) ==
    /\ pc = "planning"
    /\ stack # <<>>
    /\ d \in todo[top] \cap in_stack
    /\ pc' = "threw"
    /\ UNCHANGED <<inputVars, planVars, scriptVars>>

\* A dependency that has no level yet.
VisitDependency(d) ==
    /\ pc = "planning"
    /\ stack # <<>>
    /\ d \in todo[top] \ in_stack
    /\ ~planned(d)
    /\ Visit(d)
    /\ UNCHANGED <<inputVars, pc, levels, max_level, scriptVars>>

larger(a, b) == IF a > b THEN a ELSE b

\* Mutant: the level of the dependency in place of the one above it.
MutantSameLevel(d) ==
    /\ pc = "planning"
    /\ stack # <<>>
    /\ d \in todo[top] \ in_stack
    /\ planned(d)
    /\ level' = [level EXCEPT ![top] = larger(@, levels[d])]
    /\ todo' = [todo EXCEPT ![top] = @ \ {d}]
    /\ UNCHANGED <<inputVars, pc, stack, in_stack, levels, max_level, scriptVars>>

\* Mutant: the dependencies are counted.
MutantCountsAll(d) ==
    /\ pc = "planning"
    /\ stack # <<>>
    /\ d \in todo[top] \ in_stack
    /\ planned(d)
    /\ level' = [level EXCEPT ![top] = larger(@ + 1, levels[d] + 1)]
    /\ todo' = [todo EXCEPT ![top] = @ \ {d}]
    /\ UNCHANGED <<inputVars, pc, stack, in_stack, levels, max_level, scriptVars>>

\* A dependency that has its level.
CountDependency(d) ==
    /\ pc = "planning"
    /\ stack # <<>>
    /\ d \in todo[top] \ in_stack
    /\ planned(d)
    /\ level' = [level EXCEPT ![top] = larger(@, levels[d] + 1)]
    /\ todo' = [todo EXCEPT ![top] = @ \ {d}]
    /\ UNCHANGED <<inputVars, pc, stack, in_stack, levels, max_level, scriptVars>>

\* The end of dfs_visit.
ReturnFromVisit ==
    /\ pc = "planning"
    /\ stack # <<>>
    /\ todo[top] = {}
    /\ in_stack' = in_stack \ {top}
    /\ levels' = [levels EXCEPT ![top] = level[top]]
    /\ max_level' = larger(max_level, level[top])
    /\ stack' = SubSeq(stack, 1, Len(stack) - 1)
    /\ UNCHANGED <<inputVars, pc, todo, level, scriptVars>>

-------------------------------------------------------------------------------
(***************************************************************************)
(* expand_plan, and the script it is written to.                           *)
(***************************************************************************)
\* A step of the plan without the packages that come with R.
step(l) == {p \in Pkg : levels[p] = l} \ base

PlanReady ==
    /\ pc = "planning"
    /\ stack = <<>>
    /\ \A p \in wanted : planned(p)
    /\ pc' = "batch"
    /\ current' = 0
    /\ left' = step(0)
    /\ UNCHANGED <<inputVars, planVars, job, lib>>

smaller(a, b) == IF a < b THEN a ELSE b

\* Mutant: the limit is not applied.
MutantWholeLevel(B) == B = left

\* The next max_parallel packages of the level, in the order of their names,
\* or the rest of them.
IsBatch(B) ==
    /\ B \subseteq left
    /\ Cardinality(B) = smaller(MaxParallel, Cardinality(left))

\* system("Rscript ... & Rscript ... & wait")
StartBatch(B) ==
    /\ pc = "batch"
    /\ left # {}
    /\ IsBatch(B)
    /\ pc' = "jobs"
    /\ left' = left \ B
    /\ job' = [p \in Pkg |-> IF p \in B THEN "running" ELSE job[p]]
    /\ UNCHANGED <<inputVars, planVars, current, lib>>

\* The script goes on with the next level.
NextLevel ==
    /\ pc = "batch"
    /\ left = {}
    /\ current < max_level
    /\ current' = current + 1
    /\ left' = step(current + 1)
    /\ UNCHANGED <<inputVars, pc, planVars, job, lib>>

\* "All packages installed successfully"
ScriptEnds ==
    /\ pc = "batch"
    /\ left = {}
    /\ current = max_level
    /\ pc' = "installed"
    /\ UNCHANGED <<inputVars, planVars, scriptVars>>

\* remotes installs with dependencies = FALSE: what the package needs has to be
\* there.  install_github of a ref may install another version.
JobSucceeds(p, v) ==
    /\ pc = "jobs"
    /\ job[p] = "running"
    /\ \A d \in deps[p] : lib[d] # "none"
    /\ job' = [job EXCEPT ![p] = "succeeded"]
    /\ lib' = [lib EXCEPT ![p] = v]
    /\ UNCHANGED <<inputVars, pc, planVars, current, left>>

JobFails(p) ==
    /\ pc = "jobs"
    /\ job[p] = "running"
    /\ job' = [job EXCEPT ![p] = "failed"]
    /\ UNCHANGED <<inputVars, pc, planVars, current, left, lib>>

\* `wait' without operands has status 0, however the jobs ended, so that
\* "quit(status = 1)" below "status != 0" is never reached.
Wait ==
    /\ pc = "jobs"
    /\ \A p \in Pkg : job[p] # "running"
    /\ pc' = "verify"
    /\ UNCHANGED <<inputVars, planVars, scriptVars>>

\* The packages of this batch, and of those of its level that passed before.
batch == {p \in Pkg : job[p] # "none" /\ levels[p] = current}

\* Mutant: no package is looked up.
MutantNoVerification ==
    /\ pc = "verify"
    /\ pc' = "batch"
    /\ UNCHANGED <<inputVars, planVars, scriptVars>>

\* A package without any version ends the script; another version than the
\* expected one is a warning.
Verify ==
    /\ pc = "verify"
    /\ pc' = IF \E p \in batch : lib[p] = "none" THEN "failed" ELSE "batch"
    /\ UNCHANGED <<inputVars, planVars, scriptVars>>

-------------------------------------------------------------------------------
PlanStep ==
    \/ \E p \in Pkg : \/ VisitWanted(p)
                      \/ CycleDetected(p)
                      \/ VisitDependency(p)
                      \/ CountDependency(p)
    \/ ReturnFromVisit
    \/ PlanReady

ScriptStep ==
    \/ \E B \in SUBSET Pkg : StartBatch(B)
    \/ NextLevel
    \/ ScriptEnds
    \/ Wait
    \/ Verify

JobStep(p) == JobFails(p) \/ \E v \in {"expected", "other"} : JobSucceeds(p, v)

Next == PlanStep \/ ScriptStep \/ \E p \in Pkg : JobStep(p)

Spec == Init /\ [][Next]_vars

\* r4r and the script run on, and every job ends.
FairSpec ==
    /\ Spec
    /\ WF_vars(PlanStep)
    /\ WF_vars(ScriptStep)
    /\ \A p \in Pkg : WF_vars(JobStep(p))

-------------------------------------------------------------------------------
(***************************************************************************)
(* Properties.                                                             *)
(***************************************************************************)

\* The plan holds the packages asked for and everything they need, each above
\* its dependencies (get_installation_plan).
PlanIsOrdered ==
    pc \notin {"planning", "threw"} =>
        /\ \A p \in wanted : planned(p)
        /\ \A p \in Pkg : planned(p) =>
              \A d \in deps[p] : planned(d) /\ levels[d] < levels[p]

\* A package is on the lowest level its dependencies leave it, and the last step
\* of the plan is not empty.
PlanIsTight ==
    pc \notin {"planning", "threw"} =>
        /\ \A p \in Pkg : levels[p] > 0 => \E d \in deps[p] : levels[d] + 1 = levels[p]
        /\ \E p \in Pkg : levels[p] = max_level

\* "Cycle detected" is only said of cyclic dependencies; a package that is needed
\* along two paths is no cycle.
\* In a finite graph there is a cycle just when some packages each need one of them.
CyclesAreReal ==
    pc = "threw" =>
        \E S \in (SUBSET Pkg) \ {{}} : \A p \in S : deps[p] \cap S # {}

\* What get_installation_plan makes of the dependencies, a plan or an exception, is
\* what they demand: no package waits longer than it must, and none is refused.
PlanIsExact == PlanIsTight /\ CyclesAreReal

\* A package is installed by one of at most max_parallel jobs, when everything it
\* needs is there: a job that failed to install a dependency has ended the script
\* before, or another version was there already.
JobsFindDependencies ==
    /\ Cardinality({p \in Pkg : job[p] = "running"}) <= MaxParallel
    /\ \A p \in Pkg : job[p] = "running" => \A d \in deps[p] : lib[d] # "none"

\* When the script says that all packages are installed each has some version.
InstalledIsThere ==
    pc = "installed" => \A p \in Pkg : planned(p) => lib[p] # "none"

\* The planning and the script come to an end, whatever the dependencies are and
\* however the jobs end.
InstallationEnds == <>(pc \in Ended)
===============================================================================
