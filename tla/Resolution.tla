------------------------------ MODULE Resolution -------------------------------
(***************************************************************************)
(* From the traced files to the image: ResolveFileTask with its three        *)
(* resolvers, ResolveRPackageSystemDependencies, EditManifestTask,           *)
(* DockerFileBuilderTask::copy_files, MakefileBuilderTask and                *)
(* RunMakefileTask (src/src/tracer.h, src/src/resolvers.h, src/src/manifest*.h). *)
(*                                                                         *)
(* The program has ended.  The file system is looked at again, one file    *)
(* after the other, while other processes go on changing it, and the user    *)
(* edits the manifest in an editor.  A package is identified with the files  *)
(* it provides; lookups by path are in PathLookup, the dependencies of R  *)
(* packages and their installation in InstallPlan. r4r can write its own files *)
(* here; what becomes of them otherwise is in Pipeline.                      *)
(***************************************************************************)
EXTENDS Naturals, FiniteSets

CONSTANTS
    File,           \* the paths of traced files and of results asked for
    Link,           \* the traced symbolic links
    target,         \* what a link leads to
    Kinds,          \* the sorts of files there are, see Kind
    Statuses,       \* the states a file can be in on the disk, see DiskStatus
    LinkStatuses,   \* and those of a link, see LinkStatus
    Cuts,           \* how paths are read back from the manifest, see cut
    DebLink,        \* the links a Debian package provides
    Known,          \* dpkg knows what the packages to compile need, r-base-dev among it
    MaxChanges,     \* bound on the changes of the disk
    MayEdit         \* the user may save the manifest

\* traced: the program used it; before: it was there when the program came to it;
\* asked: --result names it; pkg: the databases that have a package for
\* it, dpkg without the packages of rstudio and bslib, which the resolver skips;
\* alternate: they have another name of the file, by a link of the root directory;
\* base, compiled: its R package comes with R, or is built from source.
Kind == [traced : BOOLEAN, before : BOOLEAN, asked : BOOLEAN,
         pkg : SUBSET {"deb", "R"}, alternate : BOOLEAN, base : BOOLEAN, compiled : BOOLEAN]

\* alink, rlink: a link to a file, with an absolute or a relative target; hidden: it,
\* or what it leads to, is in a directory that cannot be searched.
DiskStatus == {"file", "alink", "rlink", "dir", "unreadable", "hidden", "gone"}
LinkStatus == {"link", "hidden", "gone"}

\* What the rest of the system can fail in: R lists its packages; the links of the root
\* directory lead somewhere; the R packages depend on each other without a cycle; a
\* transfer starts; tar runs; the name of the output directory has no slash at its end.
Faults == {"R", "roots", "cycle", "transfer", "tar", "slash"}

ASSUME ResolutionAssumption ==
    /\ target \in [Link -> File]
    /\ File \cap Link = {}
    /\ Kinds \subseteq Kind
    /\ Statuses \subseteq DiskStatus
    /\ LinkStatuses \subseteq LinkStatus
    /\ Cuts \subseteq {c \in [File -> File] : \A f \in File : c[c[f]] = c[f]}
    /\ DebLink \subseteq Link
    /\ Known \in BOOLEAN
    /\ MaxChanges \in Nat
    /\ MayEdit \in BOOLEAN

VARIABLES
    kind,               \* what each file is; does not change
    cut,                \* the path a manifest line is read back as; does not change
    interactive_,       \* without --skip-manifest; does not change
    disk,               \* the state of each file on the disk
    links,              \* the state of each traced link
    pc,                 \* the pass, or the task
    fault,              \* what else failed and threw
    traced_files,
    traced_symlinks,
    seen,               \* what the pass has looked at and left
    copy_files,         \* of the manifest
    symlinks,           \* of the manifest
    deb_packages,       \* of the manifest: the files they provide
    r_packages,         \* of the manifest: the files they provide
    toolchain,          \* r-base-dev is in deb_packages
    text,               \* manifest.conf: the mark of each file's line
    header,             \* manifest.conf: "copy:" before the lines, after them, or not there
    edited,             \* the user has saved the manifest
    restamped,          \* and its time stamp has changed
    archive,            \* the traced names given to tar
    targets,            \* how tar is given the target of each link among them
    fetched,            \* the results the Makefile asks the container for
    changes             \* the changes of the disk so far

world == <<kind, cut, interactive_>>
manifest == <<copy_files, symlinks, deb_packages, r_packages, toolchain>>
conf == <<text, header, edited, restamped>>
output == <<archive, targets, fetched>>
env == <<disk, links, changes>>
vars == <<world, env, pc, fault, traced_files, traced_symlinks, seen, manifest, conf, output>>

-------------------------------------------------------------------------------
FileStatus == {"Copy", "Result", "IgnoreNoLongerExist", "IgnoreNotAccessible",
               "IgnoreDirectory", "none"}
Marks == {"C", "R", "#", "no line"}
Passes == {"deb", "debLinks", "R", "copy", "copyLinks"}
\* failed: with a TaskException; threw: with another exception.
Ends == {"done", "failed", "threw"}
PCs == Passes \cup {"database", "sysdeps", "save", "editor", "load", "dockerfile", "tar",
                    "makefile", "make"} \cup Ends

TypeOK ==
    /\ kind \in [File -> Kinds]
    /\ cut \in Cuts
    /\ interactive_ \in BOOLEAN
    /\ disk \in [File -> DiskStatus]
    /\ links \in [Link -> LinkStatus]
    /\ pc \in PCs
    /\ fault \in Faults \cup {"none"}
    /\ traced_files \subseteq File
    /\ traced_symlinks \subseteq Link
    /\ seen \subseteq File \cup Link
    /\ copy_files \in [File -> FileStatus]
    /\ symlinks \subseteq Link
    /\ deb_packages \subseteq File
    /\ r_packages \subseteq File
    /\ toolchain \in BOOLEAN
    /\ text \in [File -> Marks]
    /\ header \in {"first", "last", "none"}
    /\ edited \in BOOLEAN
    /\ restamped \in BOOLEAN
    /\ archive \subseteq File \cup Link
    /\ targets \in [File -> {"none", "absolute", "relative"}]
    /\ fetched \subseteq File
    /\ changes \in 0 .. MaxChanges

\* The results of the options are in the manifest from the start.
InitialStatus(f) == IF kind[f].asked THEN "Result" ELSE "none"

Init ==
    /\ kind \in [File -> Kinds]
    /\ cut \in Cuts
    /\ interactive_ \in BOOLEAN
    /\ disk \in [File -> Statuses]
    /\ links \in [Link -> LinkStatuses]
    /\ pc = "database"
    /\ fault = "none"
    /\ traced_files = {f \in File : kind[f].traced}
    /\ traced_symlinks = Link
    /\ seen = {}
    /\ copy_files = [f \in File |-> InitialStatus(f)]
    /\ symlinks = {} /\ deb_packages = {} /\ r_packages = {}
    /\ toolchain = FALSE
    /\ text = [f \in File |-> "no line"]
    /\ header = "none"
    /\ edited = FALSE /\ restamped = FALSE
    /\ archive = {} /\ fetched = {}
    /\ targets = [f \in File |-> "none"]
    /\ changes = 0

-------------------------------------------------------------------------------
(* Another process changes the disk, or the user does. *)
DiskChanges ==
    /\ pc \notin Ends
    /\ changes < MaxChanges
    /\ changes' = changes + 1
    /\ \/ \E f \in File, s \in Statuses \ {"hidden"} :
            disk[f] # s /\ disk' = [disk EXCEPT ![f] = s] /\ UNCHANGED links
       \/ \E l \in Link :
            links[l] # "gone" /\ links' = [links EXCEPT ![l] = "gone"] /\ UNCHANGED disk
    /\ UNCHANGED <<world, pc, fault, traced_files, traced_symlinks, seen, manifest, conf, output>>

-------------------------------------------------------------------------------
(* An exception that no traced file is the cause of. *)
Throw(why) ==
    /\ pc' = "threw"
    /\ fault' = why
    /\ UNCHANGED <<world, env, traced_files, traced_symlinks, seen, manifest, conf, output>>

-------------------------------------------------------------------------------
(* ResolveFileTask: in each pass std::erase_if goes through the files, or the
   links, in an order that does not matter.                                *)

from_R ==
    /\ pc = "database"
    /\ pc' = "deb"
    /\ UNCHANGED <<world, env, fault, traced_files, traced_symlinks, seen, manifest, conf, output>>

FromRThrows == pc = "database" /\ Throw("R")

\* Both resolvers begin with a SymlinkResolver, which takes fs::canonical of the
\* relative links in the root directory.
RootLinksThrow ==
    /\ \/ pc = "deb" /\ deb_packages = {}
       \/ pc = "R" /\ r_packages = {}
    /\ seen = {}
    /\ Throw("roots")

\* lookup_by_path of the names resolve_symlinks gives for f: another name than the traced
\* one is only among them if it leads to the same file now.
Has(database, f) ==
    database \in kind[f].pkg /\ (kind[f].alternate => disk[f] # "gone")

\* The lambda of DebPackageResolver: the path or an alternate of it is in dpkg.
DebResolve(f) ==
    /\ pc = "deb"
    /\ f \in traced_files \ seen
    /\ disk[f] # "hidden"
    /\ IF Has("deb", f)
       THEN /\ traced_files' = traced_files \ {f}
            /\ deb_packages' = deb_packages \cup {f}
            /\ UNCHANGED seen
       ELSE seen' = seen \cup {f} /\ UNCHANGED <<traced_files, deb_packages>>
    /\ UNCHANGED <<world, env, pc, fault, traced_symlinks, copy_files, symlinks, r_packages,
                   toolchain, conf, output>>

\* The link, or what it leads to, cannot be searched.
LinkHidden(l) == links[l] = "hidden" \/ (links[l] = "link" /\ disk[target[l]] = "hidden")

\* A link leaves the list with its package, too.
DebResolveLink(l) ==
    /\ pc = "debLinks"
    /\ l \in traced_symlinks \ seen
    /\ ~LinkHidden(l)
    /\ IF l \in DebLink
       THEN traced_symlinks' = traced_symlinks \ {l} /\ UNCHANGED seen
       ELSE seen' = seen \cup {l} /\ UNCHANGED traced_symlinks
    /\ UNCHANGED <<world, env, pc, fault, traced_files, manifest, conf, output>>

\* resolve_symlinks calls fs::is_symlink without an error code, for a path and for
\* what a link leads to: one that cannot be searched ends the task with an exception.
LookupThrows ==
    /\ \/ pc \in {"deb", "R"} /\ \E f \in traced_files \ seen : disk[f] = "hidden"
       \/ pc = "debLinks" /\ \E l \in traced_symlinks \ seen : LinkHidden(l)
    /\ pc' = "threw"
    /\ UNCHANGED <<world, env, fault, traced_files, traced_symlinks, seen, manifest, conf, output>>

RResolve(f) ==
    /\ pc = "R"
    /\ f \in traced_files \ seen
    /\ disk[f] # "hidden"
    /\ IF Has("R", f)
       THEN /\ traced_files' = traced_files \ {f}
            /\ r_packages' = r_packages \cup {f}
            /\ UNCHANGED seen
       ELSE seen' = seen \cup {f} /\ UNCHANGED <<traced_files, r_packages>>
    /\ UNCHANGED <<world, env, pc, fault, traced_symlinks, copy_files, symlinks, deb_packages,
                   toolchain, conf, output>>

\* Mutant: existed_before is not looked at.
MutantCopiesOutputs(f) ==
    CASE disk[f] = "gone" -> "IgnoreNoLongerExist"
      [] disk[f] \in {"unreadable", "hidden"} -> "IgnoreNotAccessible"
      [] disk[f] = "dir" -> "IgnoreDirectory"
      [] disk[f] \in {"file", "alink", "rlink"} -> "Copy"

\* Mutant: a file that is gone counts as one to copy.
MutantCopiesGone(f) ==
    CASE disk[f] \in {"unreadable", "hidden"} -> "IgnoreNotAccessible"
      [] disk[f] = "dir" -> "IgnoreDirectory"
      [] disk[f] \in {"file", "alink", "rlink", "gone"} ->
            IF kind[f].before THEN "Copy" ELSE "Result"

\* The status CopyFileResolver gives by what is on the disk now.
CopyStatus(f) ==
    CASE disk[f] = "gone" -> "IgnoreNoLongerExist"
      [] disk[f] \in {"unreadable", "hidden"} -> "IgnoreNotAccessible"
      [] disk[f] = "dir" -> "IgnoreDirectory"
      [] disk[f] \in {"file", "alink", "rlink"} ->
            IF kind[f].before THEN "Copy" ELSE "Result"

\* Mutant: the status found overwrites the one of a result asked for.
MutantOverwrites(f) == CopyStatus(f)

\* The entry of f afterwards: results asked for are taken from the list only.
Entry(f) == IF copy_files[f] = "Result" THEN "Result" ELSE CopyStatus(f)

CopyResolve(f) ==
    /\ pc = "copy"
    /\ f \in traced_files
    /\ traced_files' = traced_files \ {f}
    /\ copy_files' = [copy_files EXCEPT ![f] = Entry(f)]
    /\ UNCHANGED <<world, env, pc, fault, traced_symlinks, seen, symlinks, deb_packages,
                   r_packages, toolchain, conf, output>>

\* A link whose target is gone, or that is none any more, stays unresolved.
CopyResolveLink(l) ==
    /\ pc = "copyLinks"
    /\ l \in traced_symlinks \ seen
    /\ IF links[l] = "link" /\ disk[target[l]] \notin {"gone", "hidden"}
       THEN /\ traced_symlinks' = traced_symlinks \ {l}
            /\ symlinks' = symlinks \cup {l}
            /\ UNCHANGED seen
       ELSE seen' = seen \cup {l} /\ UNCHANGED <<traced_symlinks, symlinks>>
    /\ UNCHANGED <<world, env, pc, fault, traced_files, copy_files, deb_packages, r_packages,
                   toolchain, conf, output>>

\* Mutant: the copy resolver comes before the one of the R packages.
MutantCopyFirst(p) ==
    CASE p = "deb" -> "debLinks" [] p = "debLinks" -> "copy" [] p = "copy" -> "copyLinks"
      [] p = "copyLinks" -> "R" [] p = "R" -> "sysdeps"

\* The resolvers in the order of ResolveFileTask::run.
After(p) ==
    CASE p = "deb" -> "debLinks" [] p = "debLinks" -> "R" [] p = "R" -> "copy"
      [] p = "copy" -> "copyLinks" [] p = "copyLinks" -> "sysdeps"

NextPass ==
    /\ pc \in Passes
    /\ IF pc \in {"debLinks", "copyLinks"} THEN traced_symlinks \subseteq seen
       ELSE IF pc = "copy" THEN traced_files = {} ELSE traced_files \subseteq seen
    /\ seen' = {}
    /\ pc' = After(pc)
    /\ UNCHANGED <<world, env, fault, traced_files, traced_symlinks, manifest, conf, output>>

-------------------------------------------------------------------------------
(* ResolveRPackageSystemDependencies: with a package to compile r-base-dev and what
   else its sources need is added, and left out with a warning when dpkg does not
   know it.                                                                *)

\* Mutant: only the requests' answers are installed, not the headers of R.
MutantNoHeaders == FALSE

NeedsToolchain == \E f \in r_packages : kind[f].compiled /\ ~kind[f].base

SystemDependencies ==
    /\ pc = "sysdeps"
    /\ toolchain' = (NeedsToolchain /\ Known)
    /\ pc' = "save"
    /\ UNCHANGED <<world, env, fault, traced_files, traced_symlinks, seen, copy_files, symlinks,
                   deb_packages, r_packages, conf, output>>

\* get_dependencies throws at a cycle, add_transfer when curl gives no handle.
DependenciesThrow ==
    /\ pc = "sysdeps"
    /\ \/ r_packages # {} /\ Throw("cycle")
       \/ NeedsToolchain /\ Throw("transfer")

-------------------------------------------------------------------------------
(* EditManifestTask *)

\* CopyFilesManifestSection::save: one line per file, the ignored ones as comments.
Mark(s) ==
    CASE s = "Copy" -> "C"
      [] s = "Result" -> "R"
      [] s \in {"none", "IgnoreNoLongerExist"} -> "no line"
      [] s \in {"IgnoreNotAccessible", "IgnoreDirectory"} -> "#"

AnyContent == \E f \in File : copy_files[f] # "none"

SaveManifest ==
    /\ pc = "save"
    /\ text' = [f \in File |-> Mark(copy_files[f])]
    /\ header' = IF AnyContent THEN "first" ELSE "none"
    /\ pc' = IF interactive_ /\ AnyContent THEN "editor" ELSE "dockerfile"
    /\ UNCHANGED <<world, env, fault, traced_files, traced_symlinks, seen, manifest, edited,
                   restamped, output>>

\* The user saves the manifest once, with any marks; the time stamp stays the same
\* when that falls into the same tick as r4r's own save.
UserEdits ==
    /\ pc = "editor"
    /\ MayEdit /\ ~edited
    /\ text' \in [File -> {"C", "R", "#"}]
    /\ header' \in {"first", "last", "none"}
    /\ header' = "none" => \A f \in File : text'[f] = "#"
    /\ edited' = TRUE
    /\ restamped' \in BOOLEAN
    /\ UNCHANGED <<world, env, pc, fault, traced_files, traced_symlinks, seen, manifest, output>>

\* The editor ends, or was not found; its exit code is not -1, so it does not count.
EditorReturns ==
    /\ pc = "editor"
    /\ pc' = IF restamped THEN "load" ELSE "dockerfile"
    /\ UNCHANGED <<world, env, fault, traced_files, traced_symlinks, seen, manifest, conf, output>>

\* What the lines make of f: a path with '#' is read as what is before it, and of
\* two lines for the same path the first one counts.
Loaded(f) ==
    LET lines == {g \in File : cut[g] = f /\ text[g] \in {"C", "R"}}
    IN  IF lines = {} THEN {"none"}
        ELSE {IF text[g] = "C" THEN "Copy" ELSE "Result" : g \in lines}

Lines == \E f \in File : text[f] \in {"C", "R"}

\* Without its header the section is not loaded, and copy_files stay.
LoadManifest ==
    /\ pc = "load"
    /\ IF header = "last" /\ Lines
       THEN pc' = "threw" /\ UNCHANGED copy_files
       ELSE /\ pc' = "dockerfile"
            /\ IF header = "none" THEN UNCHANGED copy_files
               ELSE /\ copy_files' \in [File -> FileStatus]
                    /\ \A f \in File : copy_files'[f] \in Loaded(f)
    /\ UNCHANGED <<world, env, fault, traced_files, traced_symlinks, seen, symlinks, deb_packages,
                   r_packages, toolchain, conf, output>>

-------------------------------------------------------------------------------
(* DockerFileBuilderTask *)

\* DockerFileBuilder::copy throws for a file it does not take for one of the output
\* directory.
CopyScriptThrows == pc = "dockerfile" /\ r_packages # {} /\ Throw("slash")

\* The names copy_files() collects. With a link that has to be copied it collects what
\* read_symlink returns, too.
ToCopy == {f \in File : copy_files[f] = "Copy"} \cup symlinks

read_symlink(f) ==
    CASE disk[f] = "alink" -> "absolute"
      [] disk[f] = "rlink" -> "relative"
      [] OTHER -> "none"

Results == {f \in File : copy_files[f] = "Result"}

\* fs::is_symlink throws for a path that cannot be searched. With nothing to copy
\* the function returns before the scripts are added.
ListFiles ==
    /\ pc = "dockerfile"
    /\ IF \E f \in ToCopy \cap File : disk[f] = "hidden"
       THEN pc' = "threw" /\ UNCHANGED archive
       ELSE IF ToCopy = {}
       THEN pc' = "makefile" /\ UNCHANGED archive
       ELSE pc' = "tar" /\ archive' = ToCopy
    /\ targets' = [f \in File |-> IF f \notin archive' THEN "none" ELSE read_symlink(f)]
    /\ UNCHANGED <<world, env, fault, traced_files, traced_symlinks, seen, manifest, conf, fetched>>

\* tar fails for a name it cannot open; the target of a relative link is such a
\* name, as it is looked up in the directory of r4r.
TarFails ==
    \/ \E f \in archive \cap File : disk[f] \in {"gone", "unreadable", "hidden"}
    \/ \E f \in File : targets[f] = "relative"
    \/ \E l \in archive \cap Link : links[l] # "link"

create_tar_archive ==
    /\ pc = "tar"
    /\ pc' = IF TarFails THEN "threw" ELSE "makefile"
    /\ UNCHANGED <<world, env, fault, traced_files, traced_symlinks, seen, manifest, conf, output>>

ArchiveThrows == pc = "tar" /\ (Throw("tar") \/ Throw("slash"))

generate_makefile ==
    /\ pc = "makefile"
    /\ fetched' = Results
    /\ pc' \in {"make", "done"}
    /\ UNCHANGED <<world, env, fault, traced_files, traced_symlinks, seen, manifest, conf,
                   archive, targets>>

\* docker is missing: generate_makefile, or make, ends with a TaskException.
DockerFails ==
    /\ pc \in {"makefile", "make"}
    /\ pc' = "failed"
    /\ UNCHANGED <<world, env, fault, traced_files, traced_symlinks, seen, manifest, conf, output>>

-------------------------------------------------------------------------------
\* What the image has of a file. The script installs no base packages: an R that is in
\* no Debian package comes without them.
Present(f) ==
    \/ f \in archive
    \/ f \in deb_packages
    \/ f \in r_packages /\ ~kind[f].base /\ (kind[f].compiled => toolchain)

Inputs == {f \in File : kind[f].traced /\ kind[f].before}

\* The container runs the program again; a missing input lets it fail, and make
\* with it (pipefail). A result that cannot be copied does not.
RunMake ==
    /\ pc = "make"
    /\ pc' = IF Inputs \subseteq {f \in File : Present(f)} THEN "done" ELSE "failed"
    /\ UNCHANGED <<world, env, fault, traced_files, traced_symlinks, seen, manifest, conf, output>>

Step ==
    \/ from_R
    \/ \E f \in File : DebResolve(f) \/ RResolve(f) \/ CopyResolve(f)
    \/ LookupThrows
    \/ \E l \in Link : DebResolveLink(l) \/ CopyResolveLink(l)
    \/ NextPass
    \/ SystemDependencies
    \/ SaveManifest
    \/ EditorReturns
    \/ LoadManifest
    \/ ListFiles
    \/ create_tar_archive
    \/ generate_makefile
    \/ RunMake

Fault ==
    FromRThrows \/ RootLinksThrow \/ DependenciesThrow \/ CopyScriptThrows \/ ArchiveThrows

Next == Step \/ Fault \/ DockerFails \/ UserEdits \/ DiskChanges

Spec == Init /\ [][Next]_vars

-------------------------------------------------------------------------------
TaskEnded == pc \in {"makefile", "make", "done"}

\* Nothing but the run itself has touched the files since the program ended.
Undisturbed == changes = 0 /\ ~edited

\* What the program read, and could still be read when it had ended, is in the
\* image, by one of the three resolvers (resolvers.h:36, 89, 216), whatever order
\* they look at it in. Left out are results the user asked for that were inputs as
\* well (resolvers.h:107), R packages to compile without what that needs
\* (tracer.h:396), and the base packages of an R that no Debian package has: the R
\* resolver takes them, the script does not install them
\* (install_r_package_builder.h:47).
InputsReachImage ==
    TaskEnded /\ Undisturbed =>
        \A f \in Inputs :
            \/ disk[f] \notin {"file", "alink"}
            \/ kind[f].asked
            \/ "R" \in kind[f].pkg /\ "deb" \notin kind[f].pkg
               /\ (kind[f].base \/ (kind[f].compiled /\ ~Known))
            \/ Present(f)

\* What goes into the archive was an input that neither database knew, but for one that
\* was gone when its other names were looked up, and came back, as long as the user
\* has not changed the manifest; after that it is what a line with C, of
\* this name or of one cut at its '#', asks for. Only a manifest without its
\* header leaves everything as it was (tracer.h:260, 490; manifest_section.h:30).
\* What a link among these leads to goes with it, whoever provides it (tracer.h:504).
ArchiveIsChosen ==
    \A f \in archive \cap File :
        IF restamped /\ header # "none"
        THEN \E g \in File : cut[g] = f /\ text[g] = "C"
        ELSE /\ kind[f].before /\ ~kind[f].asked
             /\ kind[f].pkg # {} => kind[f].alternate /\ changes > 0

\* What of the rest of the system can end the run by an exception, and when.
FaultCounts ==
    \/ fault \in {"R", "roots"}
    \/ fault = "cycle" /\ r_packages # {}
    \/ fault = "transfer" /\ NeedsToolchain
    \/ fault = "slash" /\ r_packages # {}
    \/ fault \in {"tar", "slash"} /\ ToCopy # {}

\* Without a change of the disk or of the manifest no file lets r4r throw but for what
\* was there at the start: a path that cannot be searched, or a relative link. tar
\* finds each name CopyFileResolver has seen (util_fs.h:71, tracer.h:503, 523).
ThrowsForAReason ==
    pc = "threw" /\ Undisturbed =>
        \/ \E f \in File : disk[f] \in {"hidden", "rlink"}
        \/ \E l \in Link : links[l] = "hidden"
        \/ FaultCounts

\* Every result the user asked for is fetched from the container, whoever else
\* knows the file, unless the user has edited the manifest (tracer.h:1094, 805).
AskedAreFetched ==
    pc \in {"make", "done"} /\ ~restamped =>
        \A f \in File : kind[f].asked => f \in fetched

-------------------------------------------------------------------------------
fate == [f \in File |->
            IF ~kind[f].traced THEN "untraced"
            ELSE IF f \in traced_files THEN "open"
            ELSE IF f \in deb_packages THEN "deb"
            ELSE IF f \in r_packages THEN "R" ELSE "listed"]

Fates == INSTANCE FileFates WITH
    fate <- fate,
    inDeb <- {f \in File : "deb" \in kind[f].pkg},
    inR <- {f \in File : "R" \in kind[f].pkg},
    elsewhere <- {f \in File : kind[f].alternate}

\* Each traced file is resolved once, by the first resolver that knows it, and
\* nothing done later changes that (ResolveFileTask::run, tracer.h:192-217).
EachFileOneFate == Fates!Spec
===============================================================================
