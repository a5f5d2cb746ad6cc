---------------------------- MODULE ResolutionProofs ----------------------------
(***************************************************************************)
(* Proofs about Resolution, for any files, links, kinds and changes of the   *)
(* disk.                                                                   *)
(*                                                                         *)
(* Resolved says what the passes have done to each file so far; the          *)
(* refinement of FileFates and everything else rests on it.  Listed and      *)
(* Edited follow the entries of the manifest from the copy resolver over    *)
(* the editor to the archive, Untouched those of a run that nobody disturbs. *)
(***************************************************************************)
EXTENDS Resolution, TLAPS

-------------------------------------------------------------------------------
LEMMA Packages ==
    ASSUME TypeOK, NEW f \in File
    PROVE  "deb" \notin kind[f].pkg /\ "R" \notin kind[f].pkg <=> kind[f].pkg = {}
BY ResolutionAssumption DEF TypeOK, Kind

\* The tasks after the resolvers.
Late == {"sysdeps", "save", "editor", "load", "dockerfile", "tar", "makefile", "make",
         "done", "failed"}

LateStep ==
    SystemDependencies \/ SaveManifest \/ EditorReturns \/ LoadManifest \/ ListFiles
        \/ create_tar_archive \/ generate_makefile \/ RunMake \/ DockerFails

LEMMA LateFrame ==
    ASSUME LateStep
    PROVE  /\ pc \in Late /\ pc' \in Late \cup {"threw"} /\ pc' # "sysdeps"
           /\ UNCHANGED <<world, env, traced_files, traced_symlinks, seen, symlinks,
                          deb_packages, r_packages>>
<1> USE DEF Late, world, env, manifest, conf, output
<1>1. CASE SystemDependencies
  BY <1>1 DEF SystemDependencies
<1>2. CASE SaveManifest
  BY <1>2 DEF SaveManifest
<1>3. CASE EditorReturns
  BY <1>3 DEF EditorReturns
<1>4. CASE LoadManifest
  BY <1>4 DEF LoadManifest
<1>5. CASE ListFiles
  BY <1>5 DEF ListFiles
<1>6. CASE create_tar_archive
  BY <1>6 DEF create_tar_archive
<1>7. CASE generate_makefile
  BY <1>7 DEF generate_makefile
<1>8. CASE RunMake
  BY <1>8 DEF RunMake
<1>9. CASE DockerFails
  BY <1>9 DEF DockerFails
<1> QED
  BY <1>1, <1>2, <1>3, <1>4, <1>5, <1>6, <1>7, <1>8, <1>9 DEF LateStep

\* A step of the resolvers on links, or one of the environment.
SideStep ==
    \/ \E l \in Link : DebResolveLink(l) \/ CopyResolveLink(l)
    \/ UserEdits
    \/ DiskChanges

LEMMA SideFrame ==
    ASSUME SideStep
    PROVE  /\ pc \in {"debLinks", "copyLinks"} \/ UNCHANGED seen
           /\ UNCHANGED <<world, pc, traced_files, deb_packages, r_packages, copy_files,
                          toolchain, output>>
BY DEF SideStep, DebResolveLink, CopyResolveLink, UserEdits, DiskChanges, world, manifest,
       conf, output, env

\* An exception leaves everything as it is.
ThrowStep == Fault \/ LookupThrows

LEMMA ThrowFrame ==
    ASSUME ThrowStep
    PROVE  /\ pc' = "threw" /\ pc \notin Ends
           /\ UNCHANGED <<world, env, traced_files, traced_symlinks, seen, manifest, conf, output>>
BY DEF ThrowStep, Fault, FromRThrows, RootLinksThrow, DependenciesThrow, CopyScriptThrows,
       ArchiveThrows, Throw, LookupThrows, Ends

LEMMA StepCases ==
    ASSUME Next
    PROVE  \/ \E f \in File : DebResolve(f) \/ RResolve(f) \/ CopyResolve(f)
           \/ from_R
           \/ NextPass
           \/ LateStep
           \/ SideStep
           \/ ThrowStep
BY DEF Next, Step, LateStep, SideStep, ThrowStep

-------------------------------------------------------------------------------
(* The types *)

LEMMA LateTypes ==
    ASSUME TypeOK, LateStep
    PROVE  TypeOK'
<1>1. pc' \in PCs
  BY LateFrame DEF Late, PCs, Ends
<1>2. /\ UNCHANGED <<kind, cut, interactive_, disk, links, changes, traced_files,
                     traced_symlinks, seen, symlinks, deb_packages, r_packages>>
  BY LateFrame DEF world, env
<1>8. UNCHANGED fault
  BY DEF LateStep, SystemDependencies, SaveManifest, EditorReturns, LoadManifest, ListFiles,
         create_tar_archive, generate_makefile, RunMake, DockerFails
<1>9. targets' \in [File -> {"none", "absolute", "relative"}]
  BY DEF LateStep, SystemDependencies, SaveManifest, EditorReturns, LoadManifest, ListFiles,
         create_tar_archive, generate_makefile, RunMake, DockerFails, TypeOK, output,
         read_symlink
<1>3. toolchain' \in BOOLEAN
  BY DEF LateStep, SystemDependencies, SaveManifest, EditorReturns, LoadManifest, ListFiles,
         create_tar_archive, generate_makefile, RunMake, DockerFails, TypeOK, manifest,
         NeedsToolchain
<1>4. copy_files' \in [File -> FileStatus]
  BY DEF LateStep, SystemDependencies, SaveManifest, EditorReturns, LoadManifest, ListFiles,
         create_tar_archive, generate_makefile, RunMake, DockerFails, TypeOK, manifest
<1>5. /\ text' \in [File -> Marks]
      /\ header' \in {"first", "last", "none"}
      /\ UNCHANGED <<edited, restamped>>
  <2>1. CASE SaveManifest
    <3>1. \A f \in File : Mark(copy_files[f]) \in Marks
      BY DEF TypeOK, Mark, Marks, FileStatus
    <3> QED
      BY <2>1, <3>1 DEF SaveManifest, TypeOK
  <2>2. CASE ~SaveManifest
    BY <2>2 DEF LateStep, SystemDependencies, EditorReturns, LoadManifest, ListFiles,
         create_tar_archive, generate_makefile, RunMake, DockerFails, TypeOK, conf
  <2> QED
    BY <2>1, <2>2
<1>6. archive' \subseteq File \cup Link
  BY DEF LateStep, SystemDependencies, SaveManifest, EditorReturns, LoadManifest, ListFiles,
         create_tar_archive, generate_makefile, RunMake, DockerFails, TypeOK, output, ToCopy
<1>7. fetched' \subseteq File
  BY DEF LateStep, SystemDependencies, SaveManifest, EditorReturns, LoadManifest, ListFiles,
         create_tar_archive, generate_makefile, RunMake, DockerFails, TypeOK, output, Results
<1> QED
  BY <1>1, <1>2, <1>3, <1>4, <1>5, <1>6, <1>7, <1>8, <1>9 DEF TypeOK

LEMMA TypeStep == TypeOK /\ [Next]_vars => TypeOK'
<1> SUFFICES ASSUME TypeOK, [Next]_vars PROVE TypeOK'
  OBVIOUS
<1> USE DEF world, env, manifest, conf, output
<1>1. CASE UNCHANGED vars
  BY <1>1 DEF vars, TypeOK
<1>2. ASSUME NEW f \in File, DebResolve(f) PROVE TypeOK'
  BY <1>2 DEF DebResolve, TypeOK
<1>3. ASSUME NEW f \in File, RResolve(f) PROVE TypeOK'
  BY <1>3 DEF RResolve, TypeOK
<1>4. ASSUME NEW f \in File, CopyResolve(f) PROVE TypeOK'
  <2>1. Entry(f) \in FileStatus
    BY DEF Entry, CopyStatus, FileStatus, TypeOK, DiskStatus
  <2>2. copy_files' \in [File -> FileStatus]
    BY <1>4, <2>1 DEF CopyResolve, TypeOK
  <2> QED
    BY <1>4, <2>2 DEF CopyResolve, TypeOK
<1>5. CASE ThrowStep
  <2>1. fault' \in Faults \cup {"none"}
    BY <1>5 DEF ThrowStep, Fault, FromRThrows, RootLinksThrow, DependenciesThrow,
       CopyScriptThrows, ArchiveThrows, Throw, LookupThrows, Faults, TypeOK
  <2> QED
    BY <1>5, <2>1, ThrowFrame DEF TypeOK, PCs, Ends
<1>6. CASE NextPass
  <2>1. pc' \in PCs
    BY <1>6 DEF NextPass, After, PCs, Passes
  <2> QED
    BY <1>6, <2>1 DEF NextPass, TypeOK
<1>7. ASSUME NEW l \in Link, DebResolveLink(l) PROVE TypeOK'
  BY <1>7 DEF DebResolveLink, TypeOK
<1>8. ASSUME NEW l \in Link, CopyResolveLink(l) PROVE TypeOK'
  BY <1>8 DEF CopyResolveLink, TypeOK
<1>9. CASE UserEdits
  <2>1. text' \in [File -> Marks]
    BY <1>9 DEF UserEdits, Marks
  <2> QED
    BY <1>9, <2>1 DEF UserEdits, TypeOK
<1>10. CASE DiskChanges
  <2>1. changes' \in 0 .. MaxChanges
    BY <1>10, ResolutionAssumption DEF DiskChanges, TypeOK
  <2>2. disk' \in [File -> DiskStatus] /\ links' \in [Link -> LinkStatus]
    BY <1>10, ResolutionAssumption DEF DiskChanges, TypeOK, LinkStatus
  <2> QED
    BY <1>10, <2>1, <2>2 DEF DiskChanges, TypeOK
<1>11. CASE from_R
  BY <1>11 DEF from_R, TypeOK, PCs, Passes
<1> QED
  BY <1>1, <1>2, <1>3, <1>4, <1>5, <1>6, <1>7, <1>8, <1>9, <1>10, <1>11, StepCases, LateTypes
  DEF SideStep

LEMMA InitTypes == Init => TypeOK
<1> SUFFICES ASSUME Init PROVE TypeOK
  OBVIOUS
<1>1. disk \in [File -> DiskStatus] /\ links \in [Link -> LinkStatus]
  BY ResolutionAssumption DEF Init
<1>2. changes \in 0 .. MaxChanges
  <2>1. changes = 0
    BY DEF Init
  <2> QED
    BY <2>1, ResolutionAssumption
<1>3. copy_files \in [File -> FileStatus]
  BY DEF Init, InitialStatus, FileStatus
<1> QED
  BY <1>1, <1>2, <1>3 DEF Init, TypeOK, PCs, Passes, Marks

-------------------------------------------------------------------------------
(* What the passes have done *)

Resolving == {"database", "deb", "debLinks", "R", "copy", "copyLinks"}

\* The database does not know f by the traced name, nor by another as long as f was gone.
Missed(database, f) ==
    database \in kind[f].pkg => kind[f].alternate /\ (disk[f] = "gone" \/ changes > 0)

LEMMA MissedStays ==
    ASSUME TypeOK, [Next]_vars, NEW f \in File
    PROVE  /\ Missed("deb", f) => Missed("deb", f)'
           /\ Missed("R", f) => Missed("R", f)'
<1>1. UNCHANGED <<kind, disk, changes>> \/ DiskChanges
  <2>1. CASE UNCHANGED vars
    BY <2>1 DEF vars, world, env
  <2>2. CASE Next /\ ~SideStep
    BY <2>2, StepCases, LateFrame, ThrowFrame DEF DebResolve, RResolve, CopyResolve, from_R,
       NextPass, world, env
  <2>3. CASE SideStep
    BY <2>3 DEF SideStep, DebResolveLink, CopyResolveLink, UserEdits, world, env
  <2> QED
    BY <2>1, <2>2, <2>3
<1>2. CASE DiskChanges
  BY <1>2 DEF DiskChanges, Missed, TypeOK, world
<1> QED
  BY <1>1, <1>2 DEF Missed

Resolved ==
    /\ pc = "database" => seen = {}
    /\ \A f \in File :
        /\ f \in traced_files => kind[f].traced
        /\ f \in deb_packages =>
              f \notin traced_files /\ kind[f].traced /\ "deb" \in kind[f].pkg
        /\ f \in r_packages =>
              /\ f \notin traced_files /\ f \notin deb_packages
              /\ "R" \in kind[f].pkg /\ Missed("deb", f)
        /\ kind[f].traced /\ f \notin traced_files =>
              /\ f \in deb_packages \/ Missed("deb", f)
              /\ f \in deb_packages \/ f \in r_packages \/ Missed("R", f)
        /\ pc = "deb" /\ f \in seen => Missed("deb", f)
        /\ pc = "R" /\ f \in seen => Missed("R", f)
        /\ pc \in {"debLinks", "R", "copy", "copyLinks"} \cup Late /\ f \in traced_files =>
              Missed("deb", f)
        /\ pc \in {"copy", "copyLinks"} \cup Late /\ f \in traced_files => Missed("R", f)
        /\ pc \in {"copyLinks"} \cup Late => f \notin traced_files

LEMMA PassFiles ==
    ASSUME NextPass
    PROVE  /\ UNCHANGED <<kind, traced_files, deb_packages, r_packages, copy_files>>
           /\ seen' = {}
           /\ \/ pc = "deb" /\ pc' = "debLinks" /\ traced_files \subseteq seen
              \/ pc = "debLinks" /\ pc' = "R"
              \/ pc = "R" /\ pc' = "copy" /\ traced_files \subseteq seen
              \/ pc = "copy" /\ pc' = "copyLinks" /\ traced_files = {}
              \/ pc = "copyLinks" /\ pc' = "sysdeps"
BY DEF NextPass, Passes, After, world, manifest

LEMMA ResolvedStep == TypeOK /\ Resolved /\ [Next]_vars => Resolved'
<1> SUFFICES ASSUME TypeOK, Resolved, [Next]_vars PROVE Resolved'
  OBVIOUS
<1>0. \A f \in File : /\ Missed("deb", f) => Missed("deb", f)'
                      /\ Missed("R", f) => Missed("R", f)'
  BY MissedStays
<1>1. CASE UNCHANGED vars
  BY <1>0, <1>1 DEF vars, world, manifest, Resolved
<1>2. ASSUME NEW f \in File, DebResolve(f) PROVE Resolved'
  <2>1. Has("deb", f) \/ Missed("deb", f)
    BY DEF Has, Missed
  <2> QED
    BY <1>0, <1>2, <2>1 DEF DebResolve, Has, world, Resolved, Late
<1>3. ASSUME NEW f \in File, RResolve(f) PROVE Resolved'
  <2>1. Has("R", f) \/ Missed("R", f)
    BY DEF Has, Missed
  <2> QED
    BY <1>0, <1>3, <2>1 DEF RResolve, Has, world, Resolved, Late
<1>4. ASSUME NEW f \in File, CopyResolve(f) PROVE Resolved'
  BY <1>0, <1>4 DEF CopyResolve, world, Resolved, Late
<1>5. CASE ThrowStep
  BY <1>0, <1>5, ThrowFrame DEF world, manifest, Resolved, Late
<1>6. CASE NextPass
  BY <1>0, <1>6, PassFiles DEF Resolved, Late
<1>7. CASE LateStep
  BY <1>0, <1>7, LateFrame DEF Resolved, Late, world
<1>8. CASE SideStep
  BY <1>0, <1>8, SideFrame DEF Resolved, Late, world
<1>9. CASE from_R
  BY <1>0, <1>9 DEF from_R, world, manifest, Resolved, Late
<1> QED
  BY <1>1, <1>2, <1>3, <1>4, <1>5, <1>6, <1>7, <1>8, <1>9, StepCases

\* A resolver that takes a file decides its fate.
LEMMA FateStep ==
    TypeOK /\ Resolved /\ [Next]_vars => [Fates!Next]_(Fates!vars)
<1> SUFFICES ASSUME TypeOK, Resolved, [Next]_vars
             PROVE  Fates!Next \/ UNCHANGED <<kind, traced_files, deb_packages, r_packages>>
  BY DEF Fates!vars, fate
<1>1. CASE UNCHANGED vars
  BY <1>1 DEF vars, world, manifest
<1> DEFINE Taken(f) ==
      /\ f \in traced_files /\ kind[f].traced
      /\ UNCHANGED kind /\ traced_files' = traced_files \ {f}
      /\ \/ "deb" \in kind[f].pkg /\ deb_packages' = deb_packages \cup {f} /\ UNCHANGED r_packages
         \/ /\ "deb" \in kind[f].pkg => kind[f].alternate
            /\ "R" \in kind[f].pkg
            /\ r_packages' = r_packages \cup {f} /\ UNCHANGED deb_packages
         \/ /\ kind[f].pkg # {} => kind[f].alternate
            /\ UNCHANGED <<deb_packages, r_packages>>
<1>2. ASSUME NEW f \in File, Taken(f) PROVE Fates!Next
  <2>1. f \notin deb_packages /\ f \notin r_packages
    BY <1>2 DEF Resolved
  <2>2. fate[f] = "open"
    BY <1>2 DEF fate
  <2>3. ASSUME NEW d \in {"deb", "R", "listed"},
               (f \in deb_packages') <=> (d = "deb"), (f \in r_packages') <=> (d = "R")
        PROVE  fate' = [fate EXCEPT ![f] = d]
    BY <1>2, <2>1, <2>3 DEF fate
  <2>4. CASE "deb" \in kind[f].pkg /\ deb_packages' = deb_packages \cup {f} /\ UNCHANGED r_packages
    <3>1. Fates!Decide(f, "deb")
      BY <1>2, <2>1, <2>2, <2>3, <2>4 DEF Fates!Decide
    <3> QED
      BY <3>1 DEF Fates!Next
  <2>5. CASE /\ "deb" \in kind[f].pkg => kind[f].alternate
             /\ "R" \in kind[f].pkg
             /\ r_packages' = r_packages \cup {f} /\ UNCHANGED deb_packages
    <3>1. Fates!Decide(f, "R")
      BY <1>2, <2>1, <2>2, <2>3, <2>5 DEF Fates!Decide
    <3> QED
      BY <3>1 DEF Fates!Next
  <2>6. CASE /\ kind[f].pkg # {} => kind[f].alternate
             /\ UNCHANGED <<deb_packages, r_packages>>
    <3>1. Fates!Decide(f, "listed")
      BY <1>2, <2>1, <2>2, <2>3, <2>6 DEF Fates!Decide
    <3> QED
      BY <3>1 DEF Fates!Next
  <2> QED
    BY <1>2, <2>4, <2>5, <2>6
<1>3. ASSUME NEW f \in File, DebResolve(f)
      PROVE  Taken(f) \/ UNCHANGED <<kind, traced_files, deb_packages, r_packages>>
  BY <1>3 DEF DebResolve, Has, Resolved, world
<1>4. ASSUME NEW f \in File, RResolve(f)
      PROVE  Taken(f) \/ UNCHANGED <<kind, traced_files, deb_packages, r_packages>>
  BY <1>4 DEF RResolve, Has, Missed, Resolved, world
<1>5. ASSUME NEW f \in File, CopyResolve(f) PROVE Taken(f)
  BY <1>5, Packages DEF CopyResolve, Missed, Resolved, world
<1>6. CASE ThrowStep \/ from_R
  BY <1>6, ThrowFrame DEF from_R, world, manifest
<1> QED
  BY <1>1, <1>2, <1>3, <1>4, <1>5, <1>6, StepCases, PassFiles, LateFrame, SideFrame DEF world

-------------------------------------------------------------------------------
(* The manifest and the archive *)

\* The entries that the user cannot have written.
Untold == ~(restamped /\ header # "none")

BeforeDockerfile == Resolving \cup {"sysdeps", "save", "editor", "load"}

\* What r4r itself puts into the archive.
Chosen(f) ==
    /\ kind[f].before /\ ~kind[f].asked
    /\ kind[f].pkg # {} => kind[f].alternate /\ changes > 0

LEMMA ChosenStays ==
    ASSUME TypeOK, [Next]_vars, NEW f \in File, Chosen(f)
    PROVE  Chosen(f)'
<1>1. UNCHANGED <<kind, changes>> \/ DiskChanges
  <2>1. CASE UNCHANGED vars
    BY <2>1 DEF vars, world, env
  <2>2. CASE Next /\ ~SideStep
    BY <2>2, StepCases, LateFrame, ThrowFrame DEF DebResolve, RResolve, CopyResolve, from_R,
       NextPass, world, env
  <2>3. CASE SideStep
    BY <2>3 DEF SideStep, DebResolveLink, CopyResolveLink, UserEdits, world, env
  <2> QED
    BY <2>1, <2>2, <2>3
<1>2. CASE DiskChanges
  BY <1>2 DEF DiskChanges, Chosen, TypeOK, world
<1> QED
  BY <1>1, <1>2 DEF Chosen

Listed ==
    /\ pc \in Resolving \cup {"sysdeps", "save"} => ~edited
    /\ restamped => edited
    /\ pc = "load" => restamped
    /\ \A f \in File :
        /\ pc \in Resolving /\ f \in traced_files => copy_files[f] = InitialStatus(f)
        /\ ~restamped \/ pc \in BeforeDockerfile =>
              (kind[f].asked => copy_files[f] = "Result")
        /\ pc \in BeforeDockerfile \/ (pc = "dockerfile" /\ Untold) =>
              (copy_files[f] = "Copy" => Chosen(f))
        /\ pc = "dockerfile" /\ ~Untold =>
              (copy_files[f] = "Copy" => \E g \in File : cut[g] = f /\ text[g] = "C")

\* The archive and the results asked of the container are those of the manifest.
Edited ==
    /\ pc \in BeforeDockerfile \cup {"dockerfile"} => archive = {}
    /\ pc \in {"tar", "makefile", "make", "done"} => archive = ToCopy
    /\ ArchiveIsChosen
    /\ AskedAreFetched

LEMMA ListedStep == TypeOK /\ Resolved /\ Listed /\ [Next]_vars => Listed'
<1> SUFFICES ASSUME TypeOK, Resolved, Listed, [Next]_vars PROVE Listed'
  OBVIOUS
<1> USE DEF Resolving, BeforeDockerfile, InitialStatus, Untold
<1>0. \A f \in File : Chosen(f) => Chosen(f)'
  BY ChosenStays
<1>1. CASE UNCHANGED vars
  BY <1>0, <1>1 DEF vars, world, manifest, conf, Listed
<1>2. ASSUME NEW f \in File, DebResolve(f) \/ RResolve(f) PROVE Listed'
  <2>1. /\ UNCHANGED <<kind, cut, copy_files, text, header, edited, restamped, pc>>
        /\ traced_files' \subseteq traced_files
        /\ pc \in {"deb", "R"}
    BY <1>2 DEF DebResolve, RResolve, world, manifest, conf
  <2> QED
    BY <1>0, <2>1 DEF Listed
<1>3. ASSUME NEW f \in File, CopyResolve(f) PROVE Listed'
  <2>1. /\ pc = "copy" /\ f \in traced_files
        /\ UNCHANGED <<kind, cut, pc, text, header, edited, restamped>>
        /\ traced_files' = traced_files \ {f}
        /\ \A g \in File : copy_files'[g] = IF g = f THEN Entry(f) ELSE copy_files[g]
    BY <1>3 DEF CopyResolve, TypeOK, world, conf
  <2>2. Missed("deb", f) /\ Missed("R", f)
    BY <2>1 DEF Resolved
  <2>3. copy_files[f] = IF kind[f].asked THEN "Result" ELSE "none"
    BY <2>1 DEF Listed
  <2>4. Entry(f) = "Copy" => Chosen(f)
    <3>1. Entry(f) = "Copy" => kind[f].before /\ ~kind[f].asked /\ disk[f] # "gone"
      BY <2>3 DEF Entry, CopyStatus, TypeOK, DiskStatus
    <3> QED
      BY <2>2, <3>1, Packages DEF Chosen, Missed
  <2>5. kind[f].asked => Entry(f) = "Result"
    BY <2>3 DEF Entry
  <2> QED
    BY <1>0, <2>1, <2>4, <2>5 DEF Listed
<1>4. CASE NextPass
  <2>1. UNCHANGED <<kind, cut, text, header, edited, restamped, copy_files, traced_files>>
    BY <1>4 DEF NextPass, world, manifest, conf
  <2>2. pc \in Resolving /\ pc' \in Resolving \cup {"sysdeps"}
    BY <1>4, PassFiles
  <2> QED
    BY <1>0, <2>1, <2>2 DEF Listed
<1>5. CASE LateStep
  <2>1. UNCHANGED <<kind, cut, edited, restamped>> /\ pc \in Late
    BY <1>5, LateFrame DEF LateStep, SystemDependencies, SaveManifest, EditorReturns,
       LoadManifest, ListFiles, create_tar_archive, generate_makefile, RunMake, DockerFails,
       conf, world
  <2>2. CASE SystemDependencies
    <3>1. UNCHANGED <<kind, cut, text, header, edited, restamped, copy_files>> /\ pc = "sysdeps"
          /\ pc' = "save"
      BY <2>2 DEF SystemDependencies, world, conf
    <3> QED
      BY <1>0, <3>1 DEF Listed
  <2>3. CASE SaveManifest
    <3>1. UNCHANGED <<kind, cut, edited, restamped, copy_files>> /\ pc = "save"
          /\ pc' \in {"editor", "dockerfile"}
      BY <2>3 DEF SaveManifest, world, manifest
    <3> QED
      BY <1>0, <3>1 DEF Listed
  <2>4. CASE EditorReturns
    <3>1. UNCHANGED <<kind, cut, text, header, edited, restamped, copy_files>> /\ pc = "editor"
          /\ pc' = IF restamped THEN "load" ELSE "dockerfile"
      BY <2>4 DEF EditorReturns, world, manifest, conf
    <3> QED
      BY <1>0, <3>1 DEF Listed
  <2>5. CASE LoadManifest
    <3>1. UNCHANGED <<kind, cut, text, header, edited, restamped>> /\ pc = "load" /\ restamped
      BY <2>5 DEF LoadManifest, world, conf, Listed
    <3>2. CASE pc' = "threw"
      BY <1>0, <3>1, <3>2 DEF Listed
    <3>3. CASE pc' = "dockerfile" /\ header = "none"
      <4>1. UNCHANGED copy_files
        BY <2>5, <3>3 DEF LoadManifest
      <4> QED
        BY <1>0, <3>1, <3>3, <4>1 DEF Listed
    <3>4. CASE pc' = "dockerfile" /\ header # "none"
      <4>1. \A f \in File : copy_files'[f] \in Loaded(f)
        BY <2>5, <3>4 DEF LoadManifest
      <4>2. \A f \in File : "Copy" \in Loaded(f) => \E g \in File : cut[g] = f /\ text[g] = "C"
        BY DEF Loaded
      <4> QED
        BY <1>0, <3>1, <3>4, <4>1, <4>2 DEF Listed
    <3> QED
      BY <2>5, <3>2, <3>3, <3>4 DEF LoadManifest
  <2>6. CASE ListFiles \/ create_tar_archive \/ generate_makefile \/ RunMake \/ DockerFails
    <3>1. /\ UNCHANGED <<kind, cut, text, header, edited, restamped, copy_files>>
          /\ pc \in {"dockerfile", "tar", "makefile", "make"}
          /\ pc' \in {"tar", "makefile", "make", "done", "failed", "threw"}
      BY <2>6 DEF ListFiles, create_tar_archive, generate_makefile, RunMake, DockerFails,
         world, manifest, conf
    <3> QED
      BY <1>0, <3>1 DEF Listed
  <2> QED
    BY <1>5, <2>2, <2>3, <2>4, <2>5, <2>6 DEF LateStep
<1>6. CASE SideStep
  <2>1. UNCHANGED <<kind, cut, pc, traced_files, copy_files>>
    BY <1>6, SideFrame DEF world
  <2>2. CASE UserEdits
    <3>1. pc = "editor" /\ ~edited /\ edited' /\ restamped' \in BOOLEAN
      BY <2>2 DEF UserEdits
    <3> QED
      BY <1>0, <2>1, <3>1 DEF Listed
  <2>3. CASE ~UserEdits
    <3>1. UNCHANGED <<text, header, edited, restamped>>
      BY <1>6, <2>3 DEF SideStep, DebResolveLink, CopyResolveLink, DiskChanges, conf
    <3> QED
      BY <1>0, <2>1, <3>1 DEF Listed
  <2> QED
    BY <2>2, <2>3
<1>7. CASE ThrowStep
  <2>1. UNCHANGED <<kind, cut, text, header, edited, restamped, copy_files, traced_files>>
    BY <1>7, ThrowFrame DEF world, manifest, conf
  <2> QED
    BY <1>0, <1>7, <2>1, ThrowFrame DEF Listed
<1>8. CASE from_R
  <2>1. /\ UNCHANGED <<kind, cut, text, header, edited, restamped, copy_files, traced_files>>
        /\ pc = "database" /\ pc' = "deb"
    BY <1>8 DEF from_R, world, manifest, conf
  <2> QED
    BY <1>0, <2>1 DEF Listed
<1> QED
  BY <1>1, <1>2, <1>3, <1>4, <1>5, <1>6, <1>7, <1>8, StepCases

LEMMA EditedStep == TypeOK /\ Listed /\ Edited /\ [Next]_vars => Edited'
<1> SUFFICES ASSUME TypeOK, Listed, Edited, [Next]_vars PROVE Edited'
  OBVIOUS
<1> USE DEF Resolving, BeforeDockerfile
<1>0. \A f \in File : Chosen(f) => Chosen(f)'
  BY ChosenStays
<1>1. ASSUME UNCHANGED <<kind, cut, pc, copy_files, symlinks, text, header, edited, restamped,
                         archive, fetched>>
      PROVE  Edited'
  BY <1>0, <1>1 DEF Chosen, Edited, ArchiveIsChosen, AskedAreFetched, ToCopy
<1>2. UNCHANGED vars => UNCHANGED <<kind, cut, pc, copy_files, symlinks, text, header, edited,
                                    restamped, archive, fetched>>
  BY DEF vars, world, manifest, conf, output
<1>3. ASSUME pc \in BeforeDockerfile, pc' \in BeforeDockerfile \cup {"dockerfile", "threw"},
             UNCHANGED archive
      PROVE  Edited'
  BY <1>3 DEF Edited, ArchiveIsChosen, AskedAreFetched
<1>4. CASE \E f \in File : DebResolve(f) \/ RResolve(f) \/ CopyResolve(f)
  <2>1. pc \in Resolving /\ UNCHANGED <<pc, archive>>
    BY <1>4 DEF DebResolve, RResolve, CopyResolve, output
  <2> QED
    BY <1>3, <2>1
<1>5. CASE NextPass
  <2>1. UNCHANGED archive
    BY <1>5 DEF NextPass, output
  <2> QED
    BY <1>3, <1>5, <2>1, PassFiles
<1>6. CASE SystemDependencies \/ SaveManifest \/ EditorReturns \/ LoadManifest
  <2>1. /\ pc \in BeforeDockerfile /\ pc' \in BeforeDockerfile \cup {"dockerfile", "threw"}
        /\ UNCHANGED archive
    BY <1>6 DEF SystemDependencies, SaveManifest, EditorReturns, LoadManifest, output
  <2> QED
    BY <1>3, <2>1
<1>7. CASE ListFiles
  <2>1. /\ pc = "dockerfile" /\ archive = {}
        /\ UNCHANGED <<kind, cut, copy_files, symlinks, text, header, edited, restamped>>
        /\ \/ pc' = "threw" /\ archive' = {}
           \/ pc' \in {"makefile", "tar"} /\ archive' = ToCopy
    BY <1>7 DEF ListFiles, world, manifest, conf, Edited
  <2>2. \A f \in ToCopy \cap File : copy_files[f] = "Copy"
    BY ResolutionAssumption DEF ToCopy, TypeOK
  <2>3. \A f \in ToCopy \cap File :
            IF restamped /\ header # "none"
            THEN \E g \in File : cut[g] = f /\ text[g] = "C"
            ELSE Chosen(f)
    BY <2>1, <2>2 DEF Listed, Untold
  <2>4. ArchiveIsChosen'
    BY <1>0, <2>1, <2>3 DEF Chosen, ArchiveIsChosen
  <2>5. AskedAreFetched'
    BY <2>1 DEF AskedAreFetched
  <2> QED
    BY <2>1, <2>4, <2>5 DEF Edited, ToCopy
<1>8. CASE create_tar_archive \/ DockerFails \/ RunMake
  <2>1. /\ UNCHANGED <<kind, cut, copy_files, symlinks, text, header, edited, restamped,
                       archive, fetched>>
        /\ \/ pc = "tar" /\ pc' \in {"makefile", "threw"}
           \/ pc \in {"makefile", "make"} /\ pc' = "failed"
           \/ pc = "make" /\ pc' = "done"
    BY <1>8 DEF create_tar_archive, DockerFails, RunMake, world, manifest, conf, output
  <2> QED
    BY <1>0, <2>1 DEF Chosen, Edited, ArchiveIsChosen, AskedAreFetched, ToCopy
<1>9. CASE generate_makefile
  <2>1. /\ UNCHANGED <<kind, cut, copy_files, symlinks, text, header, edited, restamped, archive>>
        /\ pc = "makefile" /\ pc' \in {"make", "done"} /\ fetched' = Results
    BY <1>9 DEF generate_makefile, world, manifest, conf
  <2>2. AskedAreFetched'
    BY <2>1 DEF AskedAreFetched, Results, Listed
  <2> QED
    BY <1>0, <2>1, <2>2 DEF Chosen, Edited, ArchiveIsChosen, ToCopy
<1>10. CASE SideStep
  <2>1. CASE pc \in BeforeDockerfile
    BY <1>3, <1>10, <2>1, SideFrame DEF output
  <2>2. CASE pc \notin BeforeDockerfile
    BY <1>1, <1>10, <2>2 DEF SideStep, DebResolveLink, CopyResolveLink, UserEdits, DiskChanges,
       world, manifest, conf, output
  <2> QED
    BY <2>1, <2>2
<1>11. CASE ThrowStep
  <2>1. UNCHANGED <<kind, cut, copy_files, symlinks, text, header, edited, restamped,
                    archive, fetched>>
    BY <1>11, ThrowFrame DEF world, manifest, conf, output
  <2> QED
    BY <1>0, <1>11, <2>1, ThrowFrame DEF Chosen, Edited, ArchiveIsChosen, AskedAreFetched
<1>12. CASE from_R
  BY <1>3, <1>12 DEF from_R, output
<1> QED
  BY <1>1, <1>2, <1>4, <1>5, <1>6, <1>7, <1>8, <1>9, <1>10, <1>11, <1>12, StepCases DEF LateStep

-------------------------------------------------------------------------------
(* A run that nobody disturbs *)

AfterCopy == {"copyLinks", "sysdeps", "save", "editor", "load", "dockerfile", "tar",
              "makefile", "make", "done"}

\* An input that has to be in the image.
Wanted(f) ==
    /\ f \in Inputs /\ disk[f] \in {"file", "alink"} /\ ~kind[f].asked
    /\ "R" \in kind[f].pkg /\ "deb" \notin kind[f].pkg =>
          ~kind[f].base /\ (kind[f].compiled => Known)

Untouched ==
    /\ pc \in {"save", "editor", "load", "dockerfile", "tar", "makefile", "make", "done"} =>
          toolchain = (NeedsToolchain /\ Known)
    /\ pc = "tar" => ToCopy # {}
    /\ Undisturbed =>
        /\ \A l \in symlinks : links[l] = "link"
        /\ \A f \in File :
            /\ targets[f] = "relative" => disk[f] = "rlink"
            /\ pc \in Resolving \cup AfterCopy =>
                  (copy_files[f] = "Copy" => disk[f] \in {"file", "alink", "rlink"})
            /\ pc \in Resolving \cup AfterCopy /\ f \notin traced_files /\ Wanted(f) =>
                  f \in deb_packages \/ f \in r_packages \/ copy_files[f] = "Copy"
    /\ ThrowsForAReason

LEMMA SideOpen == SideStep => pc # "threw"
BY DEF SideStep, DebResolveLink, CopyResolveLink, UserEdits, DiskChanges, Ends

LEMMA UntouchedStep ==
    TypeOK /\ Resolved /\ Listed /\ Edited /\ Untouched /\ [Next]_vars => Untouched'
<1> SUFFICES ASSUME TypeOK, Resolved, Listed, Edited, Untouched, [Next]_vars
             PROVE  Untouched'
  OBVIOUS
<1> USE DEF Resolving, AfterCopy, Undisturbed, Inputs, Wanted
<1>1. ASSUME pc' # "threw" PROVE ThrowsForAReason'
  BY <1>1 DEF ThrowsForAReason
<1>2. CASE UNCHANGED vars
  BY <1>2 DEF vars, world, env, manifest, conf, output, Untouched, NeedsToolchain, ToCopy,
     ThrowsForAReason, FaultCounts
<1>3. ASSUME NEW f \in File, DebResolve(f) \/ RResolve(f) PROVE Untouched'
  <2>1. /\ UNCHANGED <<kind, disk, links, changes, edited, pc, copy_files, symlinks, targets>>
        /\ pc \in {"deb", "R"}
        /\ \/ UNCHANGED <<traced_files, deb_packages, r_packages>>
           \/ /\ traced_files' = traced_files \ {f}
              /\ deb_packages \subseteq deb_packages'
              /\ r_packages \subseteq r_packages'
              /\ f \in deb_packages' \cup r_packages'
    BY <1>3 DEF DebResolve, RResolve, world, env, conf, output
  <2> QED
    BY <1>1, <2>1 DEF Untouched
<1>4. CASE ThrowStep
  <2>1. /\ UNCHANGED <<kind, disk, links, changes, edited, copy_files, symlinks, targets,
                       r_packages>>
        /\ pc' = "threw"
    BY <1>4, ThrowFrame DEF world, env, manifest, conf, output
  <2>2. CASE Fault
    <3>1. FaultCounts'
      BY <2>1, <2>2 DEF Fault, FromRThrows, RootLinksThrow, DependenciesThrow,
         CopyScriptThrows, ArchiveThrows, Throw, FaultCounts, NeedsToolchain, ToCopy, Untouched
    <3> QED
      BY <2>1, <3>1 DEF Untouched, ThrowsForAReason
  <2>3. CASE LookupThrows
    <3>1. \/ \E f \in File : disk[f] = "hidden"
          \/ \E l \in Link : links[l] = "hidden"
      BY <2>3, ResolutionAssumption DEF LookupThrows, LinkHidden, TypeOK
    <3> QED
      BY <2>1, <3>1 DEF Untouched, ThrowsForAReason
  <2> QED
    BY <1>4, <2>2, <2>3 DEF ThrowStep
<1>5. ASSUME NEW f \in File, CopyResolve(f) PROVE Untouched'
  <2>1. /\ UNCHANGED <<kind, disk, links, changes, edited, pc, deb_packages, r_packages,
                       symlinks, targets>>
        /\ pc = "copy" /\ f \in traced_files
        /\ traced_files' = traced_files \ {f}
        /\ \A g \in File : copy_files'[g] = IF g = f THEN Entry(f) ELSE copy_files[g]
    BY <1>5 DEF CopyResolve, TypeOK, world, env, conf, output
  <2>2. Entry(f) = "Copy" => disk[f] \in {"file", "alink", "rlink"}
    BY DEF Entry, CopyStatus, TypeOK, DiskStatus
  <2>3. Wanted(f) => Entry(f) = "Copy"
    <3>1. copy_files[f] = IF kind[f].asked THEN "Result" ELSE "none"
      BY <2>1 DEF Listed, InitialStatus
    <3> QED
      BY <3>1 DEF Entry, CopyStatus
  <2> HIDE DEF Wanted
  <2>4. \A g \in File : Wanted(g)' => Wanted(g)
    BY <2>1 DEF Wanted
  <2> QED
    BY <1>1, <2>1, <2>2, <2>3, <2>4 DEF Untouched
<1>6. CASE NextPass \/ from_R
  <2>1. UNCHANGED <<kind, disk, links, changes, edited, copy_files, traced_files,
                    deb_packages, r_packages, symlinks, targets>>
    BY <1>6 DEF NextPass, from_R, world, env, manifest, conf, output
  <2>2. /\ pc \in Resolving
        /\ pc' \in {"deb", "debLinks", "R", "copy", "copyLinks", "sysdeps"}
    BY <1>6, PassFiles DEF from_R
  <2> QED
    BY <1>1, <2>1, <2>2 DEF Untouched
<1>7. CASE LateStep
  <2>1. UNCHANGED <<kind, disk, links, changes, traced_files, deb_packages, r_packages, symlinks>>
    BY <1>7, LateFrame DEF world, env
  <2>2. CASE SystemDependencies
    <3>1. /\ pc = "sysdeps" /\ pc' = "save" /\ UNCHANGED <<edited, copy_files, targets>>
          /\ toolchain' = (NeedsToolchain /\ Known)
      BY <2>2 DEF SystemDependencies, conf, output
    <3> QED
      BY <1>1, <2>1, <3>1 DEF Untouched, NeedsToolchain
  <2>3. CASE SaveManifest \/ EditorReturns \/ generate_makefile \/ RunMake \/ DockerFails
    <3>1. /\ UNCHANGED <<edited, copy_files, toolchain, targets>>
          /\ pc \in {"save", "editor", "makefile", "make"}
          /\ pc' \in {"editor", "load", "dockerfile", "make", "done", "failed"}
      BY <2>3 DEF SaveManifest, EditorReturns, generate_makefile, RunMake, DockerFails,
         manifest, conf, output
    <3> QED
      BY <1>1, <2>1, <3>1 DEF Untouched, NeedsToolchain
  <2>4. CASE LoadManifest
    <3>1. /\ UNCHANGED <<edited, toolchain>> /\ pc = "load" /\ edited
          /\ pc' \in {"threw", "dockerfile"}
      BY <2>4 DEF LoadManifest, conf, Listed
    <3>2. edited' = TRUE
      BY <3>1 DEF TypeOK
    <3> QED
      BY <2>1, <3>1, <3>2 DEF Untouched, ThrowsForAReason, NeedsToolchain
  <2>5. CASE ListFiles
    <3>1. /\ UNCHANGED <<edited, copy_files, toolchain>> /\ pc = "dockerfile"
          /\ \/ pc' = "threw" /\ \E f \in File : disk[f] = "hidden"
             \/ pc' = "makefile"
             \/ pc' = "tar" /\ ToCopy # {}
          /\ \A f \in File : targets'[f] = "relative" => disk[f] = "rlink"
      BY <2>5 DEF ListFiles, manifest, conf, read_symlink
    <3> QED
      BY <2>1, <3>1 DEF Untouched, ThrowsForAReason, NeedsToolchain, ToCopy
  <2>6. CASE create_tar_archive
    <3>1. /\ UNCHANGED <<edited, copy_files, toolchain, targets>> /\ pc = "tar"
          /\ pc' = IF TarFails THEN "threw" ELSE "makefile"
      BY <2>6 DEF create_tar_archive, manifest, conf, output
    <3>2. /\ \A f \in archive \cap File : copy_files[f] = "Copy"
          /\ archive \cap Link \subseteq symlinks
      BY <3>1, ResolutionAssumption DEF Edited, ToCopy, TypeOK
    <3>3. Undisturbed /\ TarFails => \E f \in File : disk[f] \in {"hidden", "rlink"}
      BY <3>1, <3>2 DEF TarFails, Untouched
    <3> QED
      BY <2>1, <3>1, <3>3 DEF Untouched, ThrowsForAReason, NeedsToolchain
  <2> QED
    BY <1>7, <2>2, <2>3, <2>4, <2>5, <2>6 DEF LateStep
<1>8. CASE SideStep
  <2>1. /\ UNCHANGED <<kind, pc, traced_files, deb_packages, r_packages, copy_files, toolchain,
                       targets>>
        /\ pc' # "threw"
    BY <1>8, SideFrame, SideOpen DEF world, output
  <2>2. CASE DiskChanges
    <3>1. changes' # 0 /\ UNCHANGED <<edited, symlinks>>
      BY <2>2 DEF DiskChanges, TypeOK, conf, manifest
    <3> QED
      BY <1>1, <2>1, <3>1 DEF Untouched, NeedsToolchain, ToCopy
  <2>3. CASE UserEdits
    <3>1. edited' = TRUE /\ UNCHANGED <<disk, links, changes, symlinks>>
      BY <2>3 DEF UserEdits, env, manifest
    <3> QED
      BY <1>1, <2>1, <3>1 DEF Untouched, NeedsToolchain, ToCopy
  <2>4. ASSUME NEW l \in Link, DebResolveLink(l) \/ CopyResolveLink(l) PROVE Untouched'
    <3>1. /\ UNCHANGED <<disk, links, changes, edited>> /\ pc \in {"debLinks", "copyLinks"}
          /\ symlinks' = symlinks \/ (symlinks' = symlinks \cup {l} /\ links[l] = "link")
      BY <2>4 DEF DebResolveLink, CopyResolveLink, env, conf, manifest
    <3> QED
      BY <1>1, <2>1, <3>1 DEF Untouched
  <2> QED
    BY <1>8, <2>2, <2>3, <2>4 DEF SideStep
<1> QED
  BY <1>2, <1>3, <1>4, <1>5, <1>6, <1>7, <1>8, StepCases

\* What an input needs of the manifest it has in the image.
LEMMA Reached ==
    TypeOK /\ Resolved /\ Edited /\ Untouched => InputsReachImage
<1> SUFFICES ASSUME TypeOK, Resolved, Edited, Untouched, TaskEnded, Undisturbed,
                    NEW f \in Inputs, disk[f] \in {"file", "alink"}, ~kind[f].asked,
                    ~("R" \in kind[f].pkg /\ "deb" \notin kind[f].pkg
                      /\ (kind[f].base \/ (kind[f].compiled /\ ~Known)))
             PROVE  Present(f)
  BY DEF InputsReachImage
<1>1. f \in File /\ f \notin traced_files /\ Wanted(f)
  BY DEF Inputs, Wanted, Resolved, TaskEnded, Late
<1>2. f \in deb_packages \/ f \in r_packages \/ copy_files[f] = "Copy"
  BY <1>1 DEF Untouched, TaskEnded, AfterCopy
<1>3. CASE f \in r_packages
  <2>1. "R" \in kind[f].pkg /\ "deb" \notin kind[f].pkg
    BY <1>1, <1>3 DEF Resolved, Missed, Undisturbed
  <2>2. ~kind[f].base /\ (kind[f].compiled => Known)
    BY <2>1
  <2>3. kind[f].compiled => toolchain
    BY <1>1, <1>3, <2>2 DEF Untouched, TaskEnded, NeedsToolchain
  <2> QED
    BY <1>3, <2>2, <2>3 DEF Present
<1>4. CASE copy_files[f] = "Copy"
  <2>1. archive = ToCopy
    BY DEF Edited, TaskEnded
  <2> QED
    BY <1>1, <1>4, <2>1 DEF ToCopy, Present
<1> QED
  BY <1>2, <1>3, <1>4 DEF Present

-------------------------------------------------------------------------------
(* The theorems *)

IInv == TypeOK /\ Resolved /\ Listed /\ Edited /\ Untouched

LEMMA InitInvariant == Init => IInv
<1> SUFFICES ASSUME Init PROVE IInv
  OBVIOUS
<1>1. TypeOK
  BY InitTypes
<1>2. Resolved
  BY DEF Init, Resolved, Late
<1>3. Listed
  BY DEF Init, Listed, Resolving, BeforeDockerfile, InitialStatus, Untold
<1>4. Edited
  BY DEF Init, Edited, ArchiveIsChosen, AskedAreFetched
<1>5. Untouched
  BY DEF Init, Untouched, ThrowsForAReason, InitialStatus, Wanted, Inputs
<1> QED
  BY <1>1, <1>2, <1>3, <1>4, <1>5 DEF IInv

LEMMA Invariance == Spec => []IInv
<1>1. IInv /\ [Next]_vars => IInv'
  BY TypeStep, ResolvedStep, ListedStep, EditedStep, UntouchedStep DEF IInv
<1> QED
  BY InitInvariant, <1>1, PTL DEF Spec

\* Every variable has its type.
THEOREM ResolutionTypeCorrect == Spec => []TypeOK
<1>1. IInv => TypeOK
  BY DEF IInv
<1> QED
  BY Invariance, <1>1, PTL

\* In a run that nobody disturbs what the program read, and could still be read, is in
\* the image, by one of the resolvers of ResolveFileTask, but for base packages of an R
\* that is in no Debian package, and for packages that cannot be compiled.
THEOREM InputsReach == Spec => []InputsReachImage
<1>1. IInv => InputsReachImage
  BY Reached DEF IInv
<1> QED
  BY Invariance, <1>1, PTL

\* The archive of copy_files has inputs that no database knew when it was asked, or what
\* the user has marked in the manifest.
THEOREM ArchiveChosen == Spec => []ArchiveIsChosen
<1>1. IInv => ArchiveIsChosen
  BY DEF IInv, Edited
<1> QED
  BY Invariance, <1>1, PTL

\* If nobody disturbs the run only a path that cannot be searched, a relative link, or a
\* failure that has nothing to do with the files, lets a task throw.
THEOREM ThrowsExplained == Spec => []ThrowsForAReason
<1>1. IInv => ThrowsForAReason
  BY DEF IInv, Untouched
<1> QED
  BY Invariance, <1>1, PTL

\* The Makefile asks for each result of the options, unless the manifest was edited.
THEOREM AskedFetched == Spec => []AskedAreFetched
<1>1. IInv => AskedAreFetched
  BY DEF IInv, Edited
<1> QED
  BY Invariance, <1>1, PTL

\* The resolvers implement FileFates: each traced file has one fate, given once, by the
\* first database that finds it.
THEOREM OneFate == Spec => EachFileOneFate
<1>1. Init => Fates!Init
  BY DEF Init, Fates!Init, fate
<1>2. IInv /\ [Next]_vars => [Fates!Next]_(Fates!vars)
  BY FateStep DEF IInv
<1> QED
  BY Invariance, <1>1, <1>2, PTL DEF Spec, EachFileOneFate, Fates!Spec

===============================================================================
