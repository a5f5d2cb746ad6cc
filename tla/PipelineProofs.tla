---------------------------- MODULE PipelineProofs -----------------------------
(***************************************************************************)
(* Proofs about Pipeline, for any calls, images, lists and directories.      *)
(*                                                                         *)
(* The properties follow from three invariants, each of its own part of the  *)
(* state: of the cache files (CacheInv), of the tasks and the signal         *)
(* handlers (TaskInv), and of what is in the output directories (FileInv).   *)
(***************************************************************************)
EXTENDS Pipeline, TLAPS

-------------------------------------------------------------------------------
\* The tasks of run_pipeline in their order.
LEMMA TaskList ==
    /\ DOMAIN Tasks = 1 .. 11
    /\ Len(Tasks) = 11
    /\ Tasks[1] = "capture" /\ Tasks[2] = "trace" /\ Tasks[3] = "resolve"
    /\ Tasks[4] = "manifest" /\ Tasks[5] = "rscript" /\ Tasks[6] = "prescript"
    /\ Tasks[7] = "archive" /\ Tasks[8] = "postscript" /\ Tasks[9] = "dockerfile"
    /\ Tasks[10] = "makefile" /\ Tasks[11] = "make"
BY DEF Tasks

LEMMA TaskSet ==
    InTask = {"capture", "trace", "resolve", "manifest", "rscript", "prescript", "archive",
              "postscript", "dockerfile", "makefile", "make"}
<1>1. \A n \in 1 .. 11 : n \in {1, 2, 3, 4, 5, 6, 7, 8, 9, 10, 11}
  OBVIOUS
<1>2. InTask = {Tasks[n] : n \in {1, 2, 3, 4, 5, 6, 7, 8, 9, 10, 11}}
  BY <1>1, TaskList DEF InTask, Range
<1> QED
  BY <1>2, TaskList

LEMMA TaskPosition ==
    ASSUME NEW c, NEW m \in 1 .. 11, at[c] = Tasks[m]
    PROVE  Following(c) = IF m = 11 THEN "finished" ELSE Tasks[m + 1]
<1> DEFINE n == CHOOSE k \in DOMAIN Tasks : Tasks[k] = at[c]
<1>1. n \in 1 .. 11 /\ Tasks[n] = at[c]
  BY TaskList
<1>2. \A i, j \in 1 .. 11 : Tasks[i] = Tasks[j] => i = j
  <2>1. \A i \in 1 .. 11 : i \in {1, 2, 3, 4, 5, 6, 7, 8, 9, 10, 11}
    OBVIOUS
  <2>2. \A i, j \in {1, 2, 3, 4, 5, 6, 7, 8, 9, 10, 11} : Tasks[i] = Tasks[j] => i = j
    BY TaskList
  <2> QED
    BY <2>1, <2>2
<1>3. n = m
  <2> HIDE DEF n
  <2> QED
    BY <1>1, <1>2
<1> QED
  BY <1>3, TaskList DEF Following

\* What comes after a task.
LEMMA FollowingFacts ==
    ASSUME NEW c
    PROVE  /\ at[c] = "capture" => Following(c) = "trace"
           /\ at[c] = "trace" => Following(c) = "resolve"
           /\ at[c] = "resolve" => Following(c) = "manifest"
           /\ at[c] = "manifest" => Following(c) = "rscript"
           /\ at[c] = "rscript" => Following(c) = "prescript"
           /\ at[c] = "prescript" => Following(c) = "archive"
           /\ at[c] = "archive" => Following(c) = "postscript"
           /\ at[c] = "postscript" => Following(c) = "dockerfile"
           /\ at[c] = "dockerfile" => Following(c) = "makefile"
BY TaskList, TaskPosition

-------------------------------------------------------------------------------
(* The steps that write the files *)

\* Where a call goes when it has written x.
Leads(x, l) ==
    \/ x = "manifest" /\ l = "rscript"
    \/ x = "rscript" /\ l = "prescript"
    \/ x = "prescript" /\ l = "archive"
    \/ x = "archive" /\ l = "postscript"
    \/ x = "postscript" /\ l = "dockerfile"
    \/ x = "dockerfile" /\ l = "makefile"
    \/ x = "makefile" /\ l \in {"make", "finished"}

\* And when it has nothing to write.
Passes(x, l) ==
    \/ x = "rscript" /\ l = "prescript"
    \/ x = "prescript" /\ l = "dockerfile"
    \/ x = "make" /\ l = "finished"

Elsewhere == <<options, cache, end, pos, ignored, last, signals>>

Opens(c, x) ==
    /\ Runs(c, x) /\ Put(c, x, "part")
    /\ UNCHANGED <<at, task, written, lost, Elsewhere>>

Leaves(c, x, l) ==
    /\ Runs(c, x) /\ Leads(x, l) /\ GoTo(c, l)
    /\ written' = [written EXCEPT ![c] = @ \cup {x}]
    /\ \/ Put(c, x, "whole") /\ UNCHANGED lost
       \/ lost' = lost \cup {<<c, x>>} /\ UNCHANGED content
    /\ UNCHANGED Elsewhere

SkipsTo(c, x, l) ==
    /\ Runs(c, x) /\ Passes(x, l) /\ GoTo(c, l)
    /\ x = "make" \/ ~Opened(c, x)
    /\ UNCHANGED <<files, Elsewhere>>

\* A stream, or tar, empties a file; the file is written, or lost; or there is nothing to write.
FileStep1(c) ==
    \E x \in Artefact \cup {"make"} :
        \/ x \in Artefact /\ Opens(c, x)
        \/ \E l \in InTask \cup {"finished"} :
            (x \in Artefact /\ Leaves(c, x, l)) \/ SkipsTo(c, x, l)

LEMMA OutputSteps ==
    ASSUME NEW c, NEW x \in Artefact, NEW l \in InTask \cup {"finished"}, Leads(x, l),
           Output(c, x, l)
    PROVE  FileStep1(c)
<1>1. CASE Open(c, x, l)
  <2>1. Opens(c, x) \/ Leaves(c, x, l)
    BY <1>1 DEF Open, Opens, Leaves, Loses, Leave, Elsewhere
  <2> QED
    BY <2>1 DEF FileStep1
<1>2. CASE Write(c, x, l)
  <2>1. Leaves(c, x, l)
    BY <1>2 DEF Write, Leaves, Loses, Leave, Elsewhere
  <2> QED
    BY <2>1 DEF FileStep1
<1> QED
  BY <1>1, <1>2 DEF Output

LEMMA ArtefactSteps ==
    ASSUME NEW c, WriteArtefact(c)
    PROVE  FileStep1(c)
<1> USE DEF Artefact, Copied
<1>1. ASSUME NEW x \in {"manifest", "rscript", "prescript", "postscript", "dockerfile"},
             Output(c, x, Following(c))
      PROVE  FileStep1(c)
  <2>1. at[c] = x
    BY <1>1 DEF Output, Open, Write, Runs
  <2>2. Leads(x, Following(c)) /\ Following(c) \in InTask
    BY <2>1, FollowingFacts, TaskSet DEF Leads
  <2> QED
    BY <1>1, <2>2, OutputSteps
<1>2. CASE WriteMakefile(c)
  <2>1. /\ Leads("makefile", "make") /\ Leads("makefile", "finished")
        /\ "make" \in InTask
    BY TaskSet DEF Leads
  <2> QED
    BY <1>2, <2>1, OutputSteps DEF WriteMakefile
<1>3. CASE create_tar_archive(c)
  <2>1. CASE Write(c, "archive", Following(c))
    <3>1. Leads("archive", Following(c)) /\ Following(c) \in InTask
      BY <2>1, FollowingFacts, TaskSet DEF Leads, Write, Runs
    <3> QED
      BY <2>1, <3>1, OutputSteps DEF Output
  <2>2. CASE ~Write(c, "archive", Following(c))
    <3>1. Opens(c, "archive")
      BY <1>3, <2>2 DEF create_tar_archive, Opens, Elsewhere
    <3> QED
      BY <3>1 DEF FileStep1
  <2> QED
    BY <2>1, <2>2
<1>4. CASE Skip(c, "rscript", Following(c)) \/ Skip(c, "prescript", "dockerfile") \/ RunMakefile(c)
  <2>1. \/ SkipsTo(c, "rscript", "prescript")
        \/ SkipsTo(c, "prescript", "dockerfile")
        \/ SkipsTo(c, "make", "finished")
    BY <1>4, FollowingFacts DEF Skip, RunMakefile, SkipsTo, Passes, Elsewhere, Runs
  <2>2. "prescript" \in InTask /\ "dockerfile" \in InTask
    BY TaskSet
  <2> QED
    BY <2>1, <2>2 DEF FileStep1
<1> QED
  BY <1>1, <1>2, <1>3, <1>4
  DEF WriteArtefact, EditManifest, install_r_packages, copy_files, SaveDockerfile

-------------------------------------------------------------------------------
(* The cache files *)

\* The library names its files after the image; a line was written by a call for
\* this file and is one of its image's.
CacheInv ==
    /\ \A c \in Call : library => key[c] = LibraryKey(image[c])
    /\ \A k \in Key, n \in 1 .. MaxLines :
          lines[k][n] # Nothing =>
              \E o \in Call : key[o] = k /\ lines[k][n] = image[o] /\ n \in DOMAIN list[image[o]]
    /\ IgnoredAreInImage

cacheVars == <<options, lines, ignored>>

\* The steps that touch the cache or the map of ignored files.
LEMMA CacheSteps ==
    ASSUME [Next]_vars
    PROVE  \/ UNCHANGED cacheVars
           \/ \E c \in Call :
                configure_default_ignore_pattern(c) \/ from_file(c) \/ from_image(c) \/ OpenFile(c)
                    \/ SaveLine(c)
<1>1. ASSUME NEW c \in Call, WriteArtefact(c) PROVE UNCHANGED cacheVars
  BY <1>1, ArtefactSteps DEF FileStep1, Opens, Leaves, SkipsTo, Elsewhere, cacheVars, cache
<1> QED
  BY <1>1 DEF Next, vars, cacheVars, options, cache, Configure, Start,
       register_error_handler, NoFile, Saved, Work, Fails, TraceStopped, Return, Die, Interrupt,
       InterruptDangling

\* A list has lines 1 to n.
LEMMA ListFacts ==
    ASSUME NEW i \in Image
    PROVE  /\ DOMAIN list[i] \subseteq 1 .. MaxLines
           /\ Range(list[i]) \subseteq UNION {Range(list[j]) : j \in Image}
<1>1. PICK n \in 0 .. MaxLines : DOMAIN list[i] = 1 .. n
  BY PipelineAssumption
<1>2. DOMAIN list[i] \subseteq 1 .. MaxLines
  BY <1>1, PipelineAssumption
<1> QED
  BY <1>2

\* What a call reads from its cache file is from images of the calls that share it.
LEMMA ListedFacts ==
    ASSUME TypeOK, CacheInv, NEW k \in Key, NEW x \in Listed(k)
    PROVE  \E o \in Call : key[o] = k /\ x \in Range(list[image[o]])
<1>1. PICK n \in 1 .. MaxLines : lines[k][n] # Nothing /\ x = list[lines[k][n]][n]
  BY DEF Listed
<1>2. PICK o \in Call : key[o] = k /\ lines[k][n] = image[o] /\ n \in DOMAIN list[image[o]]
  BY <1>1 DEF CacheInv
<1> QED
  BY <1>1, <1>2 DEF Range

LEMMA CacheStep ==
    ASSUME TypeOK, CacheInv, [Next]_vars
    PROVE  CacheInv'
<1> USE DEF TypeOK
<1>1. CASE UNCHANGED cacheVars
  BY <1>1 DEF CacheInv, IgnoredAreInImage, cacheVars, options
<1>2. ASSUME NEW c \in Call, from_file(c) PROVE CacheInv'
  <2> USE <1>2 DEF from_file, options, cache
  <2>1. \A x \in Listed(key[c]) : \E o \in Call : key[o] = key[c] /\ x \in Range(list[image[o]])
    BY ListedFacts
  <2>2. (\A o \in Call : key[o] = key[c] => image[o] = image[c])
            => Listed(key[c]) \subseteq Range(list[image[c]])
    BY <2>1
  <2>3. library => \A o \in Call : key[o] = key[c] => image[o] = image[c]
    BY DEF CacheInv, LibraryKey
  <2>4. UNCHANGED <<options, lines>>
    OBVIOUS
  <2>5. \A o \in Call : ignored'[o] = IF o = c THEN ignored[c] \cup Listed(key[c]) ELSE ignored[o]
    OBVIOUS
  <2>6. IgnoredAreInImage'
    BY ONLY CacheInv, <2>2, <2>3, <2>4, <2>5 DEF options, CacheInv, IgnoredAreInImage
  <2> QED
    BY ONLY CacheInv, <2>4, <2>6 DEF options, CacheInv
<1>3. ASSUME NEW c \in Call, from_image(c) PROVE CacheInv'
  <2> USE <1>3 DEF from_image, options, cache
  <2>1. UNCHANGED <<options, lines>>
    OBVIOUS
  <2>2. \A o \in Call :
          ignored'[o] = IF o = c THEN ignored[c] \cup Range(list[image[c]]) ELSE ignored[o]
    OBVIOUS
  <2>3. IgnoredAreInImage'
    BY ONLY CacheInv, <2>1, <2>2 DEF options, CacheInv, IgnoredAreInImage
  <2> QED
    BY ONLY CacheInv, <2>1, <2>3 DEF options, CacheInv
<1>4. ASSUME NEW c \in Call, OpenFile(c) PROVE CacheInv'
  <2> USE <1>4 DEF OpenFile
  <2>1. UNCHANGED <<options, ignored>>
    OBVIOUS
  <2>2. \A k \in Key, n \in 1 .. MaxLines :
          lines'[k][n] = IF k = key[c] THEN Nothing ELSE lines[k][n]
    OBVIOUS
  <2>3. IgnoredAreInImage'
    BY ONLY CacheInv, <2>1 DEF options, CacheInv, IgnoredAreInImage
  <2> QED
    BY ONLY CacheInv, <2>1, <2>2, <2>3 DEF options, CacheInv
<1>5. ASSUME NEW c \in Call, SaveLine(c) PROVE CacheInv'
  <2> USE <1>5 DEF SaveLine, Runs
  <2>0. UNCHANGED <<options, ignored>>
    OBVIOUS
  <2>1. \A k \in Key, n \in 1 .. MaxLines :
          lines'[k][n] = IF k = key[c] /\ n = pos[c] THEN image[c] ELSE lines[k][n]
    OBVIOUS
  <2>2. \A k \in Key, n \in 1 .. MaxLines :
          lines'[k][n] # Nothing =>
              \E o \in Call : key[o] = k /\ lines'[k][n] = image[o] /\ n \in DOMAIN list[image[o]]
    BY ONLY CacheInv, <2>1, <1>5 DEF CacheInv, SaveLine
  <2>3. IgnoredAreInImage'
    BY ONLY CacheInv, <2>0 DEF options, CacheInv, IgnoredAreInImage
  <2> QED
    BY ONLY CacheInv, <2>0, <2>2, <2>3 DEF options, CacheInv
<1>6. ASSUME NEW c \in Call, configure_default_ignore_pattern(c) PROVE CacheInv'
  <2> USE <1>6 DEF configure_default_ignore_pattern, cache
  <2>1. UNCHANGED <<options, lines>>
    OBVIOUS
  <2>2. \A o \in Call : ignored'[o] = IF o = c THEN patterns ELSE ignored[o]
    OBVIOUS
  <2>3. IgnoredAreInImage'
    BY ONLY CacheInv, <2>1, <2>2 DEF options, CacheInv, IgnoredAreInImage
  <2> QED
    BY ONLY CacheInv, <2>1, <2>3 DEF options, CacheInv
<1> QED
  BY <1>1, <1>2, <1>3, <1>4, <1>5, <1>6, CacheSteps

-------------------------------------------------------------------------------
(* The types *)

LEMMA GoToTypes ==
    ASSUME TypeOK, NEW c \in Call, NEW l \in InTask \cup {"finished"}, GoTo(c, l)
    PROVE  /\ at' \in [Call -> Locations]
           /\ current_task_' \in [Call -> InTask \cup {Nothing}]
           /\ stopped' \in [Call -> BOOLEAN]
BY DEF TypeOK, GoTo, AfterRun, Locations

LEMMA ConfigureTypes ==
    ASSUME TypeOK, CacheInv, NEW c \in Call, Start(c) \/ Configure(c)
    PROVE  TypeOK'
<1> USE DEF TypeOK, options, cache, files, signals, task
<1>1. CASE Start(c)
  BY <1>1 DEF Start, Locations, Ends
<1>2. CASE register_error_handler(c)
  <2>1. process(c) \in Process
    BY DEF process, Process
  <2> QED
    BY <1>2, <2>1 DEF register_error_handler, Locations
<1>3. CASE from_file(c)
  <2>1. ignored' \in [Call -> SUBSET (patterns \cup UNION {Range(list[i]) : i \in Image})]
    <3>1. Listed(key[c]) \subseteq UNION {Range(list[i]) : i \in Image}
      <4> SUFFICES ASSUME NEW x \in Listed(key[c])
                   PROVE  x \in UNION {Range(list[i]) : i \in Image}
        OBVIOUS
      <4>1. key[c] \in Key
        OBVIOUS
      <4>2. PICK o \in Call : x \in Range(list[image[o]])
        BY <4>1, ListedFacts
      <4> QED
        BY <4>2
    <3> QED
      BY <1>3, <3>1 DEF from_file
  <2> QED
    BY <1>3, <2>1, TaskSet DEF from_file, Configured, Locations
<1>4. CASE NoFile(c)
  BY <1>4 DEF NoFile, Locations
<1>5. CASE from_image(c)
  BY <1>5, ListFacts DEF from_image, Locations
<1>6. CASE OpenFile(c)
  BY <1>6 DEF OpenFile, Locations
<1>7. CASE SaveLine(c)
  <2>1. pos[c] \in 1 .. MaxLines
    BY <1>7, ListFacts DEF SaveLine
  <2>2. pos' \in [Call -> 1 .. MaxLines + 1]
    BY <1>7, <2>1, PipelineAssumption DEF SaveLine
  <2>3. lines' \in [Key -> [1 .. MaxLines -> Image \cup {Nothing}]]
    BY <1>7, <2>1 DEF SaveLine
  <2> QED
    BY <1>7, <2>2, <2>3 DEF SaveLine
<1>8. CASE Saved(c)
  BY <1>8, TaskSet DEF Saved, Configured, Locations
<1>9. CASE configure_default_ignore_pattern(c)
  BY <1>9 DEF configure_default_ignore_pattern, Locations
<1> QED
  BY <1>1, <1>2, <1>3, <1>4, <1>5, <1>6, <1>7, <1>8, <1>9 DEF Configure

LEMMA TaskTypes ==
    ASSUME TypeOK, NEW c \in Call,
           Work(c) \/ WriteArtefact(c) \/ Fails(c) \/ TraceStopped(c) \/ Return(c)
    PROVE  TypeOK'
<1> USE DEF options, cache, files, signals, task
<1>1. CASE Work(c)
  <2>1. Following(c) \in InTask
    BY <1>1, FollowingFacts, TaskSet DEF Work
  <2>2. GoTo(c, Following(c))
    BY <1>1 DEF Work
  <2> QED
    BY <1>1, <2>1, <2>2, GoToTypes DEF Work, TypeOK
<1>2. CASE WriteArtefact(c)
  <2>1. PICK x \in Artefact \cup {"make"} :
            \/ x \in Artefact /\ Opens(c, x)
            \/ \E l \in InTask \cup {"finished"} :
                (x \in Artefact /\ Leaves(c, x, l)) \/ SkipsTo(c, x, l)
    BY <1>2, ArtefactSteps DEF FileStep1
  <2>2. \A v \in {"part", "whole"} :
            x \in Artefact /\ Put(c, x, v) =>
                content' \in [Dir -> [Artefact -> {Nothing} \cup (Call \X {"part", "whole"})]]
    BY DEF Put, TypeOK
  <2>3. CASE x \in Artefact /\ Opens(c, x)
    BY <2>2, <2>3 DEF Opens, Elsewhere, TypeOK
  <2>4. ASSUME NEW l \in InTask \cup {"finished"},
               (x \in Artefact /\ Leaves(c, x, l)) \/ SkipsTo(c, x, l)
        PROVE  TypeOK'
    <3>1. /\ at' \in [Call -> Locations]
          /\ current_task_' \in [Call -> InTask \cup {Nothing}]
          /\ stopped' \in [Call -> BOOLEAN]
      BY <2>4, GoToTypes DEF Leaves, SkipsTo
    <3>2. CASE x \in Artefact /\ Leaves(c, x, l)
      <4>1. /\ content' \in [Dir -> [Artefact -> {Nothing} \cup (Call \X {"part", "whole"})]]
            /\ lost' \subseteq Call \X Artefact
            /\ written' \in [Call -> SUBSET Artefact]
        BY <2>2, <3>2 DEF Leaves, TypeOK
      <4> QED
        BY <3>1, <3>2, <4>1 DEF Leaves, Elsewhere, TypeOK
    <3>3. CASE SkipsTo(c, x, l)
      BY <3>1, <3>3 DEF SkipsTo, Elsewhere, TypeOK
    <3> QED
      BY <2>4, <3>2, <3>3
  <2> QED
    BY <2>1, <2>3, <2>4
<1>4. CASE Fails(c) \/ TraceStopped(c)
  <2>1. end' \in [Call -> Ends] /\ stopped' \in [Call -> BOOLEAN]
    BY <1>4 DEF Fails, TraceStopped, Throw, TypeOK, Ends
  <2>2. CASE Fails(c)
    BY <2>1, <2>2 DEF Fails, Throw, TypeOK
  <2>3. CASE TraceStopped(c)
    BY <2>1, <2>3 DEF TraceStopped, Throw, TypeOK
  <2> QED
    BY <1>4, <2>2, <2>3
<1>5. CASE Return(c)
  BY <1>5 DEF Return, TypeOK, Ends
<1> QED
  BY <1>1, <1>2, <1>4, <1>5

LEMMA SignalTypes ==
    ASSUME TypeOK, NEW p \in Process, Die(p) \/ Interrupt(p) \/ InterruptDangling(p)
    PROVE  TypeOK'
<1> USE DEF options, cache, files, signals, task
<1>1. ASSUME Killed(p) PROVE alive' \subseteq Process /\ end' \in [Call -> Ends]
  BY <1>1 DEF Killed, TypeOK, Ends
<1>2. CASE Die(p)
  BY <1>1, <1>2 DEF Die, TypeOK
<1>3. CASE Interrupt(p)
  <2>1. stopped' \in [Call -> BOOLEAN]
    BY <1>3 DEF Interrupt, StopReaches, TypeOK
  <2> QED
    BY <1>3, <2>1 DEF Interrupt, TypeOK
<1>4. CASE InterruptDangling(p)
  <2>1. stopped' \in [Call -> BOOLEAN] /\ alive' \subseteq Process /\ end' \in [Call -> Ends]
    BY <1>1, <1>4 DEF InterruptDangling, TypeOK
  <2> QED
    BY <1>4, <2>1 DEF InterruptDangling, TypeOK
<1> QED
  BY <1>2, <1>3, <1>4

LEMMA TypeStep == TypeOK /\ CacheInv /\ [Next]_vars => TypeOK'
<1> SUFFICES ASSUME TypeOK, CacheInv, [Next]_vars PROVE TypeOK'
  OBVIOUS
<1>1. CASE UNCHANGED vars
  BY <1>1 DEF vars, options, cache, files, signals, task, TypeOK
<1> QED
  BY <1>1, ConfigureTypes, TaskTypes, SignalTypes DEF Next

LEMMA InitTypes == Init => TypeOK /\ CacheInv
<1> SUFFICES ASSUME Init PROVE TypeOK /\ CacheInv
  OBVIOUS
<1> USE PipelineAssumption DEF Init
<1>1. TypeOK
  BY DEF TypeOK, Locations, Ends, Process
<1>2. CacheInv
  BY DEF CacheInv, IgnoredAreInImage
<1> QED
  BY <1>1, <1>2

-------------------------------------------------------------------------------
(* The tasks and the signal handlers *)

\* The pointer is to the task a call is in; a handler refers to a call of its process
\* that has started, and is there once a call of the process has registered it.
TaskInv ==
    /\ \A c \in Call :
        /\ end[c] = "idle" <=> at[c] = "main"
        /\ end[c] \in {"idle", "running"} =>
              current_task_[c] = IF at[c] \in InTask THEN at[c] ELSE Nothing
        /\ at[c] \notin {"main", "register"} => handler[process(c)] # Nothing
    /\ \A p \in Process :
        handler[p] # Nothing =>
            /\ end[handler[p]] # "idle"
            /\ process(handler[p]) = p

\* What a step does to the places of the calls.
Moved(c, from, to) ==
    /\ end[c] = "running" /\ at[c] \in from
    /\ \E l \in to : /\ at' = [at EXCEPT ![c] = l]
                    /\ current_task_' = [current_task_ EXCEPT ![c] =
                                            IF l \in InTask THEN l ELSE Nothing]
    /\ UNCHANGED <<library, end, handler>>

Settled == Locations \ {"main", "register"}

OnlyEnds ==
    /\ \A c \in Call :
        \/ end'[c] = end[c]
        \/ /\ Active(c)
           /\ end'[c] \in {"unwinding", "success", "failure", "killed"}
           /\ end'[c] = "success" => at[c] = "finished"
    /\ UNCHANGED <<library, at, current_task_, handler>>

LEMMA Places ==
    /\ Settled = {"configure", "exists", "from_image", "open", "save", "finished", "capture",
                  "trace", "resolve", "manifest", "rscript", "prescript", "archive",
                  "postscript", "dockerfile", "makefile", "make"}
    /\ \A l \in {"main", "register", "configure", "exists", "from_image", "open", "save",
                 "finished"} :
          l \notin InTask
BY TaskSet DEF Settled, Locations

LEMMA ConfigureMoves ==
    ASSUME TypeOK, TaskInv, NEW c \in Call, Configure(c)
    PROVE  \/ register_error_handler(c)
           \/ Moved(c, Settled, Settled)
           \/ UNCHANGED <<library, end, handler, at, current_task_>>
<1> USE TaskSet, Places DEF Moved, Runs, options, signals, task, Configured
<1>1. end[c] = "running" /\ at[c] \notin InTask => current_task_[c] = Nothing
  BY DEF TaskInv
<1>2. current_task_[c] = Nothing =>
         current_task_ = [current_task_ EXCEPT ![c] = Nothing]
  BY DEF TypeOK
<1>3. CASE from_file(c)
  BY <1>3 DEF from_file
<1>4. CASE NoFile(c)
  BY <1>1, <1>2, <1>4 DEF NoFile
<1>5. CASE from_image(c)
  BY <1>1, <1>2, <1>5 DEF from_image
<1>6. CASE OpenFile(c)
  BY <1>1, <1>2, <1>6 DEF OpenFile
<1>7. CASE SaveLine(c)
  BY <1>7 DEF SaveLine
<1>8. CASE Saved(c)
  BY <1>8 DEF Saved
<1>9. CASE configure_default_ignore_pattern(c)
  BY <1>1, <1>2, <1>9 DEF configure_default_ignore_pattern
<1> QED
  BY <1>3, <1>4, <1>5, <1>6, <1>7, <1>8, <1>9 DEF Configure

LEMMA TaskMoves ==
    ASSUME TypeOK, NEW c \in Call, Work(c) \/ WriteArtefact(c)
    PROVE  Moved(c, Settled, Settled) \/ UNCHANGED <<library, end, handler, at, current_task_>>
<1> USE TaskSet, Places, FollowingFacts DEF Moved, GoTo, AfterRun, Runs, options, signals
<1>1. CASE Work(c)
  BY <1>1 DEF Work
<1>2. CASE WriteArtefact(c)
  <2>1. PICK x \in Artefact \cup {"make"} :
            \/ x \in Artefact /\ Opens(c, x)
            \/ \E l \in InTask \cup {"finished"} :
                (x \in Artefact /\ Leaves(c, x, l)) \/ SkipsTo(c, x, l)
    BY <1>2, ArtefactSteps DEF FileStep1
  <2>2. CASE Opens(c, x)
    BY <2>2 DEF Opens, Elsewhere, task
  <2>3. ASSUME NEW l \in InTask \cup {"finished"}, Leaves(c, x, l) \/ SkipsTo(c, x, l)
        PROVE  Moved(c, Settled, Settled)
    BY <2>3 DEF Leaves, SkipsTo, Elsewhere, Artefact, Copied
  <2> QED
    BY <2>1, <2>2, <2>3
<1> QED
  BY <1>1, <1>2

LEMMA EndSteps ==
    ASSUME TypeOK, \/ \E c \in Call : Fails(c) \/ TraceStopped(c) \/ Return(c)
                   \/ \E p \in Process : Die(p) \/ Interrupt(p) \/ InterruptDangling(p)
    PROVE  OnlyEnds
<1> USE DEF OnlyEnds, Active, options, signals, task, TypeOK
<1>1. ASSUME NEW c \in Call, Fails(c) \/ TraceStopped(c) PROVE OnlyEnds
  BY <1>1 DEF Fails, TraceStopped, Throw, Runs
<1>2. ASSUME NEW c \in Call, Return(c) PROVE OnlyEnds
  BY <1>2 DEF Return, Runs
<1>3. ASSUME NEW p \in Process, Die(p) PROVE OnlyEnds
  BY <1>3 DEF Die, Killed
<1>4. ASSUME NEW p \in Process, Interrupt(p) PROVE OnlyEnds
  BY <1>4 DEF Interrupt
<1>5. ASSUME NEW p \in Process, InterruptDangling(p) PROVE OnlyEnds
  BY <1>5 DEF InterruptDangling, Killed
<1> QED
  BY <1>1, <1>2, <1>3, <1>4, <1>5

LEMMA TaskStep == TypeOK /\ TaskInv /\ [Next]_vars => TaskInv'
<1> SUFFICES ASSUME TypeOK, TaskInv, [Next]_vars PROVE TaskInv'
  OBVIOUS
<1> USE Places
<1>1. ASSUME UNCHANGED <<library, end, handler, at, current_task_>> PROVE TaskInv'
  BY <1>1 DEF TaskInv, process
<1>2. ASSUME NEW c \in Call, Start(c) PROVE TaskInv'
  <2>1. /\ \A o \in Call : /\ end'[o] = IF o = c THEN "running" ELSE end[o]
                           /\ at'[o] = IF o = c THEN "register" ELSE at[o]
        /\ UNCHANGED <<library, current_task_, handler>>
        /\ end[c] = "idle"
    BY <1>2 DEF Start, TypeOK, options, task, signals
  <2> QED
    BY <2>1 DEF TaskInv, process, TypeOK
<1>3. ASSUME NEW c \in Call, register_error_handler(c) PROVE TaskInv'
  <2>1. /\ \A p \in Process : handler'[p] = IF p = process(c) /\ handler[p] = Nothing THEN c
                                            ELSE handler[p]
        /\ \A o \in Call : at'[o] = IF o = c THEN "configure" ELSE at[o]
        /\ UNCHANGED <<library, end, current_task_>>
        /\ end[c] = "running" /\ at[c] = "register"
    BY <1>3 DEF register_error_handler, TypeOK, options, task, Runs
  <2>2. \A o \in Call : process(o) \in Process
    BY DEF process, Process
  <2>3. c # Nothing
    BY PipelineAssumption
  <2> QED
    BY <2>1, <2>2, <2>3 DEF TaskInv, process
<1>4. ASSUME NEW c \in Call, Moved(c, Settled, Settled) PROVE TaskInv'
  <2>1. PICK l \in Settled :
            \A o \in Call :
                /\ at'[o] = IF o = c THEN l ELSE at[o]
                /\ current_task_'[o] = IF o # c THEN current_task_[o]
                                       ELSE IF l \in InTask THEN l ELSE Nothing
    BY <1>4 DEF Moved, TypeOK
  <2>2. end[c] = "running" /\ at[c] \in Settled /\ UNCHANGED <<library, end, handler>>
    BY <1>4 DEF Moved
  <2>3. "main" \notin Settled /\ "register" \notin Settled
    BY DEF Settled
  <2> QED
    BY ONLY TaskInv, <2>1, <2>2, <2>3 DEF TaskInv, process
<1>5. ASSUME OnlyEnds PROVE TaskInv'
  BY <1>5 DEF OnlyEnds, TaskInv, process, Active, TypeOK
<1> QED
  BY <1>1, <1>2, <1>3, <1>4, <1>5, ConfigureMoves, TaskMoves, EndSteps
  DEF Next, vars, options, signals, task

LEMMA FindTheTracer == TypeOK /\ TaskInv => SignalsFindTheTracer
<1> SUFFICES ASSUME TypeOK, TaskInv, NEW c \in Call,
                    end[c] = "running", at[c] \notin {"main", "register"},
                    library => \A o \in Call \ {c} : end[o] = "idle"
             PROVE  handler[process(c)] = c /\ IsLive(c)
  BY DEF SignalsFindTheTracer
<1>1. process(c) \in Process /\ handler[process(c)] \in Call
  BY DEF TaskInv, TypeOK, process, Process
<1>2. /\ end[handler[process(c)]] # "idle"
      /\ process(handler[process(c)]) = process(c)
  BY <1>1, PipelineAssumption DEF TaskInv
<1>3. handler[process(c)] = c
  BY <1>1, <1>2 DEF process, TypeOK
<1>4. IsLive(c)
  BY DEF TaskInv, IsLive, Active
<1> QED
  BY <1>3, <1>4

-------------------------------------------------------------------------------
(* The output directories *)

AfterMakefile == {"make", "finished"}
AfterDockerfile == {"makefile"} \cup AfterMakefile
AfterPostscript == {"dockerfile"} \cup AfterDockerfile
AfterArchive == {"postscript"} \cup AfterPostscript
AfterPrescript == {"archive"} \cup AfterArchive
AfterRscript == {"prescript"} \cup AfterPrescript
AfterManifest == {"rscript"} \cup AfterRscript

\* A call that runs is the last one of its directory.
Latest == \A c \in Call : Active(c) => last[dir[c]] = c

\* A call is done with a file when it is past the task that writes it; three of the files are
\* always written, and the scripts and the archive together.
Progress ==
    \A c \in Call :
        /\ ("manifest" \in written[c]) <=> (at[c] \in AfterManifest)
        /\ "rscript" \in written[c] => at[c] \in AfterRscript
        /\ "prescript" \in written[c] => at[c] \in AfterPrescript
        /\ "archive" \in written[c] => at[c] \in AfterArchive
        /\ "postscript" \in written[c] => at[c] \in AfterPostscript
        /\ ("dockerfile" \in written[c]) <=> (at[c] \in AfterDockerfile)
        /\ ("makefile" \in written[c]) <=> (at[c] \in AfterMakefile)
        /\ "prescript" \in written[c] =>
              /\ at[c] \in AfterArchive => "archive" \in written[c]
              /\ at[c] \in AfterPostscript => "postscript" \in written[c]

\* Who has written what is in a file works in that directory, and is done with the file, or
\* at it.
Owners ==
    \A d \in Dir, x \in Artefact, c \in Call :
        /\ content[d][x] = <<c, "part">> => dir[c] = d /\ (x \in written[c] \/ at[c] = x)
        /\ content[d][x] = <<c, "whole">> => dir[c] = d /\ x \in written[c]

\* What the last call of a directory is done with is there, or it could not be written.
Fresh ==
    \A c \in Call, x \in Artefact :
        last[dir[c]] = c /\ x \in written[c] =>
            content[dir[c]][x] = <<c, "whole">> \/ <<c, x>> \in lost

Finished == \A c \in Call : end[c] = "success" => at[c] = "finished"

FileInv == Latest /\ Progress /\ Owners /\ Fresh /\ Finished /\ ArtefactsMatch

\* The places before the manifest is written.
Early == {"main", "register", "configure", "exists", "from_image", "open", "save", "capture",
          "trace", "resolve"}

fileVars == <<dir, end, last, files>>

\* A step before any file.
Prepares(c) ==
    /\ end[c] = "running"
    /\ at[c] \in Early
    /\ \E l \in Early \cup {"manifest"} : at' = [at EXCEPT ![c] = l]
    /\ UNCHANGED fileVars

\* A step that only ends calls.
Ending ==
    /\ \A c \in Call : \/ end'[c] = end[c]
                       \/ Active(c) /\ (end'[c] = "success" => at[c] = "finished")
    /\ \A c \in Call : Active(c)' => Active(c)
    /\ UNCHANGED <<dir, at, last, files>>

LEMMA Preparations ==
    ASSUME TypeOK, NEW c \in Call, Configure(c) \/ Work(c)
    PROVE  Prepares(c) \/ UNCHANGED <<at, fileVars>>
<1> USE DEF Prepares, Early, fileVars, Runs, options, Configured
<1>1. CASE register_error_handler(c) \/ configure_default_ignore_pattern(c)
  BY <1>1 DEF register_error_handler, configure_default_ignore_pattern
<1>2. CASE from_file(c) \/ NoFile(c) \/ from_image(c)
  BY <1>2 DEF from_file, NoFile, from_image
<1>3. CASE OpenFile(c)
  BY <1>3 DEF OpenFile
<1>4. CASE SaveLine(c)
  BY <1>4 DEF SaveLine
<1>5. CASE Saved(c)
  BY <1>5 DEF Saved
<1>6. CASE Work(c)
  BY <1>6, FollowingFacts DEF Work, GoTo
<1> QED
  BY <1>1, <1>2, <1>3, <1>4, <1>5, <1>6 DEF Configure

LEMMA Endings ==
    ASSUME TypeOK, \/ \E c \in Call : Fails(c) \/ TraceStopped(c) \/ Return(c)
                   \/ \E p \in Process : Die(p) \/ Interrupt(p) \/ InterruptDangling(p)
    PROVE  Ending
<1>1. /\ \A c \in Call : \/ end'[c] = end[c]
                         \/ Active(c) /\ (end'[c] = "success" => at[c] = "finished")
      /\ \A c \in Call : Active(c)' => Active(c)
      /\ UNCHANGED at
  BY EndSteps DEF OnlyEnds, Active
<1>2. UNCHANGED <<options, last, files>>
  <2> USE DEF options, task, signals
  <2>1. ASSUME NEW c \in Call, Fails(c) \/ TraceStopped(c) \/ Return(c)
        PROVE  UNCHANGED <<options, last, files>>
    BY <2>1 DEF Fails, TraceStopped, Return
  <2>2. ASSUME NEW p \in Process, Die(p) \/ Interrupt(p) \/ InterruptDangling(p)
        PROVE  UNCHANGED <<options, last, files>>
    BY <2>2 DEF Die, Interrupt, InterruptDangling
  <2> QED
    BY <2>1, <2>2
<1> QED
  BY <1>1, <1>2 DEF Ending, options

\* The types that the steps below need.
FileTypes ==
    /\ dir \in [Call -> Dir]
    /\ DOMAIN at = Call
    /\ DOMAIN last = Dir
    /\ written \in [Call -> SUBSET Artefact]
    /\ content \in [Dir -> [Artefact -> {Nothing} \cup (Call \X {"part", "whole"})]]

LEMMA FileTyping == TypeOK => FileTypes
BY DEF TypeOK, FileTypes

\* A file that a call is at is not yet written.
LEMMA NotYet ==
    ASSUME Progress, NEW c \in Call, NEW x \in Artefact, at[c] = x
    PROVE  x \notin written[c]
BY DEF Progress, Artefact, Copied, AfterMakefile, AfterDockerfile, AfterPostscript, AfterArchive,
       AfterPrescript, AfterRscript, AfterManifest

\* The places before a Dockerfile or a Makefile is written.
LEMMA BeforeFacts ==
    /\ Before("dockerfile") = {"rscript", "prescript", "archive", "postscript", "dockerfile"}
    /\ Before("makefile") = {"dockerfile", "makefile"}
<1>1. Before("dockerfile") = Copied \cup {"dockerfile"}
  BY Zenon DEF Before
<1>2. Before("makefile") = {"dockerfile", "makefile"}
  <2>1. "makefile" # "dockerfile"
    OBVIOUS
  <2> QED
    BY <2>1, Zenon DEF Before
<1> QED
  BY <1>1, <1>2 DEF Copied

LEMMA NeedsFacts ==
    ASSUME NEW c
    PROVE  /\ Needs(c, "dockerfile") = Copies(c)
           /\ Needs(c, "makefile") = {"dockerfile"}
<1>1. Needs(c, "dockerfile") = Copies(c)
  BY Zenon DEF Needs
<1>2. "makefile" # "dockerfile"
  OBVIOUS
<1>3. Needs(c, "makefile") = {"dockerfile"}
  BY <1>2, Zenon DEF Needs
<1> QED
  BY <1>1, <1>3

\* What a file takes for granted is written before it.
LEMMA NeededBefore ==
    ASSUME NEW c, NEW x \in {"dockerfile", "makefile"}, NEW y \in Needs(c, x)
    PROVE  y \in Artefact /\ y \in Before(x) /\ y # x
BY NeedsFacts, BeforeFacts DEF Copies, Artefact, Copied

\* A Dockerfile or a Makefile that is being written finds what it needs.
LEMMA NeededWritten ==
    ASSUME Progress, NEW c \in Call, NEW x \in {"dockerfile", "makefile"}, at[c] = x,
           NEW y \in Needs(c, x)
    PROVE  y \in written[c]
<1>1. CASE x = "dockerfile"
  BY <1>1, NeedsFacts
  DEF Progress, Copies, AfterMakefile, AfterDockerfile, AfterPostscript, AfterArchive
<1>2. CASE x = "makefile"
  BY <1>2, NeedsFacts DEF Progress, AfterMakefile, AfterDockerfile
<1> QED
  BY <1>1, <1>2

\* Once it is written, its writer is no more at what it needs.
LEMMA PastNeeded ==
    ASSUME Progress, NEW c \in Call, NEW x \in {"dockerfile", "makefile"}, x \in written[c]
    PROVE  at[c] \notin Before(x) /\ at[c] \notin Copied
BY BeforeFacts DEF Progress, Copied, AfterMakefile, AfterDockerfile

LEMMA NeedsStay ==
    ASSUME NEW c, written'[c] \cap Copied = written[c] \cap Copied,
           NEW x \in {"dockerfile", "makefile"}
    PROVE  Needs(c, x)' = Needs(c, x)
<1>1. Copies(c)' = Copies(c)
  BY DEF Copies, Copied
<1>2. Needs(c, "makefile")' = {"dockerfile"}
  <2>1. "makefile" # "dockerfile"
    OBVIOUS
  <2> QED
    BY <2>1, Zenon DEF Needs
<1>3. Needs(c, "dockerfile")' = Copies(c)'
  BY Zenon DEF Needs
<1> QED
  BY <1>1, <1>2, <1>3, NeedsFacts

\* What is beside a Dockerfile or a Makefile of c: its own, or one lost, or one of a call
\* that is still between the two, or has lost the second.
Matches(d, c, x, y) ==
    \/ content[d][y] = <<c, "whole">>
    \/ <<c, y>> \in lost
    \/ \E o \in Call \ {c} :
        /\ content[d][y] \in {<<o, "part">>, <<o, "whole">>}
        /\ at[o] \in Before(x) \/ <<o, x>> \in lost

LEMMA MatchesHold ==
    ASSUME ArtefactsMatch, NEW d \in Dir, NEW c \in Call, NEW x \in {"dockerfile", "makefile"},
           content[d][x] = <<c, "whole">>, NEW y \in Needs(c, x)
    PROVE  Matches(d, c, x, y)
BY Zenon DEF ArtefactsMatch, Matches

\* Steps that touch no file, and after which a call that was before a file still is.
LEMMA MatchStays ==
    ASSUME ArtefactsMatch, UNCHANGED files,
           \A o \in Call, x \in {"dockerfile", "makefile"} :
                at[o] \in Before(x) => at'[o] \in Before(x)
    PROVE  ArtefactsMatch'
<1>1. UNCHANGED <<content, lost, written>>
  BY DEF files
<1> SUFFICES ASSUME NEW d \in Dir, NEW c \in Call, NEW x \in {"dockerfile", "makefile"},
                    content'[d][x] = <<c, "whole">>, NEW y \in Needs(c, x)'
             PROVE  Matches(d, c, x, y)'
  BY DEF ArtefactsMatch, Matches
<1>2. Before(x)' = Before(x)
  BY DEF Before
<1>3. y \in Needs(c, x)
  BY <1>1, NeedsStay
<1>4. Matches(d, c, x, y)
  BY <1>1, <1>3, MatchesHold
<1> QED
  BY <1>1, <1>2, <1>4 DEF Matches

LEMMA StartFiles ==
    ASSUME TypeOK, TaskInv, FileInv, NEW c \in Call, Start(c)
    PROVE  FileInv'
<1>1. /\ at[c] = "main" /\ end[c] = "idle"
      /\ \A o \in Call : Active(o) => dir[o] # dir[c]
  BY DEF Start, TaskInv
<1>2. /\ \A o \in Call : /\ end'[o] = IF o = c THEN "running" ELSE end[o]
                         /\ at'[o] = IF o = c THEN "register" ELSE at[o]
      /\ \A d \in Dir : last'[d] = IF d = dir[c] THEN c ELSE last[d]
      /\ UNCHANGED <<dir, files>>
  BY DEF Start, TypeOK, options
<1>3. UNCHANGED <<content, lost, written>>
  BY <1>2 DEF files
<1> USE DEF FileInv
<1>4. Latest'
  BY <1>1, <1>2, FileTyping DEF Latest, Active, FileTypes
<1>5. Progress'
  BY <1>1, <1>2, <1>3
  DEF Progress, AfterMakefile, AfterDockerfile, AfterPostscript, AfterArchive, AfterPrescript,
      AfterRscript, AfterManifest
<1>6. Owners'
  BY <1>1, <1>2, <1>3 DEF Owners, Artefact, Copied
<1>7. Fresh'
  <2>1. \A x \in Artefact : x \notin written[c]
    BY <1>1
    DEF Progress, Artefact, Copied, AfterMakefile, AfterDockerfile, AfterPostscript, AfterArchive,
        AfterPrescript, AfterRscript, AfterManifest
  <2> QED
    BY <1>2, <1>3, <2>1, FileTyping DEF Fresh, FileTypes
<1>8. Finished'
  BY <1>1, <1>2 DEF Finished
<1>9. ArtefactsMatch'
  BY <1>1, <1>2, BeforeFacts, MatchStays
<1> QED
  BY <1>4, <1>5, <1>6, <1>7, <1>8, <1>9

LEMMA PrepareFiles ==
    ASSUME TypeOK, FileInv, NEW c \in Call, Prepares(c)
    PROVE  FileInv'
<1>1. PICK l \in Early \cup {"manifest"} :
          \A o \in Call : at'[o] = IF o = c THEN l ELSE at[o]
  BY DEF Prepares, TypeOK
<1>2. at[c] \in Early /\ end[c] = "running" /\ UNCHANGED fileVars
  BY DEF Prepares
<1>3. UNCHANGED <<dir, end, last, files, content, lost, written>>
  BY <1>2 DEF fileVars, files
<1> USE DEF FileInv
<1>4. Latest'
  BY <1>3 DEF Latest, Active
<1>5. Progress'
  BY <1>1, <1>2, <1>3
  DEF Progress, Early, AfterMakefile, AfterDockerfile, AfterPostscript, AfterArchive,
      AfterPrescript, AfterRscript, AfterManifest
<1>6. Owners'
  BY <1>1, <1>2, <1>3 DEF Owners, Early, Artefact, Copied
<1>7. Fresh'
  BY <1>3 DEF Fresh
<1>8. Finished'
  BY <1>1, <1>2, <1>3 DEF Finished, Early
<1>9. ArtefactsMatch'
  BY <1>1, <1>2, <1>3, BeforeFacts, MatchStays DEF Early
<1> QED
  BY <1>4, <1>5, <1>6, <1>7, <1>8, <1>9

LEMMA EndFiles ==
    ASSUME FileInv, Ending
    PROVE  FileInv'
<1>1. UNCHANGED <<dir, at, last, files, content, lost, written>>
  BY DEF Ending, files
<1> USE DEF FileInv
<1>2. Latest'
  BY <1>1 DEF Latest, Ending
<1>3. Progress' /\ Owners' /\ Fresh'
  BY <1>1 DEF Progress, Owners, Fresh
<1>4. Finished'
  BY <1>1 DEF Finished, Ending
<1>5. ArtefactsMatch'
  BY <1>1, MatchStays
<1> QED
  BY <1>2, <1>3, <1>4, <1>5

LEMMA OpenFiles ==
    ASSUME TypeOK, FileInv, NEW c \in Call, NEW x \in Artefact, Opens(c, x)
    PROVE  FileInv'
<1>1. /\ at[c] = x /\ end[c] = "running"
      /\ UNCHANGED <<dir, end, last, at, written, lost>>
  BY DEF Opens, Elsewhere, Runs, options
<1>2. \A d \in Dir, y \in Artefact :
          content'[d][y] = IF d = dir[c] /\ y = x THEN <<c, "part">> ELSE content[d][y]
  BY DEF Opens, Put, TypeOK
<1>3. last[dir[c]] = c /\ x \notin written[c] /\ dir[c] \in Dir
  BY <1>1, NotYet, FileTyping DEF FileInv, Latest, Active, FileTypes
<1> USE DEF FileInv
<1>4. Latest' /\ Progress' /\ Finished'
  BY <1>1 DEF Latest, Active, Progress, Finished
<1>5. Owners'
  BY <1>1, <1>2 DEF Owners
<1>6. Fresh'
  BY <1>1, <1>2, <1>3, FileTyping DEF Fresh, FileTypes
<1>7. ArtefactsMatch'
  <2> SUFFICES ASSUME NEW d \in Dir, NEW f \in Call, NEW z \in {"dockerfile", "makefile"},
                      content'[d][z] = <<f, "whole">>, NEW y \in Needs(f, z)'
               PROVE  Matches(d, f, z, y)'
    BY DEF ArtefactsMatch, Matches
  <2>1. y \in Needs(f, z) /\ Before(z)' = Before(z)
    BY <1>1, NeedsStay DEF Before
  <2>2. content[d][z] = <<f, "whole">> /\ z \in Artefact
    BY <1>2 DEF Artefact
  <2>3. z \in written[f] /\ dir[f] = d
    BY <2>2 DEF Owners
  <2>4. y \in Artefact /\ y \in Before(z) /\ at[f] \notin Before(z)
    BY <2>1, <2>3, NeededBefore, PastNeeded
  <2>5. Matches(d, f, z, y)
    BY <2>1, <2>2, MatchesHold
  <2>6. CASE d = dir[c] /\ y = x
    <3>1. content'[d][y] = <<c, "part">> /\ c # f /\ at'[c] \in Before(z)'
      BY <1>1, <1>2, <2>1, <2>4, <2>6
    <3> QED
      BY <3>1 DEF Matches
  <2>7. CASE ~(d = dir[c] /\ y = x)
    <3>1. content'[d][y] = content[d][y]
      BY <1>2, <2>4, <2>7
    <3> QED
      BY <1>1, <2>1, <2>5, <3>1 DEF Matches
  <2> QED
    BY <2>6, <2>7
<1> QED
  BY <1>4, <1>5, <1>6, <1>7

LEMMA LeaveFiles ==
    ASSUME TypeOK, FileInv, NEW c \in Call, NEW x \in Artefact, NEW l, Leaves(c, x, l)
    PROVE  FileInv'
<1>1. /\ at[c] = x /\ end[c] = "running" /\ Leads(x, l)
      /\ UNCHANGED <<dir, end, last>>
  BY DEF Leaves, Elsewhere, Runs, options
<1>2. /\ \A o \in Call : at'[o] = IF o = c THEN l ELSE at[o]
      /\ \A o \in Call : written'[o] = IF o = c THEN written[c] \cup {x} ELSE written[o]
  BY FileTyping DEF Leaves, GoTo, FileTypes
<1>3. \/ /\ \A d \in Dir, y \in Artefact :
             content'[d][y] = IF d = dir[c] /\ y = x THEN <<c, "whole">> ELSE content[d][y]
         /\ lost' = lost
      \/ content' = content /\ lost' = lost \cup {<<c, x>>}
  <2>1. CASE Put(c, x, "whole") /\ UNCHANGED lost
    BY <2>1, FileTyping DEF Put, FileTypes
  <2>2. CASE lost' = lost \cup {<<c, x>>} /\ UNCHANGED content
    BY <2>2
  <2> QED
    BY <2>1, <2>2 DEF Leaves
<1>4. last[dir[c]] = c /\ x \notin written[c] /\ dir[c] \in Dir
  BY <1>1, NotYet, FileTyping DEF FileInv, Latest, Active, FileTypes
<1>5. written[c] \subseteq Artefact /\ lost \subseteq lost'
  BY <1>3, FileTyping DEF FileTypes
<1> USE DEF FileInv
<1>6. Latest' /\ Finished'
  BY <1>1, <1>2 DEF Latest, Active, Finished
<1>7. Progress'
  BY <1>1, <1>2, <1>4
  DEF Progress, Leads, Artefact, Copied, AfterMakefile, AfterDockerfile, AfterPostscript,
      AfterArchive, AfterPrescript, AfterRscript, AfterManifest
<1>8. Owners'
  BY <1>1, <1>2, <1>3 DEF Owners
<1>9. Fresh'
  <2> SUFFICES ASSUME NEW f \in Call, NEW y \in Artefact, last[dir[f]] = f, y \in written'[f]
               PROVE  content'[dir[f]][y] = <<f, "whole">> \/ <<f, y>> \in lost'
    BY <1>1 DEF Fresh
  <2>1. CASE f = c /\ y = x
    BY <1>3, <1>4, <2>1
  <2>2. CASE ~(f = c /\ y = x)
    <3>1. y \in written[f] /\ dir[f] \in Dir
      BY <1>2, <2>2, FileTyping DEF FileTypes
    <3>2. content[dir[f]][y] = <<f, "whole">> \/ <<f, y>> \in lost
      BY <3>1 DEF Fresh
    <3>3. ~(dir[f] = dir[c] /\ y = x)
      BY <1>4, <2>2
    <3> QED
      BY <1>3, <1>5, <3>1, <3>2, <3>3
  <2> QED
    BY <2>1, <2>2
<1>10. ArtefactsMatch'
  <2> SUFFICES ASSUME NEW d \in Dir, NEW f \in Call, NEW z \in {"dockerfile", "makefile"},
                      content'[d][z] = <<f, "whole">>, NEW y \in Needs(f, z)'
               PROVE  Matches(d, f, z, y)'
    BY DEF ArtefactsMatch, Matches
  <2>1. Before(z)' = Before(z) /\ z \in Artefact
    BY DEF Before, Artefact
  <2>2. CASE content[d][z] = <<f, "whole">>
    <3>1. z \in written[f] /\ dir[f] = d
      BY <2>1, <2>2 DEF Owners
    <3>2. at[f] \notin Before(z) /\ at[f] \notin Copied
      BY <3>1, PastNeeded
    <3>3. y \in Needs(f, z)
      <4>1. written'[f] \cap Copied = written[f] \cap Copied
        BY <1>1, <1>2, <3>2
      <4> QED
        BY <4>1, NeedsStay
    <3>4. y \in Artefact /\ y \in Before(z) /\ y # z
      BY <3>3, NeededBefore
    <3>5. Matches(d, f, z, y)
      BY <2>2, <3>3, MatchesHold
    \* The writer is still before z, or it has lost z.
    <3>6. x \in Before(z) /\ x # z => l \in Before(z)
      BY <1>1, BeforeFacts DEF Leads
    <3>7. CASE d = dir[c] /\ y = x /\ content' # content
      <4>1. content'[d][y] = <<c, "whole">> /\ c # f /\ at'[c] \in Before(z)'
        BY <1>1, <1>2, <1>3, <2>1, <3>2, <3>4, <3>6, <3>7
      <4> QED
        BY <4>1 DEF Matches
    <3>8. CASE ~(d = dir[c] /\ y = x /\ content' # content)
      <4>1. content'[d][y] = content[d][y]
        BY <1>3, <3>4, <3>8
      <4>2. CASE content[d][y] = <<f, "whole">> \/ <<f, y>> \in lost
        BY <1>5, <4>1, <4>2 DEF Matches
      <4>3. ASSUME NEW o \in Call \ {f},
                   content[d][y] \in {<<o, "part">>, <<o, "whole">>},
                   at[o] \in Before(z) \/ <<o, z>> \in lost
            PROVE  Matches(d, f, z, y)'
        <5>1. at'[o] \in Before(z)' \/ <<o, z>> \in lost'
          <6>1. CASE o # c
            BY <1>2, <1>5, <2>1, <4>3, <6>1
          <6>2. CASE o = c /\ x = z
            <7>1. dir[c] = d
              BY <3>4, <4>3, <6>2 DEF Owners
            <7>2. <<c, "whole">> # <<f, "whole">>
              BY <4>3, <6>2
            <7>3. lost' = lost \cup {<<c, x>>}
              BY <1>3, <2>1, <6>2, <7>1, <7>2
            <7> QED
              BY <6>2, <7>3
          <6>3. CASE o = c /\ x # z
            BY <1>1, <1>2, <1>5, <2>1, <3>6, <4>3, <6>3
          <6> QED
            BY <6>1, <6>2, <6>3
        <5> QED
          BY <4>1, <4>3, <5>1 DEF Matches
      <4> QED
        BY <3>5, <4>2, <4>3 DEF Matches
    <3> QED
      BY <3>7, <3>8
  <2>3. CASE content[d][z] # <<f, "whole">>
    <3>1. d = dir[c] /\ z = x /\ f = c
      BY <1>3, <2>1, <2>3
    <3>2. written'[c] \cap Copied = written[c] \cap Copied
      BY <1>2, <3>1 DEF Copied
    <3>3. y \in Needs(c, z)
      BY <3>1, <3>2, NeedsStay
    <3>4. y \in written[c] /\ y \in Artefact /\ y # x
      BY <1>1, <3>1, <3>3, NeededWritten, NeededBefore
    <3>5. content[d][y] = <<c, "whole">> \/ <<c, y>> \in lost
      BY <1>4, <3>1, <3>4 DEF Fresh
    <3>6. content'[d][y] = content[d][y]
      BY <1>3, <3>4
    <3> QED
      BY <1>5, <3>1, <3>5, <3>6 DEF Matches
  <2> QED
    BY <2>2, <2>3
<1> QED
  BY <1>6, <1>7, <1>8, <1>9, <1>10

LEMMA SkipFiles ==
    ASSUME TypeOK, FileInv, NEW c \in Call, NEW x, NEW l, SkipsTo(c, x, l)
    PROVE  FileInv'
<1>1. /\ at[c] = x /\ end[c] = "running" /\ Passes(x, l)
      /\ x = "make" \/ content[dir[c]][x] # <<c, "part">>
      /\ UNCHANGED <<dir, end, last, files, content, lost, written>>
  BY DEF SkipsTo, Elsewhere, Runs, Opened, options, files
<1>2. \A o \in Call : at'[o] = IF o = c THEN l ELSE at[o]
  BY FileTyping DEF SkipsTo, GoTo, FileTypes
<1> USE DEF FileInv
<1>3. Latest' /\ Finished'
  BY <1>1, <1>2 DEF Latest, Active, Finished
<1>4. Progress'
  BY <1>1, <1>2
  DEF Progress, Passes, AfterMakefile, AfterDockerfile, AfterPostscript, AfterArchive,
      AfterPrescript, AfterRscript, AfterManifest
<1>5. Owners'
  <2> SUFFICES ASSUME NEW d \in Dir, NEW y \in Artefact, content[d][y] = <<c, "part">>
               PROVE  y \in written[c] \/ at'[c] = y
    BY <1>1, <1>2 DEF Owners
  <2>1. dir[c] = d /\ (y \in written[c] \/ at[c] = y)
    BY DEF Owners
  <2>2. y # x
    BY <1>1, <2>1 DEF Artefact, Copied
  <2> QED
    BY <1>1, <2>1, <2>2
<1>6. Fresh'
  BY <1>1 DEF Fresh
<1>7. ArtefactsMatch'
  BY <1>1, <1>2, BeforeFacts, MatchStays DEF Passes
<1> QED
  BY <1>3, <1>4, <1>5, <1>6, <1>7

LEMMA FileStep == TypeOK /\ TaskInv /\ FileInv /\ [Next]_vars => FileInv'
<1> SUFFICES ASSUME TypeOK, TaskInv, FileInv, [Next]_vars PROVE FileInv'
  OBVIOUS
<1>1. ASSUME UNCHANGED <<at, fileVars>> PROVE FileInv'
  <2>1. UNCHANGED <<at, dir, end, last, files, written, lost, content>>
    BY <1>1 DEF fileVars, files
  <2>2. Latest' /\ Owners' /\ Fresh' /\ Progress'
    BY <2>1 DEF FileInv, Latest, Active, Owners, Fresh, Progress
  <2>3. Finished' /\ ArtefactsMatch'
    BY <2>1, MatchStays DEF FileInv, Finished
  <2> QED
    BY <2>2, <2>3 DEF FileInv
<1>2. UNCHANGED vars => UNCHANGED <<at, fileVars>>
  BY DEF vars, fileVars, options
<1>3. ASSUME NEW c \in Call, WriteArtefact(c) PROVE FileInv'
  BY <1>3, ArtefactSteps, OpenFiles, LeaveFiles, SkipFiles DEF FileStep1
<1> QED
  BY <1>1, <1>2, <1>3, StartFiles, Preparations, PrepareFiles, Endings, EndFiles DEF Next

LEMMA SuccessFollows == FileInv => SuccessIsFresh
<1> SUFFICES ASSUME FileInv, NEW c \in Call,
                    (end[c] = "success" /\ last[dir[c]] = c) \/ Runs(c, "make"),
                    NEW x \in {"manifest", "dockerfile", "makefile"} \cup Copies(c)
             PROVE  content[dir[c]][x] = <<c, "whole">> \/ <<c, x>> \in lost
  BY DEF SuccessIsFresh
<1>1. last[dir[c]] = c /\ at[c] \in {"make", "finished"}
  BY DEF FileInv, Latest, Active, Runs, Finished
<1>2. x \in written[c] /\ x \in Artefact
  BY <1>1
  DEF FileInv, Progress, Copies, Artefact, Copied, AfterMakefile, AfterDockerfile,
      AfterPostscript, AfterArchive, AfterPrescript, AfterRscript, AfterManifest
<1> QED
  BY <1>1, <1>2 DEF FileInv, Fresh

-------------------------------------------------------------------------------
(* The theorems *)

IInv == TypeOK /\ CacheInv /\ TaskInv /\ FileInv

LEMMA InitInvariant == Init => IInv
<1> SUFFICES ASSUME Init PROVE IInv
  OBVIOUS
<1> USE PipelineAssumption
<1>1. TypeOK /\ CacheInv
  BY InitTypes
<1>2. TaskInv
  BY <1>1, Places DEF Init, TaskInv, TypeOK
<1>3. FileInv
  <2> USE DEF Init
  <2>1. Latest /\ Finished /\ Fresh
    BY <1>1 DEF Latest, Finished, Fresh, Active
  <2>2. Progress
    BY <1>1 DEF Progress, AfterMakefile, AfterDockerfile, AfterPostscript, AfterArchive,
       AfterPrescript, AfterRscript, AfterManifest
  <2>3. \A d \in Dir, x \in Artefact : content[d][x] = Nothing
    OBVIOUS
  <2>4. \A c \in Call : Nothing # <<c, "part">> /\ Nothing # <<c, "whole">>
    OBVIOUS
  <2>5. Owners /\ ArtefactsMatch
    BY <2>3, <2>4 DEF Owners, ArtefactsMatch, Artefact
  <2> QED
    BY <2>1, <2>2, <2>5 DEF FileInv
<1> QED
  BY <1>1, <1>2, <1>3 DEF IInv

LEMMA Invariance == Spec => []IInv
<1>1. IInv /\ [Next]_vars => IInv'
  BY TypeStep, CacheStep, TaskStep, FileStep DEF IInv
<1> QED
  BY InitInvariant, <1>1, PTL DEF Spec

\* Every variable has its type.
THEOREM PipelineTypeCorrect == Spec => []TypeOK
<1>1. IInv => TypeOK
  BY DEF IInv
<1> QED
  BY Invariance, <1>1, PTL

\* However the calls that share a cache file follow or overlap, and wherever they die,
\* load_image_default_files adds only files that the base image has to those that match the
\* built-in patterns.
THEOREM IgnoredInImage == Spec => []IgnoredAreInImage
<1>1. IInv => IgnoredAreInImage
  BY DEF IInv, CacheInv
<1> QED
  BY Invariance, <1>1, PTL

\* The signal handler finds the Tracer of the call that runs, and its task.
THEOREM SignalsFind == Spec => []SignalsFindTheTracer
<1>1. IInv => SignalsFindTheTracer
  BY FindTheTracer DEF IInv
<1> QED
  BY Invariance, <1>1, PTL

\* What a Dockerfile copies, and the Dockerfile of a Makefile, is beside it and was made for
\* it, whatever has failed or died, unless it could not be written, or a call has come
\* between the two.
THEOREM ArtefactsStayTogether == Spec => []ArtefactsMatch
<1>1. IInv => ArtefactsMatch
  BY DEF IInv, FileInv
<1> QED
  BY Invariance, <1>1, PTL

\* A call that succeeds, or runs make, has its own files, all but those it could not write.
THEOREM SuccessFresh == Spec => []SuccessIsFresh
<1>1. IInv => SuccessIsFresh
  BY SuccessFollows DEF IInv
<1> QED
  BY Invariance, <1>1, PTL
===============================================================================
