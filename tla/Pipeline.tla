-------------------------------- MODULE Pipeline --------------------------------
(***************************************************************************)
(* The control of r4r around its tasks: Tracer::configure and run_pipeline  *)
(* (src/src/tracer.h), the cache of the files of a base image               *)
(* (src/src/default_image_files.h), run_from_options with its signal handler *)
(* (src/src/main_common.h), and the two ways in, main() and                 *)
(* r4r_trace_expression() (src/src/main.cpp, src/src/r4r_lib.cpp).          *)
(*                                                                         *)
(* Several calls of r4r run on one machine: each in a process of its own,    *)
(* or, through the library, one after the other in one R session. They       *)
(* share cache files and output directories, and a process may die at any    *)
(* time. The environment keeps two calls from working in one output          *)
(* directory at the same time. What the tasks compute is in other modules;    *)
(* here is how what they write gets into the files.                          *)
(***************************************************************************)
EXTENDS Naturals, Sequences, FiniteSets, Functions

CONSTANTS
    Call,
    Image,
    list,       \* list[i]: what find reports of image i
    MaxLines,   \* bound on the length of a list
    patterns,   \* the files that the patterns of r4r itself match
    MaxLost,    \* bound on the files that cannot be written
    MaxSigints, \* bound on the processes that get a SIGINT
    Dir,        \* output directories
    Images,     \* the calls' images: functions from Call
    Dirs,       \* and directories
    session,    \* the process the library is loaded into
    unnamed,    \* the cache file without the name of an image
    Nothing     \* no call, no image, no task

ASSUME PipelineAssumption ==
    /\ MaxLines \in Nat
    /\ MaxLost \in Nat
    /\ MaxSigints \in Nat
    /\ DOMAIN list = Image
    /\ \A i \in Image : IsInjective(list[i]) /\ \E n \in 0 .. MaxLines : DOMAIN list[i] = 1 .. n
    /\ session \notin Call
    /\ unnamed \notin Image
    /\ Nothing \notin Call \cup Image \cup (Call \X {"part", "whole"})
    /\ Images \subseteq [Call -> Image]
    /\ Dirs \subseteq [Call -> Dir]

Key == Image \cup {unnamed}
Process == Call \cup {session}

\* run_pipeline()'s tasks: what comes before the traced program runs, the trace, the
\* two that look for packages, then by the files they write the manifest, the
\* Dockerfile and the Makefile, and make.
Tasks == <<"capture", "trace", "resolve", "manifest", "rscript", "prescript", "archive",
           "postscript", "dockerfile", "makefile", "make">>
InTask == Range(Tasks)
Locations == {"main", "register", "configure", "exists", "from_image", "open", "save",
              "finished"} \cup InTask

\* manifest.conf, install_r_packages.R, pre_file_copy.sh, archive.tar, post_file_copy.sh,
\* Dockerfile, Makefile; the Dockerfile has COPY for some of them.
Copied == {"rscript", "prescript", "archive", "postscript"}
Artefact == Copied \cup {"manifest", "dockerfile", "makefile"}

VARIABLES
    library,    \* the calls come from an R session
    image,      \* docker_base_image
    key,        \* default_image_file
    dir,        \* output_dir
    exists,     \* the cache files there are
    lines,      \* lines[k][n]: the image whose n-th file is in line n of k
    at,         \* where a call is
    end,        \* whether it runs, or how it has ended
    pos,        \* the line save() writes next
    ignored,    \* the files ignore_file_map has
    written,    \* the files a call is done with
    lost,       \* those it could not write, or only a part of, and did not notice
    current_task_,
    stopped,    \* stop() has killed the traced program
    last,       \* the last call in a directory
    content,    \* what is in a file: who has written it, and whether all of it
    alive,      \* processes
    handler,    \* the call whose Tracer the signal handler refers to
    got_sigint

options == <<library, image, key, dir>>
cache == <<exists, lines>>
files == <<written, lost, content>>
signals == <<alive, handler, got_sigint>>
task == <<current_task_, stopped>>
vars == <<options, cache, at, end, pos, ignored, task, last, files, signals>>

Ends == {"idle", "running", "unwinding", "success", "failure", "killed"}

TypeOK ==
    /\ library \in BOOLEAN
    /\ image \in [Call -> Image]
    /\ key \in [Call -> Key]
    /\ dir \in [Call -> Dir]
    /\ exists \subseteq Key
    /\ lines \in [Key -> [1 .. MaxLines -> Image \cup {Nothing}]]
    /\ at \in [Call -> Locations]
    /\ end \in [Call -> Ends]
    /\ pos \in [Call -> 1 .. MaxLines + 1]
    /\ ignored \in [Call -> SUBSET (patterns \cup UNION {Range(list[i]) : i \in Image})]
    /\ written \in [Call -> SUBSET Artefact]
    /\ lost \subseteq Call \X Artefact
    /\ current_task_ \in [Call -> InTask \cup {Nothing}]
    /\ stopped \in [Call -> BOOLEAN]
    /\ last \in [Dir -> Call \cup {Nothing}]
    /\ content \in [Dir -> [Artefact -> {Nothing} \cup (Call \X {"part", "whole"})]]
    /\ alive \subseteq Process
    /\ handler \in [Process -> Call \cup {Nothing}]
    /\ got_sigint \in [Process -> BOOLEAN]

\* Mutant: the library leaves the file where the options put it.
MutantOptionsKey(i) == unnamed

\* r4r_trace_expression names the cache after the image.
LibraryKey(i) == i

\* In Options the name is put together before the image is known; the command line
\* may give another file.
Init ==
    /\ library \in BOOLEAN
    /\ image \in Images
    /\ key \in [Call -> Key]
    /\ \A c \in Call : IF library THEN key[c] = LibraryKey(image[c])
                       ELSE key[c] \in {unnamed, image[c]}
    /\ dir \in Dirs
    /\ exists = {}
    /\ lines = [k \in Key |-> [n \in 1 .. MaxLines |-> Nothing]]
    /\ at = [c \in Call |-> "main"]
    /\ end = [c \in Call |-> "idle"]
    /\ pos = [c \in Call |-> 1]
    /\ ignored = [c \in Call |-> {}]
    /\ written = [c \in Call |-> {}]
    /\ lost = {}
    /\ current_task_ = [c \in Call |-> Nothing]
    /\ stopped = [c \in Call |-> FALSE]
    /\ last = [d \in Dir |-> Nothing]
    /\ content = [d \in Dir |-> [x \in Artefact |-> Nothing]]
    /\ alive = Process
    /\ handler = [p \in Process |-> Nothing]
    /\ got_sigint = [p \in Process |-> FALSE]

process(c) == IF library THEN session ELSE c

Active(c) == end[c] \in {"running", "unwinding"}

Runs(c, location) == end[c] = "running" /\ at[c] = location

-------------------------------------------------------------------------------
(* run_from_options and configure *)

Start(c) ==
    /\ end[c] = "idle"
    /\ process(c) \in alive
    /\ \A o \in Call : Active(o) => ~library /\ dir[o] # dir[c]
    /\ end' = [end EXCEPT ![c] = "running"]
    /\ at' = [at EXCEPT ![c] = "register"]
    /\ last' = [last EXCEPT ![dir[c]] = c]
    /\ UNCHANGED <<options, cache, pos, ignored, task, files, signals>>

\* The handler is a static object: the first call of a process initialises it, and
\* its reference to that call's Tracer stays.
register_error_handler(c) ==
    /\ Runs(c, "register")
    /\ handler' = [handler EXCEPT ![process(c)] = IF @ = Nothing THEN c ELSE @]
    /\ at' = [at EXCEPT ![c] = "configure"]
    /\ UNCHANGED <<options, cache, end, pos, ignored, task, last, files, alive, got_sigint>>

configure_default_ignore_pattern(c) ==
    /\ Runs(c, "configure")
    /\ ignored' = [ignored EXCEPT ![c] = patterns]
    /\ at' = [at EXCEPT ![c] = "exists"]
    /\ UNCHANGED <<options, cache, end, pos, task, last, files, signals>>

\* The first task starts.
Configured(c) ==
    /\ at' = [at EXCEPT ![c] = "capture"]
    /\ current_task_' = [current_task_ EXCEPT ![c] = "capture"]
    /\ UNCHANGED stopped

\* DefaultImageFiles::from_stream leaves out lines with too few fields.
Listed(k) == {list[lines[k][n]][n] : n \in {m \in 1 .. MaxLines : lines[k][m] # Nothing}}

\* load_image_default_files: a file that exists is used as it is, also one that
\* another call still writes, or will never complete.
from_file(c) ==
    /\ Runs(c, "exists")
    /\ key[c] \in exists
    /\ ignored' = [ignored EXCEPT ![c] = @ \cup Listed(key[c])]
    /\ Configured(c)
    /\ UNCHANGED <<options, cache, end, pos, last, files, signals>>

NoFile(c) ==
    /\ Runs(c, "exists")
    /\ key[c] \notin exists
    /\ at' = [at EXCEPT ![c] = "from_image"]
    /\ UNCHANGED <<options, cache, end, pos, ignored, task, last, files, signals>>

from_image(c) ==
    /\ Runs(c, "from_image")
    /\ ignored' = [ignored EXCEPT ![c] = @ \cup Range(list[image[c]])]
    /\ at' = [at EXCEPT ![c] = "open"]
    /\ UNCHANGED <<options, cache, end, pos, task, last, files, signals>>

\* The file is opened, and what another call has written is gone.
OpenFile(c) ==
    /\ Runs(c, "open")
    /\ exists' = exists \cup {key[c]}
    /\ lines' = [lines EXCEPT ![key[c]] = [n \in 1 .. MaxLines |-> Nothing]]
    /\ at' = [at EXCEPT ![c] = "save"]
    /\ UNCHANGED <<options, end, pos, ignored, task, last, files, signals>>

\* Each writer has its own place in the file.
SaveLine(c) ==
    /\ Runs(c, "save")
    /\ pos[c] \in DOMAIN list[image[c]]
    /\ lines' = [lines EXCEPT ![key[c]][pos[c]] = image[c]]
    /\ pos' = [pos EXCEPT ![c] = @ + 1]
    /\ UNCHANGED <<options, exists, at, end, ignored, task, last, files, signals>>

\* All is written, or a write has failed, which nobody looks at; a file that cannot
\* be created is a warning.
Saved(c) ==
    /\ Runs(c, "save") \/ Runs(c, "open")
    /\ Configured(c)
    /\ UNCHANGED <<options, cache, end, pos, ignored, last, files, signals>>

-------------------------------------------------------------------------------
(* run_pipeline *)

\* Mutant: the pointer is left where it was.
MutantNotReset(c) == current_task_[c]

\* Tracer::run sets the pointer to null after a task.
AfterRun(c) == Nothing

Following(c) ==
    LET n == CHOOSE n \in DOMAIN Tasks : Tasks[n] = at[c]
    IN  IF n = Len(Tasks) THEN "finished" ELSE Tasks[n + 1]

\* With the end of run_pipeline its tasks are destroyed.
GoTo(c, location) ==
    /\ at' = [at EXCEPT ![c] = location]
    /\ current_task_' =
        [current_task_ EXCEPT ![c] = IF location = "finished" THEN AfterRun(c) ELSE location]
    /\ stopped' = [stopped EXCEPT ![c] = FALSE]

\* Tasks whose work is in other modules. A trace may also end when it is stopped, if
\* the program was over before.
Work(c) ==
    /\ end[c] = "running"
    /\ at[c] \in {"capture", "trace", "resolve"}
    /\ GoTo(c, Following(c))
    /\ UNCHANGED <<options, cache, end, pos, ignored, last, files, signals>>

\* A stream, or tar, has emptied the file and is at work.
Opened(c, x) == content[dir[c]][x] = <<c, "part">>

Put(c, x, amount) == content' = [content EXCEPT ![dir[c]][x] = <<c, amount>>]

\* What was not written is lost without anybody noticing.
Loses(c, x) ==
    /\ Cardinality(lost) < MaxLost
    /\ lost' = lost \cup {<<c, x>>}

Leave(c, x, location) ==
    /\ written' = [written EXCEPT ![c] = @ \cup {x}]
    /\ GoTo(c, location)

\* The constructor of std::ofstream empties the file. When it cannot be opened what was
\* there stays, and all output to the stream is dropped.
Open(c, x, location) ==
    /\ Runs(c, x)
    /\ ~Opened(c, x)
    /\ \/ Put(c, x, "part") /\ UNCHANGED <<lost, written, at, task>>
       \/ UNCHANGED content /\ Loses(c, x) /\ Leave(c, x, location)
    /\ UNCHANGED <<options, cache, end, pos, ignored, last, signals>>

\* Its output is written, or only a part of it: the state of a stream is never looked at.
Write(c, x, location) ==
    /\ Runs(c, x)
    /\ Opened(c, x)
    /\ \/ Put(c, x, "whole") /\ UNCHANGED lost
       \/ Loses(c, x) /\ UNCHANGED content
    /\ Leave(c, x, location)
    /\ UNCHANGED <<options, cache, end, pos, ignored, last, signals>>

Output(c, x, location) == Open(c, x, location) \/ Write(c, x, location)

EditManifest(c) == Output(c, "manifest", Following(c))

\* There is nothing to install, or to copy; what is there from earlier calls stays.
Skip(c, x, location) ==
    /\ Runs(c, x)
    /\ ~Opened(c, x)
    /\ GoTo(c, location)
    /\ UNCHANGED <<options, cache, end, pos, ignored, last, files, signals>>

install_r_packages(c) == Output(c, "rscript", Following(c)) \/ Skip(c, "rscript", Following(c))

\* Mutant: an archive that is there is not made again.
MutantKeepsArchive(c) ==
    IF content[dir[c]]["archive"] \in {Nothing, <<c, "part">>}
    THEN Output(c, "archive", Following(c))
    ELSE Skip(c, "archive", Following(c))

\* tar works on the archive itself. It succeeds with the names it is given, which are
\* all unless their list was not written; what else goes wrong is an exception.
create_tar_archive(c) ==
    \/ /\ Runs(c, "archive")
       /\ ~Opened(c, "archive")
       /\ Put(c, "archive", "part")
       /\ UNCHANGED <<options, cache, at, end, pos, ignored, task, last, written, lost, signals>>
    \/ Write(c, "archive", Following(c))

copy_files(c) ==
    \/ Skip(c, "prescript", "dockerfile")
    \/ Output(c, "prescript", Following(c))
    \/ create_tar_archive(c)
    \/ Output(c, "postscript", Following(c))

SaveDockerfile(c) == Output(c, "dockerfile", Following(c))

\* docker is asked for its options between the two. With --skip-make the pipeline ends here.
WriteMakefile(c) ==
    Output(c, "makefile", "make") \/ Output(c, "makefile", "finished")

\* It needs a Makefile, of whichever call.
RunMakefile(c) ==
    /\ Runs(c, "make")
    /\ content[dir[c]]["makefile"] # Nothing
    /\ GoTo(c, "finished")
    /\ UNCHANGED <<options, cache, end, pos, ignored, last, files, signals>>

\* Mutant: a failed task is reported, and the next one runs.
MutantGoesOn(c) ==
    /\ at[c] \in InTask
    /\ GoTo(c, Following(c))
    /\ UNCHANGED end

\* The exception leaves Tracer::run before it resets current_task_.
Throw(c) ==
    /\ end' = [end EXCEPT ![c] = "unwinding"]
    /\ stopped' = [stopped EXCEPT ![c] = FALSE]
    /\ UNCHANGED <<at, current_task_>>

\* Any step may fail: a directory, docker, a database, the traced program, tar, make.
Fails(c) ==
    /\ end[c] = "running"
    /\ at[c] # "finished"
    /\ Throw(c)
    /\ UNCHANGED <<options, cache, pos, ignored, last, files, signals>>

\* The monitor reports the signal the traced program was killed with.
TraceStopped(c) ==
    /\ Runs(c, "trace")
    /\ stopped[c]
    /\ Throw(c)
    /\ UNCHANGED <<options, cache, pos, ignored, last, files, signals>>

\* A TaskException is caught in run_from_options, the others by its callers: all
\* give EXIT_FAILURE. A call from the command line ends its process.
Return(c) ==
    /\ end[c] = "unwinding" \/ Runs(c, "finished")
    /\ end' = [end EXCEPT ![c] = IF @ = "unwinding" THEN "failure" ELSE "success"]
    /\ alive' = IF library THEN alive ELSE alive \ {c}
    /\ UNCHANGED <<options, cache, at, pos, ignored, task, last, files, handler,
                   got_sigint>>

-------------------------------------------------------------------------------
(* Signals *)

Killed(p) ==
    /\ alive' = alive \ {p}
    /\ end' = [c \in Call |-> IF process(c) = p /\ Active(c) THEN "killed" ELSE end[c]]

\* SIGTERM, the second SIGINT, any signal before the handler is there, SIGKILL.
Die(p) ==
    /\ p \in alive
    /\ \E c \in Call : process(c) = p /\ Active(c)
    /\ Killed(p)
    /\ UNCHANGED <<options, cache, at, pos, ignored, task, last, files, handler,
                   got_sigint>>

\* The Tracer is there, and the task it points to.
IsLive(c) == Active(c) /\ (current_task_[c] # Nothing => end[c] = "running" /\ at[c] \in InTask)

\* Only the tracing task has a stop(), once its monitor runs.
StopReaches(c) == current_task_[c] = "trace"

MaySigint(p) ==
    /\ p \in alive
    /\ handler[p] # Nothing
    /\ ~got_sigint[p]
    /\ Cardinality({q \in Process : got_sigint[q]}) < MaxSigints

\* The first SIGINT.
Interrupt(p) ==
    /\ MaySigint(p)
    /\ IsLive(handler[p])
    /\ got_sigint' = [got_sigint EXCEPT ![p] = TRUE]
    /\ stopped' = [stopped EXCEPT ![handler[p]] = StopReaches(handler[p])]
    /\ UNCHANGED <<options, cache, at, end, pos, ignored, current_task_, last, files, alive,
                   handler>>

\* stop() of a Tracer, or of a task, that is no more: undefined. Nothing happens, or
\* what is now in that place is stopped, or the process crashes.
InterruptDangling(p) ==
    /\ MaySigint(p)
    /\ ~IsLive(handler[p])
    /\ got_sigint' = [got_sigint EXCEPT ![p] = TRUE]
    /\ \/ UNCHANGED <<alive, end, stopped>>
       \/ Killed(p) /\ UNCHANGED stopped
       \/ \E c \in Call :
            /\ process(c) = p /\ Runs(c, "trace")
            /\ stopped' = [stopped EXCEPT ![c] = TRUE]
            /\ UNCHANGED <<alive, end>>
    /\ UNCHANGED <<options, cache, at, pos, ignored, current_task_, last, files, handler>>

Configure(c) ==
    register_error_handler(c) \/ configure_default_ignore_pattern(c) \/ from_file(c) \/ NoFile(c)
        \/ from_image(c) \/ OpenFile(c) \/ SaveLine(c) \/ Saved(c)

WriteArtefact(c) ==
    EditManifest(c) \/ install_r_packages(c) \/ copy_files(c) \/ SaveDockerfile(c)
        \/ WriteMakefile(c) \/ RunMakefile(c)

Next ==
    \/ \E c \in Call :
        Start(c) \/ Configure(c) \/ Work(c) \/ WriteArtefact(c) \/ Fails(c) \/ TraceStopped(c)
            \/ Return(c)
    \/ \E p \in Process : Die(p) \/ Interrupt(p) \/ InterruptDangling(p)

Spec == Init /\ [][Next]_vars

-------------------------------------------------------------------------------
\* What the built-in patterns do not match is ignored only if the base image has it,
\* whoever wrote the cache, however much of it, and who wrote at the same time. For the
\* command line it takes that the calls with the same cache file have the same image, as
\* the file's name does not say which (tracer.h:52, 998, 1037).
IgnoredAreInImage ==
    \A c \in Call :
        library \/ (\A o \in Call : key[o] = key[c] => image[o] = image[c])
            => ignored[c] \ patterns \subseteq Range(list[image[c]])

\* What the Dockerfile of a call copies.
Copies(c) ==
    (written[c] \cap {"rscript"})
        \cup (IF "prescript" \in written[c] THEN {"prescript", "archive", "postscript"} ELSE {})

\* The files of a call that its Dockerfile and its Makefile take for granted.
Needs(c, x) ==
    CASE x = "dockerfile" -> Copies(c)
      [] x = "makefile" -> {"dockerfile"}

\* Where a call may have written these, but not yet x.
Before(x) ==
    CASE x = "dockerfile" -> Copied \cup {"dockerfile"}
      [] x = "makefile" -> {"dockerfile", "makefile"}

\* Beside a Dockerfile are the archive and the scripts that were made for it, and beside
\* a Makefile its Dockerfile, complete, whatever has failed or died. Two things can
\* undo this: the call could not write the file, and did not notice; or another one has
\* come between the two, and is there, has ended there, or could not write the second
\* (tracer.h:480, 512, 601, 793, dockerfile.h:30, archive.h:19).
ArtefactsMatch ==
    \A d \in Dir, c \in Call, x \in {"dockerfile", "makefile"} :
        content[d][x] = <<c, "whole">> =>
            \A y \in Needs(c, x) :
                \/ content[d][y] = <<c, "whole">>
                \/ <<c, y>> \in lost
                \/ \E o \in Call \ {c} :
                    /\ content[d][y] \in {<<o, "part">>, <<o, "whole">>}
                    /\ at[o] \in Before(x) \/ <<o, x>> \in lost

\* When a call runs make, or returns EXIT_SUCCESS, each file it had to write is complete
\* and its own, not from an earlier call, but for those that could not be written. These
\* it does not notice: make may build from an older Dockerfile, and r4r succeed
\* (tracer.h:1098, 299, 793, dockerfile.h:30).
SuccessIsFresh ==
    \A c \in Call :
        (end[c] = "success" /\ last[dir[c]] = c) \/ Runs(c, "make") =>
            \A x \in {"manifest", "dockerfile", "makefile"} \cup Copies(c) :
                content[dir[c]][x] = <<c, "whole">> \/ <<c, x>> \in lost

\* A signal finds the Tracer and its task alive as long as a call of its own process,
\* or the first one of a session, runs normally. Nothing of the kind holds for later
\* calls of a session, nor while an exception is on its way (main_common.h:14,
\* tracer.h:991, 1118).
SignalsFindTheTracer ==
    \A c \in Call :
        /\ end[c] = "running" /\ at[c] \notin {"main", "register"}
        /\ library => \A o \in Call \ {c} : end[o] = "idle"
        => handler[process(c)] = c /\ IsLive(c)
===============================================================================
