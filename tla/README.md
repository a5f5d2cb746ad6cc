# A verification of r4r in TLA+

r4r runs a program under ptrace, collects the files it uses, and builds a
Docker image in which the program can be run again: files of Debian packages
are installed with apt, files of R packages with R, the others are copied. The
modules here model the parts of r4r whose behaviour is hard to test - the
tracer, the listener that turns system calls into a list of files, and the
planning and execution of the installation of R packages. TLC checks them on
small instances and TLAPS proves the safety properties for every instance. Paths
below are relative to the repository; line numbers are those of `src/*.h` at the
modelled commit.

## 1. The system

| Component | State | Operations | What makes it correct |
|---|---|---|---|
| Tracer (`syscall_monitor.h`) | pid of the root; the kernel's ptrace state of each tracee; two forwarding threads | `start`, `wait_for_initial_stop`, `monitor`, `handle_stop`, `handle_syscall`, `stop` | every system call of every tracee is reported once before and once after it; no tracee is left stopped; the result is the root's; it returns when the program is over |
| Listener (`file_tracer.h`) | `state_` (what each pid's entry noted), `files_`, `symlinks_` | `on_syscall_entry`, `on_syscall_exit`, a handler pair per system call, `register_file` | what the program used is registered, and nothing else; `existed_before` tells inputs from results |
| Plan of R packages (`rpkg_database.h`, `install_r_package_builder.h`) | levels, stack of the depth first search; batches; the generated script | `get_installation_plan`, `dfs_visit`, `expand_plan`, `write_script` | dependencies first, at most `max_parallel` jobs, cycles recognised, the script ends with all packages there or with an error |
| HTTP requests (`curl.h`) | pending and running requests | `add`, `run` | every request that was added has a result |
| Pipeline (`tracer.h`, `main*.h`, `r4r_lib.cpp`) | `TracerState`, `current_task_`, options | `configure`, the eight tasks, `stop`, the signal handler | a task sees what the one before left; a failed task ends the pipeline; every input of the program reaches the image |
| Resolvers (`resolvers.h`) | the traced files and links, the manifest | deb, R and copy resolver | each file is resolved once, by the first resolver that knows it |
| Manifest (`manifest*.h`) | `copy_files` and the edited text | save, edit, load | what the user did not change stays |
| Image defaults (`default_image_files.h`, `ignore_file_map.h`) | cache file; tries of ignored paths | `from_image`, `save`, `from_file`, `ignore` | the cache is that of the image; ignored files are in the image |
| Path trie (`filesystem_trie.h`) | a tree of path components | `insert`, `find`, `find_last_matching` | lookups agree with the inserted paths |
| dpkg database (`dpkg_database.h`) | packages and their files | `from_path`, `lookup_by_path`, `lookup_by_name` | the owner of a path is found |
| Processes, pipes (`process.h`, `util_io.h`) | pipes, child pid | `spawn`, `output`, `wait`, `forward_output` | all output is read, nobody waits for ever |
| Dockerfile, archive (`dockerfile.h`, `archive.h`, the builder task in `tracer.h`) | commands, the names to archive | `copy_files`, `create_user`, `install_deb_packages`, ... | each layer finds what it needs; copied files and their directories are as on the host; the program can write its results |
| Symbolic links (`util_fs.h`) | links of the root directory | `resolve_symlinks`, `check_accessibility` | all names it gives are of the same file |
| Arguments, JSON, logging, helpers (`argparser.h`, `json.h`, `logger.h`, `util*.h`, `user.h`) | none that outlives a call | parsers, wrappers | - |

How they interact: `Tracer::run_pipeline` runs one task after the other on one
`TracerState`. The tracing task owns a `FileTracer` and a `SyscallMonitor`; the
monitor's loop, the only thread that calls ptrace, calls the listener
synchronously while the tracee that made the call is stopped. Two threads
forward the program's output and end with the last write end of their pipes. The
signal handler calls `stop` of the current task at any moment. After the trace
the resolvers consume the traced files; the R packages they find go through the
plan into a script that runs in `docker build`.

Where it is hard: the kernel reports stops of different processes in any order;
tracees run, die and fork between a report and its handling; the listener looks
at a file system that others change; the root may end before its descendants;
exceptions cross living threads; jobs of a batch fail one by one; the disk and
the manifest change between the trace and the archive; a call may die with half
of its files written, which the next call finds. `PROJECT.json`
lists these hazards with their lines and the properties that cover them.

## 2. Modules

| Module | What it is |
|---|---|
| `SyscallEvents` | the contract between tracer and listener: announced, executed, reported, per process |
| `SyscallMonitor` | the tracer with the kernel's side of ptrace; implements `SyscallEvents` |
| `FileTracer` | the listener with a file system; uses `SyscallEvents` as its environment |
| `InstallPlan` | plan, batches and the generated script |
| `CurlTransfer` | the requests for system dependencies, with libcurl as the environment |
| `PathStore` | a dictionary from paths to packages: what a trie promises |
| `PathTrie` | `FileSystemTrie` as operators on a record of nodes and values; no state |
| `PathLookup` | the database of dpkg being filled, copies of tries, `SymlinkResolver`, lookups; implements `PathStore` |
| `FileFates` | what the three resolvers promise together: each file is decided once |
| `Resolution` | the traced files on their way through the resolvers, the manifest, the archive and make; implements `FileFates` |
| `DockerBuild` | the Dockerfile's layers and what they do in `docker build` and `docker run` |
| `OutputPipes` | a command, its two pipes, and `output` or `forward_output` |
| `Pipeline` | several calls of r4r: configuration and cache, the tasks and their files, exceptions, signals, deaths |
| `MC...` | instances for TLC (sets, functions, symmetry); the `.cfg` files give the constants |
| `...Proofs` | theorems and proofs, one module per component; those about `DockerBuild` are in `InstallPlanProofs`, whose script is one of its layers (its `ImageInit`, `ImageNext`, `ImageSpec` are named so for that) |

They compose as the code does: `SyscallMonitor` implements `SyscallEvents`,
which is the environment of `FileTracer`; its `files_` and `symlinks_` are the
`traced_files` and `traced_symlinks` of `Resolution`, with `before` for
`existed_before`; `PathLookup` justifies that `Resolution` takes "a database
knows the file" as a property of the file; the packages and the archive of
`Resolution` are the inputs of `InstallPlan` (whose script is the layer `R` of
`DockerBuild`) and of `DockerBuild` (files, results). `Pipeline` has the same
tasks from outside: when they run, what they leave in the directory, and how
they end; `OutputPipes` is what happens when one of them runs a command.

### 2.1 SyscallMonitor

`pc` is the place of the tracing thread: `initial` is the poll of
`wait_for_initial_stop`, `wait` the blocking `waitpid` of `monitor`, `event`,
`info`, `listener` and `resume` the ptrace calls of `handle_stop` and
`handle_syscall` with the callbacks in between, `join` the end of
`process_tracer`. Each ptrace or wait call is one action, so that the kernel and
the other tracees interleave between any two of them, with two exceptions:
`PTRACE_SETOPTIONS` goes with the `PTRACE_SYSCALL` that follows it (`Setup`), and
for a new child `PTRACE_GETEVENTMSG`, `PTRACE_SETOPTIONS` and `PTRACE_SYSCALL` are
one (`HandleForkEvent`). `st[p]` is the state of a
process as ptrace has it; the names of the actions are those of the C++
functions where there is one. `told` and `handling` are the listener's side:
who was announced and not yet reported back, and the keys of
`FileTracer::state_`.

Undefined behaviour is a choice: when `PTRACE_GET_SYSCALL_INFO` fails the
structure is uninitialised, so `GetSyscallInfo` picks any content. An exception
that meets the two joinable threads ends r4r by `std::terminate`; `pc` tells which
one it was. `failed` is the initial wait. `refused` is a read that the system does
not allow: `process_vm_readv` in the entry handler (EPERM, EIO; at EFAULT
`read_string_from_process` returns what it has) and `fs::is_regular_file` in
`register_file`. `aborted` is every other one: a tracee that was killed under the
listener's hands, or a second entry for a pid.

What becomes of the tracees depends on how far r4r came. `PTRACE_O_EXITKILL` is set
after the initial stop, so `ExitKill` works for all ends but `failed`. There the
kernel lets the root go (`LetGo`), and it stays behind in its SIGSTOP, which it may
still have to raise: `stranded`.

What the environment may do is the constant `Allowed`:

| | |
|---|---|
| `early` | a new process may make a system call before its parent's fork event is handled. The kernel allows it; without it the model assumes the usual order |
| `orphan` | the root may exit before its descendants |
| `detach` | a process may close its copies of the pipes |
| `stop` | SIGINT and SIGTERM to r4r at any moment |
| `kill` | SIGKILL to any tracee at any moment |
| `signal` | other signals, also to the root before its own SIGSTOP |

Abstractions: system calls are three classes (with a handler, creating a
process, exiting); the two pipes are one; `PTRACE_SETOPTIONS` cannot fail other
than by ESRCH; pids are not reused; `execve` by a thread that is not the leader
(which changes its pid) is left out.

### 2.2 FileTracer

A path has the generation of the file that is there, so that a file that was
deleted and made again is another file. Constants name the paths that exist at
the start, the links, those whose target is ignored, the special files, the
ignored ones (`IgnoreFileMap`) and those the tracer cannot look at. Entry and
exit handlers are `on_syscall_entry` and `on_syscall_exit`; the kernel executes
the call in between (`Execute`), at another path if a thread has changed the
directory meanwhile. `Unlink` and `Creat` are the calls without a handler.
`RegisterThrows` is the exception of `fs::is_regular_file` for a program that was
executed from a place the tracer cannot look at (the handlers of open and stat
have looked before, with an error code); it ends r4r and the tracees.
`used` and `recorded` are history variables. Sizes and warnings are left out,
and so is the text of paths (normalisation, reading from the tracee's memory).

### 2.3 InstallPlan

`stack`, `in_stack`, `todo`, `level`, `levels`, `max_level` are the local
variables of the open calls of `dfs_visit` and the maps it is handed; the
recursion is a stack, so that the module can be proved about. Dependencies and
roots are taken in any order; the code sorts them by name, which is one of these
orders. The script part starts a batch (`IsBatch` takes the next `max_parallel`
packages of the level, in any order), lets the jobs end in any order and with
any outcome, waits, and checks the versions as the generated R code does. `lib`
is the library of the image. The base image may have other versions of packages
(`preinstalled`).

### 2.4 CurlTransfer

`pending_` and `requests_` are the fields of `CURLMultipleTransfer`, `results`
and `is_running` the local variables of `run`; `finished` are the messages of
libcurl not read yet. `Fill` is the first loop, then a round is `Perform`
(libcurl ends any set of the transfers it has), `ReadMessage` for each that
ended, in any order, and `Refill`, which starts one pending request whatever
happened. `curl_multi_wait` changes nothing. A failed transfer has a result as
well, so outcomes are not told apart. `NoHandle` is the exception of
`add_transfer`. `asked` is history: the keys that were in a
`curl_multi_perform`. The limit `parallel` holds for the first loop only: a round
in which nothing ends adds a transfer above it, in the code as in the model.

### 2.5 PathTrie and PathLookup

A path is the sequence of its components and a node of the trie the path that
leads to it, so `insert`, `find` and `find_last_matching` are operators on a
record of `nodes`, `value` and `size_`. `LongestValue` and `Gap` are the
reference definitions: what was inserted, without nodes. `PathLookup` reads the
list files of the packages in any order (the code iterates a hash table), lets
one be missing or unreadable, copies the trie with the iterator, whose stack is a
set because the children come in hash order, and looks up a path with
`resolve_symlinks`: a work list, the links of `/` in the order of their hash
table, the two rebasings of the lambda `test`, and the `break` after the first
that fits. `File` is the file system: what a path leads to. Queried paths are no
links themselves, so the last lines of the loop, which follow such a link, are
left out, and so are links deeper than the root, which the code does not read
either.

### 2.6 Resolution

`pc` goes through `RpkgDatabase::from_R`, the passes of `ResolveFileTask` (`deb`, `debLinks`, `R`,
`copy`, `copyLinks`; each looks at the remaining files one by one, in any order),
the task for system dependencies, and the parts of `EditManifestTask`,
`DockerFileBuilderTask::copy_files`, `MakefileBuilderTask` and
`RunMakefileTask`. `kind` has what is fixed about a file: traced, there before,
asked for with `--result`, which databases have it, whether under another name
(`alternate`: it is tried only if it leads to the same file at that moment, `Has`),
whether its R package is a base package or compiled. `disk` is its state
now, which another process may change between any two steps (`DiskChanges`, at
most `MaxChanges` times). `text`, `header` and `cut` are the manifest as the
editor and `operator>>` see it: the mark on the file's line, where the header of
the section is, and the name that is left of a path with `#`. `UserEdits` is one
save in the editor, with a new time stamp or within the tick of r4r's own.
`targets` is what `read_symlink` adds to tar's list for a copied link. `Present` is
what the image has in the end; base packages of R are in it with the Debian package
of R only, as the installation script leaves them out. `fault` is an exception that
no traced file is the cause of (`Faults`: R fails to list its packages, a link of `/`
leads nowhere, R packages depend on each other in a cycle, curl gives no handle, tar
fails or cannot be started, the output directory was given with a slash at its end). Each package is its files; quoting
and white space of the manifest are left out.

### 2.7 DockerBuild

`Dockerfile` is the sequence of layers `DockerFileBuilderTask::run` writes; the
build executes them in order. A directory has an owner, a file an origin, so the
module tells who made a directory and whose content a file has. R, and the compilers
and libraries its packages are built with, are files, too (`Tools`): any of them may
be in the base image (`baseTools`), be brought by Debian packages (`packaged`), be
copied, or be missing, for `install_deb_packages` does not ask for R. `needed` is
what the installation of the R packages of this run uses. `Unavailable` is a layer
that a server, or a package itself, lets down. `written` and `status = "denied"` are
the run of the program in the container. Modes, clashes of user or group ids with
those of the base image (the code has comments that these are fragile), and the
quoting of commands are left out.

### 2.8 OutputPipes

Data is counted in units; a pipe holds `Capacity` and one read takes `Buffer`.
The command writes to one stream after the other as it likes, ends in any way,
and may leave a process behind that holds the pipes (`holders`). `Into` is the
`dup2` of `Stdio::Merge`. `pc` is r4r: `stdout` and `stderr` are the two reads of
`Command::output` one after the other, `poll` and `read` the loop of
`forward_output`, `wait` is `waitpid`.

### 2.9 Pipeline

A call has a place (`at`) and an end; `process(c)` is a process of its own for
the command line and `session` for the library, in which calls follow each
other. Cache files are `exists` and `lines`: a line is what `save` writes for one
file, so a file may be incomplete because its writer died or still writes, and
two writers have their own offsets, as with two `ofstream`s. `patterns` are the files
that `configure_default_ignore_pattern` makes r4r ignore. In a directory there are
seven artefacts: the manifest, the script that installs R packages, the two scripts
around the archive, the archive, the Dockerfile, the Makefile. `content` is who wrote
each and whether all of it: `Open` empties a file, `Write` completes it, and a call may
die or throw in between. No stream is ever looked at, so either may also go wrong
unnoticed (`lost`, at most `MaxLost` times): a file that cannot be opened stays what it
was, one whose output fails stays a part. `tar` works on the archive itself, and its
failure is noticed. With nothing to install or copy the files in question are skipped
and older ones stay. The environment does not run two calls in
one directory at the same time. `current_task_` is left where it was by an
exception, as in the code; `handler` is the `Tracer` the static signal handler
refers to. Where that is a dead object `InterruptDangling` picks an outcome:
nothing, a crash, or the stop of whatever is in its place. What a child of r4r, tar
or docker, still writes after r4r itself was killed is not modelled.

## 3. What TLC checks

| Run | Instance | Shows |
|---|---|---|
| `monitor_safety` | root and two interchangeable descendants; all of `Allowed` but `early` | `NoTraceeForgotten`, `ResultIsRootEnd`, `AbortsForTheDeadOnly`, and the refinement `AnnouncesEverySyscall` of `SyscallEvents`, which says more than `NoSilentSyscall` |
| `monitor_liveness` | the same three processes; `signal`, `detach`, fairness | `RootEndReturns`, `StopsAreResumed` |
| `tracer_files` | one process, all kinds of calls, an input, a result, two links (one of them out of the tracer's sight), a device; deletions; `MaxGen = 2` | `FilesWereUsed`, `InputsWereThere`, `RecordsAreComplete` |
| `tracer_race` | two processes that open an input and a result; deletions, untraced creations, changes of directory, deaths; `MaxGen = 2` | `FilesWereUsed` (of open: see 3.2), `ResultsWereCreated` |
| `install_plan` | all dependency graphs of three packages, `MaxParallel = 2`, all outcomes of jobs, fairness | `PlanIsOrdered`, `PlanIsExact`, `JobsFindDependencies`, `InstalledIsThere`, `InstallationEnds` |
| `curl_transfer` | up to four keys, `parallel = 2`, any set of transfers ends in a round, fairness | `OnlyUnaskedAreLost`, `FewAreAnswered`, `RunReturns` |
| `resolution` | two files of eight sorts in seven states of the disk, two links in three, one of them of a package; all faults; a path cut at `#`; one change of the disk and one edit where the files are of six of the sorts | `InputsReachImage`, `ArchiveIsChosen`, `ThrowsForAReason`, `AskedAreFetched`, and the refinement `EachFileOneFate` of `FileFates` |
| `path_lookup` | ten paths, the lists of two packages with up to two of six lines, four sets of links, three queries | `LastMatching`, `CopyIsEqual`, `LookupAgrees`, and `StoresLast`, the refinement of `PathStore` |
| `output_pipes` | capacity 3, buffer 2, up to 5 units on each stream; `output` with and without merging, `forward`; fairness | `OutputIsComplete`, `BlockedOnStderrOnly`, `LittleIsLost`, `CommandReturns` |
| `pipeline` | two calls in two processes or one session; failures, signals and deaths everywhere; in one directory with one file that cannot be written, or with caches of one or two images that have two files, one in common and one that a pattern matches | `IgnoredAreInImage`, `ArtefactsMatch`, `SuccessIsFresh`, `SignalsFindTheTracer` |
| `docker_build` | a directory of the base image, a home, two directories below it; R and a library, three other files; any of them copied or results, any tools in the base image, five sets that packages bring, all working directories and owners below the home | `BuildFailsForAReason`, `ResultsHavePlaces`, `FilesAsOnHost`, `DeniedOutsideOnly` |

Why the bounds are enough. Three processes are the fewest with a grandchild, and
with two children whose stops are reported in either order around one fork event.
Two processes are what a race on a file takes, and `MaxGen = 2` is a file that is
deleted and made again. Three packages give cycles of every length up to three, a
dependency needed along two paths, chains that make three levels, and, with
`MaxParallel = 2`, a level that needs two batches. Four keys with a limit of two
are the first transfers, one that is started by a refill above the limit, and one
that still waits then. In `resolution` files meet only in the manifest, where one
path may be cut to the other, and in the archive, so two of them are enough; one
change of the disk can fall between any two looks at the same file. All sorts meet all
states of the disk in runs that nobody disturbs; runs that are disturbed begin with six
of the eight sorts and five of the seven states (`Followed` of `MCResolution`, an
`ACTION_CONSTRAINT`). Left out there are base packages and results the program never
touched, which no change of the disk decides about, and files that are unreadable or
relative links at the start; a change may still make them so. The paths of
`path_lookup` are `/usr/lib/f` and `/usr/bin/f` with the names they have through
links `/lib` and `/bin`, and with two links into one directory; two packages are
what it takes to overwrite each other's path. A capacity of 3 with a buffer of 2
has a full pipe that takes two reads, the last one short, and five units do not
fit into it. Two calls are what it takes to find the other's cache, artefacts or
signal handler; two lines are a list that can be cut in the middle, and one lost file
is what separates the two sides of each comparison. Two calls with different directories
have only caches in common, and what is in the caches is not read after the configuration.
So `Followed` of `MCPipeline` follows calls through all their tasks when they share a
directory, with an image that has no files, and other calls up to their first task. In
`docker_build` a file can be beside a result, above or below it, in the home, in
the working directory, or outside of all; R and a library can come from different
places, or one be missing. `/opt` is root's there and the home the user's
(`AllOwners`); who owns what is below the home is left open.

A property is worth its run only if some bug breaks it: for each there is a
mutant of a mapped definition in `PROJECT.json` (the operators `Mutant...`, named
for what they get wrong) for which TLC reports the property violated.
`CHECK_DEADLOCK FALSE` stands where the modelled program ends.

### 3.1 A disagreement TLC shows

`monitor_early_child` (`NoSilentSyscall`): when the child's own SIGSTOP is
reported before its parent's fork event, the child is resumed for it, may
reach a system call, and is resumed again by the fork event without the
listener being told. The other runs of `SyscallMonitor` therefore leave `early`
out of `Allowed`, and the theorems assume it away.

### 3.2 Known divergences

The properties below hold as stated because they say what the code does. Where
that is less than one may expect, the difference is written into the property:

- A late initial stop (10 ms) throws while two joinable threads exist, so r4r
  ends by `std::terminate` and not in the handlers of `main`. The root has no
  `PTRACE_O_EXITKILL` yet and stays behind, stopped (`StopsAreResumed` excepts it).
- So do reads that fail for a living tracee: `process_vm_readv` (EPERM, which the
  code's TODO calls recoverable, and EIO) and `fs::is_regular_file` in
  `register_file`, which has no error code. `AbortsForTheDeadOnly` leaves both out
  (`EntryRefused`, `ExitRefused`), and says that a disagreement about a living tracee
  is never the reason.
- The exit handler of open compares the descriptor with the path that the entry noted.
  Those of stat, exec and readlink register the noted path as it is
  (`file_tracer.h:361`, `415`, `482`): if a thread changes the directory in between, a
  path that was not used is registered. `FilesWereUsed` speaks of open then
  (`PathsAreKept`).
- After the first SIGINT the root is dead and `monitor` returns, while a
  descendant may stay in a ptrace stop with the pipes open; the join then never
  ends. `RootEndReturns` is checked without `stop` and `orphan`.
- Files made by a call without a handler (creat, rename, mkdir, link) and opened
  afterwards count as inputs; `tracer_files` leaves such calls out, `tracer_race`
  has them.
- The shell command of a batch ends in `wait` without operands, so a failed job
  does not end the script; the version check does, unless another version is
  there (`InstalledIsThere` says "some version").
- When all running transfers end in one round, one more is started and `run`
  returns, because nothing ran at the last count: that request and the rest of
  the queue have no result. `OnlyUnaskedAreLost` says that only those are lost.
  r4r asks ten at a time, so it takes eleven packages that need compilation.
- `find_last_matching` finds nothing when it ends at a node without a value,
  although a prefix with a value is above it (`Gap` in `LastMatching`); the
  wildcards of r4r are not nested, so it meets this only after a change there.
- `resolve_symlinks` tries only the first link of the root that fits
  (`LinksApart` in `LookupAgrees`), and throws for a path that cannot be searched:
  such a file ends the run (`ThrowsForAReason`). So does a relative link in `/` that
  leads nowhere. Another name of a file is tried only if it leads to the same file at
  that moment, so of a file that is gone the databases know the traced name only
  (`ArchiveIsChosen`).
- The R resolver takes the files of base packages from the list, and the installation
  script leaves these packages out: with an R that is in no Debian package nobody brings
  their files (`InputsReachImage`). A cycle of R packages, or a transfer that curl gives
  no handle for, ends the run before the Dockerfile (`ThrowsForAReason`).
- A result asked for with `--result` that is an input, too, is not copied
  (`InputsReachImage`); a relative link among the files to copy makes tar fail
  (`ThrowsForAReason`). The target of an absolute one is archived with it, also if a
  package provides it. An output directory given with a slash at its end is not
  recognised as what holds the archive and the script, and the Dockerfile task throws.
- A manifest without its header is read as if nothing had been changed, an
  edit within the tick of the time stamp is not read at all, and a path with `#`
  names the file before the `#` (`ArchiveIsChosen`). `--skip-manifest` still
  writes the manifest.
- Without a file to copy the directories of the results are not made, and those
  made for results belong to root (`DeniedOutsideOnly`); `id ubuntu && userdel`
  fails the build in an image without that user (`BuildFailsForAReason`);
  special bits of directories are lost (mode `& 0777`).
- Nothing puts R among the Debian packages, and the archive is unpacked after the layer
  that runs Rscript: with R packages and an R that is neither in the base image nor in a
  Debian package the build fails, even if R is among the copied files. A system library
  that has no package on the host is dropped with a warning, one whose request was lost
  without, and the package that needs it fails (`BuildFailsForAReason`).
- r4r's own patterns (`/var/cache`, `/usr/local/share/fonts`, `.uuid`, ...) ignore files
  whether the base image has them or not (`IgnoredAreInImage` is about all others).
- The name of the cache file is computed before the base image is known, so all
  images of the command line share `.cache` unless it is named
  (`IgnoredAreInImage` has the condition); a cache whose writer died is used as
  it is, which ignores too few files and never too many. A tag that moves to
  another image leaves the cache as it was.
- The artefacts are written in place. A run that ends between archive and Dockerfile
  leaves a new archive, or with a failing tar a part of one, beside an older Dockerfile,
  and one that ends at `docker build --help` an empty Makefile (`ArtefactsMatch`).
- No output stream is checked. With an older file that cannot be overwritten, or a full
  disk, r4r goes on, make builds from what an earlier call left or from half a file, and
  the exit code is that of success (the `lost` files of `SuccessIsFresh` and
  `ArtefactsMatch`).
- The signal handler is a static object with a reference to the first call's
  `Tracer`: later calls in an R session cannot be stopped, and a signal then
  works on a dead object; the same after an exception, as `current_task_` is not
  reset (`SignalsFindTheTracer` says when it works). `parse_os` is outside the
  `try` of `r4r_trace_expression`.
- `Command::output` reads stdout to its end first, so a command that fills the
  pipe of stderr and r4r wait for each other (`BlockedOnStderrOnly`); after a
  hang-up `forward_output` leaves what is beyond one buffer (`LittleIsLost`).

### 3.3 Fairness

`Fairness` of `SyscallMonitor` has weak fairness of the tracing
thread, of what the kernel does for each process, and of what it does with the tracees
when r4r is gone (`ExitKill`, `LetGo`); strong fairness of `WaitStop(p)` says that `waitpid(-1)` does not pass over one stopped
child for ever in favour of others, which holds for the kernel's scan of the
children only if they do not all keep it busy; it is needed for
`StopsAreResumed` alone. Nothing is assumed of the program: it may run for ever
or never make another call, and `RootEndReturns` starts from the end of the
root. `orphan` is excluded there, since with it the property is false (the join waits
for the pipes). `FairSpec` of `InstallPlan`
has weak fairness of the planning, of the script and of each job: a job ends,
somehow. `FairSpec` of `CurlTransfer` has weak fairness of the thread, and strong
fairness of the end of each transfer: as `run` sets no timeout, this is what it
needs of the servers, and `RunReturns` says no more than that.
`FairSpec` of `OutputPipes` has weak fairness of r4r, of the command's writes
when the pipe has room and of its exit when all is written, and of the end of a
process it left behind: `output` waits for that process, too, so `CommandReturns`
needs it. `Resolution`, `PathLookup`, `Pipeline` and `DockerBuild` are checked for
safety only: their steps are sequential, any of them may fail, and nothing in the
code promises that a call of r4r ends well.

## 4. What is proved

All theorems hold for every value of the constants allowed by the named
assumption (`...Assumption`) of each module.

`SyscallMonitorProofs`
- `TypeCorrect`: `Spec => []TypeOK`, unconditionally.
- `Agreement`: if `"early" \notin Allowed` then `[]TracerAgrees`. `TracerAgrees`
  is the inductive invariant; none of the properties is inductive alone. It says
  that `handle_stop` works on a stop that is still the one reported, or on a
  dead tracee (`CurrentStop`); that `told` is what the kernel's state of a
  tracee implies, shifted by the one stop in hand (`TruthfulListener`); that
  `state_` has entries of living tracees only in a call (`EntriesInCall`); that
  a child whose fork event is to come has made no call (`NewbornsWait`); and
  where the root can be (`RootKnown`). The assumption is needed for
  `NewbornsWait` and nothing else.
- from it: `EverySyscallTold`, `NoSecondEntry`, `LoopNeverStrands`,
  `ResultIsTheRoots` (with an invariant about `result` of its own), and
  `ImplementsSyscallEvents`, the refinement: each action maps to a step of
  `SyscallEvents` or to a stutter, one lemma per group of actions.
- `AbortsOnlyForTheDead`: without `early` every step that aborts r4r has a tracee in
  hand that was killed. Of a living one `TracerAgrees` gives that the stop is the one
  reported and that `state_` has no entry for it at its entry stop. Kills, stops and
  refused reads are not assumed away.

`FileTracerProofs`
- `FileTracerTypeCorrect`, `FirstRecordKept`, `ResultsCreated` (an entry noted
  as new had no file, and the call's success means that one was made since),
  `OnlyUsedFiles` (what the exit handlers register is the path of their own call, or
  one that was compared with the descriptor; `FilesWereUsed` itself says for which
  calls).
- `InputsThere`: a record says "there before the program" of such files only, for
  any number of processes, from `InputInv`: what the open calls have noted
  (`NotesComplete`), who has made the files that are recorded by nobody yet
  (`CreationsKnown`), and that a file an entry found was there at the start or has
  been recorded as new (`ExistenceKnown`). Two things the code does not
  guarantee are hypotheses. Files from calls without a handler, or of a process that
  died before its exit, are recorded by nobody (`creat`, `chdir`, `die` are not in
  `Allowed`; `tracer_race` has them). And of two processes one may use a file before
  the exit of the call that made it is reported; the second exit handler may then
  run first. `[]NoneOvertakes` says that this does not happen. It is a condition on
  the traced program, and `InputsThereAlone` shows that a process alone meets it.
- `RecordsComplete`: when a call has returned, the file it used has a record, and an
  input has the record of an input. `RecordInv` adds to the notes of the calls what
  the path had when the call ended up there (`FirstFileFound`, `LastCreated`). The
  exit handler looks at the path again, so the hypothesis is that the file is still
  there, `[]FilesOutlastCalls`; `RecordsCompleteAlone` discharges it without
  `unlink`, and for one process, which cannot remove a file in its own call. With
  `chdir` the path of the exit is another file, so it is excluded.

`InstallPlanProofs`
- `InstallPlanTypeCorrect`, and `PlanOrdered`: the invariant behind it,
  `PlanInv`, says of each open call that what it has looked at is planned below
  its `level`, that the packages on the stack are those of `in_stack` and are not
  planned, and that planned packages have planned dependencies on lower levels.
  Sequence facts are two generic lemmas, `Push` and `Pop`.
- `PlanExact`, the other half: no package waits longer than it must, and "Cycle
  detected" is only said of a cycle. `ExactInv` has `LevelsTight` (a level above
  the first, and the `level` of an open call, has a dependency just below it),
  `MaxIsReached` (some package has `max_level`), and `StackIsPath` (each open call is a dependency of
  the one below). When a package on the stack is met again, the calls above it are
  the cycle (`CycleIsReal`).
- `JobsAreReady` and `AllInstalled`, from `ScriptInv`: `PlanInv` with
  `JobsOfLevel` (running jobs are of the current level, within the limit),
  `LibraryGrows` (all lower levels are in the library) and `LevelInHand` (the
  packages of the level that are not left have had a job, and are there before
  the next batch). A job then finds its dependencies because they are planned
  on lower levels; that a package does not leave the library is part of the
  model's `JobSucceeds` and `JobFails`.
- `InstallationIsBounded`, the safety part of `InstallationEnds`: two natural
  numbers, one for the planning and one for the script, and each step lessens the one
  of its phase (`Lessens`). The planning's counts the packages without a visit
  twice, the open visits and the dependencies not looked at; the script's, the
  packages without a job, the running jobs and the levels that are left.
  `JobsBehind` (no second job, no level past the last) makes them numbers.
  Planning and script then end after boundedly many steps, cyclic dependencies
  and failing jobs included; that a step is always there is left to TLC.
- about `DockerBuild`, for any tree of directories, files and owners:
  `LayersFindTheirNeeds`, `ResultDirectories`, `ImageAsHost` and `DeniedOutside`.
  `DockerfileRises` says that the layers of every Dockerfile rise in one order
  (`Rank`), whichever of them it has; with it `LayerFacts` turns "the next layer is
  l" into "exactly the lower ones are built". `ImageInv` is then, layer by layer,
  what the built ones have left (`Effects`): the user and its home, the tools of the
  base image, what the Debian and R packages bring and need and the directories of the
  results (`Things`), the host's files with their directories, the owners, the working
  directory. Each property speaks of the end of the build and needs the
  effects of several layers that later ones keep; the one lemma about `mkdir -p`
  is `MkdirFacts`.

`CurlTransferProofs`
- `CurlTransferTypeCorrect` and `KeysStayInPlace`, which are inductive together
  (`Placed`); on top of them `AskedAreAnswered`, from `AskedKept` (a round in
  which nothing is left running leaves no message unread), and
  `NoneLostWithinTheLimit`, from `FewStarted`: as long as a key waits the started
  ones are fewer than all, so the first loop goes on.

`PathLookupProofs`
- `LastMatchingHolds`: the answer depends on the shape of the trie
  (`WellFormed`: prefixes of nodes are nodes, and every node is on the way to a
  value); `insert` keeps it, so it is an invariant, and from it `LastNode` is the
  longest valued prefix exactly when there is no `Gap`.
- `TrieStores`, the refinement of `PathStore`: `insert` changes `find` at one
  path and nowhere else.
- `NamesOfTheFile`, from the comparison in `Candidates`, and `OwnersProvide`: a
  lookup never answers with a package that does not list one of the file's names.
- `OwnerIsFound`, that it finds one when there is one, and `LookupsAgree`, both
  together. `Collected` says that the work list never loses the other name of the
  path: it is in the result or still to be visited (`OnlyHit`: where the links lead
  apart only one of them fits, so the `break` loses nothing).
- `CopiesAreEqual`: a copy made with the iterator has the nodes and values of the
  trie, and counts each path with a value, as the trie itself does not always.
  `CopyInv` says that the copy lacks exactly the paths below the nodes on the stack
  (`Pending`), that no node on the stack is above another, and that the copy has
  counted right; `Counted`, that the trie counts no path twice. `InsertCounts` is the lemma about
  `insert` and `Cardinality`.

`ResolutionProofs`: `IInv` is `TypeOK` with four parts. `Resolved` says for each
file which passes it has been through and where it ended, in terms of `kind` and
`pc`; it gives `OneFate`, the refinement. `Listed` follows the entries of
`copy_files` up to the Dockerfile, before and after the editor, `Edited` says that
the archive is what they named, and gives `ArchiveChosen` and `AskedFetched`.
`Untouched` is about runs in which neither disk nor manifest changed: an entry
`Copy` is a file on the disk, and every input is in a package or has such an
entry; it gives `InputsReach` and `ThrowsExplained`. What `fault` names (R's
answer, the links of the root, a cycle, a transfer, tar, a slash) ends a run only where it
matters, which `FaultCounts` adds: a cycle needs an R package, tar a file to copy. None of the properties is
inductive alone: each speaks of the end of a pipeline whose reasons lie in the
passes before.

`OutputPipesProofs`: `IInv` is `Types` with `Conserved` (what the command wrote is
in a pipe or with r4r, per stream or, merged, in sum), `Ended` (status and write
ends agree), `Ways` (which places of r4r each use visits), `Drained` (past a
stream its pipe is empty and nobody can write) and `Remainder` (a hang-up that was
seen bounds what is left). From it `OutputComplete`, `OnlyStderrBlocks` and
`LittleLost`, for any capacity and buffer.

`PipelineProofs`: three invariants of separate parts of the state.
- `CacheInv`: every line of a cache file was written by a call with that file for
  its own image; `IgnoredInImage` follows, whatever died while it wrote, for all files
  but those of the built-in patterns.
- `TaskInv`: where a running call is, where its pointer is, and whom the handler
  of its process refers to; `SignalsFind` follows.
- `FileInv`: `Latest` (an active call is the last in its directory), `Progress`
  (which files a call is done with, by where it is), `Owners` (a part of a file is of a
  call that is at it or done with it, a whole file of one that is done), `Fresh` (what
  the last call of a directory is done with is there as a whole, or was lost in a write
  nobody checked), `Finished` (a success came to the end), and `ArtefactsMatch` itself;
  `ArtefactsStayTogether` and `SuccessFresh` follow.

Every safety property of the runs is the statement of a theorem. Only
model-checked is liveness (`RootEndReturns`, `StopsAreResumed`,
`InstallationEnds`, `RunReturns`, `CommandReturns`), which is out of the prover's
reach under fairness; of `InstallationEnds` the bound on the steps is proved
(`InstallationIsBounded`). `NoSilentSyscall` is proved without `early` and refuted with
it (`monitor_early_child`).

## 5. Not modelled

- Text: quoting in Dockerfile and Makefile, argument and JSON parsing, the parsing
  of `dpkg -l` and `installed.packages()`, logging, user data. These are
  sequential conversions with unit tests, and no state outlives them.
- Threads of the traced program: `execve` of a thread that is not the leader
  changes its pid between entry and exit; telling threads and leaders apart would
  double the state of each tracee for one call. Reuse of pids, likewise.
- The text of paths: normalisation, `..`, components that are links below the
  root.
- Modes, and users and groups of the base image that clash with the host's.
- Want of processes or descriptors: `fork` and `pipe` that fail for it.
- `TempFile` and the directories of the cache: nothing the properties tell apart
  depends on them.

What could be added next: the copy of the environment into the image (which
variables `set_environment` leaves out), threads in `SyscallMonitor`, and measures
like that of `InstallationIsBounded` for `RunReturns` and `CommandReturns`.
