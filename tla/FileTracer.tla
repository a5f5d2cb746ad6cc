------------------------------ MODULE FileTracer ------------------------------
(***************************************************************************)
(* The SyscallListener of r4r (src/src/file_tracer.h): from the entry and  *)
(* the exit of the system calls it has handlers for it collects the files  *)
(* the program used, each with whether it existed before, and the symbolic *)
(* links it read.  A file that existed before is an input to be copied     *)
(* into the image, one that did not is a result.                           *)
(*                                                                         *)
(* The listener is called as SyscallEvents promises.  It looks at the file *)
(* system itself, when it is called: the tracee that makes the call is     *)
(* stopped then, the others run on.  The file system is external: a path   *)
(* has the generation of the file that is there now, 0 when there is none. *)
(***************************************************************************)
EXTENDS Naturals, FiniteSets

CONSTANTS
    Proc,       \* the traced processes
    Path,       \* absolute paths
    Initial,    \* the paths that exist when the program starts
    Link,       \* those of them that are symbolic links
    Hidden,     \* the links to a target that the IgnoreFileMap ignores
    Special,    \* the paths of pipes, sockets and devices
    Ignored,    \* what the IgnoreFileMap ignores
    Unreadable, \* the paths for which the tracer's fs::exists fails
    Kinds,      \* the kinds of traced system calls the program makes
    Allowed,    \* what else the program does, a subset of Behaviours
    MaxGen      \* the bound on the files created at one path

(***************************************************************************)
(* open      open and openat          readlink  readlink and readlinkat    *)
(* stat      newfstatat               exec      execve                     *)
(***************************************************************************)
TracedKinds == {"open", "stat", "readlink", "exec"}

(***************************************************************************)
(*  unlink  it removes files; there is no handler for that                 *)
(*  creat   it makes files by a call without a handler (creat, rename...)  *)
(*  chdir   a thread changes the directory its siblings' calls start from  *)
(*  die     a process may be killed                                        *)
(***************************************************************************)
Behaviours == {"unlink", "creat", "chdir", "die"}

ASSUME ConstantsAssumption ==
    /\ Initial \subseteq Path
    /\ Link \subseteq Initial
    /\ Hidden \subseteq Link
    /\ Special \subseteq Path
    /\ Ignored \subseteq Path
    /\ Unreadable \subseteq Path
    /\ Kinds \subseteq TracedKinds
    /\ Allowed \subseteq Behaviours
    /\ MaxGen \in Nat \ {0}

VARIABLES
    phase,      \* where each process is with its system call (SyscallEvents)
    call,       \* the call it makes
    file,       \* the file the call succeeded on: a path and a generation
    node,       \* the generation of the file at each path, 0 if there is none
    gen,        \* the last generation created there
    state_,     \* FileTracer::state_: what the entry handler noted
    files_,     \* FileTracer::files_: existed_before of each registered path
    symlinks_,  \* the keys of FileTracer::symlinks_
    used,       \* history: the files that traced calls succeeded on
    recorded    \* history: those whose exit the listener has seen

fsVars == <<node, gen>>
listenerVars == <<state_, files_, symlinks_>>
vars == <<phase, call, file, fsVars, listenerVars, used, recorded>>

Env == INSTANCE SyscallEvents

-------------------------------------------------------------------------------
Files == Path \X (1 .. MaxGen)
NoFile == <<>>
CallsOf == [kind : TracedKinds, path : Path, create : BOOLEAN]
NoCall == [kind |-> "none"]

\* std::monostate, and a pid that is no key of state_
Nothing == [path |-> "none"]
FileInfo == [path : Path, existed_before : BOOLEAN]
Notes == FileInfo \cup {Nothing}
NoEntry == [path |-> "no entry"]

\* files_[x]: x is no key, or it is one with existed_before true or false.
Records == {"none", "existed", "new"}
registered == {x \in Path : files_[x] # "none"}

Exists(x) == node[x] # 0
IsLink(x) == x \in Link /\ node[x] = 1   \* created files are no links

TypeOK ==
    /\ phase \in [Proc -> Env!Phases]
    /\ call \in [Proc -> CallsOf \cup {NoCall}]
    /\ file \in [Proc -> Files \cup {NoFile}]
    /\ node \in [Path -> 0 .. MaxGen]
    /\ gen \in [Path -> 0 .. MaxGen]
    /\ state_ \in [Proc -> Notes \cup {NoEntry}]
    /\ files_ \in [Path -> Records]
    /\ symlinks_ \subseteq Path
    /\ used \subseteq Files
    /\ recorded \subseteq Files

Init ==
    /\ Env!Init
    /\ call = [p \in Proc |-> NoCall]
    /\ file = [p \in Proc |-> NoFile]
    /\ node = [x \in Path |-> IF x \in Initial THEN 1 ELSE 0]
    /\ gen = node
    /\ state_ = [p \in Proc |-> NoEntry]
    /\ files_ = [x \in Path |-> "none"]
    /\ symlinks_ = {}
    /\ used = {}
    /\ recorded = {}

-------------------------------------------------------------------------------
(***************************************************************************)
(* on_syscall_entry.                                                       *)
(***************************************************************************)

\* Mutant: a file that does not exist yet is not noted.
MutantExistingOnly(x) ==
    IF x \in Ignored \cup Unreadable \/ ~Exists(x)
    THEN Nothing
    ELSE [path |-> x, existed_before |-> TRUE]

\* generic_open_entry, also for newfstatat: whether the file exists is noted
\* before the kernel executes the call.
generic_open_entry(x) ==
    IF x \in Ignored \cup Unreadable
    THEN Nothing
    ELSE [path |-> x, existed_before |-> Exists(x)]

\* generic_readlink_entry and syscall_execve_entry
noted_path_entry(x) ==
    IF x \in Ignored THEN Nothing ELSE [path |-> x, existed_before |-> FALSE]

entry(c) ==
    IF c.kind \in {"open", "stat"} THEN generic_open_entry(c.path)
                                   ELSE noted_path_entry(c.path)

on_syscall_entry(p, c) ==
    /\ c.kind \in Kinds
    /\ c.create => c.kind = "open"
    /\ Env!ReportEntry(p)
    /\ state_[p] = NoEntry
    /\ call' = [call EXCEPT ![p] = c]
    /\ state_' = [state_ EXCEPT ![p] = entry(c)]
    /\ UNCHANGED <<file, fsVars, files_, symlinks_, used, recorded>>

-------------------------------------------------------------------------------
(***************************************************************************)
(* The kernel and the program (external).                                  *)
(***************************************************************************)
Living == {"user", "entered", "executed"}

\* The first process, or a child of one that lives.
Appear(p) ==
    /\ Env!Appear(p)
    /\ (\A q \in Proc : phase[q] = "none") \/ (\E q \in Proc : phase[q] \in Living)
    /\ UNCHANGED <<call, file, fsVars, listenerVars, used, recorded>>

\* The call fails, or does nothing that a handler could look at.
Fails(p) ==
    /\ file' = [file EXCEPT ![p] = NoFile]
    /\ UNCHANGED <<fsVars, used>>

\* It succeeds on the file that is at y.
SucceedsOn(p, y) ==
    /\ file' = [file EXCEPT ![p] = <<y, node[y]>>]
    /\ used' = used \cup {<<y, node[y]>>}
    /\ UNCHANGED fsVars

\* A new file is made at y.
NewFile(y) ==
    /\ ~Exists(y)
    /\ gen[y] < MaxGen
    /\ gen' = [gen EXCEPT ![y] = @ + 1]
    /\ node' = [node EXCEPT ![y] = gen[y] + 1]

Creates(p, y) ==
    /\ NewFile(y)
    /\ file' = [file EXCEPT ![p] = <<y, gen[y] + 1>>]
    /\ used' = used \cup {<<y, gen[y] + 1>>}

Possible(c, y) ==
    /\ Exists(y)
    /\ c.kind = "readlink" => IsLink(y)
    /\ c.kind = "exec" => y \notin Special

\* The path of the call leads to y: a thread with the same working directory
\* may have changed it since the entry.
Execute(p, y) ==
    LET c == call[p] IN
    /\ Env!Execute(p)
    /\ y = c.path \/ "chdir" \in Allowed
    /\ \/ Possible(c, y) /\ SucceedsOn(p, y)
       \/ ~Possible(c, y) /\ ~(c.create /\ ~Exists(y)) /\ Fails(p)
       \/ c.create /\ Creates(p, y)
    /\ UNCHANGED <<call, listenerVars, recorded>>

\* Calls without a handler.
Unlink(p, x) ==
    /\ "unlink" \in Allowed
    /\ phase[p] = "user"
    /\ Exists(x)
    /\ node' = [node EXCEPT ![x] = 0]
    /\ UNCHANGED <<phase, call, file, gen, listenerVars, used, recorded>>

Creat(p, x) ==
    /\ "creat" \in Allowed
    /\ phase[p] = "user"
    /\ NewFile(x)
    /\ UNCHANGED <<phase, call, file, listenerVars, used, recorded>>

Die(p) ==
    /\ "die" \in Allowed
    /\ Env!Die({p})
    /\ phase' # phase
    /\ UNCHANGED <<call, file, fsVars, listenerVars, used, recorded>>

-------------------------------------------------------------------------------
(***************************************************************************)
(* on_syscall_exit.                                                        *)
(***************************************************************************)

\* Mutant: existed_before is not copied into the record.
MutantAlwaysNew(x, existed) ==
    files_' = IF files_[x] = "none" THEN [files_ EXCEPT ![x] = "new"] ELSE files_

\* try_emplace: the first record of a path stays.
register_file(x, existed) ==
    files_' = IF files_[x] = "none"
              THEN [files_ EXCEPT ![x] = IF existed THEN "existed" ELSE "new"]
              ELSE files_

\* The file at the noted path is of a supported type, and still there.
Supported(x) == Exists(x) /\ x \notin Special

\* Mutant: no comparison with the descriptor.
MutantNoComparison(f, x) == TRUE

\* The descriptor leads to the same file as the noted path.
Equivalent(f, x) == f = <<x, node[x]>>

\* Mutant: whether the file existed is looked up when the call is over.
MutantLateCheck(kind, f, i) ==
    /\ IF Supported(i.path)
       THEN register_file(i.path, Exists(i.path))
       ELSE UNCHANGED files_
    /\ UNCHANGED symlinks_

\* The exit handler of a call that succeeded on file f, with FileInfo i.
exit_handler(kind, f, i) ==
    CASE kind = "open" ->
            /\ IF Supported(i.path) /\ Equivalent(f, i.path)
               THEN register_file(i.path, i.existed_before)
               ELSE UNCHANGED files_
            /\ UNCHANGED symlinks_
      [] kind = "stat" ->
            /\ IF Supported(i.path)
               THEN register_file(i.path, i.existed_before)
               ELSE UNCHANGED files_
            /\ UNCHANGED symlinks_
      [] kind = "exec" ->
            /\ register_file(i.path, TRUE)
            /\ UNCHANGED symlinks_
      [] kind = "readlink" ->
            /\ symlinks_' = IF IsLink(i.path) /\ i.path \notin Hidden
                            THEN symlinks_ \cup {i.path}
                            ELSE symlinks_
            /\ UNCHANGED files_

\* register_file calls fs::is_regular_file without an error code.  open and stat have
\* looked at the path before, and noted nothing when that failed; exec has not.
Throws(kind, i) == kind = "exec" /\ i.path \in Unreadable

\* Mutant: the exit handlers do not look at is_error.
MutantErrorsToo(p) == state_[p] \in FileInfo

ToHandle(p) == file[p] # NoFile /\ state_[p] \in FileInfo

on_syscall_exit(p) ==
    /\ Env!ReportExit(p)
    /\ ~(ToHandle(p) /\ Throws(call[p].kind, state_[p]))
    /\ state_' = [state_ EXCEPT ![p] = NoEntry]
    /\ call' = [call EXCEPT ![p] = NoCall]
    /\ file' = [file EXCEPT ![p] = NoFile]
    /\ IF ToHandle(p)
       THEN exit_handler(call[p].kind, file[p], state_[p])
       ELSE UNCHANGED <<files_, symlinks_>>
    /\ recorded' = IF file[p] = NoFile THEN recorded ELSE recorded \cup {file[p]}
    /\ UNCHANGED <<fsVars, used>>

\* The exception ends r4r, and with it all tracees.
RegisterThrows(p) ==
    /\ phase[p] = "executed"
    /\ ToHandle(p) /\ Throws(call[p].kind, state_[p])
    /\ Env!Die({q \in Proc : phase[q] \in Living})
    /\ state_' = [state_ EXCEPT ![p] = NoEntry]
    /\ UNCHANGED <<call, file, fsVars, files_, symlinks_, used, recorded>>

-------------------------------------------------------------------------------
Next ==
    \E p \in Proc :
        \/ Appear(p)
        \/ \E c \in CallsOf : on_syscall_entry(p, c)
        \/ \E y \in Path : Execute(p, y)
        \/ on_syscall_exit(p)
        \/ RegisterThrows(p)
        \/ \E x \in Path : Unlink(p, x) \/ Creat(p, x)
        \/ Die(p)

Spec == Init /\ [][Next]_vars

-------------------------------------------------------------------------------
(***************************************************************************)
(* Properties.                                                             *)
(***************************************************************************)
UsedPaths == {f[1] : f \in used}

\* The exit of an open compares the descriptor with the path the entry noted; those
\* of stat, exec and readlink register that path as it is.  A thread that changes the
\* directory between entry and execution can mislead the latter.
PathsAreKept == "chdir" \notin Allowed \/ Kinds \subseteq {"open"}

\* Nothing is registered that no traced call succeeded on: calls that fail, that
\* raced with another process, or opens that ended up at another path leave no record.
FilesWereUsed == PathsAreKept => registered \cup symlinks_ \subseteq UsedPaths \ Ignored

\* A file is only taken for a result (existed_before is false) if the traced
\* program itself created a file there.
ResultsWereCreated ==
    \A x \in Path : files_[x] = "new" => gen[x] > (IF x \in Initial THEN 1 ELSE 0)

\* A file is only taken for an input (existed_before is true) if it was there
\* before the program started.
InputsWereThere == \A x \in Path : files_[x] = "existed" => x \in Initial

\* A program's input stays an input: once a call that used the file a path had
\* at the start is over, the path is registered as existing before, whatever
\* the program does to it later.
InputsAreKept ==
    \A x \in Initial \ (Ignored \cup Unreadable \cup Special) :
        <<x, 1>> \in recorded /\ x \notin Link => files_[x] = "existed"

\* Every file a completed traced call succeeded on is registered.
UsesAreRegistered ==
    \A f \in recorded :
        f[1] \notin Ignored \cup Unreadable \cup Special \cup Hidden => f[1] \in registered \cup symlinks_

\* What the calls leave behind when they are over: register_file keeps the first
\* record, and the entry handlers note what does not exist yet as well.
RecordsAreComplete == InputsAreKept /\ UsesAreRegistered

\* The first record of a file is never changed or dropped.
FirstRecordStays ==
    [][/\ \A x \in registered : files_'[x] = files_[x]
       /\ symlinks_ \subseteq symlinks_']_vars
===============================================================================
