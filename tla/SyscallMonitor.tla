---------------------------- MODULE SyscallMonitor ----------------------------
(***************************************************************************)
(* The tracer of r4r (src/src/syscall_monitor.h): it forks the program,    *)
(* waits until it has stopped itself, and then runs one loop that takes    *)
(* each ptrace stop waitpid reports, tells the listener about system calls *)
(* and resumes the tracee with PTRACE_SYSCALL.  It ends when the root      *)
(* process ends and the two threads that forward the program's output have *)
(* seen the end of their pipes.                                            *)
(*                                                                         *)
(* The kernel side - processes, ptrace stops, signals, pipes - is external *)
(* and modelled from how the tracer uses it.  The two pipes are one here:  *)
(* `writers' are the processes that hold a write end of either.            *)
(*                                                                         *)
(* A process is in one of these states; the Stops wait for a ptrace resume *)
(*   absent      not created           inSyscall  executing call[p]        *)
(*   born        before its SIGSTOP    forkStop   PTRACE_EVENT_FORK & co.  *)
(*   sigstop     its first SIGSTOP     forked     back from that event     *)
(*   user        in user mode          exitStop   PTRACE_SYSCALL_INFO_EXIT *)
(*   signalStop  any other signal      zombie     ended, not waited for    *)
(*   entryStop   .._INFO_ENTRY         reaped     waited for               *)
(*                                     stranded   stopped, traced by nobody *)
(***************************************************************************)
EXTENDS FiniteSets, Naturals

CONSTANTS
    Proc,       \* the processes there may be
    Root,       \* the traced program, SyscallMonitor::tracee_pid_
    NoProc,     \* no process
    Allowed     \* what the environment may do, a subset of Behaviours

(***************************************************************************)
(*  early   a new process may reach a system call before the tracer has    *)
(*          seen its parent's fork event                                   *)
(*  orphan  the root may exit while its descendants run                    *)
(*  detach  a process may close its copies of the output pipes             *)
(*  stop    SyscallMonitor::stop may be called, and r4r may be ended       *)
(*  kill    a tracee may be killed from outside                            *)
(*  signal  a tracee may receive a signal other than SIGKILL               *)
(***************************************************************************)
Behaviours == {"early", "orphan", "detach", "stop", "kill", "signal"}

ASSUME ConstantsAssumption ==
    /\ Root \in Proc
    /\ NoProc \notin Proc
    /\ Allowed \subseteq Behaviours

VARIABLES
    pc,         \* where the tracer is
    cur,        \* the pid waitpid reported, handle_stop's argument
    si,         \* what PTRACE_GET_SYSCALL_INFO left in `si'
    result,     \* the Result of monitor()
    stopping,   \* stop() was called after the fork
    st,         \* the state of each process
    call,       \* the system call it is in
    kid,        \* the child of its fork event (PTRACE_GETEVENTMSG)
    reported,   \* the processes whose present stop waitpid has reported
    ending,     \* how each process ended
    writers,    \* the processes that hold a write end of the output pipes
    told,       \* the listener was told of an entry and not of its exit
    handling    \* the pids FileTracer::state_ has an entry for

tracerVars == <<pc, cur, si, result, stopping>>
kernelVars == <<st, call, kid, reported, ending, writers>>
listenerVars == <<told, handling>>
vars == <<tracerVars, kernelVars, listenerVars>>

-------------------------------------------------------------------------------
\* `file' stands for the system calls in FileTracer::kHandlers_, `fork' for the
\* calls that create a process, `exit' for exit_group.
Calls == {"file", "fork", "exit"}
Handled == {"file"}
NoCall == "none"

Stops == {"sigstop", "signalStop", "entryStop", "forkStop", "exitStop"}
Moving == {"born", "user", "inSyscall", "forked"}
States == Stops \cup Moving \cup {"absent", "zombie", "reaped", "stranded"}
Endings == {"none", "exit", "exit254", "spawnError", "signal"}

Alive(p) == st[p] \in Stops \cup Moving
Waitable(p) == st[p] = "zombie" \/ (st[p] \in Stops /\ p \notin reported)

\* The ends by std::terminate are told apart: `failed', the initial wait;
\* `refused', the system refused the listener a read; `aborted', the others.
PCs == {"idle", "initial", "setup", "wait", "event", "info", "listener",
        "resume", "join", "returned", "threw", "failed", "refused", "aborted", "exited"}
R4rGone == {"failed", "refused", "aborted", "exited"}
Ended == R4rGone \cup {"returned", "threw"}            \* start() is over
Handling == {"event", "info", "listener", "resume"}   \* in handle_stop

NoInfo == [op |-> "none", nr |-> NoCall]
Infos == [op : {"entry", "exit", "none"}, nr : Calls \cup {NoCall}]

TypeOK ==
    /\ pc \in PCs
    /\ cur \in Proc \cup {NoProc}
    /\ pc \in Handling => cur \in Proc
    /\ si \in Infos
    /\ result \in {"none", "Exit", "Signal", "Failure"}
    /\ stopping \in BOOLEAN
    /\ st \in [Proc -> States]
    /\ call \in [Proc -> Calls \cup {NoCall}]
    /\ kid \in [Proc -> Proc \cup {NoProc}]
    /\ reported \subseteq Proc
    /\ ending \in [Proc -> Endings]
    /\ writers \subseteq Proc
    /\ told \in [Proc -> BOOLEAN]
    /\ handling \subseteq Proc

Init ==
    /\ pc = "idle"
    /\ cur = NoProc
    /\ si = NoInfo
    /\ result = "none"
    /\ stopping = FALSE
    /\ st = [p \in Proc |-> "absent"]
    /\ call = [p \in Proc |-> NoCall]
    /\ kid = [p \in Proc |-> NoProc]
    /\ reported = {}
    /\ ending = [p \in Proc |-> "none"]
    /\ writers = {}
    /\ told = [p \in Proc |-> FALSE]
    /\ handling = {}

-------------------------------------------------------------------------------
(***************************************************************************)
(* The kernel and the traced program (external).                           *)
(***************************************************************************)

\* What PTRACE_SYSCALL without a signal makes of a stopped process.
Resumed(s) ==
    CASE s = "entryStop" -> "inSyscall"
      [] s = "forkStop"  -> "forked"
      [] OTHER           -> "user"

\* SyscallMonitor::trace_syscalls: ESRCH, the pid is not stopped, is ignored.
trace_syscalls(p) ==
    IF p \in Proc /\ st[p] \in Stops
    THEN /\ st' = [st EXCEPT ![p] = Resumed(@)]
         /\ reported' = reported \ {p}
         /\ kid' = [kid EXCEPT ![p] = NoProc]
         /\ call' = IF st[p] = "exitStop" THEN [call EXCEPT ![p] = NoCall] ELSE call
    ELSE UNCHANGED <<st, reported, kid, call>>

MoveTo(p, s) == st' = [st EXCEPT ![p] = s]

\* Process p ends; an exit status or a signal is left for waitpid.
End(p, how) ==
    /\ MoveTo(p, "zombie")
    /\ reported' = reported \ {p}
    /\ kid' = [kid EXCEPT ![p] = NoProc]
    /\ call' = [call EXCEPT ![p] = NoCall]
    /\ ending' = [ending EXCEPT ![p] = how]

\* The first SIGSTOP: the root's raise(SIGSTOP) in process_tracee, and the one
\* the kernel sends to each process it attaches automatically.
BirthStop(p) ==
    /\ st[p] = "born"
    /\ MoveTo(p, "sigstop")
    /\ UNCHANGED <<tracerVars, call, kid, reported, ending, writers, listenerVars>>

\* process_tracee cannot dup2 or PTRACE_TRACEME: exit(kSpawnErrorExitCode).
SpawnError ==
    /\ st[Root] = "born"
    /\ End(Root, "spawnError")
    /\ UNCHANGED <<tracerVars, writers, listenerVars>>

\* The fork event of p's parent has not been handled by handle_stop.
ForkEventPending(p) ==
    \E q \in Proc : /\ kid[q] = p
                    /\ st[q] = "forkStop"
                    /\ ~(pc = "resume" /\ cur = q)

EnterSyscall(p, c) ==
    /\ st[p] = "user"
    /\ "early" \in Allowed \/ ~ForkEventPending(p)
    /\ MoveTo(p, "entryStop")
    /\ call' = [call EXCEPT ![p] = c]
    /\ UNCHANGED <<tracerVars, kid, reported, ending, writers, listenerVars>>

\* A call that creates no process: a file call, or a fork that fails.
ExecuteCall(p) ==
    /\ st[p] = "inSyscall"
    /\ call[p] # "exit"
    /\ MoveTo(p, "exitStop")
    /\ UNCHANGED <<tracerVars, call, kid, reported, ending, writers, listenerVars>>

\* fork, vfork or clone: the child is traced from birth and inherits the pipes.
ExecuteFork(p, c) ==
    /\ st[p] = "inSyscall"
    /\ call[p] = "fork"
    /\ st[c] = "absent"
    /\ c # Root
    /\ st' = [st EXCEPT ![p] = "forkStop", ![c] = "born"]
    /\ kid' = [kid EXCEPT ![p] = c]
    /\ writers' = IF p \in writers THEN writers \cup {c} ELSE writers
    /\ UNCHANGED <<tracerVars, call, reported, ending, listenerVars>>

FinishFork(p) ==
    /\ st[p] = "forked"
    /\ MoveTo(p, "exitStop")
    /\ UNCHANGED <<tracerVars, call, kid, reported, ending, writers, listenerVars>>

\* exit_group, also called by the tracee when execvp failed (spawn_process).
\* The tracer looks at the exit status of the root only.
ExecuteExit(p, how) ==
    /\ st[p] = "inSyscall"
    /\ call[p] = "exit"
    /\ how # "exit" => p = Root
    /\ how = "spawnError" => \A q \in Proc \ {Root} : st[q] = "absent"
    /\ p = Root /\ "orphan" \notin Allowed => \A q \in Proc \ {Root} : ~Alive(q)
    /\ End(p, how)
    /\ UNCHANGED <<tracerVars, writers, listenerVars>>

Detach(p) ==
    /\ "detach" \in Allowed
    /\ st[p] = "user"
    /\ p \in writers
    /\ writers' = writers \ {p}
    /\ UNCHANGED <<tracerVars, st, call, kid, reported, ending, listenerVars>>

\* A signal stops a tracee; the root may get one before its own SIGSTOP.
SignalStop(p) ==
    /\ "signal" \in Allowed
    /\ st[p] = "user" \/ (p = Root /\ st[p] = "born")
    /\ MoveTo(p, "signalStop")
    /\ UNCHANGED <<tracerVars, call, kid, reported, ending, writers, listenerVars>>

\* SIGKILL from outside.
Kill(p) ==
    /\ "kill" \in Allowed
    /\ Alive(p)
    /\ End(p, "signal")
    /\ UNCHANGED <<tracerVars, writers, listenerVars>>

\* PTRACE_O_EXITKILL, when r4r has gone after it has set the options: descendants
\* of the root inherit them.
ExitKill ==
    /\ pc \in R4rGone \ {"failed"}
    /\ \E p \in Proc : Alive(p)
    /\ st' = [p \in Proc |-> IF Alive(p) THEN "zombie" ELSE st[p]]
    /\ ending' = [p \in Proc |-> IF Alive(p) THEN "signal" ELSE ending[p]]
    /\ reported' = {}
    /\ kid' = [p \in Proc |-> NoProc]
    /\ call' = [p \in Proc |-> NoCall]
    /\ UNCHANGED <<tracerVars, writers, listenerVars>>

\* Without the options the kernel lets the root go.  The SIGSTOP it is in, or will
\* raise, stops it, and nobody sends it a SIGCONT; another signal may end it, and
\* so may a dup2 that fails.
LetGo ==
    /\ pc = "failed"
    /\ Alive(Root)
    /\ \/ /\ MoveTo(Root, "stranded")
          /\ reported' = reported \ {Root}
          /\ UNCHANGED <<call, kid, ending>>
       \/ /\ st[Root] \in {"born", "signalStop"}
          /\ \E how \in {"spawnError", "signal"} : End(Root, how)
    /\ UNCHANGED <<tracerVars, writers, listenerVars>>

KernelStep(p) ==
    /\ pc \notin R4rGone
    /\ \/ BirthStop(p)
       \/ ExecuteCall(p)
       \/ \E c \in Proc : ExecuteFork(p, c)
       \/ FinishFork(p)
       \/ \E how \in {"exit", "exit254", "spawnError"} : ExecuteExit(p, how)

ProgramStep(p) ==
    /\ pc \notin R4rGone
    /\ \/ \E c \in Calls : EnterSyscall(p, c)
       \/ Detach(p)
       \/ SignalStop(p)
       \/ Kill(p)
       \/ p = Root /\ SpawnError

-------------------------------------------------------------------------------
(***************************************************************************)
(* SyscallMonitor::start, process_tracer and wait_for_initial_stop.        *)
(***************************************************************************)
GoTo(l) == pc' = l

start ==
    /\ pc = "idle"
    /\ GoTo("initial")
    /\ MoveTo(Root, "born")
    /\ writers' = {Root}
    /\ UNCHANGED <<cur, si, result, stopping, call, kid, reported, ending, listenerVars>>

\* fork fails before there is a thread: the exception leaves start().
StartFails ==
    /\ pc = "idle"
    /\ GoTo("threw")
    /\ UNCHANGED <<cur, si, result, stopping, kernelVars, listenerVars>>

\* A stop with another signal is taken from waitpid and not resumed.
InitialPoll ==
    /\ pc = "initial"
    /\ Waitable(Root)
    /\ st[Root] \in Stops
    /\ reported' = reported \cup {Root}
    /\ IF st[Root] = "sigstop" THEN GoTo("setup") ELSE UNCHANGED pc
    /\ UNCHANGED <<cur, si, result, stopping, st, call, kid, ending, writers, listenerVars>>

\* The exception meets two joinable threads on its way out: std::terminate.
InitialEnd ==
    /\ pc = "initial"
    /\ st[Root] = "zombie"
    /\ MoveTo(Root, "reaped")
    /\ GoTo("failed")
    /\ UNCHANGED <<cur, si, result, stopping, call, kid, reported, ending, writers, listenerVars>>

\* 10 ms have passed since the last poll that found nothing.
InitialTimeout ==
    /\ pc = "initial"
    /\ st[Root] # "zombie"
    /\ GoTo("failed")
    /\ UNCHANGED <<cur, si, result, stopping, kernelVars, listenerVars>>

Setup ==
    /\ pc = "setup"
    /\ trace_syscalls(Root)
    /\ GoTo("wait")
    /\ UNCHANGED <<cur, si, result, stopping, ending, writers, listenerVars>>

-------------------------------------------------------------------------------
(***************************************************************************)
(* SyscallMonitor::monitor and handle_stop.                                *)
(***************************************************************************)

\* Mutant: without PTRACE_O_TRACESYSGOOD system call stops are not recognised.
MutantNoSysGood(p) ==
    /\ pc = "wait"
    /\ Waitable(p)
    /\ st[p] \in Stops
    /\ reported' = reported \cup {p}
    /\ cur' = p
    /\ GoTo(IF st[p] = "forkStop" THEN "event" ELSE "resume")
    /\ UNCHANGED <<si, result, stopping, st, call, kid, ending, writers, listenerVars>>

\* waitpid(-1, &status, __WALL) reports a stop of p.
WaitStop(p) ==
    /\ pc = "wait"
    /\ Waitable(p)
    /\ st[p] \in Stops
    /\ reported' = reported \cup {p}
    /\ cur' = p
    /\ GoTo(CASE st[p] = "forkStop"                 -> "event"
              [] st[p] \in {"entryStop", "exitStop"} -> "info"
              [] OTHER                               -> "resume")
    /\ UNCHANGED <<si, result, stopping, st, call, kid, ending, writers, listenerVars>>

ResultOf(how) ==
    CASE how = "signal"                   -> "Signal"
      [] how \in {"exit254", "spawnError"} -> "Failure"
      [] OTHER                             -> "Exit"

\* Mutant: the loop ends with any process.
MutantAnyEnd(p) ==
    /\ pc = "wait"
    /\ st[p] = "zombie"
    /\ MoveTo(p, "reaped")
    /\ GoTo("join")
    /\ result' = ResultOf(ending[p])
    /\ UNCHANGED <<cur, si, stopping, call, kid, reported, ending, writers, listenerVars>>

\* Mutant: the loop goes on after a root that ended with the spawn error code.
MutantGoesOn(p) ==
    /\ pc = "wait"
    /\ st[p] = "zombie"
    /\ MoveTo(p, "reaped")
    /\ IF p = Root /\ ResultOf(ending[p]) # "Failure"
       THEN GoTo("join") /\ result' = ResultOf(ending[p])
       ELSE UNCHANGED <<pc, result>>
    /\ UNCHANGED <<cur, si, stopping, call, kid, reported, ending, writers, listenerVars>>

\* waitpid reports the end of p; the loop ends with the root only.
WaitEnd(p) ==
    /\ pc = "wait"
    /\ st[p] = "zombie"
    /\ MoveTo(p, "reaped")
    /\ IF p = Root
       THEN GoTo("join") /\ result' = ResultOf(ending[p])
       ELSE UNCHANGED <<pc, result>>
    /\ UNCHANGED <<cur, si, stopping, call, kid, reported, ending, writers, listenerVars>>

\* The new child is resumed, whatever it is stopped for; a parent that was
\* killed has no event message, and pid 0 is nobody to resume.
HandleForkEvent ==
    /\ pc = "event"
    /\ IF st[cur] = "forkStop"
       THEN trace_syscalls(kid[cur])
       ELSE UNCHANGED <<st, reported, kid, call>>
    /\ GoTo("resume")
    /\ UNCHANGED <<cur, si, result, stopping, ending, writers, listenerVars>>

\* PTRACE_GET_SYSCALL_INFO; when it fails `si' stays uninitialized.
GetSyscallInfo ==
    /\ pc = "info"
    /\ si' \in CASE st[cur] = "entryStop" -> {[op |-> "entry", nr |-> call[cur]]}
                 [] st[cur] = "exitStop"  -> {[op |-> "exit", nr |-> call[cur]]}
                 [] OTHER                 -> Infos
    /\ GoTo("listener")
    /\ UNCHANGED <<cur, result, stopping, kernelVars, listenerVars>>

\* on_syscall_entry; calls without a handler are counted only.
ListenerEntry ==
    /\ pc = "listener"
    /\ si.op = "entry"
    /\ told' = [told EXCEPT ![cur] = TRUE]
    /\ \/ /\ si.nr \in Handled => Alive(cur) /\ cur \notin handling
          /\ handling' = IF si.nr \in Handled THEN handling \cup {cur} ELSE handling
          /\ GoTo("resume")
       \/ /\ si.nr \in Handled
          /\ ~Alive(cur) \/ cur \in handling
          /\ GoTo("aborted")
          /\ UNCHANGED handling
    /\ UNCHANGED <<cur, si, result, stopping, kernelVars>>

\* The handler of a file call reads the path from the tracee.  That fails for a
\* tracee that has been killed (above), and the system may refuse it for a living
\* one (EPERM, EIO).  Nobody catches the exception before the threads are destroyed.
EntryRefused ==
    /\ pc = "listener"
    /\ si.op = "entry"
    /\ si.nr \in Handled
    /\ told' = [told EXCEPT ![cur] = TRUE]
    /\ GoTo("refused")
    /\ UNCHANGED <<cur, si, result, stopping, kernelVars, handling>>

\* Mutant: the entry of the pid stays in state_ (find in place of extract).
MutantEntryStays ==
    /\ pc = "listener"
    /\ si.op = "exit"
    /\ told' = [told EXCEPT ![cur] = FALSE]
    /\ GoTo("resume")
    /\ UNCHANGED <<cur, si, result, stopping, kernelVars, handling>>

\* on_syscall_exit; a pid without an entry is ignored.
ListenerExit ==
    /\ pc = "listener"
    /\ si.op = "exit"
    /\ told' = [told EXCEPT ![cur] = FALSE]
    /\ handling' = handling \ {cur}
    /\ GoTo("resume")
    /\ UNCHANGED <<cur, si, result, stopping, kernelVars>>

\* register_file looks at the file with fs::is_regular_file, which throws when the
\* system does not let it.
ExitRefused ==
    /\ pc = "listener"
    /\ si.op = "exit"
    /\ cur \in handling
    /\ told' = [told EXCEPT ![cur] = FALSE]
    /\ handling' = handling \ {cur}
    /\ GoTo("refused")
    /\ UNCHANGED <<cur, si, result, stopping, kernelVars>>

\* Neither an entry nor an exit.
ListenerSkipped ==
    /\ pc = "listener"
    /\ si.op = "none"
    /\ GoTo("resume")
    /\ UNCHANGED <<cur, si, result, stopping, kernelVars, listenerVars>>

\* Mutant: handle_stop returns early on a stop with an ordinary signal.
MutantSignalNotResumed ==
    /\ pc = "resume"
    /\ IF st[cur] = "signalStop"
       THEN UNCHANGED <<st, reported, kid, call>>
       ELSE trace_syscalls(cur)
    /\ cur' = NoProc
    /\ si' = NoInfo
    /\ GoTo("wait")
    /\ UNCHANGED <<result, stopping, ending, writers, listenerVars>>

\* The last line of handle_stop.
ResumeStopped ==
    /\ pc = "resume"
    /\ trace_syscalls(cur)
    /\ cur' = NoProc
    /\ si' = NoInfo
    /\ GoTo("wait")
    /\ UNCHANGED <<result, stopping, ending, writers, listenerVars>>

\* Each forwarding thread ends when the last write end of its pipe is closed.
Join ==
    /\ pc = "join"
    /\ \A p \in writers : ~Alive(p)
    /\ GoTo("returned")
    /\ UNCHANGED <<cur, si, result, stopping, kernelVars, listenerVars>>

\* SyscallMonitor::stop from the SIGINT handler; before the fork and after the
\* return there is no tracee_pid_ or no monitor_ and it does nothing.
stop ==
    /\ "stop" \in Allowed
    /\ pc \notin Ended \cup {"idle"}
    /\ ~stopping
    /\ stopping' = TRUE
    /\ IF Alive(Root) THEN End(Root, "signal") ELSE UNCHANGED <<st, reported, kid, call, ending>>
    /\ UNCHANGED <<pc, cur, si, result, writers, listenerVars>>

\* SIGTERM: stop() and exit(1); a second SIGINT: exit(1).
ExitR4r ==
    /\ "stop" \in Allowed
    /\ pc \notin Ended
    /\ GoTo("exited")
    /\ IF Alive(Root) THEN End(Root, "signal") ELSE UNCHANGED <<st, reported, kid, call, ending>>
    /\ UNCHANGED <<cur, si, result, stopping, writers, listenerVars>>

-------------------------------------------------------------------------------
TracerStep ==
    \/ start
    \/ StartFails
    \/ InitialPoll
    \/ InitialEnd
    \/ InitialTimeout
    \/ Setup
    \/ \E p \in Proc : WaitStop(p) \/ WaitEnd(p)
    \/ HandleForkEvent
    \/ GetSyscallInfo
    \/ ListenerEntry \/ EntryRefused
    \/ ListenerExit \/ ExitRefused
    \/ ListenerSkipped
    \/ ResumeStopped
    \/ Join

Next ==
    \/ TracerStep
    \/ stop
    \/ ExitR4r
    \/ ExitKill \/ LetGo
    \/ \E p \in Proc : KernelStep(p) \/ ProgramStep(p)

Spec == Init /\ [][Next]_vars

\* Threads and processes that can run do run, r4r never leaves a stop it could
\* take from waitpid aside for ever, and the kernel lets or kills what r4r leaves.  How
\* long the program runs, and whether it is stopped or killed, is left open.
Fairness ==
    /\ WF_vars(TracerStep)
    /\ \A p \in Proc : /\ WF_vars(KernelStep(p))
                       /\ SF_vars(WaitStop(p))
    /\ WF_vars(ExitKill \/ LetGo)

FairSpec == Spec /\ Fairness

-------------------------------------------------------------------------------
(***************************************************************************)
(* Safety.                                                                 *)
(***************************************************************************)

\* Whenever the tracer blocks in waitpid it has resumed every stop it was told
\* of: handle_stop ends in trace_syscalls on each of its paths, and no tracee
\* is left stopped with nobody to wake it.
NoTraceeForgotten ==
    pc = "wait" => \A p \in reported : st[p] \notin Stops

\* waitpid never fails with ECHILD, as the comment in monitor() claims: while
\* the loop runs the root has not been waited for.
SomeoneToWaitFor ==
    pc \in {"wait"} \cup Handling =>
        st[Root] \notin {"absent", "reaped"}

\* No tracee executes a system call that the listener was not told of.
NoSilentSyscall ==
    \A p \in Proc :
        st[p] \in {"inSyscall", "forkStop", "forked"} => told[p]

\* on_syscall_entry never finds an entry of the same pid in FileTracer::state_,
\* so its exception is never thrown for a living tracee.
HandlerSlotFree ==
    pc = "listener" /\ si.op = "entry" /\ Alive(cur) => cur \notin handling

\* start() returns how the root ended and never how a descendant did, and it
\* has read the program's output to the end by then.
ResultIsRootEnd ==
    pc = "returned" =>
        /\ st[Root] = "reaped"
        /\ (result = "Exit") <=> (ending[Root] = "exit")
        /\ (result = "Signal") <=> (ending[Root] = "signal")
        /\ \A p \in writers : ~Alive(p)

\* Once the root has been set up no exception ends r4r because tracer, listener and
\* kernel disagree about a living tracee: there is never a second entry for its pid,
\* whatever has come between.  It ends for a tracee killed under the listener's hands, or
\* for a read that the system refuses (EntryRefused, ExitRefused).
AbortsForTheDeadOnly == [][pc' = "aborted" => pc = "aborted" \/ ~Alive(cur)]_vars

-------------------------------------------------------------------------------
(***************************************************************************)
(* Why the safety properties hold when "early" is not allowed: the         *)
(* inductive invariant of SyscallMonitorProofs.                            *)
(***************************************************************************)
\* The stop handle_stop works on stays what waitpid reported, unless the tracee
\* is killed, and no other tracee is kept in a reported stop.
CurrentStop ==
    /\ reported \subseteq {p \in Proc : st[p] \in Stops}
    /\ pc \in {"wait", "join", "returned"} => reported = {}
    /\ pc \in {"initial", "setup"} => reported \subseteq {Root}
    /\ pc \in Handling =>
          /\ reported \subseteq {cur}
          /\ cur \in reported \/ st[cur] = "zombie"
    /\ pc = "event" /\ cur \in reported => st[cur] = "forkStop"
    /\ pc \in {"info", "listener"} /\ cur \in reported =>
          st[cur] \in {"entryStop", "exitStop"}
    /\ pc = "listener" /\ cur \in reported =>
          si = [op |-> IF st[cur] = "entryStop" THEN "entry" ELSE "exit", nr |-> call[cur]]

\* The listener's view of a living tracee is that of the kernel.
TruthfulListener ==
    \A p \in Proc :
        /\ st[p] \in {"absent", "born", "sigstop", "user", "signalStop"} => ~told[p]
        /\ st[p] \in {"inSyscall", "forkStop", "forked"} => told[p]
        /\ pc \notin R4rGone =>
              /\ st[p] = "entryStop" => (told[p] <=> (pc = "resume" /\ cur = p))
              /\ st[p] = "exitStop" => (told[p] <=> ~(pc = "resume" /\ cur = p))

\* FileTracer::state_ has an entry for a living tracee only during its call.
EntriesInCall ==
    \A p \in handling : st[p] \notin {"zombie", "reaped"} => told[p]

\* A child whose fork event is still to come has made no system call.
NewbornsWait ==
    \A q \in Proc :
        pc \notin R4rGone /\ st[q] = "forkStop" /\ ~(pc = "resume" /\ cur = q) =>
            /\ kid[q] \in Proc
            /\ st[kid[q]] \in {"born", "sigstop", "user", "signalStop", "zombie", "reaped"}

RootKnown ==
    /\ pc \in {"idle", "threw"} => \A p \in Proc : st[p] = "absent"
    /\ pc \in {"initial", "setup"} => st[Root] \in {"born", "sigstop", "signalStop", "zombie"}
    /\ pc = "failed" => st[Root] \in {"born", "sigstop", "signalStop", "zombie", "reaped",
                                       "stranded"}
    /\ pc \in {"wait"} \cup Handling => st[Root] \notin {"absent", "reaped"}
    /\ pc \in {"join", "returned"} => st[Root] = "reaped"

\* The tracer and the listener agree with the kernel about every process: the
\* inductive invariant behind NoSilentSyscall, HandlerSlotFree and the others.
TracerAgrees ==
    /\ CurrentStop
    /\ TruthfulListener
    /\ EntriesInCall
    /\ NewbornsWait
    /\ RootKnown

-------------------------------------------------------------------------------
(***************************************************************************)
(* Refinement: what the listener is told is a behaviour of SyscallEvents.  *)
(***************************************************************************)
BetweenCalls == {"born", "sigstop", "user", "signalStop", "entryStop", "exitStop"}

Phase(p) ==
    CASE st[p] = "absent"                                         -> "none"
      [] st[p] \in {"zombie", "reaped", "stranded"}               -> "gone"
      [] told[p] /\ st[p] \in {"entryStop", "inSyscall"}          -> "entered"
      [] told[p] /\ st[p] \in {"forkStop", "forked", "exitStop"}  -> "executed"
      [] ~told[p] /\ st[p] \in BetweenCalls                       -> "user"
      [] OTHER                                                    -> "lost"

Events == INSTANCE SyscallEvents WITH phase <- [p \in Proc |-> Phase(p)]

\* Each system call of each tracee is announced before it is executed and again
\* before the tracee runs on, exactly once.
AnnouncesEverySyscall == Events!Spec

-------------------------------------------------------------------------------
(***************************************************************************)
(* Liveness.                                                               *)
(***************************************************************************)

\* When the program is over, start() is over too: the loop sees the end of the
\* root and both forwarding threads see the end of their pipes.
RootEndReturns == (st[Root] = "zombie") ~> (pc \in Ended)

\* A stopped tracee is resumed, or dies, also when r4r ends.  The exception is a
\* failed start: the root then has no PTRACE_O_EXITKILL yet and stays behind.
StopsAreResumed ==
    \A p \in Proc :
        (st[p] \in Stops) ~> (st[p] \notin Stops \cup {"stranded"} \/ pc = "failed")

===============================================================================
