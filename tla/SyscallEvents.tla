---------------------------- MODULE SyscallEvents ----------------------------
(***************************************************************************)
(* What a SyscallListener (src/src/syscall_monitor.h:25-32) may rely on:   *)
(* every system call a traced process executes is announced to it once by  *)
(* on_syscall_entry before the kernel executes it, and once by             *)
(* on_syscall_exit after it did and before the process runs on.  A process *)
(* may die between any two of these steps, or be let go by the tracer, and  *)
(* then says nothing more.                                                 *)
(***************************************************************************)
CONSTANT Proc

VARIABLE phase

Phases == {"none", "user", "entered", "executed", "gone"}

Init == phase = [p \in Proc |-> "none"]

\* A process comes under the tracer's control.
Appear(p) ==
    /\ phase[p] = "none"
    /\ phase' = [phase EXCEPT ![p] = "user"]

\* SyscallListener::on_syscall_entry
ReportEntry(p) ==
    /\ phase[p] = "user"
    /\ phase' = [phase EXCEPT ![p] = "entered"]

\* The kernel executes the system call that was announced.
Execute(p) ==
    /\ phase[p] = "entered"
    /\ phase' = [phase EXCEPT ![p] = "executed"]

\* The same, for a call that creates process c.
ExecuteFork(p, c) ==
    /\ phase[p] = "entered"
    /\ phase[c] = "none"
    /\ phase' = [phase EXCEPT ![p] = "executed", ![c] = "user"]

\* SyscallListener::on_syscall_exit
ReportExit(p) ==
    /\ phase[p] = "executed"
    /\ phase' = [phase EXCEPT ![p] = "user"]

\* Processes die; all of them at once when the tracer goes.
Die(S) ==
    /\ \A p \in S : phase[p] \in {"user", "entered", "executed"}
    /\ phase' = [p \in Proc |-> IF p \in S THEN "gone" ELSE phase[p]]

Next ==
    \/ \E p \in Proc :
        \/ Appear(p)
        \/ ReportEntry(p)
        \/ Execute(p)
        \/ \E c \in Proc : ExecuteFork(p, c)
        \/ ReportExit(p)
    \/ \E S \in SUBSET Proc : Die(S)

Spec == Init /\ [][Next]_phase
==============================================================================
