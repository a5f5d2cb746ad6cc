------------------------- MODULE SyscallMonitorProofs -------------------------
(***************************************************************************)
(* Proofs about SyscallMonitor, for any number of processes.               *)
(***************************************************************************)
EXTENDS SyscallMonitor, TLAPS

\* What an action that ends process p, or resumes it, does to the type.
LEMMA EndType ==
    ASSUME TypeOK, NEW p \in Proc, NEW how \in Endings, End(p, how)
    PROVE  /\ st' \in [Proc -> States]
           /\ call' \in [Proc -> Calls \cup {NoCall}]
           /\ kid' \in [Proc -> Proc \cup {NoProc}]
           /\ reported' \subseteq Proc
           /\ ending' \in [Proc -> Endings]
BY DEF TypeOK, End, MoveTo, States

\* trace_syscalls keeps the types of what it changes.
LEMMA ResumeType ==
    ASSUME TypeOK, NEW p, trace_syscalls(p)
    PROVE  /\ st' \in [Proc -> States]
           /\ call' \in [Proc -> Calls \cup {NoCall}]
           /\ kid' \in [Proc -> Proc \cup {NoProc}]
           /\ reported' \subseteq Proc
<1>1. CASE p \in Proc /\ st[p] \in Stops
  <2>1. Resumed(st[p]) \in Moving
    BY <1>1 DEF Resumed, Moving
  <2>2. QED
    BY <1>1, <2>1 DEF TypeOK, trace_syscalls, States
<1>2. CASE ~(p \in Proc /\ st[p] \in Stops)
  BY <1>2 DEF TypeOK, trace_syscalls
<1>3. QED
  BY <1>1, <1>2

\* Every variable keeps its type.
THEOREM TypeCorrect == Spec => []TypeOK
<1>1. Init => TypeOK
  <2> SUFFICES ASSUME Init PROVE TypeOK
    OBVIOUS
  <2>1. NoInfo \in Infos
    BY DEF NoInfo, Infos
  <2>2. st \in [Proc -> States]
    BY DEF Init, States
  <2>3. call \in [Proc -> Calls \cup {NoCall}] /\ kid \in [Proc -> Proc \cup {NoProc}]
    BY DEF Init
  <2>4. ending \in [Proc -> Endings] /\ told \in [Proc -> BOOLEAN]
    BY DEF Init, Endings
  <2>5. QED
    BY <2>1, <2>2, <2>3, <2>4 DEF Init, TypeOK, PCs, Handling
<1>2. TypeOK /\ [Next]_vars => TypeOK'
  <2> SUFFICES ASSUME TypeOK, [Next]_vars PROVE TypeOK'
    OBVIOUS
  <2> USE ConstantsAssumption
  <2>1. ASSUME TracerStep PROVE TypeOK'
    <3> USE DEF GoTo, PCs, Handling, States
    <3>1. CASE start
      BY <3>1 DEF start, MoveTo, TypeOK, listenerVars, Moving
    <3>2. CASE StartFails
      BY <3>2 DEF StartFails, TypeOK, kernelVars, listenerVars
    <3>3. CASE InitialPoll
      BY <3>3 DEF InitialPoll, TypeOK, listenerVars
    <3>4. CASE InitialEnd
      BY <3>4 DEF InitialEnd, MoveTo, TypeOK, listenerVars
    <3>5. CASE InitialTimeout
      BY <3>5 DEF InitialTimeout, TypeOK, kernelVars, listenerVars
    <3>6. CASE Setup
      BY <3>6, ResumeType DEF Setup, TypeOK, listenerVars
    <3>7. ASSUME NEW p \in Proc, WaitStop(p) PROVE TypeOK'
      BY <3>7 DEF WaitStop, TypeOK, listenerVars
    <3>8. ASSUME NEW p \in Proc, WaitEnd(p) PROVE TypeOK'
      BY <3>8 DEF WaitEnd, MoveTo, ResultOf, TypeOK, listenerVars
    <3>9. CASE HandleForkEvent
      BY <3>9, ResumeType DEF HandleForkEvent, TypeOK, listenerVars
    <3>10. CASE GetSyscallInfo
      <4>1. call[cur] \in Calls \cup {NoCall}
        BY <3>10 DEF GetSyscallInfo, TypeOK
      <4>2. si' \in Infos
        BY <3>10, <4>1 DEF GetSyscallInfo, Infos
      <4>3. QED
        BY <3>10, <4>2 DEF GetSyscallInfo, TypeOK, kernelVars, listenerVars
    <3>11. CASE ListenerEntry
      <4>1. told' \in [Proc -> BOOLEAN]
        BY <3>11 DEF ListenerEntry, TypeOK
      <4>2. handling' \subseteq Proc
        BY <3>11 DEF ListenerEntry, TypeOK
      <4>3. pc' \in PCs
        BY <3>11 DEF ListenerEntry
      <4>4. QED
        BY <3>11, <4>1, <4>2, <4>3 DEF ListenerEntry, TypeOK, kernelVars
    <3>12. CASE ListenerExit
      <4>1. told' \in [Proc -> BOOLEAN]
        BY <3>12 DEF ListenerExit, TypeOK
      <4>2. QED
        BY <3>12, <4>1 DEF ListenerExit, TypeOK, kernelVars
    <3>13. CASE ListenerSkipped
      BY <3>13 DEF ListenerSkipped, TypeOK, kernelVars, listenerVars
    <3>14. CASE ResumeStopped
      BY <3>14, ResumeType DEF ResumeStopped, TypeOK, NoInfo, Infos, listenerVars
    <3>15. CASE Join
      BY <3>15 DEF Join, TypeOK, kernelVars, listenerVars
    <3>16. CASE EntryRefused \/ ExitRefused
      <4>1. told' \in [Proc -> BOOLEAN]
        BY <3>16 DEF EntryRefused, ExitRefused, TypeOK
      <4>2. QED
        BY <3>16, <4>1 DEF EntryRefused, ExitRefused, TypeOK, kernelVars
    <3>17. QED
      BY <2>1, <3>1, <3>2, <3>3, <3>4, <3>5, <3>6, <3>7, <3>8, <3>9, <3>10, <3>11,
         <3>12, <3>13, <3>14, <3>15, <3>16 DEF TracerStep
  <2>2. CASE stop
    BY <2>2, EndType DEF stop, TypeOK, Endings, listenerVars
  <2>3. CASE ExitR4r
    BY <2>3, EndType DEF ExitR4r, GoTo, PCs, Handling, TypeOK, Endings, listenerVars
  <2>4. CASE ExitKill
    BY <2>4 DEF ExitKill, TypeOK, Endings, States, tracerVars, listenerVars
  <2>5. ASSUME NEW p \in Proc, KernelStep(p) PROVE TypeOK'
    <3> USE DEF tracerVars, listenerVars, MoveTo, Stops, Moving, States
    <3>1. CASE BirthStop(p)
      BY <3>1 DEF BirthStop, TypeOK
    <3>2. CASE ExecuteCall(p)
      BY <3>2 DEF ExecuteCall, TypeOK
    <3>3. ASSUME NEW c \in Proc, ExecuteFork(p, c) PROVE TypeOK'
      BY <3>3 DEF ExecuteFork, TypeOK
    <3>4. CASE FinishFork(p)
      BY <3>4 DEF FinishFork, TypeOK
    <3>5. ASSUME NEW how \in {"exit", "exit254", "spawnError"}, ExecuteExit(p, how)
          PROVE  TypeOK'
      BY <3>5, EndType DEF ExecuteExit, Endings, TypeOK
    <3>6. QED
      BY <2>5, <3>1, <3>2, <3>3, <3>4, <3>5 DEF KernelStep
  <2>6. ASSUME NEW p \in Proc, ProgramStep(p) PROVE TypeOK'
    <3> USE DEF tracerVars, listenerVars, MoveTo, Stops, Moving, States
    <3>1. ASSUME NEW c \in Calls, EnterSyscall(p, c) PROVE TypeOK'
      BY <3>1 DEF EnterSyscall, TypeOK
    <3>2. CASE Detach(p)
      BY <3>2 DEF Detach, TypeOK
    <3>3. CASE SignalStop(p)
      BY <3>3 DEF SignalStop, TypeOK
    <3>4. CASE Kill(p)
      BY <3>4, EndType DEF Kill, Endings, TypeOK
    <3>5. CASE SpawnError
      BY <3>5, EndType DEF SpawnError, Endings, TypeOK
    <3>6. QED
      BY <2>6, <3>1, <3>2, <3>3, <3>4, <3>5 DEF ProgramStep
  <2>7. CASE UNCHANGED vars
    BY <2>7 DEF vars, tracerVars, kernelVars, listenerVars, TypeOK
  <2>8. CASE LetGo
    <3>1. ASSUME NEW how \in {"spawnError", "signal"}, End(Root, how) PROVE TypeOK'
      BY <2>8, <3>1, EndType DEF LetGo, Endings, TypeOK, tracerVars, listenerVars
    <3>2. CASE MoveTo(Root, "stranded") /\ reported' \subseteq reported
               /\ UNCHANGED <<call, kid, ending>>
      BY <2>8, <3>2 DEF LetGo, MoveTo, TypeOK, States, tracerVars, listenerVars
    <3>3. QED
      BY <2>8, <3>1, <3>2 DEF LetGo
  <2>9. QED
    BY <2>1, <2>2, <2>3, <2>4, <2>5, <2>6, <2>7, <2>8 DEF Next
<1>3. QED
  BY <1>1, <1>2, PTL DEF Spec

-------------------------------------------------------------------------------
\* The effects of the shared operators, in the form the invariant proof uses.
LEMMA EndEffect ==
    ASSUME TypeOK, NEW p \in Proc, NEW how, End(p, how)
    PROVE  /\ st'[p] = "zombie"
           /\ \A q \in Proc : q # p => st'[q] = st[q] /\ kid'[q] = kid[q] /\ call'[q] = call[q]
           /\ reported' = reported \ {p}
BY DEF TypeOK, End, MoveTo

\* The invariant is preserved when a living process ends.
LEMMA EndAgrees ==
    ASSUME TypeOK, TracerAgrees, NEW p \in Proc, Alive(p), NEW how, End(p, how),
           UNCHANGED <<pc, cur, si, told, handling>>
    PROVE  TracerAgrees'
<1> USE DEF TypeOK, TracerAgrees, Stops, Moving, Alive, Handling, R4rGone
<1>1. CurrentStop'
  BY EndEffect DEF CurrentStop
<1>2. TruthfulListener'
  BY EndEffect DEF TruthfulListener
<1>3. EntriesInCall'
  BY EndEffect DEF EntriesInCall
<1>4. NewbornsWait'
  BY EndEffect DEF NewbornsWait
<1>5. RootKnown'
  BY EndEffect, ConstantsAssumption DEF RootKnown
<1>6. QED
  BY <1>1, <1>2, <1>3, <1>4, <1>5

\* Resuming a stopped process changes that process alone.
LEMMA ResumeEffect ==
    ASSUME TypeOK, NEW p \in Proc, st[p] \in Stops, trace_syscalls(p)
    PROVE  /\ st'[p] = Resumed(st[p])
           /\ kid'[p] = NoProc
           /\ \A q \in Proc : q # p => st'[q] = st[q] /\ kid'[q] = kid[q] /\ call'[q] = call[q]
           /\ reported' = reported \ {p}
BY DEF TypeOK, trace_syscalls

\* trace_syscalls of a process that is not stopped (ESRCH) changes nothing.
LEMMA NoResumeEffect ==
    ASSUME NEW p, ~(p \in Proc /\ st[p] \in Stops), trace_syscalls(p)
    PROVE  UNCHANGED <<st, reported, kid, call>>
BY DEF trace_syscalls

\* The steps of the tracer preserve the invariant.
LEMMA TracerStepAgrees ==
    ASSUME TypeOK, TracerAgrees, TracerStep, "early" \notin Allowed
    PROVE  TracerAgrees'
<1> USE ConstantsAssumption
    DEF TypeOK, TracerAgrees, CurrentStop, TruthfulListener, EntriesInCall, NewbornsWait,
        RootKnown, Stops, Moving, Handling, R4rGone, GoTo, kernelVars, listenerVars
<1>1. CASE start
  BY <1>1 DEF start, MoveTo
<1>2. CASE StartFails
  BY <1>2 DEF StartFails
<1>3. CASE InitialPoll
  BY <1>3 DEF InitialPoll
<1>4. CASE InitialEnd
  BY <1>4 DEF InitialEnd, MoveTo
<1>5. CASE InitialTimeout
  BY <1>5 DEF InitialTimeout
<1>6. CASE Setup
  <2>1. CASE st[Root] \in Stops
    BY <1>6, <2>1, ResumeEffect DEF Setup, Resumed
  <2>2. CASE st[Root] \notin Stops
    BY <1>6, <2>2, NoResumeEffect DEF Setup
  <2>3. QED
    BY <2>1, <2>2
<1>7. ASSUME NEW p \in Proc, WaitStop(p) PROVE TracerAgrees'
  BY <1>7 DEF WaitStop, Waitable
<1>8. ASSUME NEW p \in Proc, WaitEnd(p) PROVE TracerAgrees'
  BY <1>8 DEF WaitEnd, MoveTo
<1>9. CASE HandleForkEvent
  BY <1>9, ResumeEffect, NoResumeEffect DEF HandleForkEvent, Resumed
<1>10. CASE GetSyscallInfo
  BY <1>10 DEF GetSyscallInfo
<1>11. CASE ListenerEntry
  BY <1>11 DEF ListenerEntry, Alive
<1>12. CASE ListenerExit
  BY <1>12 DEF ListenerExit
<1>13. CASE ListenerSkipped
  BY <1>13 DEF ListenerSkipped
<1>14. CASE ResumeStopped
  <2>1. CASE st[cur] \in Stops
    BY <1>14, <2>1, ResumeEffect DEF ResumeStopped, Resumed
  <2>2. CASE st[cur] \notin Stops
    BY <1>14, <2>2, NoResumeEffect DEF ResumeStopped
  <2>3. QED
    BY <2>1, <2>2
<1>15. CASE Join
  BY <1>15 DEF Join
<1>16. CASE EntryRefused
  BY <1>16 DEF EntryRefused
<1>17. CASE ExitRefused
  BY <1>17 DEF ExitRefused
<1>18. QED
  BY <1>1, <1>2, <1>3, <1>4, <1>5, <1>6, <1>7, <1>8, <1>9, <1>10, <1>11, <1>12, <1>13,
     <1>14, <1>15, <1>16, <1>17 DEF TracerStep

\* The steps of the kernel and of the traced program preserve the invariant.
LEMMA EnvironmentAgrees ==
    ASSUME TypeOK, TracerAgrees, NEW p \in Proc, KernelStep(p) \/ ProgramStep(p),
           "early" \notin Allowed
    PROVE  TracerAgrees'
<1> USE ConstantsAssumption
    DEF TypeOK, TracerAgrees, CurrentStop, TruthfulListener, EntriesInCall, NewbornsWait,
        RootKnown, Stops, Moving, Handling, R4rGone, MoveTo, tracerVars, listenerVars
<1>1. CASE BirthStop(p)
  BY <1>1 DEF BirthStop
<1>2. CASE ExecuteCall(p)
  BY <1>2 DEF ExecuteCall
<1>3. ASSUME NEW c \in Proc, ExecuteFork(p, c) PROVE TracerAgrees'
  BY <1>3 DEF ExecuteFork
<1>4. CASE FinishFork(p)
  BY <1>4 DEF FinishFork
<1>5. ASSUME NEW how \in {"exit", "exit254", "spawnError"}, ExecuteExit(p, how)
      PROVE  TracerAgrees'
  BY <1>5, EndAgrees DEF ExecuteExit, Alive
<1>6. ASSUME NEW c \in Calls, EnterSyscall(p, c) PROVE TracerAgrees'
  BY <1>6 DEF EnterSyscall, ForkEventPending
<1>7. CASE Detach(p)
  BY <1>7 DEF Detach
<1>8. CASE SignalStop(p)
  BY <1>8 DEF SignalStop
<1>9. CASE Kill(p)
  BY <1>9, EndAgrees DEF Kill
<1>10. CASE SpawnError
  BY <1>10, EndAgrees DEF SpawnError, Alive
<1>11. QED
  BY <1>1, <1>2, <1>3, <1>4, <1>5, <1>6, <1>7, <1>8, <1>9, <1>10 DEF KernelStep, ProgramStep

\* If a child makes no system call before its parent's fork event was handled,
\* tracer, listener and kernel agree about every process.
THEOREM Agreement ==
    ASSUME "early" \notin Allowed
    PROVE  Spec => []TracerAgrees
<1>1. Init => TracerAgrees
  BY ConstantsAssumption
     DEF Init, TracerAgrees, CurrentStop, TruthfulListener, EntriesInCall, NewbornsWait,
         RootKnown, Handling, Stops
<1>2. TypeOK /\ TracerAgrees /\ [Next]_vars => TracerAgrees'
  <2> SUFFICES ASSUME TypeOK, TracerAgrees, [Next]_vars PROVE TracerAgrees'
    OBVIOUS
  <2> USE ConstantsAssumption
  <2>1. CASE TracerStep
    BY <2>1, TracerStepAgrees
  <2>2. CASE stop
    <3>1. CASE Alive(Root)
      BY <2>2, <3>1, EndAgrees DEF stop, listenerVars
    <3>2. CASE ~Alive(Root)
      BY <2>2, <3>2
         DEF stop, listenerVars, TracerAgrees, CurrentStop, TruthfulListener, EntriesInCall,
             NewbornsWait, RootKnown
    <3>3. QED
      BY <3>1, <3>2
  <2>3. CASE ExitR4r
    BY <2>3, EndEffect
       DEF ExitR4r, GoTo, listenerVars, TypeOK, TracerAgrees, CurrentStop, TruthfulListener,
           EntriesInCall, NewbornsWait, RootKnown, R4rGone, Handling, Alive, Stops, Moving
  <2>4. CASE ExitKill
    BY <2>4
       DEF ExitKill, tracerVars, listenerVars, TypeOK, TracerAgrees, CurrentStop,
           TruthfulListener, EntriesInCall, NewbornsWait, RootKnown, R4rGone, Handling, Alive,
           Stops, Moving
  <2>5. ASSUME NEW p \in Proc, KernelStep(p) \/ ProgramStep(p) PROVE TracerAgrees'
    BY <2>5, EnvironmentAgrees
  <2>6. CASE UNCHANGED vars
    BY <2>6 DEF vars, tracerVars, kernelVars, listenerVars, TracerAgrees, CurrentStop,
                TruthfulListener, EntriesInCall, NewbornsWait, RootKnown
  <2>7. CASE LetGo
    <3>1. ASSUME NEW how, End(Root, how) PROVE TracerAgrees'
      BY <2>7, <3>1, EndAgrees DEF LetGo, tracerVars, listenerVars
    <3>2. CASE MoveTo(Root, "stranded") /\ reported' = reported \ {Root}
               /\ UNCHANGED <<call, kid, ending>>
      <4>1. pc = "failed" /\ pc' = pc /\ UNCHANGED <<cur, si, told, handling>>
        BY <2>7 DEF LetGo, tracerVars, listenerVars
      <4>2. st[Root] \in {"born", "sigstop", "signalStop"}
        BY <2>7, <4>1 DEF LetGo, TracerAgrees, RootKnown, Alive, Stops, Moving
      <4>3. /\ st'[Root] = "stranded"
            /\ \A p \in Proc : p # Root => st'[p] = st[p]
        BY <3>2 DEF MoveTo, TypeOK
      <4>4. ~told[Root] /\ Root \notin handling
        BY <4>2 DEF TracerAgrees, TruthfulListener, EntriesInCall
      <4>5. QED
        BY <3>2, <4>1, <4>3, <4>4
           DEF TypeOK, TracerAgrees, CurrentStop, TruthfulListener, EntriesInCall,
               NewbornsWait, RootKnown, R4rGone, Handling, Stops
    <3>3. QED
      BY <2>7, <3>1, <3>2 DEF LetGo
  <2>8. QED
    BY <2>1, <2>2, <2>3, <2>4, <2>5, <2>6, <2>7 DEF Next
<1>3. QED
  BY <1>1, <1>2, TypeCorrect, PTL DEF Spec

\* No tracee executes a system call the listener was not told of.
THEOREM EverySyscallTold ==
    ASSUME "early" \notin Allowed
    PROVE  Spec => []NoSilentSyscall
<1>1. TracerAgrees => NoSilentSyscall
  BY DEF TracerAgrees, TruthfulListener, NoSilentSyscall
<1>2. QED
  BY <1>1, Agreement, PTL

\* FileTracer never finds a second entry for a living tracee.
THEOREM NoSecondEntry ==
    ASSUME "early" \notin Allowed
    PROVE  Spec => []HandlerSlotFree
<1>1. TypeOK /\ TracerAgrees => HandlerSlotFree
  BY DEF TypeOK, TracerAgrees, CurrentStop, TruthfulListener, EntriesInCall, HandlerSlotFree,
         Handling, R4rGone, Alive, Stops, Moving
<1>2. QED
  BY <1>1, Agreement, TypeCorrect, PTL

\* Every stop that waitpid reported is resumed before the next waitpid, and the
\* loop never waits without a child.
THEOREM LoopNeverStrands ==
    ASSUME "early" \notin Allowed
    PROVE  Spec => [](NoTraceeForgotten /\ SomeoneToWaitFor)
<1>1. TracerAgrees => NoTraceeForgotten /\ SomeoneToWaitFor
  BY DEF TracerAgrees, CurrentStop, RootKnown, NoTraceeForgotten, SomeoneToWaitFor, Handling
<1>2. QED
  BY <1>1, Agreement, PTL

-------------------------------------------------------------------------------
(***************************************************************************)
(* What start() returns.                                                   *)
(***************************************************************************)

\* How the root ended is known when it is waited for and is what monitor()
\* returns; only processes that were created hold a write end of the pipes.
ResultAgrees ==
    /\ \A p \in Proc : st[p] \in {"zombie", "reaped"} => ending[p] # "none"
    /\ \A p \in writers : st[p] # "absent"
    /\ pc \in {"join", "returned"} =>
          st[Root] = "reaped" /\ result = ResultOf(ending[Root])
    /\ pc = "returned" => \A p \in writers : ~Alive(p)

\* Ending a living process keeps ResultAgrees.
LEMMA EndKeepsResult ==
    ASSUME TypeOK, ResultAgrees, NEW p \in Proc, Alive(p),
           NEW how \in Endings \ {"none"}, End(p, how),
           UNCHANGED <<writers, result>>, pc' \in {pc, "exited"}
    PROVE  ResultAgrees'
  <1>1. st[p] \notin {"absent", "zombie", "reaped"}
    BY DEF Alive, Stops, Moving
  <1>2. /\ st' = [st EXCEPT ![p] = "zombie"]
        /\ ending' = [ending EXCEPT ![p] = how]
    BY DEF End, MoveTo
  <1> QED
    BY <1>1, <1>2, ConstantsAssumption
       DEF ResultAgrees, TypeOK, Alive, Stops, Moving, ResultOf

\* So does a step that moves one living process on, or reports a stop.
LEMMA MoveKeepsResult ==
    ASSUME TypeOK, ResultAgrees, NEW p \in Proc, Alive(p),
           NEW s \in Stops \cup Moving, st' = [st EXCEPT ![p] = s],
           UNCHANGED <<ending, result>>, writers' \subseteq writers,
           pc' = pc \/ pc' \notin {"join", "returned"}
    PROVE  ResultAgrees'
  BY ConstantsAssumption DEF ResultAgrees, TypeOK, Alive, Stops, Moving, ResultOf

\* And a step that changes no process.
LEMMA StillKeepsResult ==
    ASSUME ResultAgrees, UNCHANGED <<st, ending, result, writers>>,
           pc' = pc \/ pc' \notin {"join", "returned"}
    PROVE  ResultAgrees'
  BY DEF ResultAgrees, Alive, ResultOf

\* trace_syscalls resumes a living process, or changes nothing.
LEMMA ResumeKeepsResult ==
    ASSUME TypeOK, ResultAgrees, NEW p, trace_syscalls(p),
           UNCHANGED <<ending, result, writers>>, pc' \notin {"join", "returned"}
    PROVE  ResultAgrees'
  <1>1. CASE p \in Proc /\ st[p] \in Stops
    <2>1. /\ Resumed(st[p]) \in Moving
          /\ Alive(p)
          /\ st' = [st EXCEPT ![p] = Resumed(st[p])]
      BY <1>1 DEF Resumed, Moving, Alive, trace_syscalls
    <2> QED
      BY <1>1, <2>1, MoveKeepsResult
  <1>2. CASE ~(p \in Proc /\ st[p] \in Stops)
    BY <1>2, StillKeepsResult DEF trace_syscalls
  <1> QED
    BY <1>1, <1>2

\* Every step keeps ResultAgrees.
LEMMA ResultStep == TypeOK /\ ResultAgrees /\ [Next]_vars => ResultAgrees'
  <1> SUFFICES ASSUME TypeOK, ResultAgrees, [Next]_vars PROVE ResultAgrees'
    OBVIOUS
  <1> USE ConstantsAssumption
  <1>1. CASE UNCHANGED vars
    BY <1>1, StillKeepsResult DEF vars, tracerVars, kernelVars
  <1>2. CASE start
    BY <1>2 DEF start, ResultAgrees, TypeOK, GoTo, MoveTo
  <1>3. CASE StartFails \/ InitialPoll \/ InitialTimeout
    BY <1>3, StillKeepsResult DEF StartFails, InitialPoll, InitialTimeout, kernelVars, GoTo
  <1>4. CASE InitialEnd
    BY <1>4 DEF InitialEnd, ResultAgrees, TypeOK, GoTo, MoveTo
  <1>5. CASE Setup
    BY <1>5, ResumeKeepsResult DEF Setup, GoTo
  <1>6. ASSUME NEW p \in Proc, WaitStop(p) PROVE ResultAgrees'
    <2>1. pc' \in {"event", "info", "resume"}
      BY <1>6 DEF WaitStop, GoTo
    <2> QED
      BY <1>6, <2>1, StillKeepsResult DEF WaitStop
  <1>7. ASSUME NEW p \in Proc, WaitEnd(p) PROVE ResultAgrees'
    BY <1>7 DEF WaitEnd, ResultAgrees, TypeOK, GoTo, MoveTo, ResultOf
  <1>8. CASE HandleForkEvent
    BY <1>8, ResumeKeepsResult, StillKeepsResult DEF HandleForkEvent, GoTo
  <1>9. CASE \/ GetSyscallInfo \/ ListenerEntry \/ EntryRefused \/ ListenerExit
             \/ ExitRefused \/ ListenerSkipped
    BY <1>9, StillKeepsResult
       DEF GetSyscallInfo, ListenerEntry, EntryRefused, ListenerExit, ExitRefused,
           ListenerSkipped, kernelVars, GoTo
  <1>10. CASE ResumeStopped
    BY <1>10, ResumeKeepsResult DEF ResumeStopped, GoTo
  <1>11. CASE Join
    BY <1>11 DEF Join, ResultAgrees, GoTo, kernelVars, Alive
  <1>12. CASE stop \/ ExitR4r
    <2>1. pc' \in {pc, "exited"} /\ UNCHANGED <<writers, result>>
      BY <1>12 DEF stop, ExitR4r, GoTo
    <2>2. CASE Alive(Root)
      BY <1>12, <2>1, <2>2, EndKeepsResult DEF stop, ExitR4r, Endings
    <2>3. CASE ~Alive(Root)
      BY <1>12, <2>1, <2>3, StillKeepsResult DEF stop, ExitR4r
    <2> QED
      BY <2>2, <2>3
  <1>13. CASE ExitKill
    BY <1>13 DEF ExitKill, ResultAgrees, R4rGone, TypeOK, tracerVars, Alive
  <1>14. ASSUME NEW p \in Proc, KernelStep(p) PROVE ResultAgrees'
    <2>1. CASE BirthStop(p)
      BY <2>1, MoveKeepsResult DEF BirthStop, MoveTo, tracerVars, Alive, Stops, Moving
    <2>2. CASE ExecuteCall(p)
      BY <2>2, MoveKeepsResult DEF ExecuteCall, MoveTo, tracerVars, Alive, Stops, Moving
    <2>3. ASSUME NEW c \in Proc, ExecuteFork(p, c) PROVE ResultAgrees'
      BY <2>3 DEF ExecuteFork, ResultAgrees, TypeOK, tracerVars, Alive, Stops, Moving, ResultOf
    <2>4. CASE FinishFork(p)
      BY <2>4, MoveKeepsResult DEF FinishFork, MoveTo, tracerVars, Alive, Stops, Moving
    <2>5. ASSUME NEW how \in {"exit", "exit254", "spawnError"}, ExecuteExit(p, how)
          PROVE  ResultAgrees'
      BY <2>5, EndKeepsResult DEF ExecuteExit, tracerVars, Alive, Moving, Endings
    <2> QED
      BY <1>14, <2>1, <2>2, <2>3, <2>4, <2>5 DEF KernelStep
  <1>15. ASSUME NEW p \in Proc, ProgramStep(p) PROVE ResultAgrees'
    <2>1. ASSUME NEW c \in Calls, EnterSyscall(p, c) PROVE ResultAgrees'
      BY <2>1, MoveKeepsResult DEF EnterSyscall, MoveTo, tracerVars, Alive, Stops, Moving
    <2>2. CASE Detach(p)
      BY <2>2 DEF Detach, ResultAgrees, tracerVars, Alive, ResultOf
    <2>3. CASE SignalStop(p)
      BY <2>3, MoveKeepsResult DEF SignalStop, MoveTo, tracerVars, Alive, Stops, Moving
    <2>4. CASE Kill(p)
      BY <2>4, EndKeepsResult DEF Kill, tracerVars, Endings
    <2>5. CASE SpawnError
      BY <2>5, EndKeepsResult DEF SpawnError, tracerVars, Alive, Moving, Endings
    <2> QED
      BY <1>15, <2>1, <2>2, <2>3, <2>4, <2>5 DEF ProgramStep
  <1>16. CASE LetGo
    <2>1. pc = "failed" /\ UNCHANGED <<pc, writers, result>> /\ Alive(Root)
      BY <1>16 DEF LetGo, tracerVars
    <2>2. ASSUME NEW how \in {"spawnError", "signal"}, End(Root, how) PROVE ResultAgrees'
      BY <2>1, <2>2, EndKeepsResult DEF Endings
    <2>3. CASE MoveTo(Root, "stranded") /\ UNCHANGED ending
      BY <2>1, <2>3 DEF MoveTo, ResultAgrees, TypeOK, Alive
    <2> QED
      BY <1>16, <2>2, <2>3 DEF LetGo
  <1> QED
    BY <1>1, <1>2, <1>3, <1>4, <1>5, <1>6, <1>7, <1>8, <1>9, <1>10, <1>11, <1>12, <1>13,
       <1>14, <1>15, <1>16 DEF Next, TracerStep

\* start() returns the end of the root, whichever order the processes end in,
\* and only when nobody can write to the output pipes any more.
THEOREM ResultIsTheRoots == Spec => []ResultIsRootEnd
  <1>1. Init => ResultAgrees
    BY DEF Init, ResultAgrees
  <1>2. TypeOK /\ ResultAgrees => ResultIsRootEnd
    <2> SUFFICES ASSUME TypeOK, ResultAgrees, pc = "returned"
                 PROVE  /\ st[Root] = "reaped"
                        /\ (result = "Exit") <=> (ending[Root] = "exit")
                        /\ (result = "Signal") <=> (ending[Root] = "signal")
                        /\ \A p \in writers : ~Alive(p)
      BY DEF ResultIsRootEnd
    <2>1. ending[Root] \in {"exit", "exit254", "spawnError", "signal"}
      BY ConstantsAssumption DEF ResultAgrees, TypeOK, Endings
    <2> QED
      BY <2>1 DEF ResultAgrees, ResultOf
  <1> QED
    BY <1>1, <1>2, ResultStep, TypeCorrect, PTL DEF Spec

-------------------------------------------------------------------------------
(***************************************************************************)
(* The exceptions of the listener.                                         *)
(***************************************************************************)

\* Nothing ends r4r because tracer, listener and kernel disagree about a tracee that
\* lives: whichever processes are killed, and whatever order their stops come in, a
\* handler finds the slot of its tracee in FileTracer::state_ free.
THEOREM AbortsOnlyForTheDead ==
    ASSUME "early" \notin Allowed
    PROVE  Spec => AbortsForTheDeadOnly
<1>1. TypeOK /\ TracerAgrees /\ [Next]_vars =>
        [pc' = "aborted" => pc = "aborted" \/ ~Alive(cur)]_vars
  <2> SUFFICES ASSUME TypeOK, TracerAgrees, Next, pc' = "aborted", pc # "aborted", Alive(cur)
               PROVE  FALSE
    OBVIOUS
  <2>1. ~ListenerEntry
    <3> SUFFICES ASSUME ListenerEntry PROVE FALSE
      OBVIOUS
    <3>1. pc = "listener" /\ si.op = "entry" /\ cur \in Proc
      BY DEF ListenerEntry, TypeOK, Handling
    <3>2. cur \in reported /\ st[cur] \in {"entryStop", "exitStop"}
      BY <3>1 DEF TracerAgrees, CurrentStop, Handling, Alive, Stops, Moving
    <3>3. st[cur] = "entryStop"
      BY <3>1, <3>2 DEF TracerAgrees, CurrentStop
    <3>4. ~told[cur]
      BY <3>1, <3>3 DEF TracerAgrees, TruthfulListener, R4rGone
    <3>5. cur \notin handling
      BY <3>3, <3>4 DEF TracerAgrees, EntriesInCall
    <3>6. QED
      BY <3>5 DEF ListenerEntry, GoTo
  <2>2. CASE TracerStep
    BY <2>1, <2>2
       DEF TracerStep, start, StartFails, InitialPoll, InitialEnd, InitialTimeout, Setup,
           WaitStop, WaitEnd, HandleForkEvent, GetSyscallInfo, EntryRefused, ListenerExit,
           ExitRefused, ListenerSkipped, ResumeStopped, Join, GoTo
  <2>3. CASE \/ stop \/ ExitR4r \/ ExitKill \/ LetGo
             \/ \E p \in Proc : KernelStep(p) \/ ProgramStep(p)
    BY <2>3
       DEF stop, ExitR4r, GoTo, ExitKill, LetGo, KernelStep, ProgramStep, BirthStop,
           ExecuteCall, ExecuteFork, FinishFork, ExecuteExit, EnterSyscall, Detach,
           SignalStop, Kill, SpawnError, tracerVars
  <2>4. QED
    BY <2>2, <2>3 DEF Next
<1>2. QED
  BY <1>1, TypeCorrect, Agreement, PTL DEF Spec, AbortsForTheDeadOnly

-------------------------------------------------------------------------------
(***************************************************************************)
(* SyscallMonitor implements SyscallEvents.                                *)
(***************************************************************************)
phaseBar == [p \in Proc |-> Phase(p)]

\* A step that leaves a process' state and the listener's view of it alone leaves
\* its phase alone.
LEMMA SamePhase ==
    ASSUME NEW p \in Proc, st'[p] = st[p], told'[p] = told[p]
    PROVE  Phase(p)' = Phase(p)
BY DEF Phase

\* A process that has ended has no phase to leave, waited for or not.
LEMMA StaysGone ==
    ASSUME NEW p \in Proc, st[p] \in {"zombie", "reaped"}, st'[p] \in {"zombie", "reaped"}
    PROVE  Phase(p)' = Phase(p)
<1>1. Phase(p) = "gone"
  BY DEF Phase, BetweenCalls
<1>2. Phase(p)' = "gone"
  BY DEF Phase, BetweenCalls
<1>3. QED
  BY <1>1, <1>2

\* A living process is in one of the phases a process can die in.
LEMMA AliveHasPhase ==
    ASSUME TypeOK, TracerAgrees, NEW p \in Proc, Alive(p)
    PROVE  Phase(p) \in {"user", "entered", "executed"}
BY DEF Phase, BetweenCalls, TypeOK, TracerAgrees, TruthfulListener, Alive, Stops, Moving

\* A step that ends one living process is its Die.
LEMMA EndIsDie ==
    ASSUME TypeOK, TracerAgrees, NEW p \in Proc, Alive(p), NEW how, End(p, how),
           UNCHANGED told
    PROVE  Events!Next
<1>1. Phase(p) \in {"user", "entered", "executed"}
  BY AliveHasPhase
<1>2. Phase(p)' = "gone"
  <2>1. st'[p] = "zombie"
    BY EndEffect
  <2>2. QED
    BY <2>1, Zenon DEF Phase, BetweenCalls
<1>3. \A q \in Proc : q # p => Phase(q)' = Phase(q)
  BY EndEffect, SamePhase
<1>4. Events!Die({p})
  BY <1>1, <1>2, <1>3 DEF Events!Die
<1>5. QED
  BY <1>4 DEF Events!Next

\* A step that changes no phase is a stutter of SyscallEvents, and a step that
\* changes one phase as an action of SyscallEvents does is a step of it.
LEMMA AllSame ==
    ASSUME \A p \in Proc : Phase(p)' = Phase(p)
    PROVE  UNCHANGED phaseBar
BY DEF phaseBar

\* A step of one process between two consecutive phases is a SyscallEvents step.
LEMMA OneStep ==
    ASSUME NEW p \in Proc, \A q \in Proc : q # p => Phase(q)' = Phase(q),
           <<Phase(p), Phase(p)'>> \in {<<"none", "user">>, <<"user", "entered">>,
                                        <<"entered", "executed">>, <<"executed", "user">>}
    PROVE  Events!Next
<1> DEFINE E == [r \in Proc |-> Phase(r)]
<1>1. E' = [E EXCEPT ![p] = Phase(p)']
  OBVIOUS
<1>2. CASE Phase(p) = "none" /\ Phase(p)' = "user"
  BY <1>1, <1>2 DEF Events!Next, Events!Appear
<1>3. CASE Phase(p) = "user" /\ Phase(p)' = "entered"
  BY <1>1, <1>3 DEF Events!Next, Events!ReportEntry
<1>4. CASE Phase(p) = "entered" /\ Phase(p)' = "executed"
  BY <1>1, <1>4 DEF Events!Next, Events!Execute
<1>5. CASE Phase(p) = "executed" /\ Phase(p)' = "user"
  BY <1>1, <1>5 DEF Events!Next, Events!ReportExit
<1>6. QED
  BY <1>2, <1>3, <1>4, <1>5

\* Resuming a stopped process that agrees with the listener changes no phase.
LEMMA ResumeIsStutter ==
    ASSUME TypeOK, NEW p \in Proc, st[p] \in Stops, trace_syscalls(p), UNCHANGED told,
           st[p] = "entryStop" \/ st[p] = "forkStop" => told[p],
           st[p] \in {"sigstop", "signalStop", "exitStop"} => ~told[p]
    PROVE  \A q \in Proc : Phase(q)' = Phase(q)
<1>1. st'[p] = Resumed(st[p]) /\ told'[p] = told[p]
  BY ResumeEffect
<1>2. Phase(p)' = Phase(p)
  BY <1>1 DEF Phase, Resumed, BetweenCalls, Stops, TypeOK
<1>3. \A q \in Proc : q # p => Phase(q)' = Phase(q)
  BY ResumeEffect, SamePhase
<1>4. QED
  BY <1>2, <1>3

\* Every step of the tracer is a SyscallEvents step or a stutter.
LEMMA TracerStepImplements ==
    ASSUME TypeOK, TracerAgrees, TracerStep, "early" \notin Allowed
    PROVE  Events!Next \/ UNCHANGED phaseBar
<1> USE ConstantsAssumption
    DEF GoTo, kernelVars, listenerVars, TypeOK, Handling, R4rGone, MoveTo
<1>1. CASE start
  <2>1. \A q \in Proc : q # Root => Phase(q)' = Phase(q)
    BY <1>1, SamePhase DEF start
  <2>2. Phase(Root) = "none" /\ Phase(Root)' = "user"
    BY <1>1 DEF start, Phase, BetweenCalls, TracerAgrees, TruthfulListener, RootKnown
  <2>3. QED
    BY <2>1, <2>2, OneStep
<1>2. CASE StartFails \/ InitialPoll \/ InitialTimeout \/ GetSyscallInfo \/ ListenerSkipped \/ Join
  BY <1>2, SamePhase, AllSame
     DEF StartFails, InitialPoll, InitialTimeout, GetSyscallInfo, ListenerSkipped, Join
<1>3. CASE InitialEnd
  <2>1. \A q \in Proc : q # Root => Phase(q)' = Phase(q)
    BY <1>3, SamePhase DEF InitialEnd
  <2>2. Phase(Root)' = Phase(Root)
    BY <1>3 DEF InitialEnd, Phase, BetweenCalls
  <2>3. QED
    BY <2>1, <2>2, AllSame
<1>4. CASE Setup
  <2>1. CASE st[Root] \in Stops
    BY <1>4, <2>1, ResumeIsStutter, AllSame
       DEF Setup, TracerAgrees, RootKnown, TruthfulListener, Stops
  <2>2. CASE st[Root] \notin Stops
    BY <1>4, <2>2, NoResumeEffect, SamePhase, AllSame DEF Setup
  <2>3. QED
    BY <2>1, <2>2
<1>5. ASSUME NEW p \in Proc, WaitStop(p) PROVE UNCHANGED phaseBar
  BY <1>5, SamePhase, AllSame DEF WaitStop
<1>6. ASSUME NEW p \in Proc, WaitEnd(p) PROVE UNCHANGED phaseBar
  <2>1. \A q \in Proc : q # p => Phase(q)' = Phase(q)
    BY <1>6, SamePhase DEF WaitEnd
  <2>2. Phase(p)' = Phase(p)
    BY <1>6 DEF WaitEnd, Phase, BetweenCalls
  <2>3. QED
    BY <2>1, <2>2, AllSame
<1>7. CASE HandleForkEvent
  <2> DEFINE c == kid[cur]
  <2>1. CASE st[cur] = "forkStop" /\ c \in Proc /\ st[c] \in Stops
    <3>1. st[c] \in {"sigstop", "signalStop"} /\ ~told[c]
      BY <1>7, <2>1
         DEF HandleForkEvent, TracerAgrees, NewbornsWait, TruthfulListener, Stops
    <3>2. QED
      BY <1>7, <2>1, <3>1, ResumeIsStutter, AllSame DEF HandleForkEvent
  <2>2. CASE ~(st[cur] = "forkStop" /\ c \in Proc /\ st[c] \in Stops)
    BY <1>7, <2>2, NoResumeEffect, SamePhase, AllSame DEF HandleForkEvent
  <2>3. QED
    BY <2>1, <2>2
<1>8. CASE ListenerEntry \/ ListenerExit
  <2> PICK p \in Proc : p = cur /\ p = cur'
    BY <1>8 DEF ListenerEntry, ListenerExit
  <2>1. \A q \in Proc : q # p => Phase(q)' = Phase(q)
    BY <1>8, SamePhase DEF ListenerEntry, ListenerExit
  <2>2. CASE st[p] = "zombie"
    <3>1. st'[p] = "zombie"
      BY <1>8, <2>2 DEF ListenerEntry, ListenerExit
    <3>2. QED
      BY <2>1, <2>2, <3>1, StaysGone, AllSame
  <2>3. CASE p \in reported /\ st[p] = "entryStop"
    <3>1. ListenerEntry /\ ~told[p] /\ told'[p] /\ st'[p] = st[p]
      BY <1>8, <2>3
         DEF ListenerEntry, ListenerExit, TracerAgrees, CurrentStop, TruthfulListener
    <3>2. Phase(p) = "user" /\ Phase(p)' = "entered"
      BY <2>3, <3>1 DEF Phase, BetweenCalls
    <3>3. QED
      BY <2>1, <3>2, OneStep
  <2>4. CASE p \in reported /\ st[p] = "exitStop"
    <3>1. ListenerExit /\ told[p] /\ ~told'[p] /\ st'[p] = st[p]
      BY <1>8, <2>4
         DEF ListenerEntry, ListenerExit, TracerAgrees, CurrentStop, TruthfulListener
    <3>2. Phase(p) = "executed" /\ Phase(p)' = "user"
      BY <2>4, <3>1 DEF Phase, BetweenCalls
    <3>3. QED
      BY <2>1, <3>2, OneStep
  <2>5. QED
    BY <1>8, <2>2, <2>3, <2>4
       DEF ListenerEntry, ListenerExit, TracerAgrees, CurrentStop
<1>9. CASE ResumeStopped
  <2>1. CASE st[cur] \in Stops
    BY <1>9, <2>1, ResumeIsStutter, AllSame
       DEF ResumeStopped, TracerAgrees, TruthfulListener
  <2>2. CASE st[cur] \notin Stops
    BY <1>9, <2>2, NoResumeEffect, SamePhase, AllSame DEF ResumeStopped
  <2>3. QED
    BY <2>1, <2>2
<1>10. CASE EntryRefused \/ ExitRefused
  <2> PICK p \in Proc : p = cur /\ p = cur'
    BY <1>10 DEF EntryRefused, ExitRefused
  <2>1. \A q \in Proc : q # p => Phase(q)' = Phase(q)
    BY <1>10, SamePhase DEF EntryRefused, ExitRefused
  <2>2. CASE st[p] = "zombie"
    <3>1. st'[p] = "zombie"
      BY <1>10, <2>2 DEF EntryRefused, ExitRefused
    <3>2. QED
      BY <2>1, <2>2, <3>1, StaysGone, AllSame
  <2>3. CASE p \in reported /\ st[p] = "entryStop"
    <3>1. EntryRefused /\ ~told[p] /\ told'[p] /\ st'[p] = st[p]
      BY <1>10, <2>3
         DEF EntryRefused, ExitRefused, TracerAgrees, CurrentStop, TruthfulListener
    <3>2. Phase(p) = "user" /\ Phase(p)' = "entered"
      BY <2>3, <3>1 DEF Phase, BetweenCalls
    <3>3. QED
      BY <2>1, <3>2, OneStep
  <2>4. CASE p \in reported /\ st[p] = "exitStop"
    <3>1. ExitRefused /\ told[p] /\ ~told'[p] /\ st'[p] = st[p]
      BY <1>10, <2>4
         DEF EntryRefused, ExitRefused, TracerAgrees, CurrentStop, TruthfulListener
    <3>2. Phase(p) = "executed" /\ Phase(p)' = "user"
      BY <2>4, <3>1 DEF Phase, BetweenCalls
    <3>3. QED
      BY <2>1, <3>2, OneStep
  <2>5. QED
    BY <1>10, <2>2, <2>3, <2>4 DEF EntryRefused, ExitRefused, TracerAgrees, CurrentStop
<1>11. QED
  BY <1>1, <1>2, <1>3, <1>4, <1>5, <1>6, <1>7, <1>8, <1>9, <1>10 DEF TracerStep

\* So is every step of the kernel, the program and the SIGINT handler.
LEMMA EnvironmentImplements ==
    ASSUME TypeOK, TracerAgrees, NEW p \in Proc, KernelStep(p) \/ ProgramStep(p)
    PROVE  Events!Next \/ UNCHANGED phaseBar
<1> USE DEF MoveTo, tracerVars, listenerVars, TypeOK
<1>1. CASE BirthStop(p) \/ SignalStop(p) \/ FinishFork(p)
  <2>1. \A q \in Proc : q # p => Phase(q)' = Phase(q)
    BY <1>1, SamePhase DEF BirthStop, SignalStop, FinishFork
  <2>2. Phase(p)' = Phase(p)
    BY <1>1 DEF BirthStop, SignalStop, FinishFork, Phase, BetweenCalls, TracerAgrees,
                TruthfulListener
  <2>3. QED
    BY <2>1, <2>2, AllSame
<1>2. ASSUME NEW c \in Calls, EnterSyscall(p, c) PROVE UNCHANGED phaseBar
  <2>1. \A q \in Proc : q # p => Phase(q)' = Phase(q)
    BY <1>2, SamePhase DEF EnterSyscall
  <2>2. Phase(p)' = Phase(p)
    BY <1>2 DEF EnterSyscall, Phase, BetweenCalls, TracerAgrees, TruthfulListener
  <2>3. QED
    BY <2>1, <2>2, AllSame
<1>3. CASE Detach(p)
  BY <1>3, SamePhase, AllSame DEF Detach
<1>4. CASE ExecuteCall(p)
  <2>1. \A q \in Proc : q # p => Phase(q)' = Phase(q)
    BY <1>4, SamePhase DEF ExecuteCall
  <2>2. Phase(p) = "entered" /\ Phase(p)' = "executed"
    BY <1>4 DEF ExecuteCall, Phase, BetweenCalls, TracerAgrees, TruthfulListener
  <2>3. QED
    BY <2>1, <2>2, OneStep
<1>5. ASSUME NEW c \in Proc, ExecuteFork(p, c) PROVE Events!Next
  <2>1. \A q \in Proc \ {p, c} : Phase(q)' = Phase(q)
    BY <1>5, SamePhase DEF ExecuteFork
  <2>2. Phase(p) = "entered" /\ Phase(p)' = "executed"
    BY <1>5 DEF ExecuteFork, Phase, BetweenCalls, TracerAgrees, TruthfulListener
  <2>3. Phase(c) = "none" /\ Phase(c)' = "user"
    BY <1>5 DEF ExecuteFork, Phase, BetweenCalls, TracerAgrees, TruthfulListener
  <2>4. Events!ExecuteFork(p, c)
    BY <2>1, <2>2, <2>3 DEF Events!ExecuteFork
  <2>5. QED
    BY <2>4 DEF Events!Next
<1>6. ASSUME NEW how \in {"exit", "exit254", "spawnError"}, ExecuteExit(p, how)
      PROVE  Events!Next
  BY <1>6, EndIsDie DEF ExecuteExit, Alive, Stops, Moving
<1>7. CASE Kill(p)
  BY <1>7, EndIsDie DEF Kill
<1>8. CASE SpawnError
  BY <1>8, EndIsDie, ConstantsAssumption DEF SpawnError, Alive, Moving
<1>9. QED
  BY <1>1, <1>2, <1>3, <1>4, <1>5, <1>6, <1>7, <1>8 DEF KernelStep, ProgramStep

\* What the listener is told is what SyscallEvents promises: every system call of
\* every tracee, announced once before it is executed and once after it.
THEOREM ImplementsSyscallEvents ==
    ASSUME "early" \notin Allowed
    PROVE  Spec => AnnouncesEverySyscall
<1>1. Init => phaseBar = [p \in Proc |-> "none"]
  BY DEF Init, phaseBar, Phase, BetweenCalls
<1>2. TypeOK /\ TracerAgrees /\ [Next]_vars => Events!Next \/ UNCHANGED phaseBar
  <2> SUFFICES ASSUME TypeOK, TracerAgrees, [Next]_vars
               PROVE  Events!Next \/ UNCHANGED phaseBar
    OBVIOUS
  <2> USE ConstantsAssumption
  <2>1. CASE TracerStep
    BY <2>1, TracerStepImplements
  <2>2. CASE stop \/ ExitR4r
    <3>1. CASE Alive(Root)
      BY <2>2, <3>1, EndIsDie DEF stop, ExitR4r, listenerVars
    <3>2. CASE ~Alive(Root)
      BY <2>2, <3>2, SamePhase, AllSame DEF stop, ExitR4r, listenerVars
    <3>3. QED
      BY <3>1, <3>2
  <2>3. CASE ExitKill
    <3> DEFINE S == {p \in Proc : Alive(p)}
    <3>1. \A p \in S : Phase(p) \in {"user", "entered", "executed"}
      BY AliveHasPhase
    <3>2. \A p \in S : Phase(p)' = "gone"
      BY <2>3 DEF ExitKill, Phase, BetweenCalls
    <3>3. \A p \in Proc \ S : Phase(p)' = Phase(p)
      BY <2>3, SamePhase DEF ExitKill, listenerVars
    <3>4. Events!Die(S)
      BY <3>1, <3>2, <3>3 DEF Events!Die
    <3>5. QED
      BY <3>4 DEF Events!Next
  <2>4. ASSUME NEW p \in Proc, KernelStep(p) \/ ProgramStep(p)
        PROVE  Events!Next \/ UNCHANGED phaseBar
    BY <2>4, EnvironmentImplements
  <2>5. CASE UNCHANGED vars
    BY <2>5, SamePhase, AllSame DEF vars, kernelVars, listenerVars
  <2>6. CASE LetGo
    <3>1. Alive(Root) /\ UNCHANGED told
      BY <2>6 DEF LetGo, listenerVars
    <3>2. ASSUME NEW how, End(Root, how) PROVE Events!Next
      BY <3>1, <3>2, EndIsDie
    <3>3. CASE MoveTo(Root, "stranded")
      <4>1. Phase(Root) \in {"user", "entered", "executed"}
        BY <3>1, AliveHasPhase
      <4>2. st'[Root] = "stranded"
        BY <3>3 DEF MoveTo, TypeOK
      <4>3. Phase(Root)' = "gone"
        BY <4>2 DEF Phase, BetweenCalls
      <4>4. \A q \in Proc : q # Root => Phase(q)' = Phase(q)
        BY <3>1, <3>3, SamePhase DEF MoveTo, TypeOK
      <4>5. Events!Die({Root})
        BY <4>1, <4>3, <4>4 DEF Events!Die
      <4>6. QED
        BY <4>5 DEF Events!Next
    <3>4. QED
      BY <2>6, <3>2, <3>3 DEF LetGo
  <2>7. QED
    BY <2>1, <2>2, <2>3, <2>4, <2>5, <2>6 DEF Next
<1>3. QED
  BY <1>1, <1>2, TypeCorrect, Agreement, PTL
     DEF Spec, AnnouncesEverySyscall, Events!Spec, Events!Init, phaseBar
===============================================================================
