--------------------------- MODULE FileTracerProofs ---------------------------
(***************************************************************************)
(* Proofs about FileTracer, for any processes, paths and file systems.     *)
(***************************************************************************)
EXTENDS FileTracer, TLAPS

\* The generation of the file that a path has when the program starts.
first(x) == IF x \in Initial THEN 1 ELSE 0

\* What is at a path is what was created there last, or nothing.
Generations ==
    \A x \in Path : node[x] <= gen[x] /\ first(x) <= gen[x]

\* A note that the file did not exist stays true of what the path had at the
\* start: if something is there by now the program has created it.
AbsenceNoted ==
    \A p \in Proc :
        /\ state_[p] \in FileInfo
        /\ ~state_[p].existed_before
        /\ call[p].kind \in {"open", "stat"}
        => \/ node[state_[p].path] = 0
           \/ gen[state_[p].path] > first(state_[p].path)

\* A process between two calls has no note, and one in a call has made one.
CallsNoted ==
    \A p \in Proc : phase[p] \in {"entered", "executed"} => call[p] \in CallsOf

IInv == TypeOK /\ CallsNoted /\ Generations /\ AbsenceNoted /\ ResultsWereCreated

-------------------------------------------------------------------------------
\* The notes the entry handlers make are well typed.
LEMMA EntryType ==
    ASSUME TypeOK, NEW c \in CallsOf
    PROVE  entry(c) \in Notes
  BY DEF entry, generic_open_entry, noted_path_entry, Notes, FileInfo, CallsOf,
         Nothing, Exists, TypeOK

\* The exit handlers leave well-typed tables, whatever file the call was on.
LEMMA ExitType ==
    ASSUME TypeOK, NEW k \in TracedKinds, NEW f, NEW i \in FileInfo,
           exit_handler(k, f, i)
    PROVE  files_' \in [Path -> Records] /\ symlinks_' \subseteq Path
  BY DEF exit_handler, register_file, TypeOK, Records, FileInfo, TracedKinds

\* What an exception of register_file leaves: all processes gone, and the tables.
LEMMA ThrowEffect ==
    ASSUME TypeOK, NEW p \in Proc, RegisterThrows(p)
    PROVE  /\ phase[p] = "executed" /\ call[p].kind = "exec"
           /\ phase' \in [Proc -> {"none", "gone"}] /\ phase'[p] = "gone"
           /\ state_' = [state_ EXCEPT ![p] = NoEntry]
           /\ UNCHANGED <<call, file, node, gen, files_, symlinks_, used, recorded>>
  <1>1. \A q \in Proc : phase'[q] = IF phase[q] \in Living THEN "gone" ELSE phase[q]
    BY DEF RegisterThrows, Env!Die
  <1>2. phase' = [q \in Proc |-> phase'[q]]
    BY DEF RegisterThrows, Env!Die
  <1>3. \A q \in Proc : phase[q] \in {"none", "gone"} \cup Living
    BY DEF TypeOK, Env!Phases, Living
  <1>4. \A q \in Proc : phase'[q] \in {"none", "gone"}
    BY <1>1, <1>3
  <1>5. phase' \in [Proc -> {"none", "gone"}]
    BY <1>2, <1>4
  <1> QED
    BY <1>1, <1>5 DEF RegisterThrows, Throws, Living, fsVars

\* Every step keeps the types.
LEMMA TypeStep == TypeOK /\ CallsNoted /\ [Next]_vars => TypeOK' /\ CallsNoted'
  <1> SUFFICES ASSUME TypeOK, CallsNoted, [Next]_vars PROVE TypeOK' /\ CallsNoted'
    OBVIOUS
  <1> USE ConstantsAssumption DEF TypeOK, CallsNoted, Env!Phases
  <1>1. CASE UNCHANGED vars
    BY <1>1 DEF vars, fsVars, listenerVars
  <1>2. ASSUME NEW p \in Proc, Appear(p) PROVE TypeOK' /\ CallsNoted'
    BY <1>2 DEF Appear, Env!Appear, fsVars, listenerVars
  <1>3. ASSUME NEW p \in Proc, NEW c \in CallsOf, on_syscall_entry(p, c)
        PROVE  TypeOK' /\ CallsNoted'
    <2>1. entry(c) \in Notes
      BY EntryType
    <2> QED
      BY <1>3, <2>1 DEF on_syscall_entry, Env!ReportEntry, fsVars
  <1>4. ASSUME NEW p \in Proc, NEW y \in Path, Execute(p, y)
        PROVE  TypeOK' /\ CallsNoted'
    <2>1. /\ phase' = [phase EXCEPT ![p] = "executed"]
          /\ phase[p] = "entered"
          /\ UNCHANGED <<call, listenerVars, recorded>>
      BY <1>4 DEF Execute, Env!Execute
    <2>2. CASE Exists(y) /\ SucceedsOn(p, y)
      <3>1. <<y, node[y]>> \in Files
        BY <2>2 DEF Exists, Files
      <3> QED
        BY <2>1, <2>2, <3>1 DEF SucceedsOn, fsVars, listenerVars
    <2>3. CASE Fails(p)
      BY <2>1, <2>3 DEF Fails, fsVars, listenerVars
    <2>4. CASE Creates(p, y)
      <3>1. gen[y] + 1 \in 1 .. MaxGen
        BY <2>4 DEF Creates, NewFile
      <3> QED
        BY <2>1, <2>4, <3>1 DEF Creates, NewFile, Files, listenerVars
    <2> QED
      BY <1>4, <2>2, <2>3, <2>4 DEF Execute, Possible
  <1>5. ASSUME NEW p \in Proc, on_syscall_exit(p) PROVE TypeOK' /\ CallsNoted'
    <2>1. /\ phase' = [phase EXCEPT ![p] = "user"]
          /\ phase[p] = "executed"
          /\ call[p] \in CallsOf
          /\ call' = [call EXCEPT ![p] = NoCall]
          /\ file' = [file EXCEPT ![p] = NoFile]
          /\ state_' = [state_ EXCEPT ![p] = NoEntry]
          /\ UNCHANGED <<fsVars, used>>
          /\ recorded' \subseteq Files
      BY <1>5 DEF on_syscall_exit, ToHandle, Env!ReportExit
    <2>2. files_' \in [Path -> Records] /\ symlinks_' \subseteq Path
      BY <1>5, <2>1, ExitType DEF on_syscall_exit, ToHandle, CallsOf
    <2> QED
      BY <2>1, <2>2 DEF fsVars
  <1>6. ASSUME NEW p \in Proc, NEW x \in Path, Unlink(p, x) \/ Creat(p, x)
        PROVE  TypeOK' /\ CallsNoted'
    BY <1>6 DEF Unlink, Creat, NewFile, listenerVars
  <1>7. ASSUME NEW p \in Proc, Die(p) PROVE TypeOK' /\ CallsNoted'
    BY <1>7 DEF Die, Env!Die, fsVars, listenerVars
  <1>8. ASSUME NEW p \in Proc, RegisterThrows(p) PROVE TypeOK' /\ CallsNoted'
    BY <1>8, ThrowEffect
  <1> QED
    BY <1>1, <1>2, <1>3, <1>4, <1>5, <1>6, <1>7, <1>8 DEF Next

\* The initial state is well typed.
LEMMA TypeInit == Init => TypeOK /\ CallsNoted
  BY ConstantsAssumption
     DEF Init, TypeOK, CallsNoted, Env!Init, Env!Phases, Notes, Records

\* The tables of the listener and the file system keep their types.
THEOREM FileTracerTypeCorrect == Spec => []TypeOK
  <1> QED
    BY TypeInit, TypeStep, PTL DEF Spec

-------------------------------------------------------------------------------
\* A record and a link, once in the tables, stay there unchanged
\* (FileTracer::register_file uses try_emplace and the links emplace).
THEOREM FirstRecordKept == Spec => FirstRecordStays
  <1> DEFINE Kept == /\ \A x \in registered : files_'[x] = files_[x]
                     /\ symlinks_ \subseteq symlinks_'
  <1>1. ASSUME TypeOK, CallsNoted, Next PROVE Kept
    <2>1. ASSUME NEW p \in Proc, on_syscall_exit(p) PROVE Kept
      <3>1. call[p].kind \in TracedKinds
        BY <1>1, <2>1 DEF on_syscall_exit, ToHandle, Env!ReportExit, CallsNoted, CallsOf
      <3>2. CASE UNCHANGED <<files_, symlinks_>>
        BY <3>2
      <3>3. CASE state_[p] \in FileInfo /\ exit_handler(call[p].kind, file[p], state_[p])
        BY <1>1, <3>1, <3>3
           DEF exit_handler, register_file, registered, TracedKinds, TypeOK, FileInfo
      <3> QED
        BY <2>1, <3>2, <3>3 DEF on_syscall_exit, ToHandle
    <2>2. CASE UNCHANGED <<files_, symlinks_>>
      BY <2>2
    <2> QED
      BY <1>1, <2>1, <2>2 DEF Next, Appear, on_syscall_entry, Execute, Unlink, Creat,
         Die, RegisterThrows, listenerVars
  <1>2. TypeOK /\ CallsNoted /\ [Next]_vars => [Kept]_vars
    BY <1>1
  <1> QED
    BY <1>2, TypeInit, TypeStep, PTL DEF Spec, FirstRecordStays

-------------------------------------------------------------------------------
\* What exists only ever grows in generations, and what the notes say of a file
\* that did not exist survives every step of every process.
LEMMA HistoryStep == IInv /\ [Next]_vars => IInv'
  <1> SUFFICES ASSUME IInv, [Next]_vars PROVE IInv'
    OBVIOUS
  <1>1. TypeOK' /\ CallsNoted'
    BY TypeStep DEF IInv
  <1> USE ConstantsAssumption
     DEF IInv, TypeOK, Generations, AbsenceNoted, ResultsWereCreated, first
  <1>2. CASE UNCHANGED vars
    BY <1>1, <1>2 DEF vars, fsVars, listenerVars
  <1>3. ASSUME NEW y \in Path, NewFile(y), UNCHANGED <<call, listenerVars>> PROVE IInv'
    BY <1>1, <1>3 DEF NewFile, Exists, listenerVars, FileInfo
  <1>4. ASSUME NEW p \in Proc, Appear(p) \/ Die(p) PROVE IInv'
    BY <1>1, <1>4 DEF Appear, Die, fsVars, listenerVars
  <1>5. ASSUME NEW p \in Proc, NEW c \in CallsOf, on_syscall_entry(p, c) PROVE IInv'
    <2>1. /\ call' = [call EXCEPT ![p] = c]
          /\ state_' = [state_ EXCEPT ![p] = entry(c)]
          /\ UNCHANGED <<node, gen, files_>>
      BY <1>5 DEF on_syscall_entry, fsVars
    <2>2. /\ entry(c) \in FileInfo
          /\ ~entry(c).existed_before
          /\ c.kind \in {"open", "stat"}
          => node[entry(c).path] = 0
      BY DEF entry, generic_open_entry, FileInfo, Exists, Nothing, CallsOf
    <2>3. AbsenceNoted'
      BY <2>1, <2>2
    <2> QED
      BY <1>1, <2>1, <2>3
  <1>6. ASSUME NEW p \in Proc, NEW y \in Path, Execute(p, y) PROVE IInv'
    <2>1. CASE UNCHANGED fsVars
      BY <1>1, <1>6, <2>1 DEF Execute, fsVars, listenerVars
    <2>2. CASE NewFile(y)
      BY <1>3, <1>6, <2>2 DEF Execute
    <2> QED
      BY <1>6, <2>1, <2>2 DEF Execute, SucceedsOn, Fails, Creates
  <1>7. ASSUME NEW p \in Proc, NEW x \in Path, Unlink(p, x) PROVE IInv'
    BY <1>1, <1>7 DEF Unlink, listenerVars, FileInfo
  <1>8. ASSUME NEW p \in Proc, on_syscall_exit(p) PROVE IInv'
    <2>1. /\ call' = [call EXCEPT ![p] = NoCall]
          /\ state_' = [state_ EXCEPT ![p] = NoEntry]
          /\ UNCHANGED <<node, gen>>
          /\ call[p].kind \in TracedKinds
      BY <1>8 DEF on_syscall_exit, ToHandle, Env!ReportExit, CallsNoted, CallsOf, fsVars
    <2>2. AbsenceNoted'
      BY <2>1 DEF NoEntry, FileInfo
    <2>3. ResultsWereCreated'
      <3>1. CASE UNCHANGED files_
        BY <2>1, <3>1
      <3>2. CASE state_[p] \in FileInfo /\ exit_handler(call[p].kind, file[p], state_[p])
        <4>1. state_[p].path \in Path /\ state_[p].existed_before \in BOOLEAN
          BY <3>2 DEF FileInfo
        <4>2. CASE call[p].kind \in {"open", "stat"} /\ Supported(state_[p].path)
          <5>1. \/ UNCHANGED files_
                \/ register_file(state_[p].path, state_[p].existed_before)
            BY <3>2, <4>2 DEF exit_handler
          <5>2. Exists(state_[p].path)
            BY <4>2 DEF Supported
          <5> DEFINE y == state_[p].path
          <5>3. ~state_[p].existed_before => gen'[y] > first(y)
            BY <2>1, <3>2, <4>1, <4>2, <5>2 DEF Exists
          <5>4. \A z \in Path : files_'[z] = "new" =>
                   files_[z] = "new" \/ (z = y /\ ~state_[p].existed_before)
            BY <4>1, <5>1 DEF register_file, Records
          <5> QED
            BY <2>1, <5>3, <5>4
        <4>3. CASE call[p].kind \in {"open", "stat"} /\ ~Supported(state_[p].path)
          BY <2>1, <3>2, <4>1, <4>3 DEF exit_handler
        <4>4. CASE call[p].kind \in {"exec", "readlink"}
          BY <2>1, <3>2, <4>1, <4>4 DEF exit_handler, register_file, Records
        <4> QED
          BY <2>1, <4>2, <4>3, <4>4 DEF TracedKinds
      <3> QED
        BY <1>8, <3>1, <3>2 DEF on_syscall_exit, ToHandle
    <2> QED
      BY <1>1, <2>1, <2>2, <2>3
  <1>9. ASSUME NEW p \in Proc, NEW x \in Path, Creat(p, x) PROVE IInv'
    BY <1>3, <1>9 DEF Creat
  <1>10. ASSUME NEW p \in Proc, RegisterThrows(p) PROVE IInv'
    <2>1. NoEntry \notin FileInfo
      <3>1. \A i \in FileInfo : "existed_before" \in DOMAIN i
        BY DEF FileInfo
      <3> QED
        BY <3>1 DEF NoEntry
    <2> QED
      BY <1>1, <1>10, <2>1, ThrowEffect
  <1> QED
    BY <1>2, <1>4, <1>5, <1>6, <1>7, <1>8, <1>9, <1>10 DEF Next

\* Nothing is noted or recorded when the program starts.
LEMMA HistoryInit == Init => IInv
  <1> SUFFICES ASSUME Init PROVE IInv
    OBVIOUS
  <1>1. TypeOK /\ CallsNoted
    BY TypeInit
  <1>2. Generations
    BY ConstantsAssumption DEF Init, Generations, first
  <1>3. NoEntry \notin FileInfo
    <2>1. \A i \in FileInfo : "existed_before" \in DOMAIN i
      BY DEF FileInfo
    <2>2. "existed_before" \notin DOMAIN NoEntry
      BY DEF NoEntry
    <2> QED
      BY <2>1, <2>2
  <1>4. AbsenceNoted
    BY <1>3 DEF Init, AbsenceNoted
  <1>5. ResultsWereCreated
    BY DEF Init, ResultsWereCreated
  <1> QED
    BY <1>1, <1>2, <1>4, <1>5 DEF IInv

\* A file is taken for a result of the program only if the program made a file
\* there: the existence the entry handler saw is compared with what the path
\* has when the call is over, whatever other processes did in between.
THEOREM ResultsCreated == Spec => []ResultsWereCreated
  <1>1. IInv => ResultsWereCreated
    BY DEF IInv
  <1> QED
    BY <1>1, HistoryInit, HistoryStep, PTL DEF Spec

-------------------------------------------------------------------------------
\* What a call in progress has succeeded on is in the history, and unless a
\* sibling changed the directory it is what the call named.
CallsUsed ==
    \A p \in Proc :
        phase[p] = "executed" /\ file[p] # NoFile =>
            /\ file[p] \in used
            /\ "chdir" \notin Allowed => file[p][1] = call[p].path

\* The note of a call in progress is about the path the call names.
NotesNameTheCall ==
    \A p \in Proc :
        phase[p] \in {"entered", "executed"} =>
            /\ call[p].kind \in Kinds
            /\ state_[p] \in FileInfo =>
                  state_[p].path = call[p].path /\ state_[p].path \notin Ignored

UInv == TypeOK /\ CallsNoted /\ CallsUsed /\ NotesNameTheCall /\ FilesWereUsed

\* Every step keeps UInv when only open is traced or no thread changes the
\* directory its siblings' relative paths start from.
LEMMA UsedStep ==
    ASSUME PathsAreKept
    PROVE  UInv /\ [Next]_vars => UInv'
  <1> SUFFICES ASSUME UInv, [Next]_vars PROVE UInv'
    OBVIOUS
  <1>0. "chdir" \notin Allowed \/ Kinds \subseteq {"open"}
    BY DEF PathsAreKept
  <1>1. TypeOK' /\ CallsNoted'
    BY TypeStep DEF UInv
  <1> USE DEF UInv, TypeOK
  <1>2. CASE UNCHANGED vars
    BY <1>1, <1>2 DEF vars, fsVars, listenerVars, CallsUsed, NotesNameTheCall,
       FilesWereUsed, UsedPaths, registered
  <1>3. ASSUME NEW p \in Proc, Appear(p) \/ Die(p) PROVE UInv'
    <2>1. /\ UNCHANGED <<call, file, state_, files_, symlinks_, used>>
          /\ \A q \in Proc : phase'[q] \in {"entered", "executed"} => phase'[q] = phase[q]
      BY <1>3 DEF Appear, Die, Env!Appear, Env!Die, listenerVars
    <2> QED
      BY <1>1, <2>1 DEF CallsUsed, NotesNameTheCall, FilesWereUsed, UsedPaths, registered
  <1>4. ASSUME NEW p \in Proc, NEW c \in CallsOf, on_syscall_entry(p, c) PROVE UInv'
    <2>1. /\ phase' = [phase EXCEPT ![p] = "entered"]
          /\ call' = [call EXCEPT ![p] = c]
          /\ state_' = [state_ EXCEPT ![p] = entry(c)]
          /\ c.kind \in Kinds
          /\ UNCHANGED <<file, used, files_, symlinks_>>
      BY <1>4 DEF on_syscall_entry, Env!ReportEntry
    <2>2. entry(c) \in FileInfo => entry(c).path = c.path /\ c.path \notin Ignored
      <3>1. \A i \in FileInfo : "existed_before" \in DOMAIN i
        BY DEF FileInfo
      <3>2. "existed_before" \notin DOMAIN Nothing
        BY DEF Nothing
      <3> QED
        BY <3>1, <3>2 DEF entry, generic_open_entry, noted_path_entry
    <2>3. CallsUsed' /\ NotesNameTheCall'
      BY <2>1, <2>2 DEF CallsUsed, NotesNameTheCall, Env!Phases
    <2> QED
      BY <1>1, <2>1, <2>3 DEF FilesWereUsed, UsedPaths, registered
  <1>5. ASSUME NEW p \in Proc, NEW y \in Path, Execute(p, y) PROVE UInv'
    <2>1. /\ phase' = [phase EXCEPT ![p] = "executed"]
          /\ phase[p] = "entered"
          /\ y = call[p].path \/ "chdir" \in Allowed
          /\ UNCHANGED <<call, state_, files_, symlinks_>>
      BY <1>5 DEF Execute, Env!Execute, listenerVars
    <2>2. PICK f : /\ file' = [file EXCEPT ![p] = f]
                   /\ used \subseteq used'
                   /\ f # NoFile => f \in used' /\ f[1] = y
      BY <1>5 DEF Execute, Fails, SucceedsOn, Creates
    <2>3. CallsUsed'
      BY <2>1, <2>2 DEF CallsUsed
    <2>4. NotesNameTheCall'
      BY <2>1 DEF NotesNameTheCall, Env!Phases
    <2> QED
      BY <1>1, <2>1, <2>2, <2>3, <2>4 DEF FilesWereUsed, UsedPaths, registered
  <1>6. ASSUME NEW p \in Proc, NEW x \in Path, Unlink(p, x) \/ Creat(p, x) PROVE UInv'
    BY <1>1, <1>6 DEF Unlink, Creat, listenerVars, CallsUsed, NotesNameTheCall,
       FilesWereUsed, UsedPaths, registered
  <1>7. ASSUME NEW p \in Proc, on_syscall_exit(p) PROVE UInv'
    <2>1. /\ phase' = [phase EXCEPT ![p] = "user"]
          /\ phase[p] = "executed"
          /\ call' = [call EXCEPT ![p] = NoCall]
          /\ file' = [file EXCEPT ![p] = NoFile]
          /\ state_' = [state_ EXCEPT ![p] = NoEntry]
          /\ UNCHANGED used
      BY <1>7 DEF on_syscall_exit, ToHandle, Env!ReportExit
    <2>2. CallsUsed' /\ NotesNameTheCall'
      BY <2>1 DEF CallsUsed, NotesNameTheCall
    <2>3. FilesWereUsed'
      <3>1. CASE UNCHANGED <<files_, symlinks_>>
        BY <2>1, <3>1 DEF FilesWereUsed, UsedPaths, registered
      <3>2. CASE /\ file[p] # NoFile
                 /\ state_[p] \in FileInfo
                 /\ exit_handler(call[p].kind, file[p], state_[p])
        <4> DEFINE x == state_[p].path
                   i == state_[p]
                   k == call[p].kind
        <4>1. /\ k \in Kinds \cap TracedKinds
              /\ x = call[p].path
              /\ x \in Path
              /\ x \notin Ignored
              /\ file[p] \in used
              /\ "chdir" \notin Allowed => file[p][1] = x
          BY <2>1, <3>2 DEF CallsUsed, NotesNameTheCall, CallsNoted, CallsOf, FileInfo
        <4>2. k = "open" /\ Equivalent(file[p], x) => file[p][1] = x
          BY DEF Equivalent
        <4>3. /\ registered' \cup symlinks_' \subseteq registered \cup symlinks_ \cup {x}
              /\ k = "open" /\ ~Equivalent(file[p], x) => UNCHANGED <<files_, symlinks_>>
          BY <3>2, <4>1 DEF exit_handler, register_file, registered, TracedKinds
        <4>4. file[p][1] = x \/ UNCHANGED <<files_, symlinks_>>
          BY <1>0, <4>1, <4>2, <4>3
        <4>5. CASE file[p][1] = x
          <5>1. x \in UsedPaths
            BY <4>1, <4>5 DEF UsedPaths
          <5> QED
            BY <2>1, <4>1, <4>3, <5>1 DEF FilesWereUsed, UsedPaths
        <4> QED
          BY <3>1, <4>4, <4>5
      <3> QED
        BY <1>7, <3>1, <3>2 DEF on_syscall_exit, ToHandle
    <2> QED
      BY <1>1, <2>2, <2>3
  <1>8. ASSUME NEW p \in Proc, RegisterThrows(p) PROVE UInv'
    <2>1. /\ \A q \in Proc : phase'[q] \notin {"entered", "executed"}
          /\ UNCHANGED <<files_, symlinks_, used>>
      BY <1>8, ThrowEffect
    <2>2. CallsUsed' /\ NotesNameTheCall'
      BY <2>1 DEF CallsUsed, NotesNameTheCall
    <2> QED
      BY <1>1, <2>1, <2>2 DEF FilesWereUsed, UsedPaths, registered
  <1> QED
    BY <1>2, <1>3, <1>4, <1>5, <1>6, <1>7, <1>8 DEF Next

\* Whatever the tracer registers was used by a traced call, also when other
\* processes delete, replace and create files between the entry and the exit. A
\* directory that changes under a call misleads stat, exec and readlink, which do
\* not look at the descriptor (file_tracer.h:361, 415, 482); it does not mislead open.
THEOREM OnlyUsedFiles == Spec => []FilesWereUsed
  <1>1. Init => UInv
    <2> SUFFICES ASSUME Init PROVE UInv
      OBVIOUS
    <2>1. TypeOK /\ CallsNoted
      BY TypeInit
    <2>2. CallsUsed /\ NotesNameTheCall
      BY DEF Init, Env!Init, CallsUsed, NotesNameTheCall
    <2>3. FilesWereUsed
      BY DEF Init, FilesWereUsed, registered
    <2> QED
      BY <2>1, <2>2, <2>3 DEF UInv
  <1>2. UInv => FilesWereUsed
    BY DEF UInv
  <1>3. CASE PathsAreKept
    BY <1>1, <1>2, <1>3, UsedStep, PTL DEF Spec
  <1>4. CASE ~PathsAreKept
    <2>1. FilesWereUsed
      BY <1>4 DEF FilesWereUsed
    <2> QED
      BY <2>1, PTL
  <1> QED
    BY <1>3, <1>4

-------------------------------------------------------------------------------
(***************************************************************************)
(* Inputs.  Whether a file was there before the program, and whether every  *)
(* use of it is registered, depends on what other processes do between the  *)
(* stops of a call.  The theorems name what they must not do; one process   *)
(* alone never does it.                                                     *)
(***************************************************************************)
InCall(p) == phase[p] \in {"entered", "executed"}
Succeeded(p) == phase[p] = "executed" /\ file[p] # NoFile

\* No call is made on a file while the call that created it is not recorded yet.
NoneOvertakes ==
    \A p, q \in Proc :
        /\ Succeeded(p)
        /\ file[p][1] \notin Initial
        /\ files_[file[p][1]] = "none"
        /\ phase[q] = "entered"
        => call[q].path # file[p][1]

\* The file a call succeeded on is not removed before the exit is reported.
FilesOutlastCalls == \A p \in Proc : Succeeded(p) => node[file[p][1]] = file[p][2]

\* What the entry handler of the call in progress has noted.
NotesComplete ==
    \A p \in Proc : InCall(p) =>
        /\ call[p].kind \in Kinds
        /\ call[p].create => call[p].kind = "open"
        /\ state_[p] \in FileInfo =>
              state_[p].path = call[p].path /\ call[p].path \notin Ignored
        /\ call[p].kind \in {"exec", "readlink"} /\ call[p].path \notin Ignored =>
              state_[p] \in FileInfo /\ ~state_[p].existed_before
        /\ call[p].kind \in {"open", "stat"} =>
              (state_[p] \in FileInfo <=> call[p].path \notin Ignored \cup Unreadable)

\* A call ends up at the path it names.
CallsOnPath == \A p \in Proc : Succeeded(p) => file[p][1] = call[p].path

CallInv == TypeOK /\ CallsNoted /\ NotesComplete /\ CallsOnPath

\* What an entry handler notes.
LEMMA EntryNotes ==
    ASSUME NEW c \in CallsOf
    PROVE  /\ entry(c) \in FileInfo => entry(c).path = c.path /\ c.path \notin Ignored
           /\ c.kind \in {"exec", "readlink"} /\ c.path \notin Ignored =>
                 entry(c) \in FileInfo /\ ~entry(c).existed_before
           /\ c.kind \in {"open", "stat"} =>
                 /\ entry(c) \in FileInfo <=> c.path \notin Ignored \cup Unreadable
                 /\ entry(c) \in FileInfo => entry(c).existed_before = Exists(c.path)
  <1>1. Nothing \notin FileInfo
    <2>1. \A i \in FileInfo : "existed_before" \in DOMAIN i
      BY DEF FileInfo
    <2>2. "existed_before" \notin DOMAIN Nothing
      BY DEF Nothing
    <2> QED
      BY <2>1, <2>2
  <1> QED
    BY <1>1 DEF entry, generic_open_entry, noted_path_entry, FileInfo, CallsOf, Exists

\* No process is in a call when the program starts.
LEMMA CallInit == Init => CallInv
  BY TypeInit DEF Init, Env!Init, CallInv, NotesComplete, CallsOnPath, InCall, Succeeded

\* Every step keeps CallInv when no thread changes the directory of its siblings.
LEMMA CallStep ==
    ASSUME "chdir" \notin Allowed
    PROVE  CallInv /\ [Next]_vars => CallInv'
  <1> SUFFICES ASSUME CallInv, [Next]_vars PROVE CallInv'
    OBVIOUS
  <1>1. TypeOK' /\ CallsNoted'
    BY TypeStep DEF CallInv
  <1> USE DEF CallInv, NotesComplete, CallsOnPath, InCall, Succeeded
  <1>2. CASE UNCHANGED vars
    BY <1>1, <1>2 DEF vars, listenerVars
  <1>3. ASSUME NEW p \in Proc, Appear(p) \/ Die(p) PROVE CallInv'
    <2>1. /\ UNCHANGED <<call, file, state_>>
          /\ \A q \in Proc : phase'[q] \in {"entered", "executed"} => phase'[q] = phase[q]
      BY <1>3 DEF Appear, Die, Env!Appear, Env!Die, listenerVars, TypeOK
    <2> QED
      BY <1>1, <2>1
  <1>4. ASSUME NEW p \in Proc, NEW c \in CallsOf, on_syscall_entry(p, c) PROVE CallInv'
    <2>1. /\ phase' = [phase EXCEPT ![p] = "entered"]
          /\ call' = [call EXCEPT ![p] = c]
          /\ state_' = [state_ EXCEPT ![p] = entry(c)]
          /\ c.kind \in Kinds
          /\ c.create => c.kind = "open"
          /\ UNCHANGED file
      BY <1>4 DEF on_syscall_entry, Env!ReportEntry
    <2>2. NotesComplete'
      BY <2>1, EntryNotes DEF TypeOK
    <2>3. CallsOnPath'
      BY <2>1 DEF TypeOK
    <2> QED
      BY <1>1, <2>2, <2>3
  <1>5. ASSUME NEW p \in Proc, NEW y \in Path, Execute(p, y) PROVE CallInv'
    <2>1. /\ phase' = [phase EXCEPT ![p] = "executed"]
          /\ phase[p] = "entered"
          /\ y = call[p].path
          /\ UNCHANGED <<call, state_>>
      BY <1>5 DEF Execute, Env!Execute, listenerVars
    <2>2. PICK f : file' = [file EXCEPT ![p] = f] /\ (f # NoFile => f[1] = y)
      BY <1>5 DEF Execute, Fails, SucceedsOn, Creates
    <2>3. NotesComplete'
      BY <2>1 DEF TypeOK
    <2>4. CallsOnPath'
      BY <2>1, <2>2 DEF TypeOK
    <2> QED
      BY <1>1, <2>3, <2>4
  <1>6. ASSUME NEW p \in Proc, NEW x \in Path, Unlink(p, x) \/ Creat(p, x) PROVE CallInv'
    BY <1>1, <1>6 DEF Unlink, Creat, listenerVars
  <1>7. ASSUME NEW p \in Proc, on_syscall_exit(p) PROVE CallInv'
    <2>1. /\ phase' = [phase EXCEPT ![p] = "user"]
          /\ call' = [call EXCEPT ![p] = NoCall]
          /\ file' = [file EXCEPT ![p] = NoFile]
          /\ state_' = [state_ EXCEPT ![p] = NoEntry]
      BY <1>7 DEF on_syscall_exit, ToHandle, Env!ReportExit
    <2> QED
      BY <1>1, <2>1 DEF TypeOK
  <1>8. ASSUME NEW p \in Proc, RegisterThrows(p) PROVE CallInv'
    <2>1. \A q \in Proc : phase'[q] \notin {"entered", "executed"}
      BY <1>8, ThrowEffect
    <2> QED
      BY <1>1, <2>1
  <1> QED
    BY <1>2, <1>3, <1>4, <1>5, <1>6, <1>7, <1>8 DEF Next

-------------------------------------------------------------------------------
\* The paths that the listener takes for results when the program makes a file there.
Watched == Path \ (Initial \cup Ignored \cup Unreadable \cup Special)

\* The listener will record the file at x when the exit of p's call is reported.
Creating(p, x) ==
    /\ phase[p] = "executed"
    /\ call[p].kind = "open"
    /\ file[p] = <<x, node[x]>>
    /\ state_[p] \in FileInfo /\ ~state_[p].existed_before

\* A file that the program made is recorded as new, or is about to be.
CreationsKnown ==
    \A x \in Watched : Exists(x) => files_[x] = "new" \/ \E p \in Proc : Creating(p, x)

\* A call that found a file the program made found a recorded one.
ExistenceKnown ==
    \A p \in Proc : InCall(p) /\ call[p].path \in Path \ Initial =>
        /\ /\ call[p].kind \in {"open", "stat"}
           /\ state_[p] \in FileInfo /\ state_[p].existed_before
           /\ call[p].path \notin Special
           => files_[call[p].path] = "new"
        /\ Succeeded(p) /\ call[p].kind = "exec"
           /\ call[p].path \notin Ignored \cup Unreadable
           => files_[call[p].path] = "new"

\* r4r has ended by an exception of register_file, and with it all processes.
Over == /\ \A p \in Proc : phase[p] \in {"none", "gone"}
        /\ \E p \in Proc : phase[p] = "gone"

KnownInv == CallInv /\ CreationsKnown /\ ExistenceKnown /\ InputsWereThere
InputInv == CallInv /\ InputsWereThere /\ (Over \/ KnownInv)

\* A record that a file is new stays.
LEMMA NewStays ==
    ASSUME TypeOK, NEW k \in TracedKinds, NEW f, NEW i \in FileInfo, exit_handler(k, f, i)
    PROVE  /\ \A x \in Path : files_[x] # "none" => files_'[x] = files_[x]
           /\ \A x \in Path \ {i.path} : files_'[x] = files_[x]
           /\ files_'[i.path] = "existed" =>
                 \/ files_[i.path] = "existed"
                 \/ files_[i.path] = "none" /\ k = "exec"
                 \/ /\ files_[i.path] = "none" /\ k \in {"open", "stat"}
                    /\ i.existed_before /\ i.path \notin Special
  BY DEF exit_handler, register_file, TypeOK, Records, TracedKinds, FileInfo, Supported

\* Every step but the exception keeps KnownInv if files come from calls with a handler only, no process
\* is killed between such a call and its report, and no call overtakes another.
LEMMA KnownStep ==
    ASSUME Allowed \cap {"creat", "chdir", "die"} = {}
    PROVE  KnownInv /\ NoneOvertakes /\ NoneOvertakes' /\ [Next]_vars =>
              KnownInv' \/ (\E p \in Proc : RegisterThrows(p))
  <1> SUFFICES ASSUME KnownInv, NoneOvertakes, NoneOvertakes', [Next]_vars,
                      \A p \in Proc : ~RegisterThrows(p)
               PROVE  KnownInv'
    OBVIOUS
  <1>1. CallInv'
    BY CallStep DEF KnownInv
  <1>2. TypeOK /\ CallsNoted /\ TypeOK'
    BY <1>1 DEF KnownInv, CallInv
  <1> USE DEF KnownInv
  <1>3. CASE UNCHANGED vars
    BY <1>1, <1>3 DEF vars, fsVars, listenerVars, CreationsKnown, Creating, Exists,
       ExistenceKnown, InCall, Succeeded, InputsWereThere
  <1>4. ASSUME NEW p \in Proc, Appear(p) PROVE KnownInv'
    <2>1. /\ UNCHANGED <<call, file, node, state_, files_>>
          /\ \A q \in Proc : q # p => phase'[q] = phase[q]
          /\ phase[p] = "none" /\ phase'[p] = "user"
      BY <1>2, <1>4 DEF Appear, Env!Appear, fsVars, listenerVars, TypeOK
    <2> QED
      BY <1>1, <2>1 DEF CreationsKnown, Creating, Exists, ExistenceKnown, InCall, Succeeded,
         InputsWereThere
  <1>5. ASSUME NEW p \in Proc, NEW c \in CallsOf, on_syscall_entry(p, c) PROVE KnownInv'
    <2>1. /\ phase[p] = "user"
          /\ phase' = [phase EXCEPT ![p] = "entered"]
          /\ call' = [call EXCEPT ![p] = c]
          /\ state_' = [state_ EXCEPT ![p] = entry(c)]
          /\ UNCHANGED <<file, node, files_>>
      BY <1>5 DEF on_syscall_entry, Env!ReportEntry, fsVars
    <2>2. \A q \in Proc \ {p} : /\ phase'[q] = phase[q] /\ call'[q] = call[q]
                                /\ state_'[q] = state_[q]
      BY <1>2, <2>1 DEF TypeOK
    <2>3. phase'[p] = "entered" /\ call'[p] = c /\ state_'[p] = entry(c)
      BY <1>2, <2>1 DEF TypeOK
    <2>4. \A q \in Proc, x \in Path : Creating(q, x) => Creating(q, x)'
      BY <2>1, <2>2 DEF Creating
    <2>5. CreationsKnown'
      BY <2>1, <2>4 DEF CreationsKnown, Exists, Watched
    <2>6. ASSUME c.kind \in {"open", "stat"}, entry(c) \in FileInfo, entry(c).existed_before,
                 c.path \in Path \ Initial, c.path \notin Special
          PROVE  files_[c.path] = "new"
      <3>1. c.path \in Watched /\ Exists(c.path)
        BY <2>6, EntryNotes DEF Watched
      <3>2. ASSUME NEW q \in Proc, Creating(q, c.path), files_[c.path] # "new" PROVE FALSE
        <4>1. files_[c.path] = "none"
          BY <1>2, <2>6, <3>2 DEF InputsWereThere, TypeOK, Records
        <4>2. file[q] # NoFile /\ file[q][1] = c.path
          BY <3>2 DEF Creating, NoFile
        <4>3. q # p
          BY <2>1, <3>2 DEF Creating
        <4>4. Succeeded(q)' /\ file'[q] = file[q]
          BY <2>1, <2>2, <3>2, <4>2, <4>3 DEF Succeeded, Creating
        <4>5. file'[q][1] = c.path /\ files_'[c.path] = "none"
          BY <2>1, <4>1, <4>2, <4>4
        <4> QED
          BY <2>3, <2>6, <4>4, <4>5 DEF NoneOvertakes
      <3> QED
        BY <3>1, <3>2 DEF CreationsKnown
    <2>7. ExistenceKnown'
      BY <2>1, <2>2, <2>3, <2>6 DEF ExistenceKnown, InCall, Succeeded
    <2> QED
      BY <1>1, <2>1, <2>5, <2>7 DEF InputsWereThere
  <1>6. ASSUME NEW p \in Proc, NEW y \in Path, Execute(p, y) PROVE KnownInv'
    <2>1. /\ phase' = [phase EXCEPT ![p] = "executed"]
          /\ phase[p] = "entered"
          /\ y = call[p].path
          /\ UNCHANGED <<call, state_, files_>>
      BY <1>6 DEF Execute, Env!Execute, listenerVars
    <2>2. \A q \in Proc \ {p} : phase'[q] = phase[q] /\ file'[q] = file[q]
      BY <1>2, <1>6, <2>1 DEF Execute, Fails, SucceedsOn, Creates, TypeOK
    <2>3. phase'[p] = "executed" /\ call[p] \in CallsOf /\ call[p].path \in Path
      BY <1>2, <2>1 DEF TypeOK, CallsNoted, CallsOf
    <2>4. \A x \in Path \ {y} : node'[x] = node[x]
      BY <1>2, <1>6 DEF Execute, Fails, SucceedsOn, Creates, NewFile, fsVars, TypeOK
    <2>5. /\ file'[p] # NoFile /\ ~call[p].create => Possible(call[p], y)
          /\ UNCHANGED node \/ (Creates(p, y) /\ call[p].create)
          /\ call[p].kind = "exec" /\ file'[p] # NoFile => Possible(call[p], y) /\ UNCHANGED node
      <3>1. call[p].kind = "exec" => ~call[p].create
        BY <2>1 DEF CallInv, NotesComplete, InCall
      <3> QED
        BY <1>2, <1>6, <3>1 DEF Execute, Fails, SucceedsOn, fsVars, TypeOK
    <2>6. CreationsKnown'
      <3> SUFFICES ASSUME NEW x \in Watched, node'[x] # 0
                   PROVE  files_[x] = "new" \/ \E q \in Proc : Creating(q, x)'
        BY <2>1 DEF CreationsKnown, Exists, Watched
      <3>1. CASE node'[x] = node[x]
        <4>1. \A q \in Proc : Creating(q, x) => Creating(q, x)'
          BY <2>1, <2>2, <3>1 DEF Creating
        <4> QED
          BY <3>1, <4>1 DEF CreationsKnown, Exists
      <3>2. CASE node'[x] # node[x]
        <4>1. x = y /\ Creates(p, y) /\ call[p].create
          BY <2>4, <2>5, <3>2 DEF Watched
        <4>2. call[p].kind = "open" /\ state_[p] \in FileInfo
          BY <2>1, <4>1 DEF CallInv, NotesComplete, InCall, Watched
        <4>3. file'[p] = <<y, node'[y]>>
          BY <1>2, <4>1 DEF Creates, NewFile, TypeOK
        <4>4. state_[p].existed_before => files_[x] = "new"
          BY <2>1, <4>1, <4>2 DEF ExistenceKnown, InCall, Watched
        <4>5. CASE ~state_[p].existed_before
          <5>1. Creating(p, x)'
            BY <2>1, <2>3, <4>1, <4>2, <4>3, <4>5 DEF Creating
          <5> QED
            BY <5>1
        <4> QED
          BY <4>4, <4>5
      <3> QED
        BY <3>1, <3>2
    <2>7. ASSUME call[p].kind = "exec", file'[p] # NoFile, y \notin Initial,
                 y \notin Ignored \cup Unreadable
          PROVE  files_[y] = "new"
      <3>1. Exists(y) /\ y \notin Special
        BY <2>5, <2>7 DEF Possible
      <3>2. y \in Watched
        BY <2>7, <3>1 DEF Watched
      <3>3. ASSUME NEW q \in Proc, Creating(q, y), files_[y] # "new" PROVE FALSE
        <4>1. files_[y] = "none"
          BY <1>2, <2>7, <3>3 DEF InputsWereThere, TypeOK, Records
        <4>2. file[q] # NoFile /\ file[q][1] = y
          BY <3>3 DEF Creating, NoFile
        <4> QED
          BY <2>1, <2>7, <3>3, <4>1, <4>2 DEF NoneOvertakes, Succeeded, Creating
      <3> QED
        BY <3>1, <3>2, <3>3 DEF CreationsKnown
    <2>8. ExistenceKnown'
      BY <2>1, <2>2, <2>3, <2>7 DEF ExistenceKnown, InCall, Succeeded
    <2> QED
      BY <1>1, <2>1, <2>6, <2>8 DEF InputsWereThere
  <1>7. ASSUME NEW p \in Proc, NEW x \in Path, Unlink(p, x) PROVE KnownInv'
    <2>1. /\ UNCHANGED <<phase, call, file, state_, files_>>
          /\ node' = [node EXCEPT ![x] = 0]
      BY <1>7 DEF Unlink, listenerVars
    <2>2. ASSUME NEW z \in Path, node'[z] # 0
          PROVE  node'[z] = node[z] /\ \A q \in Proc : Creating(q, z) => Creating(q, z)'
      BY <1>2, <2>1, <2>2 DEF Creating, TypeOK
    <2>3. CreationsKnown'
      BY <2>1, <2>2 DEF CreationsKnown, Exists, Watched
    <2> QED
      BY <1>1, <2>1, <2>3 DEF ExistenceKnown, InCall, Succeeded, InputsWereThere
  <1>8. ASSUME NEW p \in Proc, on_syscall_exit(p) PROVE KnownInv'
    <2>1. /\ phase[p] = "executed"
          /\ phase' = [phase EXCEPT ![p] = "user"]
          /\ call' = [call EXCEPT ![p] = NoCall]
          /\ file' = [file EXCEPT ![p] = NoFile]
          /\ state_' = [state_ EXCEPT ![p] = NoEntry]
          /\ UNCHANGED node
          /\ call[p].kind \in TracedKinds
      BY <1>2, <1>8 DEF on_syscall_exit, ToHandle, Env!ReportExit, CallsNoted, CallsOf, fsVars
    <2>2. /\ phase'[p] = "user"
          /\ \A q \in Proc \ {p} : /\ phase'[q] = phase[q] /\ call'[q] = call[q]
                                   /\ file'[q] = file[q] /\ state_'[q] = state_[q]
      BY <1>2, <2>1 DEF TypeOK
    <2> DEFINE i == state_[p]
               k == call[p].kind
               Handles == /\ file[p] # NoFile /\ i \in FileInfo
                          /\ exit_handler(k, file[p], i)
    <2>3. Handles \/ (UNCHANGED files_ /\ ~(file[p] # NoFile /\ i \in FileInfo))
      BY <1>8 DEF on_syscall_exit, ToHandle
    <2>4. Handles => /\ i.path = call[p].path /\ i.path \in Path /\ i.path \notin Ignored
                     /\ file[p][1] = i.path
      BY <2>1 DEF CallInv, NotesComplete, CallsOnPath, InCall, Succeeded, FileInfo
    <2>5. /\ \A x \in Path : files_[x] # "none" => files_'[x] = files_[x]
          /\ \A x \in Path : files_'[x] # files_[x] => Handles /\ x = i.path
      BY <1>2, <2>1, <2>3, NewStays
    <2>6. InputsWereThere'
      <3> SUFFICES ASSUME NEW x \in Path, files_'[x] = "existed", x \notin Initial PROVE FALSE
        BY DEF InputsWereThere
      <3>1. files_[x] = "none" /\ Handles /\ x = i.path
        BY <1>2, <2>5 DEF InputsWereThere, TypeOK, Records
      <3>2. \/ k = "exec"
            \/ k \in {"open", "stat"} /\ i.existed_before /\ i.path \notin Special
        BY <1>2, <2>1, <3>1, NewStays
      <3>9. k = "exec" => i.path \notin Unreadable
        BY <1>8, <3>1 DEF on_syscall_exit, ToHandle, Throws
      <3>3. files_[x] = "new"
        BY <2>1, <2>4, <3>1, <3>2, <3>9 DEF ExistenceKnown, InCall, Succeeded
      <3> QED
        BY <3>1, <3>3
    <2>7. CreationsKnown'
      <3> SUFFICES ASSUME NEW x \in Watched, Exists(x)
                   PROVE  files_'[x] = "new" \/ \E q \in Proc : Creating(q, x)'
        BY <2>1 DEF CreationsKnown, Exists, Watched
      <3>1. CASE files_[x] = "new"
        BY <2>5, <3>1 DEF Watched
      <3>2. ASSUME NEW q \in Proc, Creating(q, x), q # p
            PROVE  Creating(q, x)'
        BY <2>1, <2>2, <3>2 DEF Creating
      <3>3. CASE Creating(p, x)
        <4>1. /\ k = "open" /\ i \in FileInfo /\ ~i.existed_before
              /\ file[p] = <<x, node[x]>> /\ file[p] # NoFile /\ x \in Path
          BY <3>3 DEF Creating, NoFile, Watched
        <4>2. Handles /\ i.path = x
          BY <2>3, <2>4, <4>1
        <4>3. Supported(x) /\ Equivalent(file[p], x)
          BY <4>1 DEF Supported, Equivalent, Watched
        <4>4. files_'[x] # "none"
          BY <1>2, <4>1, <4>2, <4>3 DEF exit_handler, register_file, TypeOK, Records
        <4>5. files_'[x] # "existed"
          BY <2>6, <4>1 DEF InputsWereThere, Watched
        <4> QED
          BY <1>2, <4>1, <4>4, <4>5 DEF TypeOK, Records
      <3> QED
        BY <3>1, <3>2, <3>3 DEF CreationsKnown
    <2>8. ExistenceKnown'
      <3>1. \A q \in Proc : InCall(q)' => q # p /\ InCall(q)
        BY <2>2 DEF InCall
      <3> QED
        BY <2>2, <2>5, <3>1 DEF ExistenceKnown, Succeeded
    <2> QED
      BY <1>1, <2>6, <2>7, <2>8
  <1>9. ASSUME NEW p \in Proc, (\E x \in Path : Creat(p, x)) \/ Die(p) PROVE FALSE
    BY <1>9 DEF Creat, Die
  <1> QED
    BY <1>3, <1>4, <1>5, <1>6, <1>7, <1>8, <1>9 DEF Next

\* After the exception nothing happens any more.
LEMMA InputStep ==
    ASSUME Allowed \cap {"creat", "chdir", "die"} = {}
    PROVE  InputInv /\ NoneOvertakes /\ NoneOvertakes' /\ [Next]_vars => InputInv'
  <1> SUFFICES ASSUME InputInv, NoneOvertakes, NoneOvertakes', [Next]_vars PROVE InputInv'
    OBVIOUS
  <1>1. CallInv' /\ TypeOK
    BY CallStep DEF InputInv, CallInv
  <1>2. CASE Over
    <2>1. ~Next
      <3> SUFFICES ASSUME NEW p \in Proc
                   PROVE  /\ ~Appear(p) /\ ~on_syscall_exit(p) /\ ~RegisterThrows(p) /\ ~Die(p)
                          /\ \A c \in CallsOf : ~on_syscall_entry(p, c)
                          /\ \A x \in Path : ~Execute(p, x) /\ ~Unlink(p, x) /\ ~Creat(p, x)
        BY DEF Next
      <3> QED
        BY <1>2 DEF Over, Living, Appear, on_syscall_exit, RegisterThrows, Die, on_syscall_entry,
           Execute, Unlink, Creat, Env!Appear, Env!ReportEntry, Env!ReportExit, Env!Execute
    <2>2. UNCHANGED vars
      BY <2>1
    <2> QED
      BY <1>1, <1>2, <2>2 DEF InputInv, Over, InputsWereThere, vars, listenerVars
  <1>3. CASE ~Over
    <2>1. KnownInv
      BY <1>3 DEF InputInv
    <2>2. ASSUME NEW p \in Proc, RegisterThrows(p) PROVE InputInv'
      BY <1>1, <2>2, ThrowEffect DEF InputInv, Over, InputsWereThere
    <2>3. CASE KnownInv'
      BY <2>3 DEF InputInv, KnownInv
    <2> QED
      BY <2>1, <2>2, <2>3, KnownStep
  <1> QED
    BY <1>2, <1>3

\* Nothing is recorded when the program starts, and what is there was there before.
LEMMA InputInit == Init => InputInv
  <1> SUFFICES ASSUME Init PROVE InputInv
    OBVIOUS
  <1>1. \A p \in Proc : ~InCall(p)
    BY DEF Init, Env!Init, InCall
  <1>2. CreationsKnown
    BY DEF Init, CreationsKnown, Exists, Watched
  <1> QED
    BY <1>1, <1>2, CallInit DEF Init, InputInv, KnownInv, ExistenceKnown, InputsWereThere

\* A file is taken for an input only if it was there before the program, however many
\* processes there are: it is enough that a call that finds a new file is made when
\* the creation has been recorded. Files from calls without a handler, and creators
\* that are killed before their exit, are recorded by nobody (file_tracer.h:98).
THEOREM InputsThere ==
    ASSUME Allowed \cap {"creat", "chdir", "die"} = {}
    PROVE  Spec /\ []NoneOvertakes => []InputsWereThere
  <1>1. InputInv => InputsWereThere
    BY DEF InputInv
  <1> QED
    BY <1>1, InputInit, InputStep, PTL DEF Spec

\* A process alone does not overtake itself.
THEOREM InputsThereAlone ==
    ASSUME Allowed \cap {"creat", "chdir", "die"} = {},
           \A p, q \in Proc : p = q
    PROVE  Spec => []InputsWereThere
  <1>1. NoneOvertakes
    BY DEF NoneOvertakes, Succeeded
  <1> QED
    BY <1>1, InputsThere, PTL

-------------------------------------------------------------------------------
\* A path has what was created there last, or nothing.
LastCreated == \A x \in Path : node[x] \in {0, gen[x]}

\* A call that ended up at the file a path had at the start found it there.
FirstFileFound ==
    \A p \in Proc :
        /\ Succeeded(p)
        /\ call[p].kind \in {"open", "stat"}
        /\ state_[p] \in FileInfo
        /\ call[p].path \in Initial
        /\ file[p][2] = 1
        => state_[p].existed_before

\* readlink succeeds on the links that were there at the start.
LinksRead ==
    \A p \in Proc :
        Succeeded(p) /\ call[p].kind = "readlink" =>
            call[p].path \in Link /\ file[p][2] = 1

RecordInv == IInv /\ CallInv /\ LastCreated /\ FirstFileFound /\ LinksRead /\ RecordsAreComplete

\* The steps in which no exit is reported do not touch the records.
LEMMA RecordsKept ==
    ASSUME RecordInv, IInv', CallInv', UNCHANGED <<files_, symlinks_, recorded>>,
           LastCreated', FirstFileFound', LinksRead'
    PROVE  RecordInv'
  BY DEF RecordInv, RecordsAreComplete, InputsAreKept, UsesAreRegistered, registered

\* Every step keeps RecordInv if the files that calls succeed on outlast the calls.
LEMMA RecordStep ==
    ASSUME "chdir" \notin Allowed
    PROVE  RecordInv /\ FilesOutlastCalls /\ [Next]_vars => RecordInv'
  <1> SUFFICES ASSUME RecordInv, FilesOutlastCalls, [Next]_vars PROVE RecordInv'
    OBVIOUS
  <1>1. CallInv' /\ IInv'
    BY CallStep, HistoryStep DEF RecordInv
  <1>2. TypeOK /\ TypeOK' /\ CallsNoted /\ Generations
    BY <1>1 DEF RecordInv, CallInv, IInv
  <1> USE DEF RecordInv
  <1>3. CASE UNCHANGED vars
    BY <1>1, <1>3, RecordsKept
       DEF vars, fsVars, listenerVars, LastCreated, FirstFileFound, LinksRead, Succeeded
  <1>4. ASSUME NEW p \in Proc, Appear(p) \/ Die(p) PROVE RecordInv'
    <2>1. /\ UNCHANGED <<call, file, node, gen, state_, files_, symlinks_, recorded>>
          /\ \A q \in Proc : phase'[q] = "executed" => phase[q] = "executed"
      BY <1>2, <1>4 DEF Appear, Die, Env!Appear, Env!Die, fsVars, listenerVars, TypeOK
    <2> QED
      BY <1>1, <2>1, RecordsKept DEF LastCreated, FirstFileFound, LinksRead, Succeeded
  <1>5. ASSUME NEW p \in Proc, NEW c \in CallsOf, on_syscall_entry(p, c) PROVE RecordInv'
    <2>1. /\ phase' = [phase EXCEPT ![p] = "entered"]
          /\ call' = [call EXCEPT ![p] = c]
          /\ state_' = [state_ EXCEPT ![p] = entry(c)]
          /\ UNCHANGED <<file, node, gen, files_, symlinks_, recorded>>
      BY <1>5 DEF on_syscall_entry, Env!ReportEntry, fsVars
    <2>2. \A q \in Proc : phase'[q] = "executed" =>
             phase[q] = "executed" /\ call'[q] = call[q] /\ state_'[q] = state_[q]
      BY <1>2, <2>1 DEF TypeOK
    <2> QED
      BY <1>1, <2>1, <2>2, RecordsKept DEF LastCreated, FirstFileFound, LinksRead, Succeeded
  <1>6. ASSUME NEW y \in Path, NewFile(y) PROVE LastCreated'
    BY <1>2, <1>6 DEF NewFile, LastCreated, TypeOK
  <1>7. ASSUME NEW p \in Proc, NEW y \in Path, Execute(p, y) PROVE RecordInv'
    <2>1. /\ phase' = [phase EXCEPT ![p] = "executed"]
          /\ phase[p] = "entered"
          /\ y = call[p].path
          /\ UNCHANGED <<call, state_, files_, symlinks_, recorded>>
      BY <1>7 DEF Execute, Env!Execute, listenerVars
    <2>2. \A q \in Proc \ {p} : phase'[q] = phase[q] /\ file'[q] = file[q]
      BY <1>2, <1>7, <2>1 DEF Execute, Fails, SucceedsOn, Creates, TypeOK
    <2>3. LastCreated'
      <3>1. UNCHANGED fsVars \/ NewFile(y)
        BY <1>7 DEF Execute, Fails, SucceedsOn, Creates
      <3> QED
        BY <1>6, <3>1 DEF LastCreated, fsVars
    <2>4. file'[p] # NoFile =>
            \/ file'[p] = <<y, node[y]>> /\ Possible(call[p], y)
            \/ file'[p] = <<y, gen[y] + 1>> /\ call[p].create
      BY <1>2, <1>7 DEF Execute, Fails, SucceedsOn, Creates, TypeOK
    <2>5. FirstFileFound'
      <3> SUFFICES ASSUME /\ file'[p] # NoFile
                          /\ call[p].kind \in {"open", "stat"}
                          /\ state_[p] \in FileInfo
                          /\ y \in Initial
                          /\ file'[p][2] = 1
                   PROVE  state_[p].existed_before
        BY <2>1, <2>2 DEF FirstFileFound, Succeeded
      <3>1. gen[y] >= 1 /\ gen[y] \in Nat /\ node[y] \in Nat /\ first(y) = 1
        BY <1>2 DEF Generations, first, TypeOK
      <3>2. node[y] = 1
        BY <2>4, <3>1
      <3>3. gen[y] = 1
        BY <3>1, <3>2 DEF LastCreated
      <3>4. state_[p].path = y
        BY <2>1 DEF CallInv, NotesComplete, InCall
      <3> QED
        BY <3>1, <3>2, <3>3, <3>4 DEF IInv, AbsenceNoted
    <2>6. LinksRead'
      <3>1. call[p].kind = "readlink" => ~call[p].create
        BY <2>1 DEF CallInv, NotesComplete, InCall
      <3>2. call[p].kind = "readlink" /\ file'[p] # NoFile => y \in Link /\ file'[p][2] = 1
        BY <2>4, <3>1 DEF Possible, IsLink
      <3> QED
        BY <2>1, <2>2, <3>2 DEF LinksRead, Succeeded
    <2> QED
      BY <1>1, <2>1, <2>3, <2>5, <2>6, RecordsKept
  <1>8. ASSUME NEW p \in Proc, NEW x \in Path, Unlink(p, x) \/ Creat(p, x) PROVE RecordInv'
    <2>1. UNCHANGED <<phase, call, file, state_, files_, symlinks_, recorded>>
      BY <1>8 DEF Unlink, Creat, listenerVars
    <2>2. LastCreated'
      BY <1>2, <1>6, <1>8 DEF Unlink, Creat, LastCreated, TypeOK
    <2> QED
      BY <1>1, <2>1, <2>2, RecordsKept DEF FirstFileFound, LinksRead, Succeeded
  <1>9. ASSUME NEW p \in Proc, on_syscall_exit(p) PROVE RecordInv'
    <2>1. /\ phase[p] = "executed"
          /\ phase' = [phase EXCEPT ![p] = "user"]
          /\ call' = [call EXCEPT ![p] = NoCall]
          /\ file' = [file EXCEPT ![p] = NoFile]
          /\ state_' = [state_ EXCEPT ![p] = NoEntry]
          /\ UNCHANGED <<node, gen>>
          /\ call[p].kind \in TracedKinds /\ call[p].path \in Path
          /\ recorded' = IF file[p] = NoFile THEN recorded ELSE recorded \cup {file[p]}
      BY <1>2, <1>9 DEF on_syscall_exit, ToHandle, Env!ReportExit, CallsNoted, CallsOf, fsVars
    <2>2. \A q \in Proc : phase'[q] = "executed" =>
             /\ phase[q] = "executed" /\ call'[q] = call[q]
             /\ file'[q] = file[q] /\ state_'[q] = state_[q]
      BY <1>2, <2>1 DEF TypeOK
    <2>3. LastCreated' /\ FirstFileFound' /\ LinksRead'
      BY <2>1, <2>2 DEF LastCreated, FirstFileFound, LinksRead, Succeeded
    <2> DEFINE i == state_[p]
               k == call[p].kind
               x == call[p].path
    <2>4. /\ \A z \in Path : files_[z] # "none" => files_'[z] = files_[z]
          /\ symlinks_ \subseteq symlinks_'
      <3>1. ASSUME i \in FileInfo, exit_handler(k, file[p], i) PROVE <2>4!:
        <4>1. symlinks_ \subseteq symlinks_'
          BY <2>1, <3>1 DEF exit_handler, TracedKinds
        <4> QED
          BY <1>2, <2>1, <3>1, <4>1, NewStays
      <3> QED
        BY <1>9, <3>1 DEF on_syscall_exit, ToHandle
    <2>5. ASSUME file[p] # NoFile, x \notin Ignored \cup Unreadable \cup Special
          PROVE  /\ file[p] = <<x, node[x]>>
                 /\ i \in FileInfo /\ i.path = x
                 /\ exit_handler(k, file[p], i)
                 /\ k # "readlink" => files_'[x] # "none"
                 /\ k = "readlink" => x \in Link /\ (x \notin Hidden => x \in symlinks_')
      <3>1. i \in FileInfo /\ i.path = x
        BY <2>1, <2>5 DEF CallInv, NotesComplete, InCall, TracedKinds
      <3>2. exit_handler(k, file[p], i)
        BY <1>9, <2>5, <3>1 DEF on_syscall_exit, ToHandle
      <3>3. file[p] = <<x, node[x]>> /\ node[x] \in 1 .. MaxGen
        <4>1. file[p] \in Path \X (1 .. MaxGen)
          BY <1>2, <2>5 DEF TypeOK, Files
        <4>2. file[p][1] = x /\ file[p][2] = node[x]
          BY <2>1, <2>5 DEF CallInv, CallsOnPath, FilesOutlastCalls, Succeeded
        <4> QED
          BY <4>1, <4>2
      <3>4. Supported(x) /\ Equivalent(file[p], x)
        BY <2>5, <3>3 DEF Supported, Exists, Equivalent
      <3>5. CASE k \in {"open", "stat", "exec"}
        <4>1. register_file(x, i.existed_before) \/ register_file(x, TRUE)
          BY <3>1, <3>2, <3>4, <3>5 DEF exit_handler
        <4>2. files_'[x] # "none"
          BY <1>2, <2>1, <4>1 DEF register_file, TypeOK, Records
        <4> QED
          BY <3>1, <3>2, <3>3, <3>5, <4>2
      <3>6. CASE k = "readlink"
        <4>1. x \in Link /\ file[p][2] = 1
          BY <2>1, <2>5, <3>6 DEF LinksRead, Succeeded
        <4>2. x \in Link /\ node[x] = 1
          BY <3>3, <4>1
        <4> QED
          BY <3>1, <3>2, <3>3, <3>6, <4>2 DEF exit_handler, IsLink
      <3> QED
        BY <2>1, <3>1, <3>2, <3>3, <3>5, <3>6 DEF TracedKinds
    <2>6. InputsAreKept'
      <3> SUFFICES ASSUME NEW z \in Initial \ (Ignored \cup Unreadable \cup Special),
                          <<z, 1>> \in recorded', z \notin Link
                   PROVE  files_'[z] = "existed"
        BY DEF InputsAreKept
      <3>0. z \in Path
        BY ConstantsAssumption
      <3>1. CASE <<z, 1>> \in recorded
        BY <2>4, <3>0, <3>1 DEF RecordsAreComplete, InputsAreKept
      <3>2. CASE <<z, 1>> \notin recorded
        <4>1. file[p] # NoFile /\ file[p] = <<z, 1>> /\ z = x
          BY <2>1, <3>2 DEF CallInv, CallsOnPath, Succeeded
        <4>2. /\ node[x] = 1 /\ k # "readlink" /\ i \in FileInfo /\ i.path = x
              /\ exit_handler(k, file[p], i)
              /\ files_'[x] # "none"
          BY <2>5, <4>1
        <4>3. k \in {"open", "stat"} => i.existed_before
          BY <2>1, <4>1, <4>2 DEF FirstFileFound, Succeeded
        <4>4. files_[x] # "new"
          <5>1. gen[x] = 1
            BY <2>1, <4>2 DEF LastCreated
          <5> QED
            BY <2>1, <4>1, <5>1 DEF IInv, ResultsWereCreated
        <4>5. files_'[x] # "new"
          <5>1. \/ UNCHANGED files_
                \/ register_file(x, i.existed_before) /\ i.existed_before
                \/ register_file(x, TRUE)
            BY <2>1, <4>2, <4>3 DEF exit_handler, TracedKinds
          <5> QED
            BY <1>2, <4>4, <5>1 DEF register_file, TypeOK
        <4> QED
          BY <1>2, <3>0, <4>1, <4>2, <4>5 DEF TypeOK, Records
      <3> QED
        BY <3>1, <3>2
    <2>7. UsesAreRegistered'
      <3> SUFFICES ASSUME NEW f \in recorded',
                          f[1] \notin Ignored \cup Unreadable \cup Special \cup Hidden
                   PROVE  f[1] \in registered' \cup symlinks_'
        BY DEF UsesAreRegistered
      <3>1. CASE f \in recorded
        BY <2>4, <3>1 DEF RecordsAreComplete, UsesAreRegistered, registered
      <3>2. CASE f \notin recorded
        <4>1. file[p] # NoFile /\ f = file[p] /\ f[1] = x
          BY <2>1, <3>2 DEF CallInv, CallsOnPath, Succeeded
        <4> QED
          BY <2>1, <2>5, <4>1 DEF registered
      <3> QED
        BY <3>1, <3>2
    <2> QED
      BY <1>1, <2>3, <2>6, <2>7 DEF RecordsAreComplete
  <1>10. ASSUME NEW p \in Proc, RegisterThrows(p) PROVE RecordInv'
    <2>1. /\ UNCHANGED <<node, gen, files_, symlinks_, recorded>>
          /\ \A q \in Proc : phase'[q] # "executed"
      BY <1>2, <1>10, ThrowEffect
    <2> QED
      BY <1>1, <2>1, RecordsKept DEF LastCreated, FirstFileFound, LinksRead, Succeeded
  <1> QED
    BY <1>3, <1>4, <1>5, <1>7, <1>8, <1>9, <1>10 DEF Next

\* Nothing has been recorded when the program starts.
LEMMA RecordInit == Init => RecordInv
  <1> SUFFICES ASSUME Init PROVE RecordInv
    OBVIOUS
  <1>1. FirstFileFound /\ LinksRead
    BY DEF Init, Env!Init, FirstFileFound, LinksRead, Succeeded
  <1>2. LastCreated
    BY DEF Init, LastCreated
  <1>3. RecordsAreComplete
    BY DEF Init, RecordsAreComplete, InputsAreKept, UsesAreRegistered
  <1> QED
    BY <1>1, <1>2, <1>3, CallInit, HistoryInit DEF RecordInv

\* Every file a completed call succeeded on is registered, and a file that was there
\* before the program as such, also when other processes use, create and replace it:
\* it is enough that nobody removes the file before the exit is reported
\* (file_tracer.h:136, where the path is looked at again).
THEOREM RecordsComplete ==
    ASSUME "chdir" \notin Allowed
    PROVE  Spec /\ []FilesOutlastCalls => []RecordsAreComplete
  <1>1. RecordInv => RecordsAreComplete
    BY DEF RecordInv
  <1> QED
    BY <1>1, RecordInit, RecordStep, PTL DEF Spec

\* Without removals, and for a process alone, which is stopped in its call, files do
\* outlast the calls.
THEOREM RecordsCompleteAlone ==
    ASSUME "chdir" \notin Allowed,
           "unlink" \notin Allowed \/ \A p, q \in Proc : p = q
    PROVE  Spec => []RecordsAreComplete
  <1> DEFINE Outlast == TypeOK /\ CallsNoted /\ FilesOutlastCalls
  <1>1. Init => Outlast
    BY TypeInit DEF Init, Env!Init, FilesOutlastCalls, Succeeded
  <1>2. Outlast /\ [Next]_vars => Outlast'
    <2> SUFFICES ASSUME Outlast, [Next]_vars PROVE Outlast'
      OBVIOUS
    <2>1. TypeOK' /\ CallsNoted'
      BY TypeStep
    <2> USE DEF FilesOutlastCalls, Succeeded
    <2>2. CASE UNCHANGED vars
      BY <2>1, <2>2 DEF vars, fsVars
    <2>3. ASSUME NEW p \in Proc, Appear(p) \/ Die(p) PROVE FilesOutlastCalls'
      BY <2>3 DEF Appear, Die, Env!Appear, Env!Die, fsVars, TypeOK
    <2>4. ASSUME NEW p \in Proc, NEW c \in CallsOf, on_syscall_entry(p, c)
          PROVE  FilesOutlastCalls'
      BY <2>4 DEF on_syscall_entry, Env!ReportEntry, fsVars, TypeOK
    <2>5. ASSUME NEW y \in Path, NewFile(y), NEW q \in Proc, Succeeded(q)
          PROVE  node'[file[q][1]] = file[q][2]
      <3>1. file[q][2] # 0 /\ node[file[q][1]] = file[q][2]
        BY <2>5 DEF TypeOK, Files
      <3> QED
        BY <2>5, <3>1 DEF NewFile, Exists, TypeOK
    <2>6. ASSUME NEW p \in Proc, NEW y \in Path, Execute(p, y) PROVE FilesOutlastCalls'
      <3>1. phase' = [phase EXCEPT ![p] = "executed"]
        BY <2>6 DEF Execute, Env!Execute
      <3>2. CASE SucceedsOn(p, y) \/ Fails(p)
        BY <3>1, <3>2 DEF SucceedsOn, Fails, fsVars, TypeOK
      <3>3. CASE Creates(p, y)
        <4>1. file'[p] = <<y, gen[y] + 1>> /\ node'[y] = gen[y] + 1
          BY <3>3 DEF Creates, NewFile, TypeOK
        <4>2. \A q \in Proc \ {p} : phase'[q] = phase[q] /\ file'[q] = file[q]
          BY <3>1, <3>3 DEF Creates, TypeOK
        <4> QED
          BY <2>5, <3>3, <4>1, <4>2 DEF Creates
      <3> QED
        BY <2>6, <3>2, <3>3 DEF Execute
    <2>7. ASSUME NEW p \in Proc, NEW x \in Path, Unlink(p, x) PROVE FilesOutlastCalls'
      <3>1. \A q \in Proc : phase'[q] = "user"
        BY <2>7 DEF Unlink
      <3> QED
        BY <3>1
    <2>8. ASSUME NEW p \in Proc, NEW x \in Path, Creat(p, x) PROVE FilesOutlastCalls'
      BY <2>5, <2>8 DEF Creat
    <2>9. ASSUME NEW p \in Proc, on_syscall_exit(p) PROVE FilesOutlastCalls'
      BY <2>9 DEF on_syscall_exit, ToHandle, Env!ReportExit, fsVars, TypeOK
    <2>10. ASSUME NEW p \in Proc, RegisterThrows(p) PROVE FilesOutlastCalls'
      <3>1. \A q \in Proc : phase'[q] # "executed"
        BY <2>10, ThrowEffect
      <3> QED
        BY <3>1
    <2> QED
      BY <2>1, <2>2, <2>3, <2>4, <2>6, <2>7, <2>8, <2>9, <2>10 DEF Next
  <1>3. Spec => []FilesOutlastCalls
    BY <1>1, <1>2, PTL DEF Spec
  <1> QED
    BY <1>3, RecordsComplete, PTL
===============================================================================
