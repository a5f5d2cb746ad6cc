--------------------------- MODULE OutputPipesProofs ---------------------------
(***************************************************************************)
(* Proofs about OutputPipes, for any capacity of the pipes, any buffer and   *)
(* any amount of data.                                                       *)
(*                                                                         *)
(* The properties are about the end of a command, their reasons about every  *)
(* step before: no unit is lost or doubled between the command, the pipe and *)
(* r4r (Conserved), r4r goes on only when nobody can write any more and the   *)
(* pipe is empty (Drained), and forward_output stops early only after a full  *)
(* buffer (Remainder).                                                       *)
(***************************************************************************)
EXTENDS OutputPipes, TLAPS

Types ==
    /\ use \in {"output", "forward"}
    /\ merge \in BOOLEAN
    /\ total \in [Streams -> 0 .. MaxData]
    /\ todo \in [Streams -> 0 .. MaxData]
    /\ pipe \in [Streams -> 0 .. Capacity]
    /\ holders \subseteq {"command", "other"}
    /\ next \in Streams
    /\ status \in Statuses
    /\ code \in Statuses
    /\ pc \in PCs
    /\ hup \in BOOLEAN
    /\ got \in [Streams -> Nat]

\* What is written is in the pipe or with r4r.
Conserved ==
    IF merge
    THEN /\ pipe["stdout"] + got["stdout"] + todo["stdout"] + todo["stderr"]
                = total["stdout"] + total["stderr"]
         /\ pipe["stderr"] = 0
         /\ got["stderr"] = 0
    ELSE /\ pipe["stdout"] + got["stdout"] + todo["stdout"] = total["stdout"]
         /\ pipe["stderr"] + got["stderr"] + todo["stderr"] = total["stderr"]

\* The command has its write ends as long as it runs, and succeeds with all written.
Ended ==
    /\ status = "running" <=> "command" \in holders
    /\ status = "success" => todo["stdout"] = 0 /\ todo["stderr"] = 0
    /\ pc = "done" => code = status

Ways ==
    /\ use = "forward" => merge
    /\ use = "output" => pc \in {"stdout", "stderr", "wait", "done"}
    /\ use = "forward" => pc \in {"poll", "read", "wait", "done", "threw"}

\* output() has left a pipe behind when it was empty, for good.
Drained ==
    use = "output" =>
        /\ pc \in {"stderr", "wait", "done"} => holders = {} /\ pipe["stdout"] = 0
        /\ pc \in {"wait", "done"} => pipe["stderr"] = 0

\* forward_output has left the pipe when it was empty, or after a full buffer.
Remainder ==
    use = "forward" =>
        /\ hup => holders = {}
        /\ pc \in {"wait", "done"} =>
            /\ holders = {}
            /\ \/ pipe["stdout"] = 0
               \/ got["stdout"] >= Buffer /\ pipe["stdout"] + Buffer <= Capacity

IInv == Types /\ Conserved /\ Ended /\ Ways /\ Drained /\ Remainder

-------------------------------------------------------------------------------
\* The initial states: nothing is written yet.
LEMMA InitIInv == Init => IInv
<1> SUFFICES ASSUME Init PROVE IInv
  OBVIOUS
<1> USE PipesAssumption DEF Init, Streams
<1>1. Types
  <2>1. pipe \in [Streams -> 0 .. Capacity] /\ got \in [Streams -> Nat]
    OBVIOUS
  <2>2. total \in [Streams -> 0 .. MaxData] /\ todo \in [Streams -> 0 .. MaxData]
    OBVIOUS
  <2>3. pc \in PCs /\ status \in Statuses /\ code \in Statuses
    BY DEF PCs, Statuses
  <2> QED
    BY <2>1, <2>2, <2>3 DEF Types
<1>2. Conserved
  BY DEF Conserved
<1>3. Ended /\ Ways /\ Drained /\ Remainder
  BY DEF Ended, Ways, Drained, Remainder
<1> QED
  BY <1>1, <1>2, <1>3 DEF IInv

\* What a read leaves in the pipe and adds to what r4r has.
LEMMA ReadMoves ==
    ASSUME IInv, NEW s \in Streams, Read(s)
    PROVE  \E n \in 0 .. Buffer :
              /\ n <= pipe[s]
              /\ n = Buffer \/ n = pipe[s]
              /\ pipe' = [pipe EXCEPT ![s] = @ - n]
              /\ got' = [got EXCEPT ![s] = @ + n]
<1> DEFINE n == Smaller(pipe[s], Buffer)
<1>1. pipe[s] \in Nat /\ Buffer \in Nat
  BY PipesAssumption DEF IInv, Types
<1>2. n \in 0 .. Buffer /\ n <= pipe[s] /\ (n = Buffer \/ n = pipe[s])
  BY <1>1 DEF Smaller
<1>3. pipe' = [pipe EXCEPT ![s] = @ - n] /\ got' = [got EXCEPT ![s] = @ + n]
  BY DEF Read
<1> QED
  BY <1>2, <1>3

\* The command's steps.
LEMMA WriteIInv == IInv /\ Write => IInv'
<1> SUFFICES ASSUME IInv, Write PROVE IInv'
  OBVIOUS
<1> USE PipesAssumption DEF IInv, Write, Streams, world, r4r
<1>1. Types'
  BY DEF Types, Into
<1>2. Conserved'
  BY DEF Types, Conserved, Into
<1>3. holders # {}
  BY DEF Ended
<1>4. Ended' /\ Ways' /\ Drained' /\ Remainder'
  BY <1>3 DEF Ended, Ways, Drained, Remainder
<1> QED
  BY <1>1, <1>2, <1>4

LEMMA EndIInv ==
    ASSUME IInv, NEW how \in {"success", "failure", "signal"}, End(how),
           how = "success" => todo["stdout"] = 0 /\ todo["stderr"] = 0
    PROVE  IInv'
<1> USE DEF IInv, End, world, r4r
<1>1. Types'
  BY DEF Types, Statuses
<1>2. Conserved'
  BY DEF Conserved
<1>3. Ended'
  <2>1. pc # "done"
    BY DEF Ended, Ways, Drained, Remainder, Types
  <2> QED
    BY <2>1 DEF Ended
<1>4. Ways' /\ Drained' /\ Remainder'
  BY DEF Ways, Drained, Remainder
<1> QED
  BY <1>1, <1>2, <1>3, <1>4

LEMMA OthersIInv == IInv /\ (LeaveBehind \/ OtherEnds) => IInv'
<1> SUFFICES ASSUME IInv, LeaveBehind \/ OtherEnds PROVE IInv'
  OBVIOUS
<1> USE DEF IInv, LeaveBehind, OtherEnds, world, r4r
<1>1. Types'
  BY DEF Types
<1>5. Conserved'
  BY DEF Conserved
<1>2. Ended' /\ Ways'
  BY DEF Ended, Ways
<1>3. LeaveBehind => holders # {}
  BY DEF Ended
<1>4. Drained' /\ Remainder'
  BY <1>3 DEF Drained, Remainder
<1> QED
  BY <1>1, <1>2, <1>4, <1>5

\* The steps of output().
LEMMA ReadAllIInv == \A s \in Streams : IInv /\ ReadAll(s) => IInv'
<1> SUFFICES ASSUME NEW s \in Streams, IInv, ReadAll(s) PROVE IInv'
  OBVIOUS
<1> USE DEF world, command
<1>1. use = "output"
  BY DEF IInv, Ways, ReadAll, Streams, Types
<1>2. CASE pipe[s] > 0 /\ Read(s) /\ UNCHANGED pc
  <2>1. PICK n \in 0 .. Buffer :
              /\ n <= pipe[s]
              /\ pipe' = [pipe EXCEPT ![s] = @ - n]
              /\ got' = [got EXCEPT ![s] = @ + n]
    BY <1>2, ReadMoves
  <2> USE <1>2, <2>1, PipesAssumption DEF IInv, ReadAll, Streams
  <2>2. Types'
    BY DEF Types
  <2>3. Conserved'
    BY DEF Types, Conserved
  <2>4. Ended' /\ Ways'
    BY DEF Ended, Ways
  <2>5. Drained' /\ Remainder'
    BY <1>1 DEF Drained, Remainder, Types
  <2> QED
    BY <2>2, <2>3, <2>4, <2>5
<1>3. CASE EndOfFile(s) /\ pc' = AfterReading(s) /\ UNCHANGED <<pipe, got>>
  <2> USE <1>3 DEF IInv, ReadAll, EndOfFile, AfterReading, Streams
  <2>1. Types' /\ Conserved'
    BY DEF Types, Conserved, PCs
  <2>2. Ended' /\ Ways'
    BY <1>1 DEF Ended, Ways
  <2>3. Drained' /\ Remainder'
    BY <1>1 DEF Drained, Remainder
  <2> QED
    BY <2>1, <2>2, <2>3
<1> QED
  BY <1>2, <1>3 DEF ReadAll

\* The steps of forward_output.
LEMMA PollIInv == IInv /\ Poll => IInv'
<1> SUFFICES ASSUME IInv, Poll PROVE IInv'
  OBVIOUS
<1> USE PipesAssumption DEF IInv, Poll, AfterPoll, Streams, world, command
<1>1. use = "forward"
  BY DEF Ways, Types
<1>2. Types' /\ Conserved'
  BY DEF Types, Conserved, PCs
<1>3. Ended' /\ Ways'
  BY <1>1 DEF Ended, Ways
<1>4. Drained' /\ Remainder'
  BY <1>1 DEF Drained, Remainder, Types
<1> QED
  BY <1>2, <1>3, <1>4

LEMMA ForwardIInv == IInv /\ Forward => IInv'
<1> SUFFICES ASSUME IInv, Forward PROVE IInv'
  OBVIOUS
<1>1. PICK n \in 0 .. Buffer :
            /\ n <= pipe["stdout"]
            /\ n = Buffer \/ n = pipe["stdout"]
            /\ pipe' = [pipe EXCEPT !["stdout"] = @ - n]
            /\ got' = [got EXCEPT !["stdout"] = @ + n]
  BY ReadMoves DEF Forward, Streams
<1> USE <1>1, PipesAssumption DEF IInv, Forward, Streams, world, command
<1>2. use = "forward"
  BY DEF Ways, Types
<1>3. Types'
  BY DEF Types, PCs
<1>4. Conserved'
  BY <1>2 DEF Types, Conserved
<1>5. Ended' /\ Ways'
  BY <1>2 DEF Ended, Ways
<1>6. Drained' /\ Remainder'
  BY <1>2 DEF Drained, Remainder, Types
<1> QED
  BY <1>3, <1>4, <1>5, <1>6

LEMMA LastStepsIInv == IInv /\ (ForwardThrows \/ Wait) => IInv'
<1> SUFFICES ASSUME IInv, ForwardThrows \/ Wait PROVE IInv'
  OBVIOUS
<1> USE DEF IInv, ForwardThrows, Wait, ExitCode, world, command
<1>1. Types'
  BY DEF Types, PCs
<1>2. Conserved'
  BY DEF Conserved
<1>3. Ended'
  BY DEF Ended
<1>4. Ways'
  BY DEF Ways
<1>5. Drained'
  BY DEF Drained, Ways
<1>6. Remainder'
  BY DEF Remainder
<1> QED
  BY <1>1, <1>2, <1>3, <1>4, <1>5, <1>6

LEMMA NextIInv == IInv /\ [Next]_vars => IInv'
<1> SUFFICES ASSUME IInv, [Next]_vars PROVE IInv'
  OBVIOUS
<1>1. CASE Exit
  BY <1>1, EndIInv DEF Exit, Streams
<1>2. CASE Abort
  BY <1>2, EndIInv DEF Abort
<1>3. CASE R4r
  BY <1>3, ReadAllIInv, PollIInv, ForwardIInv, LastStepsIInv DEF R4r
<1>4. CASE UNCHANGED vars
  BY <1>4 DEF vars, world, command, r4r, IInv, Types, Conserved, Ended, Ways, Drained,
              Remainder
<1> QED
  BY <1>1, <1>2, <1>3, <1>4, WriteIInv, OthersIInv, LastStepsIInv DEF Next

THEOREM Invariance == Spec => []IInv
<1> QED
  BY InitIInv, NextIInv, PTL DEF Spec

-------------------------------------------------------------------------------
\* Every variable keeps its type; what r4r reads is bounded by what is written.
THEOREM OutputPipesTypeCorrect == Spec => []TypeOK
<1>1. IInv => TypeOK
  <2> SUFFICES ASSUME IInv PROVE TypeOK
    OBVIOUS
  <2>1. got \in [Streams -> 0 .. 2 * MaxData]
    BY PipesAssumption DEF IInv, Types, Conserved, Streams
  <2> QED
    BY <2>1 DEF IInv, Types, TypeOK
<1> QED
  BY <1>1, Invariance, PTL

\* Command::output returns with all that was written, and with success only if the
\* command wrote all it had (process.h:340).
THEOREM OutputComplete == Spec => []OutputIsComplete
<1>1. IInv => OutputIsComplete
  BY DEF IInv, Types, Conserved, Ended, Drained, OutputIsComplete, Sum, Streams
<1> QED
  BY <1>1, Invariance, PTL

\* Only a command with more on stderr than its pipe holds and r4r can wait for each
\* other (process.h:353).
THEOREM OnlyStderrBlocks == Spec => []BlockedOnStderrOnly
<1>1. IInv => BlockedOnStderrOnly
  <2> SUFFICES ASSUME IInv, CommandWaits, R4rWaits
               PROVE  ~merge /\ next = "stderr" /\ total["stderr"] > Capacity
    BY DEF BlockedOnStderrOnly
  <2>1. holders # {}
    BY DEF IInv, Ended, CommandWaits
  <2>2. pipe["stdout"] = 0
    BY <2>1 DEF IInv, Types, Ways, Drained, Remainder, R4rWaits, Streams
  <2>3. Into(next) = "stderr"
    BY <2>2, PipesAssumption DEF IInv, Types, CommandWaits, Into, Streams
  <2>4. ~merge /\ next = "stderr"
    BY <2>3 DEF Into, IInv, Types, Streams
  <2>5. total["stderr"] > Capacity
    BY <2>4, <2>3, PipesAssumption DEF IInv, Types, Conserved, CommandWaits, Streams
  <2> QED
    BY <2>4, <2>5
<1> QED
  BY <1>1, Invariance, PTL

\* forward_output loses nothing that fits into one buffer, and never more than a full
\* pipe without a buffer (util_io.h:108).
THEOREM LittleLost == Spec => []LittleIsLost
<1>1. IInv => LittleIsLost
  BY PipesAssumption
  DEF IInv, Types, Conserved, Ways, Remainder, LittleIsLost, Sum, Smaller, Streams
<1> QED
  BY <1>1, Invariance, PTL
===============================================================================
