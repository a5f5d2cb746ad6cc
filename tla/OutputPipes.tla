------------------------------ MODULE OutputPipes ------------------------------
(***************************************************************************)
(* Command::spawn and Command::output (src/src/process.h), and               *)
(* forward_output (src/src/util_io.h): r4r runs a command and takes what it  *)
(* writes from pipes.  output() is used for dpkg, tar, docker and R,         *)
(* forward_output() for make.                                                *)
(*                                                                         *)
(* The data is counted in units, so that a pipe holds Capacity of them and   *)
(* the buffer of one read is Buffer of them.                                 *)
(***************************************************************************)
EXTENDS Naturals

CONSTANTS
    Capacity,   \* of a pipe, 64 KiB
    Buffer,     \* of a read, 4 KiB
    MaxData     \* bound on what a command writes to a stream

ASSUME PipesAssumption ==
    /\ Capacity \in Nat \ {0}
    /\ Buffer \in Nat \ {0}
    /\ MaxData \in Nat

Streams == {"stdout", "stderr"}

VARIABLES
    use,        \* "output", or "forward" for run_makefile_target
    merge,      \* stderr goes where stdout goes
    total,      \* what the command writes to each stream
    todo,       \* what of it is not written yet
    next,       \* the stream it writes to next
    pipe,       \* what is in the two pipes
    holders,    \* who has the write ends: the command, a process it left behind
    status,     \* how the command has ended
    pc,         \* where r4r is
    hup,        \* poll saw that nobody has the write end
    got,        \* what r4r has read from each pipe
    code        \* the exit code wait() returned

world == <<use, merge, total>>
command == <<todo, next, holders, status>>
r4r == <<pc, hup, got, code>>
vars == <<world, command, pipe, r4r>>

PCs == {"stdout", "stderr", "poll", "read", "wait", "done", "threw"}

Statuses == {"running", "success", "failure", "signal"}

TypeOK ==
    /\ use \in {"output", "forward"}
    /\ merge \in BOOLEAN
    /\ total \in [Streams -> 0 .. MaxData]
    /\ todo \in [Streams -> 0 .. MaxData]
    /\ pipe \in [Streams -> 0 .. Capacity]
    /\ holders \subseteq {"command", "other"}
    /\ next \in Streams
    /\ status \in Statuses
    /\ code \in Statuses
    /\ pc \in PCs
    /\ hup \in BOOLEAN
    /\ got \in [Streams -> 0 .. 2 * MaxData]

\* Command::spawn: both pipes are made, whatever goes through them, and r4r closes
\* its write ends. make is run with its stderr merged.
Init ==
    /\ use \in {"output", "forward"}
    /\ merge \in BOOLEAN
    /\ use = "forward" => merge
    /\ total \in [Streams -> 0 .. MaxData]
    /\ todo = total
    /\ pipe = [s \in Streams |-> 0]
    /\ holders = {"command"}
    /\ next \in Streams
    /\ (\E s \in Streams : todo[s] > 0) => todo[next] > 0
    /\ status = "running"
    /\ code = "running"
    /\ pc = IF use = "output" THEN "stdout" ELSE "poll"
    /\ hup = FALSE
    /\ got = [s \in Streams |-> 0]

-------------------------------------------------------------------------------
(* The command *)

\* Mutant: merged output is written to its own pipe.
MutantNotMerged(s) == s

\* dup2 in the child.
Into(s) == IF merge THEN "stdout" ELSE s

\* The command writes to one stream after the other as it likes, and waits when the
\* pipe is full. Without a reader it gets SIGPIPE.
Write ==
    /\ status = "running" /\ pc # "threw"
    /\ todo[next] > 0
    /\ pipe[Into(next)] < Capacity
    /\ todo' = [todo EXCEPT ![next] = @ - 1]
    /\ pipe' = [pipe EXCEPT ![Into(next)] = @ + 1]
    /\ next' \in Streams
    /\ (\E s \in Streams : todo'[s] > 0) => todo'[next'] > 0
    /\ UNCHANGED <<world, holders, status, r4r>>

\* A process in the background keeps the pipes open.
LeaveBehind ==
    /\ status = "running"
    /\ "other" \notin holders
    /\ holders' = holders \cup {"other"}
    /\ UNCHANGED <<world, todo, next, status, pipe, r4r>>

End(how) ==
    /\ status = "running"
    /\ status' = how
    /\ holders' = holders \ {"command"}
    /\ UNCHANGED <<world, todo, next, pipe, r4r>>

Exit == todo = [s \in Streams |-> 0] /\ (End("success") \/ End("failure"))

\* It gives up, or is killed.
Abort == End("failure") \/ End("signal")

OtherEnds ==
    /\ "other" \in holders
    /\ holders' = holders \ {"other"}
    /\ UNCHANGED <<world, todo, next, status, pipe, r4r>>

-------------------------------------------------------------------------------
(* Command::output *)

Smaller(x, y) == IF x < y THEN x ELSE y

\* read() takes what is there, at most a buffer.
Read(s) ==
    /\ pipe' = [pipe EXCEPT ![s] = @ - Smaller(@, Buffer)]
    /\ got' = [got EXCEPT ![s] = @ + Smaller(pipe[s], Buffer)]

\* Mutant: r4r keeps its own write end open.
MutantKeepsWriteEnd(s) == FALSE

\* A read of an empty pipe that nobody writes to any more gives 0.
EndOfFile(s) == pipe[s] = 0 /\ holders = {}

\* output() reads stdout to its end, then stderr, and then waits.
AfterReading(s) == IF s = "stdout" THEN "stderr" ELSE "wait"

\* read_all_from_fd
ReadAll(s) ==
    /\ pc = s
    /\ \/ pipe[s] > 0 /\ Read(s) /\ UNCHANGED pc
       \/ EndOfFile(s) /\ pc' = AfterReading(s) /\ UNCHANGED <<pipe, got>>
    /\ UNCHANGED <<world, command, hup, code>>

-------------------------------------------------------------------------------
(* forward_output *)

\* Mutant: a hang-up is looked at before the data.
MutantHangUpFirst == IF holders = {} THEN "wait" ELSE "read"

AfterPoll == IF pipe["stdout"] > 0 THEN "read" ELSE "wait"

\* revents says both that there is data and that nobody has the write end.
Poll ==
    /\ pc = "poll"
    /\ pipe["stdout"] > 0 \/ holders = {}
    /\ hup' = (holders = {})
    /\ pc' = AfterPoll
    /\ UNCHANGED <<world, command, pipe, got, code>>

\* One buffer is read and written; after that a hang-up ends the loop, whatever is
\* left in the pipe.
Forward ==
    /\ pc = "read"
    /\ Read("stdout")
    /\ pc' = IF hup THEN "wait" ELSE "poll"
    /\ UNCHANGED <<world, command, hup, code>>

\* The stream cannot be written: the exception leaves with_prefixed_ostream before
\* it gives std::cout its buffer back, and the command is not waited for.
ForwardThrows ==
    /\ pc = "read"
    /\ pc' = "threw"
    /\ UNCHANGED <<world, command, pipe, hup, got, code>>

\* Mutant: the number of the signal is lost.
MutantIgnoresSignal == IF status = "signal" THEN "success" ELSE status

\* status_to_exit_code: 126 and the signal's number for a command that was killed.
ExitCode == status

\* Child::wait
Wait ==
    /\ pc = "wait"
    /\ status # "running"
    /\ code' = ExitCode
    /\ pc' = "done"
    /\ UNCHANGED <<world, command, pipe, hup, got>>

R4r == (\E s \in Streams : ReadAll(s)) \/ Poll \/ Forward \/ Wait

Next == Write \/ Exit \/ Abort \/ LeaveBehind \/ OtherEnds \/ R4r \/ ForwardThrows

Spec == Init /\ [][Next]_vars

\* The command writes when its pipe lets it and ends when all is written, what it
\* left behind ends, and r4r runs.
FairSpec == Spec /\ WF_vars(Write) /\ WF_vars(Exit) /\ WF_vars(OtherEnds) /\ WF_vars(R4r)

-------------------------------------------------------------------------------
Sum(d) == d["stdout"] + d["stderr"]

\* output() returns with all the command has written to either stream, and its exit
\* code is 0 only if that is all there is: check_success lets no partial list of
\* packages or files pass (process.h:193-209, 340; 95).
OutputIsComplete ==
    use = "output" /\ pc = "done" =>
        /\ Sum(got) = Sum(total) - Sum(todo)
        /\ ~merge => \A s \in Streams : got[s] = total[s] - todo[s]
        /\ code = "success" => Sum(got) = Sum(total)

\* r4r and its command wait for each other only when the command has more for stderr
\* than its pipe holds (process.h:353): it has filled that pipe, and r4r waits for
\* the end of stdout. With stderr merged, or forwarded, they never do.
CommandWaits == status = "running" /\ todo[next] > 0 /\ pipe[Into(next)] = Capacity
R4rWaits ==
    \/ pc \in Streams /\ pipe[pc] = 0
    \/ pc = "poll" /\ pipe["stdout"] = 0
    \/ pc = "wait"

BlockedOnStderrOnly ==
    CommandWaits /\ R4rWaits => ~merge /\ next = "stderr" /\ total["stderr"] > Capacity

\* When stderr fits into its pipe, or goes where stdout goes, output() and
\* run_makefile_target come to an end.
CommandReturns ==
    merge \/ total["stderr"] <= Capacity => <>(pc \in {"done", "threw"})

\* forward_output loses what goes beyond one buffer in the pipe when poll sees the
\* hang-up (util_io.h:108), and no more: never what fits into one buffer, and never
\* more than a full pipe without a buffer.
LittleIsLost ==
    use = "forward" /\ pc = "done" =>
        LET written == Sum(total) - Sum(todo)
        IN  /\ written <= Buffer => got["stdout"] = written
            /\ written - got["stdout"] <= Capacity - Smaller(Buffer, Capacity)
===============================================================================
