------------------------------- MODULE CmdProc -------------------------------
(***************************************************************************)
(* The constructor of tests/CmdProc.java, which the sample tests use to    *)
(* run gcc and dtc: it starts a child process, reads the child's standard  *)
(* output to its end, then its standard error, and then waits for it.      *)
(* The child and the two pipes are the operating system's.  Output is      *)
(* counted in units of which a pipe holds PipeSize.                        *)
(***************************************************************************)
EXTENDS Naturals

CONSTANTS
    PipeSize,   \* how much a pipe holds
    MaxOutput   \* bound: how much a child writes to one stream

ASSUME CmdProcAssumption == PipeSize \in Nat \ {0} /\ MaxOutput \in Nat

VARIABLES
    total,      \* total[s]: how much the child will write to stream s
    left,       \* left[s]: what it has not written yet
    child,      \* "none", "running", a stream it is writing to, "exited"
    pipe,       \* pipe[s]: what is in the pipe of stream s
    got,        \* got[s]: what the parent has read (stdOut, errOut)
    pc          \* where the constructor is

vars == <<total, left, child, pipe, got, pc>>

Streams == {"stdOut", "errOut"}
Amounts == [Streams -> 0..MaxOutput]
Nothing == [s \in Streams |-> 0]

TypeOK ==
    /\ total \in Amounts /\ left \in Amounts /\ got \in Amounts
    /\ pipe \in [Streams -> 0..PipeSize]
    /\ child \in Streams \cup {"none", "running", "exited"}
    /\ pc \in Streams \cup {"start", "waitFor", "returned", "failed"}

Init ==
    /\ total \in Amounts
    /\ left = total
    /\ child = "none"
    /\ pipe = Nothing
    /\ got = Nothing
    /\ pc = "start"

-----------------------------------------------------------------------------
(* The child *)

\* The child decides to write to s next, and blocks until the pipe has room.
ChildTurnsTo(s) ==
    /\ child = "running" /\ left[s] > 0
    /\ child' = s
    /\ UNCHANGED <<total, left, pipe, got, pc>>

ChildWrites(s) ==
    /\ child = s /\ pipe[s] < PipeSize
    /\ pipe' = [pipe EXCEPT ![s] = @ + 1]
    /\ left' = [left EXCEPT ![s] = @ - 1]
    /\ child' = "running"
    /\ UNCHANGED <<total, got, pc>>

\* Its exit closes both pipes.
ChildExits ==
    /\ child = "running" /\ left = Nothing
    /\ child' = "exited"
    /\ UNCHANGED <<total, left, pipe, got, pc>>

-----------------------------------------------------------------------------
(* The constructor *)

\* A null command returns at once.
NullCommand ==
    /\ pc = "start"
    /\ pc' = "returned"
    /\ UNCHANGED <<total, left, child, pipe, got>>

\* exec starts the child, or throws.
Exec ==
    /\ pc = "start"
    /\ \/ pc' = "stdOut" /\ child' = "running"
       \/ pc' = "failed" /\ UNCHANGED child
    /\ UNCHANGED <<total, left, pipe, got>>

\* Faulty variant: what was read stays in the pipe.
ReadLine_Peeks(s) ==
    /\ pc = s /\ pipe[s] > 0
    /\ got' = [got EXCEPT ![s] = @ + 1]
    /\ UNCHANGED <<total, left, child, pipe, pc>>

ReadLine(s) ==
    /\ pc = s /\ pipe[s] > 0
    /\ pipe' = [pipe EXCEPT ![s] = @ - 1]
    /\ got' = [got EXCEPT ![s] = @ + 1]
    /\ UNCHANGED <<total, left, child, pc>>

\* Faulty variant: an empty pipe is taken for the end of the output.
EndOfStream_Empty(s) ==
    /\ pc = s /\ pipe[s] = 0
    /\ pc' = IF s = "stdOut" THEN "errOut" ELSE "waitFor"
    /\ UNCHANGED <<total, left, child, pipe, got>>

\* readLine returns null: the pipe is empty and the child has closed it.
EndOfStream(s) ==
    /\ pc = s /\ pipe[s] = 0 /\ child = "exited"
    /\ pc' = IF s = "stdOut" THEN "errOut" ELSE "waitFor"
    /\ UNCHANGED <<total, left, child, pipe, got>>

\* Faulty variant: only an exit that came after the call is noticed.
WaitFor_Late ==
    /\ pc = "waitFor" /\ child # "exited"
    /\ pc' = "returned"
    /\ UNCHANGED <<total, left, child, pipe, got>>

WaitFor ==
    /\ pc = "waitFor" /\ child = "exited"
    /\ pc' = "returned"
    /\ UNCHANGED <<total, left, child, pipe, got>>

Next ==
    \/ \E s \in Streams : ChildTurnsTo(s) \/ ChildWrites(s)
    \/ ChildExits
    \/ NullCommand
    \/ Exec
    \/ \E s \in Streams : ReadLine(s) \/ EndOfStream(s)
    \/ WaitFor

\* The operating system schedules both processes; a child that is not blocked
\* gets on with its work.
Spec == Init /\ [][Next]_vars /\ WF_vars(Next)

-----------------------------------------------------------------------------
(* Properties *)

\* The constructor of a command that was run returns with everything the
\* child wrote, and only once the child has ended.
Collected ==
    pc = "returned" /\ child # "none" => child = "exited" /\ got = total

\* Standard error is not read before the child has closed its output, so a
\* child that writes more to it than the pipe holds is never waited for ...
OverflowHangs ==
    total["errOut"] > PipeSize /\ child # "none" => pc # "returned"

\* ... and every other child is: the constructor ends, whatever the order in
\* which the child writes to its two streams.
FittingReturns ==
    total["errOut"] <= PipeSize => <>(pc \in {"returned", "failed"})

=============================================================================
