---------------------------- MODULE CmdProc_proofs ----------------------------
(***************************************************************************)
(* The command runner collects all output, and hangs on a child whose      *)
(* standard error does not fit its pipe, for pipes of every size and       *)
(* children with any amount of output.                                     *)
(***************************************************************************)
EXTENDS CmdProc, TLAPS

\* What the child writes to s is still to be written, in the pipe, or read.
Conserved == \A s \in Streams : got[s] + pipe[s] + left[s] = total[s]

\* A child is only blocked on output it still has, and ends when it has none.
ChildOK ==
    /\ child \in Streams => left[child] > 0
    /\ child = "exited" => \A s \in Streams : left[s] = 0

\* The constructor's place says how far the child is and which pipes have
\* been emptied.  Standard error is read only after the child's end.
Place ==
    /\ pc \in {"start", "failed"} => child = "none"
    /\ pc \in {"stdOut", "errOut", "waitFor"} => child # "none"
    /\ pc # "stdOut" => child \in {"none", "exited"}
    /\ pc \in {"errOut", "waitFor", "returned"} => pipe["stdOut"] = 0
    /\ pc \in {"waitFor", "returned"} => pipe["errOut"] = 0
    /\ child # "exited" => got["errOut"] = 0
    /\ child = "none" => pipe["stdOut"] = 0 /\ pipe["errOut"] = 0

\* So everything a child wrote to standard error is in the pipe when it ends.
Fits == child = "exited" => total["errOut"] <= PipeSize

IInv == TypeOK /\ Conserved /\ ChildOK /\ Place /\ Fits

LEMMA InitIInv == Init => IInv
PROOF
<1> SUFFICES ASSUME Init PROVE IInv
    OBVIOUS
<1>1. total \in [Streams -> 0..MaxOutput] /\ left = total
    BY DEF Init, Amounts
<1>2. \A s \in Streams : got[s] = 0 /\ pipe[s] = 0
    BY DEF Init, Nothing
<1>3. TypeOK
    BY <1>1, CmdProcAssumption DEF Init, TypeOK, Amounts, Nothing
<1>4. Conserved
    BY <1>1, <1>2 DEF Conserved
<1>5. child = "none" /\ pc = "start"
    BY DEF Init
<1>6. ChildOK /\ Place /\ Fits
    BY <1>2, <1>5 DEF ChildOK, Place, Fits, Streams
<1> QED
    BY <1>3, <1>4, <1>6 DEF IInv

\* The steps of the child.
LEMMA ChildIInv ==
    ASSUME IInv, NEW s \in Streams, ChildTurnsTo(s) \/ ChildWrites(s) \/ ChildExits
    PROVE  IInv'
PROOF
<1> USE DEF Streams
<1>1. TypeOK /\ Conserved /\ ChildOK /\ Place /\ Fits
    BY DEF IInv
<1>2. CASE ChildTurnsTo(s)
    <2>1. child = "running" /\ left[s] > 0 /\ child' = s
          /\ UNCHANGED <<total, left, pipe, got, pc>>
        BY <1>2 DEF ChildTurnsTo
    <2>2. pc = "stdOut"
        BY <1>1, <2>1 DEF Place
    <2> QED
        BY <1>1, <2>1, <2>2 DEF IInv, TypeOK, Conserved, ChildOK, Place, Fits
<1>3. CASE ChildWrites(s)
    <2>1. /\ child = s /\ pipe[s] < PipeSize
          /\ pipe' = [pipe EXCEPT ![s] = pipe[s] + 1]
          /\ left' = [left EXCEPT ![s] = left[s] - 1]
          /\ child' = "running" /\ UNCHANGED <<total, got, pc>>
        BY <1>3 DEF ChildWrites
    <2>2. left[s] > 0 /\ pc = "stdOut"
        BY <1>1, <2>1 DEF ChildOK, Place
    <2>3. TypeOK'
        BY <1>1, <2>1, <2>2, CmdProcAssumption DEF TypeOK, Amounts
    <2>4. Conserved'
        BY <1>1, <2>1, <2>2, CmdProcAssumption DEF TypeOK, Amounts, Conserved
    <2>5. ChildOK' /\ Place' /\ Fits'
        BY <1>1, <2>1, <2>2 DEF ChildOK, Place, Fits
    <2> QED
        BY <2>3, <2>4, <2>5 DEF IInv
<1>4. CASE ChildExits
    <2>1. /\ child = "running" /\ child' = "exited"
          /\ UNCHANGED <<total, left, pipe, got, pc>>
        BY <1>4 DEF ChildExits
    <2>2. \A r \in Streams : left[r] = 0
        BY <1>4 DEF ChildExits, Nothing
    <2>3. pc = "stdOut" /\ got["errOut"] = 0
        BY <1>1, <2>1 DEF Place
    <2>4. total["errOut"] <= PipeSize
        BY <1>1, <2>2, <2>3, CmdProcAssumption DEF TypeOK, Amounts, Conserved
    <2>5. ChildOK' /\ Place' /\ Fits'
        BY <2>1, <2>2, <2>3, <2>4 DEF ChildOK, Place, Fits
    <2> QED
        BY <1>1, <2>1, <2>5 DEF IInv, TypeOK, Conserved
<1> QED
    BY <1>2, <1>3, <1>4

\* The steps of the constructor.
LEMMA ConstructorIInv ==
    ASSUME IInv, NEW s \in Streams,
           NullCommand \/ Exec \/ ReadLine(s) \/ EndOfStream(s) \/ WaitFor
    PROVE  IInv'
PROOF
<1> USE DEF Streams
<1>1. TypeOK /\ Conserved /\ ChildOK /\ Place /\ Fits
    BY DEF IInv
<1>2. CASE NullCommand \/ Exec
    <2>1. pc = "start" /\ child = "none" /\ UNCHANGED <<total, left, pipe, got>>
        BY <1>1, <1>2 DEF NullCommand, Exec, Place
    <2>2. \/ pc' = "stdOut" /\ child' = "running"
          \/ pc' \in {"returned", "failed"} /\ child' = "none"
        BY <1>2, <2>1 DEF NullCommand, Exec
    <2>3. pipe["stdOut"] = 0 /\ pipe["errOut"] = 0
        BY <1>1, <2>1 DEF Place
    <2> QED
        BY <1>1, <2>1, <2>2, <2>3 DEF IInv, TypeOK, Conserved, ChildOK, Place, Fits
<1>3. CASE ReadLine(s)
    <2>1. /\ pc = s /\ pipe[s] > 0
          /\ pipe' = [pipe EXCEPT ![s] = pipe[s] - 1]
          /\ got' = [got EXCEPT ![s] = got[s] + 1]
          /\ UNCHANGED <<total, left, child, pc>>
        BY <1>3 DEF ReadLine
    <2>2. got[s] + pipe[s] + left[s] = total[s]
        BY <1>1 DEF Conserved
    <2>3. TypeOK'
        BY <1>1, <2>1, <2>2, CmdProcAssumption DEF TypeOK, Amounts
    <2>4. Conserved'
        BY <1>1, <2>1, CmdProcAssumption DEF TypeOK, Amounts, Conserved
    <2>5. ChildOK' /\ Place' /\ Fits'
        BY <1>1, <2>1, CmdProcAssumption DEF ChildOK, Place, Fits, TypeOK
    <2> QED
        BY <2>3, <2>4, <2>5 DEF IInv
<1>4. CASE EndOfStream(s)
    <2>1. /\ pc = s /\ pipe[s] = 0 /\ child = "exited"
          /\ pc' = IF s = "stdOut" THEN "errOut" ELSE "waitFor"
          /\ UNCHANGED <<total, left, child, pipe, got>>
        BY <1>4 DEF EndOfStream
    <2> QED
        BY <1>1, <2>1 DEF IInv, TypeOK, Conserved, ChildOK, Place, Fits
<1>5. CASE WaitFor
    BY <1>1, <1>5 DEF WaitFor, IInv, TypeOK, Conserved, ChildOK, Place, Fits
<1> QED
    BY <1>2, <1>3, <1>4, <1>5

LEMMA IInvHolds == Spec => []IInv
PROOF
<1>1. Init => IInv
    BY InitIInv
<1>2. IInv /\ [Next]_vars => IInv'
    <2> SUFFICES ASSUME IInv, [Next]_vars PROVE IInv'
        OBVIOUS
    <2>1. CASE UNCHANGED vars
        BY <2>1 DEF vars, IInv, TypeOK, Conserved, ChildOK, Place, Fits
    <2>2. "stdOut" \in Streams
        BY DEF Streams
    <2> QED
        BY <2>1, <2>2, ChildIInv, ConstructorIInv DEF Next
<1> QED
    BY <1>1, <1>2, PTL DEF Spec

-----------------------------------------------------------------------------
(* The theorems *)

\* No pipe holds more than its size, and nothing is read, written or left
\* beyond what the child has for a stream.
THEOREM TypeCorrect == Spec => []TypeOK
PROOF
<1>1. IInv => TypeOK
    BY DEF IInv
<1> QED
    BY <1>1, IInvHolds, PTL

\* A constructor that returns from a child has waited for its end and has all
\* of both streams, whatever was still in the pipes when the child ended.
THEOREM AlwaysCollected == Spec => []Collected
PROOF
<1>1. IInv => Collected
    <2> SUFFICES ASSUME IInv, pc = "returned", child # "none"
                 PROVE  child = "exited" /\ got = total
        BY DEF Collected
    <2>1. child = "exited" /\ pipe["stdOut"] = 0 /\ pipe["errOut"] = 0
        BY DEF IInv, Place
    <2>2. \A s \in Streams : left[s] = 0
        BY <2>1 DEF IInv, ChildOK
    <2>3. got \in [Streams -> 0..MaxOutput] /\ total \in [Streams -> 0..MaxOutput]
        BY DEF IInv, TypeOK, Amounts
    <2>4. \A s \in Streams : pipe[s] = 0
        BY <2>1 DEF Streams
    <2>5. \A s \in Streams : got[s] = total[s]
        BY <2>2, <2>3, <2>4, CmdProcAssumption DEF IInv, Conserved
    <2> QED
        BY <2>1, <2>3, <2>5
<1> QED
    BY <1>1, IInvHolds, PTL

\* The order in which the constructor reads the streams makes it hang: it
\* never returns from a child with more errors than the pipe holds.
THEOREM OverflowAlwaysHangs == Spec => []OverflowHangs
PROOF
<1>1. IInv => OverflowHangs
    <2> SUFFICES ASSUME IInv, total["errOut"] > PipeSize, pc = "returned"
                 PROVE  child = "none"
        BY DEF OverflowHangs
    <2>1. child \in {"none", "exited"}
        BY DEF IInv, Place
    <2>2. total["errOut"] \in Nat /\ PipeSize \in Nat
        BY CmdProcAssumption DEF IInv, TypeOK, Amounts, Streams
    <2> QED
        BY <2>1, <2>2 DEF IInv, Fits
<1> QED
    BY <1>1, IInvHolds, PTL

=============================================================================
