---------------------------- MODULE SampleRunner ----------------------------
(***************************************************************************)
(* The sample tests (tests/parser.java): main lists the .dts files under   *)
(* ./samples and tests them one after the other; a test parses the file,   *)
(* writes temporary files beside it, and runs gcc and dtc on it through    *)
(* CmdProc.  Two of the temporary files have names that end in .dts, so    *)
(* what an interrupted run leaves behind is listed by the next one.        *)
(*                                                                         *)
(* A file name is the sequence of the prefixes put before a sample's name, *)
(* and that name.  Of CmdProc the model uses what module CmdProc shows: it *)
(* returns with the exit code, throws, or never returns when the child,    *)
(* gcc or dtc, fills the pipe of its standard error.                       *)
(***************************************************************************)
EXTENDS Naturals, Sequences, FiniteSets, SequencesExt

CONSTANTS
    Samples,        \* the .dts files of the repository
    MaxRuns         \* bound: how often the tests are run

ASSUME SampleRunnerAssumption ==
    /\ IsFiniteSet(Samples) /\ {"input-", "output"} \cap Samples = {}
    /\ MaxRuns \in Nat

VARIABLES
    kind,       \* kind[s]: what happens to sample s
    execThrows, \* whether a tool is missing, or a file cannot be written
    dir,        \* the .dts files under ./samples
    tmp,        \* the files whose preprocessed text (.tmp, .pre.tmp) exists
    pc,         \* where main is
    runs,       \* how many runs were started
    listing,    \* dtsFiles
    testList,   \* test_list: the numbers given as arguments
    testNum,    \* the test's number
    returnCode, \* the current test's returnCode
    todo,       \* the deletions the current test still makes
    statistics, \* the results so far, with their files
    numOfSucc

world == <<kind, execThrows>>
files == <<dir, tmp>>
run == <<runs, listing, testList>>
test == <<returnCode, todo>>
counts == <<testNum, statistics, numOfSucc>>
vars == <<world, files, pc, run, test, counts>>

\* Good for both tools; not parsed; refused by gcc, or by dtc; or one of them
\* writes more errors or warnings about it than a pipe holds.
Kinds == {"good", "unparsable", "gcc", "dtc", "gccOverflow", "dtcOverflow"}

Names == BoundedSeq(Samples \cup {"input-", "output"}, MaxRuns + 1)
Original(s) == <<s>>
IsSample(f) == Len(f) = 1

\* inputFile and outputFile, the latter without a dash.
Input(f) == <<"input-">> \o f

\* Faulty variant: dtc writes where it reads from.
Output_NoPrefix(f) == f

Output(f) == <<"output">> \o f

\* The file being tested.
dtsFile == listing[testNum + 1]

Ended == {"idle", "finished", "aborted", "killed"}

TypeOK ==
    /\ kind \in [Samples -> Kinds] /\ execThrows \in BOOLEAN
    /\ dir \subseteq Names /\ tmp \subseteq Names
    /\ pc \in Ended \cup
              {"next", "read", "write", "gcc", "dtc", "hung", "delete", "result"}
    /\ runs \in 0..MaxRuns
    /\ ToSet(listing) \subseteq Names
    /\ testNum \in 0..Len(listing)
    /\ returnCode \in {0, 1}
    /\ Len(todo) <= 4
    /\ \A i \in DOMAIN statistics : statistics[i] \in [file : Names, succ : BOOLEAN]
    /\ numOfSucc \in 0..Len(statistics)

Init ==
    /\ kind \in [Samples -> Kinds] /\ execThrows \in BOOLEAN
    /\ dir = {Original(s) : s \in Samples}
    /\ tmp = {}
    /\ pc = "idle"
    /\ runs = 0 /\ listing = <<>> /\ testList = {}
    /\ returnCode = 0 /\ todo = <<>>
    /\ testNum = 0 /\ statistics = <<>> /\ numOfSucc = 0

-----------------------------------------------------------------------------
(* main *)

\* Every .dts file, in the order in which the file system has them.
listFilesForFolder == SetToSeqs(dir)

\* Any numbers may be given; one that no file has stands for all such.  An
\* argument that is no number ends main before it does anything.
parse_args == SUBSET (0..Cardinality(dir))

Start(args) ==
    /\ pc \in Ended /\ runs < MaxRuns
    /\ pc' = "next"
    /\ runs' = runs + 1
    /\ listing' \in listFilesForFolder
    /\ testList' = args
    /\ testNum' = 0 /\ statistics' = <<>> /\ numOfSucc' = 0
    /\ UNCHANGED <<world, files, test>>

\* The next file's test begins, or the file is passed over.
NextFile ==
    /\ pc = "next" /\ testNum < Len(listing)
    /\ IF testList = {} \/ testNum \in testList
       THEN pc' = "read" /\ UNCHANGED counts
       ELSE testNum' = testNum + 1 /\ UNCHANGED <<pc, statistics, numOfSucc>>
    /\ UNCHANGED <<world, files, run, test>>

\* An exception in the test: runTest returns null, its use in main throws,
\* and no results are written.
Abort ==
    /\ pc' = "aborted"
    /\ UNCHANGED <<world, files, run, test, counts>>

\* The test's result goes to the statistics, and n is the next number.
Record(succs, n) ==
    /\ pc = "result"
    /\ statistics' = Append(statistics, [file |-> dtsFile, succ |-> returnCode = 0])
    /\ numOfSucc' = numOfSucc + succs
    /\ testNum' = n
    /\ pc' = "next"
    /\ UNCHANGED <<world, files, run, test>>

\* Faulty variant: after a test, the next file is passed over.
Result_Skips ==
    Record(1 - returnCode,
           IF testNum + 2 <= Len(listing) THEN testNum + 2 ELSE Len(listing))

\* Faulty variant: a success is counted twice.
Result_CountsTwice == Record(2 * (1 - returnCode), testNum + 1)

Result == Record(1 - returnCode, testNum + 1)

\* The last line, and tests_results.txt, if it can be written.
Finish ==
    /\ pc = "next" /\ testNum = Len(listing)
    /\ \/ /\ pc' = "finished"
          /\ UNCHANGED <<world, files, run, test, counts>>
       \/ execThrows /\ Abort

-----------------------------------------------------------------------------
(* runTest *)

\* Whether the file's text is read and parsed.  dtc's output is no text, and
\* what the parser wrote may be cut short.
Parses(f) ==
    IF f \notin dir \/ f[1] = "output" THEN {FALSE}
    ELSE IF IsSample(f) THEN {kind[f[1]] # "unparsable"}
    ELSE BOOLEAN

\* Whether CmdProc may wait for ever for a tool's run on f.  What a tool makes
\* of a leftover is open.
MayHang(f, tool) ==
    IsSample(f) =>
        kind[f[1]] = IF tool = "gcc" THEN "gccOverflow" ELSE "dtcOverflow"

\* The exit codes with which it may return.
ExitCodes(f, tool) ==
    CASE ~IsSample(f) -> {0, 1}
      [] IsSample(f) /\ MayHang(f, tool) -> {}
      [] OTHER -> {IF kind[f[1]] = tool THEN 1 ELSE 0}

\* The parse, and check_paths, which always ends with returnCode 0.
Parse ==
    /\ pc = "read"
    /\ \E parsed \in Parses(dtsFile) :
            \/ /\ parsed
               /\ pc' = "write"
               /\ returnCode' = 0
               /\ UNCHANGED <<world, files, run, todo, counts>>
            \/ ~parsed /\ Abort

\* check_compile_tree: the parser's dump is written to the input file.
WriteInput ==
    /\ pc = "write"
    /\ \/ /\ pc' = "gcc"
          /\ dir' = dir \cup {Input(dtsFile)}
          /\ UNCHANGED <<world, tmp, run, test, counts>>
       \/ execThrows /\ Abort

\* Faulty variant: dtc's output is not deleted.
Deletions_NoOutput == <<"inputFile", "preProcOutFile", "preProcMDFile">>

\* The four deletions at both ends of check_compile_tree.
Deletions == <<"inputFile", "outputFile", "preProcOutFile", "preProcMDFile">>

\* CmdProc never returns, and the test stands still until it is killed.  The
\* preprocessor may have made its files by then.
Hang(tool) ==
    /\ MayHang(dtsFile, tool)
    /\ pc' = "hung"
    /\ tmp' \in {tmp, tmp \cup {dtsFile}}
    /\ UNCHANGED <<world, dir, run, test, counts>>

\* Faulty variant: a test that gcc fails returns without deleting.
PreProc_Returns ==
    /\ pc = "gcc"
    /\ \/ /\ \E code \in ExitCodes(dtsFile, "gcc") :
                /\ returnCode' = code
                /\ pc' = IF code = 0 THEN "dtc" ELSE "result"
          /\ tmp' = tmp \cup {dtsFile}
          /\ UNCHANGED <<world, dir, run, todo, counts>>
       \/ Hang("gcc")
       \/ execThrows /\ Abort

\* Faulty variant: a test that gcc fails throws instead of failing.
PreProc_Throws ==
    /\ pc = "gcc"
    /\ \/ /\ 0 \in ExitCodes(dtsFile, "gcc")
          /\ returnCode' = 0
          /\ pc' = "dtc"
          /\ tmp' = tmp \cup {dtsFile}
          /\ UNCHANGED <<world, dir, run, todo, counts>>
       \/ Hang("gcc")
       \/ (execThrows \/ 1 \in ExitCodes(dtsFile, "gcc")) /\ Abort

PreProc ==
    /\ pc = "gcc"
    /\ \/ /\ \E code \in ExitCodes(dtsFile, "gcc") :
                /\ returnCode' = code
                /\ pc' = IF code = 0 THEN "dtc" ELSE "delete"
                /\ todo' = IF code = 0 THEN <<>> ELSE Deletions
          /\ tmp' = tmp \cup {dtsFile}
          /\ UNCHANGED <<world, dir, run, counts>>
       \/ Hang("gcc")
       \/ execThrows /\ Abort

\* Faulty variant: the exit code of the preprocessor is returned.
Compile_GccCode ==
    /\ pc = "dtc"
    /\ \/ /\ \E code \in ExitCodes(dtsFile, "dtc") :
                dir' = IF code = 0 THEN dir \cup {Output(dtsFile)} ELSE dir
          /\ pc' = "delete"
          /\ todo' = Deletions
          /\ UNCHANGED <<world, tmp, run, returnCode, counts>>
       \/ Hang("dtc")
       \/ execThrows /\ Abort

\* dtc's run on what gcc made; it writes its output only when it succeeds.
Compile ==
    /\ pc = "dtc"
    /\ \/ /\ \E code \in ExitCodes(dtsFile, "dtc") :
                /\ returnCode' = code
                /\ dir' = IF code = 0 THEN dir \cup {Output(dtsFile)} ELSE dir
          /\ pc' = "delete"
          /\ todo' = Deletions
          /\ UNCHANGED <<world, tmp, run, counts>>
       \/ Hang("dtc")
       \/ execThrows /\ Abort

\* One deletion.  tmp stands for both files of the preprocessor, and is empty
\* again after the second.
Delete ==
    /\ pc = "delete"
    /\ dir' = dir \ (CASE Head(todo) = "inputFile" -> {Input(dtsFile)}
                       [] Head(todo) = "outputFile" -> {Output(dtsFile)}
                       [] OTHER -> {})
    /\ tmp' = IF Head(todo) = "preProcMDFile" THEN tmp \ {dtsFile} ELSE tmp
    /\ todo' = Tail(todo)
    /\ pc' = IF todo' = <<>> THEN "result" ELSE "delete"
    /\ UNCHANGED <<world, run, returnCode, counts>>

-----------------------------------------------------------------------------

\* The tests are stopped from outside, at any point.
Kill ==
    /\ pc \notin Ended
    /\ pc' = "killed"
    /\ todo' = <<>>
    /\ UNCHANGED <<world, files, run, returnCode, counts>>

Step ==
    \/ NextFile \/ Parse \/ WriteInput \/ PreProc \/ Compile \/ Delete
    \/ Result \/ Finish

Next ==
    \/ \E args \in parse_args : Start(args)
    \/ Step
    \/ Kill

\* The runner goes on while it can: a tool that fits its pipe ends, and hung is
\* no state with a next step.  Nobody has to start the runner, or to kill it.
Spec == Init /\ [][Next]_vars /\ WF_vars(Step)

-----------------------------------------------------------------------------
(* Properties *)

\* Whatever earlier runs left, and wherever they were stopped, no test and no
\* clean-up removes a sample of the repository.
SamplesKept == \A s \in Samples : Original(s) \in dir

\* The result of a sample is Succ exactly when gcc and dtc both accept it,
\* through both returns of check_compile_tree, and numOfSucc counts those.
Verdicts ==
    /\ \A i \in DOMAIN statistics :
            LET f == statistics[i].file
            IN  IsSample(f) => statistics[i].succ = (kind[f[1]] = "good")
    /\ numOfSucc = Cardinality({i \in DOMAIN statistics : statistics[i].succ})

\* The positions in the listing that the arguments select.
Selected == {n \in 1..Len(listing) : testList = {} \/ n - 1 \in testList}

\* A run that comes to its end has tested what was asked for: each selected
\* file of the listing once, in order, and no other.
TestsSelected ==
    pc = "finished" =>
        /\ Len(statistics) = Cardinality(Selected)
        /\ \A n \in Selected :
                statistics[Cardinality({m \in Selected : m <= n})].file = listing[n]

\* However a run goes on or ends, the temporary files of everything that has a
\* result are gone, those that an earlier, interrupted run left among them,
\* and no later test makes them again.
CleansUp ==
    \A i \in DOMAIN statistics :
        LET f == statistics[i].file
        IN  {Input(f), Output(f)} \cap dir = {} /\ f \notin tmp

\* A run that is aborted, killed or hangs leaves behind at most the temporary
\* files of the one test it is in, and one that finishes leaves none: every
\* other .dts file was there before it.
LeavesOnlyCurrent ==
    pc # "idle" =>
        dir \ ToSet(listing) \subseteq
            IF testNum < Len(listing) THEN {Input(dtsFile), Output(dtsFile)} ELSE {}

\* A run that tests only samples, none of which is unparsable or overflows a
\* pipe, comes to its end unless it is killed, or a tool is missing: neither
\* a test's temporary files nor the leftovers it passes over get into the way
\* of another test.
CleanRunFinishes ==
    /\ pc = "next" /\ testNum = 0 /\ ~execThrows
    /\ \A n \in Selected :
            IsSample(listing[n]) /\ kind[listing[n][1]] \in {"good", "gcc", "dtc"}
    ~> pc \in {"finished", "killed"}

=============================================================================
