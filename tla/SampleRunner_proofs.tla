------------------------- MODULE SampleRunner_proofs -------------------------
(***************************************************************************)
(* The sample tests keep the samples, give each the right verdict, test    *)
(* what was selected and clean up behind them, for any number of samples,  *)
(* of arguments and of runs, each stopped anywhere or not.                 *)
(***************************************************************************)
EXTENDS SampleRunner, FiniteSetTheorems, SequenceTheorems, TLAPS

-----------------------------------------------------------------------------
(* The inductive invariant *)

Words == Samples \cup {"input-", "output"}

\* A name is a sample's with at most k - 1 prefixes.
NameOK(f, k) == f \in Seq(Words) /\ Len(f) \in 1..k /\ f[Len(f)] \in Samples

\* The files of run k have at most k prefixes.
FilesOK ==
    /\ IsFiniteSet(dir)
    /\ \A f \in dir : NameOK(f, runs + 1)
    /\ \A f \in tmp : NameOK(f, runs + 1)

\* The run lists files that were there before it, each once.
ListOK ==
    /\ runs \in 0..MaxRuns
    /\ listing \in Seq(Seq(Words))
    /\ \A i \in 1..Len(listing) : NameOK(listing[i], runs)
    /\ \A i, j \in 1..Len(listing) : i # j => listing[i] # listing[j]

Testing == {"read", "write", "gcc", "dtc", "delete", "result"}

IsSelected(n) == testList = {} \/ n - 1 \in testList

\* A file is tested only if it is there and selected.
PlaceOK ==
    /\ pc \in Ended \cup Testing \cup {"next", "hung"}
    /\ testNum \in 0..Len(listing)
    /\ pc \in Testing => testNum < Len(listing) /\ IsSelected(testNum + 1)
    /\ pc = "finished" => testNum = Len(listing)

\* How far a sample gets says what kind it can be of.
CodeOK ==
    /\ kind \in [Samples -> Kinds]
    /\ execThrows \in BOOLEAN
    /\ returnCode \in {0, 1}
    /\ pc \in Testing /\ IsSample(dtsFile) =>
            /\ pc # "read" => kind[dtsFile[1]] # "unparsable"
            /\ pc = "dtc" => kind[dtsFile[1]] \in {"good", "dtc", "dtcOverflow"}
            /\ pc \in {"delete", "result"} => (returnCode = 0 <=> kind[dtsFile[1]] = "good")

ThreeLeft == <<"outputFile", "preProcOutFile", "preProcMDFile">>
TwoLeft == <<"preProcOutFile", "preProcMDFile">>
OneLeft == <<"preProcMDFile">>

\* The deletions that are done, and the files that are therefore gone.
TodoOK ==
    /\ pc # "delete" => todo = <<>>
    /\ pc = "delete" => todo \in {Deletions, ThreeLeft, TwoLeft, OneLeft}
    /\ pc = "delete" /\ todo # Deletions => Input(dtsFile) \notin dir
    /\ pc = "delete" /\ todo \in {TwoLeft, OneLeft} => Output(dtsFile) \notin dir
    /\ pc = "result" =>
            Input(dtsFile) \notin dir /\ Output(dtsFile) \notin dir /\ dtsFile \notin tmp

\* The selected positions up to n.
SelectedTo(n) == {m \in 1..n : IsSelected(m)}

Results == [file : Seq(Words), succ : BOOLEAN]

Succs == {i \in 1..Len(statistics) : statistics[i].succ}

\* The results are those of the selected files behind the current one.
StatsOK ==
    /\ statistics \in Seq(Results)
    /\ Len(statistics) = Cardinality(SelectedTo(testNum))
    /\ \A n \in SelectedTo(testNum) :
            /\ Cardinality(SelectedTo(n)) \in 1..Len(statistics)
            /\ statistics[Cardinality(SelectedTo(n))].file = listing[n]
    /\ \A i \in 1..Len(statistics) : \E n \in 1..testNum : statistics[i].file = listing[n]

VerdictOK ==
    /\ \A i \in 1..Len(statistics) :
            LET f == statistics[i].file
            IN  IsSample(f) => statistics[i].succ = (kind[f[1]] = "good")
    /\ numOfSucc = Cardinality(Succs)

Cleaned(f) == Input(f) \notin dir /\ Output(f) \notin dir /\ f \notin tmp

\* Their temporary files are gone, and no later test makes them again.
CleanOK == \A i \in 1..Len(statistics) : Cleaned(statistics[i].file)

Listed == {listing[i] : i \in 1..Len(listing)}

TempFiles == IF testNum < Len(listing) THEN {Input(dtsFile), Output(dtsFile)} ELSE {}

\* Between two tests there is nothing that was not listed.
NewOK ==
    /\ pc # "idle" => dir \subseteq Listed \cup TempFiles
    /\ pc \in {"next", "read", "finished"} => dir \subseteq Listed

IInv ==
    /\ FilesOK /\ ListOK /\ PlaceOK /\ CodeOK /\ TodoOK
    /\ StatsOK /\ VerdictOK /\ CleanOK /\ NewOK /\ SamplesKept

-----------------------------------------------------------------------------
(* Names *)

\* A prefix makes a longer name, which no sample has.
LEMMA PrefixedName ==
    ASSUME NEW f \in Seq(Words)
    PROVE  /\ Input(f) \in Seq(Words) /\ Output(f) \in Seq(Words)
           /\ Len(Input(f)) = Len(f) + 1 /\ Len(Output(f)) = Len(f) + 1
           /\ Input(f)[1] = "input-" /\ Output(f)[1] = "output"
           /\ \A i \in 1..Len(f) : Input(f)[i + 1] = f[i] /\ Output(f)[i + 1] = f[i]
PROOF
<1>1. ASSUME NEW w \in Words
      PROVE  /\ <<w>> \o f \in Seq(Words) /\ Len(<<w>> \o f) = Len(f) + 1
             /\ (<<w>> \o f)[1] = w
             /\ \A i \in 1..Len(f) : (<<w>> \o f)[i + 1] = f[i]
    <2>1. <<w>> \in Seq(Words) /\ Len(<<w>>) = 1 /\ <<w>>[1] = w /\ Len(f) \in Nat
        OBVIOUS
    <2> DEFINE g == <<w>> \o f
    <2>2. /\ g \in Seq(Words) /\ Len(g) = 1 + Len(f)
          /\ \A i \in 1..1 + Len(f) : g[i] = IF i <= 1 THEN <<w>>[i] ELSE f[i - 1]
        BY <2>1, ConcatProperties
    <2> HIDE DEF g
    <2>3. Len(g) = Len(f) + 1 /\ g[1] = w
        BY <2>1, <2>2
    <2>4. ASSUME NEW i \in 1..Len(f) PROVE g[i + 1] = f[i]
        <3>1. i + 1 \in 1..1 + Len(f) /\ ~(i + 1 <= 1) /\ i + 1 - 1 = i
            BY <2>1
        <3> QED
            BY <2>2, <3>1
    <2> QED
        BY <2>2, <2>3, <2>4 DEF g
<1>2. "input-" \in Words /\ "output" \in Words
    BY DEF Words
<1> QED
    BY <1>1, <1>2 DEF Input, Output

LEMMA PrefixedNameOK ==
    ASSUME NEW k \in Nat, NEW f, NameOK(f, k)
    PROVE  NameOK(Input(f), k + 1) /\ NameOK(Output(f), k + 1)
PROOF
<1>1. f \in Seq(Words) /\ Len(f) \in 1..k /\ f[Len(f)] \in Samples
    BY DEF NameOK
<1>2. Len(f) \in 1..Len(f) /\ Len(f) + 1 \in 1..k + 1
    BY <1>1
<1>3. /\ Input(f) \in Seq(Words) /\ Output(f) \in Seq(Words)
      /\ Len(Input(f)) = Len(f) + 1 /\ Len(Output(f)) = Len(f) + 1
      /\ \A i \in 1..Len(f) : Input(f)[i + 1] = f[i] /\ Output(f)[i + 1] = f[i]
    BY <1>1, PrefixedName
<1>4. Input(f)[Len(f) + 1] = f[Len(f)] /\ Output(f)[Len(f) + 1] = f[Len(f)]
    BY <1>2, <1>3
<1> QED
    BY <1>1, <1>2, <1>3, <1>4, Zenon DEF NameOK

LEMMA LongerNameOK ==
    ASSUME NEW k \in Nat, NEW f, NameOK(f, k)
    PROVE  NameOK(f, k + 1)
PROOF
BY DEF NameOK

\* The temporary files of two files are not the same.
LEMMA PrefixesDiffer ==
    ASSUME NEW f \in Seq(Words), NEW g \in Seq(Words)
    PROVE  /\ Input(f) # Output(g)
           /\ Input(f) = Input(g) => f = g
           /\ Output(f) = Output(g) => f = g
PROOF
<1>1. Input(f) # Output(g)
    BY PrefixedName
<1>2. Len(f) \in Nat /\ Len(g) \in Nat
    OBVIOUS
<1>3. ASSUME Input(f) = Input(g) PROVE f = g
    <2>1. Len(f) = Len(g)
        BY <1>2, <1>3, PrefixedName
    <2>2. \A i \in 1..Len(f) : f[i] = Input(f)[i + 1]
        BY PrefixedName
    <2>3. \A i \in 1..Len(g) : g[i] = Input(g)[i + 1]
        BY PrefixedName
    <2>4. \A i \in 1..Len(f) : f[i] = g[i]
        BY <1>3, <2>1, <2>2, <2>3, Zenon
    <2> QED
        BY <2>1, <2>4, SeqEqual
<1>4. ASSUME Output(f) = Output(g) PROVE f = g
    <2>1. Len(f) = Len(g)
        BY <1>2, <1>4, PrefixedName
    <2>2. \A i \in 1..Len(f) : f[i] = Output(f)[i + 1]
        BY PrefixedName
    <2>3. \A i \in 1..Len(g) : g[i] = Output(g)[i + 1]
        BY PrefixedName
    <2>4. \A i \in 1..Len(f) : f[i] = g[i]
        BY <1>4, <2>1, <2>2, <2>3, Zenon
    <2> QED
        BY <2>1, <2>4, SeqEqual
<1> QED
    BY <1>1, <1>3, <1>4

LEMMA OriginalName ==
    ASSUME NEW s \in Samples
    PROVE  /\ NameOK(Original(s), 1) /\ Original(s)[1] = s
           /\ \A f \in Seq(Words) : Original(s) # Input(f) /\ Original(s) # Output(f)
PROOF
<1>1. Original(s) \in Seq(Words) /\ Len(Original(s)) = 1 /\ Original(s)[1] = s
    BY DEF Original, Words
<1>2. s # "input-" /\ s # "output"
    BY SampleRunnerAssumption
<1> QED
    BY <1>1, <1>2, PrefixedName DEF NameOK

\* Names of bounded length are names.
LEMMA NamesAre ==
    ASSUME NEW k \in 0..MaxRuns + 1, NEW f, NameOK(f, k)
    PROVE  f \in Names
PROOF
<1>1. f \in Seq(Words) /\ Len(f) \in 1..k
    BY DEF NameOK
<1>2. Len(f) \in 0..MaxRuns + 1 /\ f \in [1..Len(f) -> Words]
    BY <1>1, SampleRunnerAssumption, LenProperties
<1> QED
    BY <1>2 DEF Names, BoundedSeq, SeqOf, Words

-----------------------------------------------------------------------------
(* What the steps of a test leave alone *)

\* The file being tested is a proper name, and none that has a result.
LEMMA Current ==
    ASSUME IInv, pc \in Testing
    PROVE  /\ NameOK(dtsFile, runs) /\ dtsFile \in Seq(Words) /\ runs \in Nat
           /\ testNum + 1 \in 1..Len(listing) /\ Len(listing) \in Nat
           /\ \A i \in 1..Len(statistics) :
                /\ statistics[i].file \in Seq(Words)
                /\ statistics[i].file # dtsFile
           /\ IsSample(dtsFile) => dtsFile[1] \in Samples
PROOF
<1>1. Len(listing) \in Nat /\ testNum \in Nat /\ testNum < Len(listing) /\ runs \in Nat
    BY DEF IInv, ListOK, PlaceOK
<1>2. testNum + 1 \in 1..Len(listing)
    BY <1>1
<1>3. NameOK(dtsFile, runs)
    BY <1>2 DEF IInv, ListOK, dtsFile
<1>4. dtsFile \in Seq(Words) /\ (IsSample(dtsFile) => dtsFile[1] \in Samples)
    BY <1>3 DEF NameOK, IsSample
<1>5. ASSUME NEW i \in 1..Len(statistics)
      PROVE  statistics[i].file \in Seq(Words) /\ statistics[i].file # dtsFile
    <2>1. PICK n \in 1..testNum : statistics[i].file = listing[n]
        BY DEF IInv, StatsOK
    <2>2. n \in 1..Len(listing) /\ n # testNum + 1
        BY <1>1
    <2>3. listing[n] # listing[testNum + 1] /\ NameOK(listing[n], runs)
        BY <1>2, <2>2 DEF IInv, ListOK
    <2> QED
        BY <2>1, <2>3 DEF dtsFile, NameOK
<1> QED
    BY <1>1, <1>2, <1>3, <1>4, <1>5

\* A test touches no other file's temporary files, and no sample.
LEMMA FilesStay ==
    ASSUME IInv, pc \in Testing, UNCHANGED <<statistics, runs>>,
           dir' \subseteq dir \cup {Input(dtsFile), Output(dtsFile)},
           dir \subseteq dir' \cup {Input(dtsFile), Output(dtsFile)},
           tmp' \subseteq tmp \cup {dtsFile}
    PROVE  FilesOK' /\ CleanOK' /\ SamplesKept'
PROOF
<1>1. NameOK(dtsFile, runs) /\ dtsFile \in Seq(Words) /\ runs \in Nat
    BY Current
<1>2. /\ NameOK(Input(dtsFile), runs + 1) /\ NameOK(Output(dtsFile), runs + 1)
      /\ NameOK(dtsFile, runs + 1)
    BY <1>1, PrefixedNameOK, LongerNameOK
<1>3. IsFiniteSet(dir')
    <2>1. IsFiniteSet(dir \cup {Input(dtsFile)})
        BY FS_AddElement DEF IInv, FilesOK
    <2>2. IsFiniteSet((dir \cup {Input(dtsFile)}) \cup {Output(dtsFile)})
        BY <2>1, FS_AddElement
    <2>3. dir' \in SUBSET ((dir \cup {Input(dtsFile)}) \cup {Output(dtsFile)})
        OBVIOUS
    <2> QED
        BY <2>2, <2>3, FS_Subset
<1>4. FilesOK'
    BY <1>2, <1>3 DEF IInv, FilesOK
<1>5. CleanOK'
    <2> SUFFICES ASSUME NEW i \in 1..Len(statistics)
                 PROVE  Cleaned(statistics[i].file)'
        BY DEF CleanOK
    <2> DEFINE f == statistics[i].file
    <2>1. f \in Seq(Words) /\ f # dtsFile
        BY Current
    <2>2. Cleaned(f)
        BY DEF IInv, CleanOK
    <2> HIDE DEF f
    <2>3. /\ Input(f) \notin {Input(dtsFile), Output(dtsFile)}
          /\ Output(f) \notin {Input(dtsFile), Output(dtsFile)}
        BY <1>1, <2>1, PrefixesDiffer
    <2>4. Input(f) \notin dir' /\ Output(f) \notin dir' /\ f \notin tmp'
        BY <2>1, <2>2, <2>3 DEF Cleaned
    <2> QED
        BY <2>4 DEF Cleaned, f
<1>6. SamplesKept'
    <2>1. \A s \in Samples : Original(s) \in dir /\ Original(s) # Input(dtsFile)
                                /\ Original(s) # Output(dtsFile)
        BY <1>1, OriginalName DEF IInv, SamplesKept
    <2> QED
        BY <2>1 DEF SamplesKept
<1> QED
    BY <1>4, <1>5, <1>6

LEMMA FilesSame ==
    ASSUME IInv, UNCHANGED <<statistics, runs, dir, tmp>>
    PROVE  FilesOK' /\ CleanOK' /\ SamplesKept'
PROOF
BY DEF IInv, FilesOK, CleanOK, Cleaned, SamplesKept

\* While a test goes on, or when it is stopped, only its own files are new.
LEMMA NewStays ==
    ASSUME IInv, pc # "idle", UNCHANGED <<listing, testNum>>,
           dir' \subseteq dir \cup TempFiles, pc' \notin {"next", "read", "finished"}
    PROVE  NewOK'
PROOF
<1>1. Listed' = Listed /\ TempFiles' = TempFiles
    BY DEF Listed, TempFiles, dtsFile
<1> QED
    BY <1>1 DEF IInv, NewOK

LEMMA NewInTest ==
    ASSUME IInv, pc \in Testing, UNCHANGED <<listing, testNum>>,
           dir' \subseteq dir \cup {Input(dtsFile), Output(dtsFile)},
           pc' \notin {"next", "read", "finished"}
    PROVE  NewOK'
PROOF
<1>1. pc # "idle" /\ TempFiles = {Input(dtsFile), Output(dtsFile)}
    BY DEF IInv, PlaceOK, Testing, TempFiles
<1> QED
    BY <1>1, NewStays

LEMMA NothingNew ==
    ASSUME UNCHANGED <<listing, dir>>, dir \subseteq Listed
    PROVE  NewOK'
PROOF
BY DEF NewOK, Listed

\* Only Result and a new run change the results.
LEMMA ResultsSame ==
    ASSUME IInv, UNCHANGED <<kind, runs, listing, testList, testNum, statistics, numOfSucc>>
    PROVE  ListOK' /\ StatsOK' /\ VerdictOK'
PROOF
<1>1. ListOK'
    BY DEF IInv, ListOK
<1>2. \A n : SelectedTo(n)' = SelectedTo(n)
    BY DEF SelectedTo, IsSelected
<1>3. StatsOK'
    BY <1>2 DEF IInv, StatsOK
<1>4. VerdictOK'
    BY DEF IInv, VerdictOK, Succs
<1> QED
    BY <1>1, <1>3, <1>4

-----------------------------------------------------------------------------
(* The steps of a test *)

LEMMA AbortIInv == ASSUME IInv, pc \notin {"idle", "delete"}, Abort PROVE IInv'
PROOF
<1>1. /\ pc' = "aborted"
      /\ UNCHANGED <<kind, execThrows, dir, tmp, runs, listing, testList,
                     returnCode, todo, testNum, statistics, numOfSucc>>
    BY DEF Abort, world, files, run, test, counts
<1>2. FilesOK' /\ CleanOK' /\ SamplesKept' /\ ListOK' /\ StatsOK' /\ VerdictOK'
    BY <1>1, FilesSame, ResultsSame
<1>3. PlaceOK'
    BY <1>1 DEF IInv, PlaceOK, Ended, Testing
<1>4. CodeOK'
    BY <1>1 DEF IInv, CodeOK, Testing
<1>5. TodoOK'
    BY <1>1 DEF IInv, TodoOK
<1>6. NewOK'
    BY <1>1, NewStays
<1> QED
    BY <1>2, <1>3, <1>4, <1>5, <1>6 DEF IInv

LEMMA ParseIInv == ASSUME IInv, Parse PROVE IInv'
PROOF
<1>1. pc = "read" /\ pc \in Testing
    BY DEF Parse, Testing
<1>2. PICK parsed \in Parses(dtsFile) :
            \/ /\ parsed /\ pc' = "write" /\ returnCode' = 0
               /\ UNCHANGED <<world, files, run, todo, counts>>
            \/ ~parsed /\ Abort
    BY DEF Parse
<1>3. CASE Abort
    BY <1>1, <1>3, AbortIInv
<1>4. CASE /\ parsed /\ pc' = "write" /\ returnCode' = 0
           /\ UNCHANGED <<world, files, run, todo, counts>>
    <2>1. UNCHANGED <<kind, execThrows, dir, tmp, runs, listing, testList,
                      todo, testNum, statistics, numOfSucc>>
        BY <1>4 DEF world, files, run, counts
    <2>2. FilesOK' /\ CleanOK' /\ SamplesKept' /\ ListOK' /\ StatsOK' /\ VerdictOK'
        BY <2>1, FilesSame, ResultsSame
    <2>3. dtsFile' = dtsFile /\ (IsSelected(testNum + 1)' <=> IsSelected(testNum + 1))
        BY <2>1 DEF dtsFile, IsSelected
    <2>4. PlaceOK'
        BY <1>1, <1>4, <2>1, <2>3 DEF IInv, PlaceOK, Testing
    <2>5. IsSample(dtsFile) => kind[dtsFile[1]] # "unparsable"
        BY <1>4 DEF Parses
    <2>6. CodeOK'
        BY <1>4, <2>1, <2>3, <2>5 DEF IInv, CodeOK, Testing
    <2>7. TodoOK'
        BY <1>1, <1>4, <2>1 DEF IInv, TodoOK
    <2>8. NewOK'
        BY <1>1, <1>4, <2>1, NewInTest
    <2> QED
        BY <2>2, <2>4, <2>6, <2>7, <2>8 DEF IInv
<1> QED
    BY <1>2, <1>3, <1>4

LEMMA WriteInputIInv == ASSUME IInv, WriteInput PROVE IInv'
PROOF
<1>1. pc = "write" /\ pc \in Testing
    BY DEF WriteInput, Testing
<1>2. CASE Abort
    BY <1>1, <1>2, AbortIInv
<1>3. CASE /\ pc' = "gcc" /\ dir' = dir \cup {Input(dtsFile)}
           /\ UNCHANGED <<world, tmp, run, test, counts>>
    <2>1. UNCHANGED <<kind, execThrows, tmp, runs, listing, testList, returnCode,
                      todo, testNum, statistics, numOfSucc>>
        BY <1>3 DEF world, run, test, counts
    <2>2. FilesOK' /\ CleanOK' /\ SamplesKept' /\ ListOK' /\ StatsOK' /\ VerdictOK'
        BY <1>1, <1>3, <2>1, FilesStay, ResultsSame
    <2>3. dtsFile' = dtsFile /\ (IsSelected(testNum + 1)' <=> IsSelected(testNum + 1))
        BY <2>1 DEF dtsFile, IsSelected
    <2>4. PlaceOK'
        BY <1>1, <1>3, <2>1, <2>3 DEF IInv, PlaceOK, Testing
    <2>5. CodeOK'
        BY <1>1, <1>3, <2>1, <2>3 DEF IInv, CodeOK, Testing
    <2>6. TodoOK'
        BY <1>1, <1>3, <2>1 DEF IInv, TodoOK
    <2>7. NewOK'
        BY <1>1, <1>3, <2>1, NewInTest
    <2> QED
        BY <2>2, <2>4, <2>5, <2>6, <2>7 DEF IInv
<1> QED
    BY <1>2, <1>3 DEF WriteInput

\* A tool that never ends leaves everything as it is.
LEMMA HangIInv == ASSUME IInv, pc \in {"gcc", "dtc"}, NEW tool, Hang(tool) PROVE IInv'
PROOF
<1>1. /\ pc \in Testing /\ pc' = "hung" /\ tmp' \subseteq tmp \cup {dtsFile}
      /\ UNCHANGED <<kind, execThrows, dir, runs, listing, testList,
                     returnCode, todo, testNum, statistics, numOfSucc>>
    BY DEF Hang, Testing, world, run, test, counts
<1>2. FilesOK' /\ CleanOK' /\ SamplesKept' /\ ListOK' /\ StatsOK' /\ VerdictOK'
    BY <1>1, FilesStay, ResultsSame
<1>3. PlaceOK'
    BY <1>1 DEF IInv, PlaceOK, Testing
<1>4. CodeOK'
    BY <1>1 DEF IInv, CodeOK, Testing
<1>5. TodoOK'
    BY <1>1 DEF IInv, TodoOK
<1>6. NewOK'
    BY <1>1, NewInTest
<1> QED
    BY <1>2, <1>3, <1>4, <1>5, <1>6 DEF IInv

LEMMA PreProcIInv == ASSUME IInv, PreProc PROVE IInv'
PROOF
<1>1. pc = "gcc" /\ pc \in Testing
    BY DEF PreProc, Testing
<1>2. CASE Abort
    BY <1>1, <1>2, AbortIInv
<1>3. ASSUME NEW code \in ExitCodes(dtsFile, "gcc"), returnCode' = code,
             pc' = IF code = 0 THEN "dtc" ELSE "delete",
             todo' = IF code = 0 THEN <<>> ELSE Deletions,
             tmp' = tmp \cup {dtsFile}, UNCHANGED <<world, dir, run, counts>>
      PROVE  IInv'
    <2>1. UNCHANGED <<kind, execThrows, dir, runs, listing, testList,
                      testNum, statistics, numOfSucc>>
        BY <1>3 DEF world, run, counts
    <2>2. FilesOK' /\ CleanOK' /\ SamplesKept' /\ ListOK' /\ StatsOK' /\ VerdictOK'
        BY <1>1, <1>3, <2>1, FilesStay, ResultsSame
    <2>3. dtsFile' = dtsFile /\ (IsSelected(testNum + 1)' <=> IsSelected(testNum + 1))
        BY <2>1 DEF dtsFile, IsSelected
    <2>4. code \in {0, 1}
        BY DEF ExitCodes
    <2>5. PlaceOK'
        BY <1>1, <1>3, <2>1, <2>3, <2>4 DEF IInv, PlaceOK, Testing
    <2>6. IsSample(dtsFile) =>
                /\ kind[dtsFile[1]] \in Kinds
                /\ kind[dtsFile[1]] \notin {"unparsable", "gccOverflow"}
                /\ code = IF kind[dtsFile[1]] = "gcc" THEN 1 ELSE 0
        <3> SUFFICES ASSUME IsSample(dtsFile)
                     PROVE  /\ kind[dtsFile[1]] \in Kinds
                            /\ kind[dtsFile[1]] \notin {"unparsable", "gccOverflow"}
                            /\ code = IF kind[dtsFile[1]] = "gcc" THEN 1 ELSE 0
            OBVIOUS
        <3>1. dtsFile[1] \in Samples /\ Len(dtsFile) = 1
            BY <1>1, Current DEF IsSample
        <3>2. kind[dtsFile[1]] \in Kinds /\ kind[dtsFile[1]] # "unparsable"
            BY <1>1, <3>1 DEF IInv, CodeOK
        <3>3. kind[dtsFile[1]] # "gccOverflow"
            BY DEF ExitCodes, MayHang
        <3>4. code = IF kind[dtsFile[1]] = "gcc" THEN 1 ELSE 0
            BY DEF ExitCodes
        <3> QED
            BY <3>2, <3>3, <3>4
    <2>7. CodeOK'
        <3>1. CASE code = 0
            BY <1>3, <2>1, <2>3, <2>4, <2>6, <3>1 DEF IInv, CodeOK, Kinds
        <3>2. CASE code = 1
            BY <1>3, <2>1, <2>3, <2>4, <2>6, <3>2 DEF IInv, CodeOK, Kinds
        <3> QED
            BY <2>4, <3>1, <3>2
    <2>8. TodoOK'
        <3>1. CASE code = 0
            BY <1>3, <3>1 DEF TodoOK
        <3>2. CASE code = 1
            <4>1. pc' = "delete" /\ todo' = Deletions
                BY <1>3, <3>2
            <4>2. Deletions \notin {TwoLeft, OneLeft}
                BY DEF Deletions, TwoLeft, OneLeft
            <4> QED
                BY <4>1, <4>2 DEF TodoOK
        <3> QED
            BY <2>4, <3>1, <3>2
    <2>9. NewOK'
        BY <1>1, <1>3, <2>1, <2>4, NewInTest
    <2> QED
        BY <2>2, <2>5, <2>7, <2>8, <2>9 DEF IInv
<1>4. CASE Hang("gcc")
    BY <1>1, <1>4, HangIInv
<1> QED
    BY <1>2, <1>3, <1>4 DEF PreProc

LEMMA CompileIInv == ASSUME IInv, Compile PROVE IInv'
PROOF
<1>1. pc = "dtc" /\ pc \in Testing
    BY DEF Compile, Testing
<1>2. CASE Abort
    BY <1>1, <1>2, AbortIInv
<1>3. ASSUME NEW code \in ExitCodes(dtsFile, "dtc"), returnCode' = code,
             dir' = IF code = 0 THEN dir \cup {Output(dtsFile)} ELSE dir,
             pc' = "delete", todo' = Deletions, UNCHANGED <<world, tmp, run, counts>>
      PROVE  IInv'
    <2>1. UNCHANGED <<kind, execThrows, tmp, runs, listing, testList,
                      testNum, statistics, numOfSucc>>
        BY <1>3 DEF world, run, counts
    <2>2. FilesOK' /\ CleanOK' /\ SamplesKept' /\ ListOK' /\ StatsOK' /\ VerdictOK'
        BY <1>1, <1>3, <2>1, FilesStay, ResultsSame
    <2>3. dtsFile' = dtsFile /\ (IsSelected(testNum + 1)' <=> IsSelected(testNum + 1))
        BY <2>1 DEF dtsFile, IsSelected
    <2>4. PlaceOK'
        BY <1>1, <1>3, <2>1, <2>3 DEF IInv, PlaceOK, Testing
    <2>5. IsSample(dtsFile) => kind[dtsFile[1]] \in {"good", "dtc"}
                                /\ code = IF kind[dtsFile[1]] = "dtc" THEN 1 ELSE 0
        BY <1>1 DEF IInv, CodeOK, ExitCodes, MayHang
    <2>6. code \in {0, 1}
        BY DEF ExitCodes
    <2>7. CodeOK'
        BY <1>3, <2>1, <2>3, <2>5, <2>6 DEF IInv, CodeOK
    <2>8. TodoOK'
        <3>1. Deletions \notin {TwoLeft, OneLeft}
            BY DEF Deletions, TwoLeft, OneLeft
        <3> QED
            BY <1>3, <3>1 DEF TodoOK
    <2>9. NewOK'
        BY <1>1, <1>3, <2>1, NewInTest
    <2> QED
        BY <2>2, <2>4, <2>7, <2>8, <2>9 DEF IInv
<1>4. CASE Hang("dtc")
    BY <1>1, <1>4, HangIInv
<1> QED
    BY <1>2, <1>3, <1>4 DEF Compile

\* The deletions one by one.
LEMMA DeletionSteps ==
    /\ Head(Deletions) = "inputFile" /\ Tail(Deletions) = ThreeLeft
    /\ Head(ThreeLeft) = "outputFile" /\ Tail(ThreeLeft) = TwoLeft
    /\ Head(TwoLeft) = "preProcOutFile" /\ Tail(TwoLeft) = OneLeft
    /\ Head(OneLeft) = "preProcMDFile" /\ Tail(OneLeft) = <<>>
    /\ Deletions # ThreeLeft /\ Deletions # TwoLeft /\ Deletions # OneLeft
    /\ ThreeLeft # TwoLeft /\ ThreeLeft # OneLeft /\ TwoLeft # OneLeft
    /\ ThreeLeft # <<>> /\ TwoLeft # <<>> /\ OneLeft # <<>>
PROOF
BY DEF Deletions, ThreeLeft, TwoLeft, OneLeft

LEMMA DeleteIInv == ASSUME IInv, Delete PROVE IInv'
PROOF
<1> DEFINE gone == CASE Head(todo) = "inputFile" -> {Input(dtsFile)}
                     [] Head(todo) = "outputFile" -> {Output(dtsFile)}
                     [] OTHER -> {}
<1>1. /\ pc = "delete" /\ dir' = dir \ gone /\ todo' = Tail(todo)
      /\ tmp' = IF Head(todo) = "preProcMDFile" THEN tmp \ {dtsFile} ELSE tmp
      /\ pc' = IF todo' = <<>> THEN "result" ELSE "delete"
      /\ UNCHANGED <<kind, execThrows, runs, listing, testList, returnCode,
                     testNum, statistics, numOfSucc>>
    BY DEF Delete, world, run, counts
<1>2. /\ Head(todo) = "inputFile" => gone = {Input(dtsFile)}
      /\ Head(todo) = "outputFile" => gone = {Output(dtsFile)}
      /\ Head(todo) \notin {"inputFile", "outputFile"} => gone = {}
    OBVIOUS
<1> HIDE DEF gone
<1>3. pc \in Testing /\ pc' \in {"delete", "result"} /\ dtsFile' = dtsFile
      /\ (IsSelected(testNum + 1)' <=> IsSelected(testNum + 1))
    BY <1>1 DEF Testing, dtsFile, IsSelected
<1>4. gone \subseteq {Input(dtsFile), Output(dtsFile)}
    BY <1>2
<1>5. FilesOK' /\ CleanOK' /\ SamplesKept'
    BY <1>1, <1>3, <1>4, FilesStay
<1>6. ListOK' /\ StatsOK' /\ VerdictOK'
    BY <1>1, ResultsSame
<1>7. PlaceOK'
    BY <1>1, <1>3 DEF IInv, PlaceOK, Testing
<1>8. CodeOK'
    BY <1>1, <1>3 DEF IInv, CodeOK, Testing
<1>9. TodoOK'
    <2>1. todo \in {Deletions, ThreeLeft, TwoLeft, OneLeft}
        BY <1>1 DEF IInv, TodoOK
    <2>2. CASE todo = Deletions
        BY <1>1, <1>2, <1>3, <2>2, DeletionSteps DEF TodoOK
    <2>3. CASE todo = ThreeLeft
        BY <1>1, <1>2, <1>3, <2>3, DeletionSteps DEF IInv, TodoOK
    <2>4. CASE todo = TwoLeft
        BY <1>1, <1>2, <1>3, <2>4, DeletionSteps DEF IInv, TodoOK
    <2>5. CASE todo = OneLeft
        BY <1>1, <1>2, <1>3, <2>5, DeletionSteps DEF IInv, TodoOK
    <2> QED
        BY <2>1, <2>2, <2>3, <2>4, <2>5
<1>10. NewOK'
    BY <1>1, <1>3, <1>4, NewInTest
<1> QED
    BY <1>5, <1>6, <1>7, <1>8, <1>9, <1>10 DEF IInv

LEMMA KillIInv == ASSUME IInv, Kill PROVE IInv'
PROOF
<1>1. /\ pc # "idle" /\ pc' = "killed" /\ todo' = <<>>
      /\ UNCHANGED <<kind, execThrows, dir, tmp, runs, listing, testList,
                     returnCode, testNum, statistics, numOfSucc>>
    BY DEF Kill, Ended, world, files, run, counts
<1>2. FilesOK' /\ CleanOK' /\ SamplesKept' /\ ListOK' /\ StatsOK' /\ VerdictOK'
    BY <1>1, FilesSame, ResultsSame
<1>3. PlaceOK'
    BY <1>1 DEF IInv, PlaceOK, Ended, Testing
<1>4. CodeOK'
    BY <1>1 DEF IInv, CodeOK, Testing
<1>5. TodoOK'
    BY <1>1 DEF TodoOK
<1>6. NewOK'
    BY <1>1, NewStays
<1> QED
    BY <1>2, <1>3, <1>4, <1>5, <1>6 DEF IInv

LEMMA FinishIInv == ASSUME IInv, Finish PROVE IInv'
PROOF
<1>1. pc = "next" /\ testNum = Len(listing)
    BY DEF Finish
<1>2. CASE Abort
    BY <1>1, <1>2, AbortIInv
<1>3. CASE pc' = "finished" /\ UNCHANGED <<world, files, run, test, counts>>
    <2>1. UNCHANGED <<kind, execThrows, dir, tmp, runs, listing, testList,
                      returnCode, todo, testNum, statistics, numOfSucc>>
        BY <1>3 DEF world, files, run, test, counts
    <2>2. FilesOK' /\ CleanOK' /\ SamplesKept' /\ ListOK' /\ StatsOK' /\ VerdictOK'
        BY <2>1, FilesSame, ResultsSame
    <2>3. PlaceOK'
        BY <1>1, <1>3, <2>1 DEF IInv, PlaceOK, Ended, Testing
    <2>4. CodeOK'
        BY <1>3, <2>1 DEF IInv, CodeOK, Testing
    <2>5. TodoOK'
        BY <1>1, <1>3, <2>1 DEF IInv, TodoOK
    <2>6. NewOK'
        BY <1>1, <2>1, NothingNew DEF IInv, NewOK
    <2> QED
        BY <2>2, <2>3, <2>4, <2>5, <2>6 DEF IInv
<1> QED
    BY <1>2, <1>3 DEF Finish

-----------------------------------------------------------------------------
(* The steps of main *)

\* One position more, which is selected or not.
LEMMA OneMoreSelected ==
    ASSUME NEW n \in Nat
    PROVE  /\ Cardinality(SelectedTo(n)) \in Nat
           /\ SelectedTo(n + 1) = IF IsSelected(n + 1) THEN SelectedTo(n) \cup {n + 1}
                                  ELSE SelectedTo(n)
           /\ Cardinality(SelectedTo(n + 1)) =
                IF IsSelected(n + 1) THEN Cardinality(SelectedTo(n)) + 1
                ELSE Cardinality(SelectedTo(n))
PROOF
<1>1. IsFiniteSet(SelectedTo(n)) /\ Cardinality(SelectedTo(n)) \in Nat
    <2>1. IsFiniteSet(1..n)
        BY FS_Interval
    <2>2. SelectedTo(n) \in SUBSET (1..n)
        BY DEF SelectedTo
    <2>3. IsFiniteSet(SelectedTo(n))
        BY <2>1, <2>2, FS_Subset
    <2> QED
        BY <2>3, FS_CardinalityType
<1>2. \A m : m \in 1..n + 1 <=> m \in 1..n \/ m = n + 1
    OBVIOUS
<1>3. SelectedTo(n + 1) = IF IsSelected(n + 1) THEN SelectedTo(n) \cup {n + 1}
                          ELSE SelectedTo(n)
    BY <1>2 DEF SelectedTo
<1>4. n + 1 \notin SelectedTo(n)
    BY DEF SelectedTo
<1>5. Cardinality(SelectedTo(n) \cup {n + 1}) = Cardinality(SelectedTo(n)) + 1
    BY <1>1, <1>4, FS_AddElement
<1> QED
    BY <1>1, <1>3, <1>5

LEMMA NextFileIInv == ASSUME IInv, NextFile PROVE IInv'
PROOF
<1>1. /\ pc = "next" /\ testNum < Len(listing)
      /\ UNCHANGED <<kind, execThrows, dir, tmp, runs, listing, testList,
                     returnCode, todo, statistics, numOfSucc>>
    BY DEF NextFile, world, files, run, test, counts
<1>2. Len(listing) \in Nat /\ testNum \in Nat /\ testNum + 1 - 1 = testNum
    BY DEF IInv, ListOK, PlaceOK
<1>3. FilesOK' /\ CleanOK' /\ SamplesKept' /\ NewOK'
    BY <1>1, FilesSame, NothingNew DEF IInv, NewOK
<1>4. CASE IsSelected(testNum + 1)
    <2>1. pc' = "read" /\ UNCHANGED testNum
        BY <1>2, <1>4 DEF NextFile, IsSelected, counts
    <2>2. ListOK' /\ StatsOK' /\ VerdictOK'
        BY <1>1, <2>1, ResultsSame
    <2>3. IsSelected(testNum + 1)'
        BY <1>1, <1>4, <2>1 DEF IsSelected
    <2>4. PlaceOK'
        BY <1>1, <2>1, <2>3 DEF IInv, PlaceOK, Testing
    <2>5. CodeOK'
        BY <1>1, <2>1 DEF IInv, CodeOK
    <2>6. TodoOK'
        BY <1>1, <2>1 DEF IInv, TodoOK
    <2> QED
        BY <1>3, <2>2, <2>4, <2>5, <2>6 DEF IInv
<1>5. CASE ~IsSelected(testNum + 1)
    <2>1. pc' = "next" /\ testNum' = testNum + 1
        BY <1>1, <1>2, <1>5 DEF NextFile, IsSelected
    <2>2. PlaceOK'
        BY <1>1, <1>2, <2>1 DEF IInv, PlaceOK, Testing
    <2>3. CodeOK'
        BY <1>1, <2>1 DEF IInv, CodeOK, Testing
    <2>4. TodoOK'
        BY <1>1, <2>1 DEF IInv, TodoOK
    <2>5. ListOK' /\ VerdictOK'
        BY <1>1 DEF IInv, ListOK, VerdictOK, Succs
    <2>6. \A n : SelectedTo(n)' = SelectedTo(n)
        BY <1>1 DEF SelectedTo, IsSelected
    <2>7. SelectedTo(testNum + 1) = SelectedTo(testNum)
        BY <1>2, <1>5, OneMoreSelected
    <2>8. StatsOK'
        <3>1. /\ statistics \in Seq(Results)
              /\ Len(statistics) = Cardinality(SelectedTo(testNum + 1))
              /\ \A n \in SelectedTo(testNum + 1) :
                    /\ Cardinality(SelectedTo(n)) \in 1..Len(statistics)
                    /\ statistics[Cardinality(SelectedTo(n))].file = listing[n]
            BY <2>7 DEF IInv, StatsOK
        <3>2. \A i \in 1..Len(statistics) :
                    \E n \in 1..testNum + 1 : statistics[i].file = listing[n]
            <4>1. \A n \in 1..testNum : n \in 1..testNum + 1
                BY <1>2
            <4> QED
                BY <4>1 DEF IInv, StatsOK
        <3> QED
            BY <1>1, <2>1, <2>6, <3>1, <3>2 DEF StatsOK
    <2> QED
        BY <1>3, <2>2, <2>3, <2>4, <2>5, <2>8 DEF IInv
<1> QED
    BY <1>4, <1>5

\* The results with one more, new.
LEMMA ResultsAppend ==
    ASSUME IInv, NEW new \in Results, statistics' = Append(statistics, new)
    PROVE  /\ statistics' \in Seq(Results) /\ Len(statistics) \in Nat
           /\ Len(statistics') = Len(statistics) + 1
           /\ \A i \in 1..Len(statistics) : statistics'[i] = statistics[i]
           /\ statistics'[Len(statistics) + 1] = new
PROOF
<1>1. statistics \in Seq(Results)
    BY DEF IInv, StatsOK
<1>2. Len(statistics) \in Nat
    BY <1>1
<1> QED
    BY <1>1, <1>2, AppendProperties

LEMMA ResultIInv == ASSUME IInv, Result PROVE IInv'
PROOF
<1> DEFINE new == [file |-> dtsFile, succ |-> returnCode = 0]
           len == Len(statistics)
<1>1. /\ pc = "result" /\ pc' = "next" /\ testNum' = testNum + 1
      /\ statistics' = Append(statistics, new)
      /\ numOfSucc' = numOfSucc + (1 - returnCode)
      /\ UNCHANGED <<kind, execThrows, dir, tmp, runs, listing, testList, returnCode, todo>>
    BY DEF Result, Record, world, files, run, test
<1>2. pc \in Testing
    BY <1>1 DEF Testing
<1>3. /\ dtsFile \in Seq(Words) /\ (IsSample(dtsFile) => dtsFile[1] \in Samples)
      /\ testNum + 1 \in 1..Len(listing) /\ Len(listing) \in Nat
    BY <1>2, Current
<1>4. testNum \in Nat /\ testNum' \in 0..Len(listing) /\ IsSelected(testNum + 1)
    BY <1>1, <1>2, <1>3 DEF IInv, PlaceOK
<1>5. new \in Results /\ new.file = dtsFile /\ (new.succ <=> returnCode = 0)
    BY <1>3 DEF Results
<1> HIDE DEF new
<1>6. /\ statistics' \in Seq(Results) /\ len \in Nat /\ Len(statistics') = len + 1
      /\ \A i \in 1..len : statistics'[i] = statistics[i]
      /\ statistics'[len + 1] = new
    BY <1>1, <1>5, ResultsAppend
<1>7. \A i \in 1..len + 1 : i \in 1..len \/ i = len + 1
    BY <1>6
<1>8. FilesOK' /\ SamplesKept' /\ ListOK'
    BY <1>1 DEF IInv, FilesOK, SamplesKept, ListOK
<1>9. PlaceOK'
    BY <1>1, <1>4 DEF PlaceOK, Testing
<1>10. CodeOK'
    BY <1>1 DEF IInv, CodeOK, Testing
<1>11. TodoOK'
    BY <1>1 DEF IInv, TodoOK
<1>12. CleanOK'
    <2>1. Cleaned(dtsFile)
        BY <1>1 DEF IInv, TodoOK, Cleaned
    <2>2. \A i \in 1..len + 1 : Cleaned(statistics'[i].file)
        BY <1>5, <1>6, <1>7, <2>1 DEF IInv, CleanOK
    <2>3. \A f : Cleaned(f)' <=> Cleaned(f)
        BY <1>1 DEF Cleaned
    <2> QED
        BY <1>6, <2>2, <2>3 DEF CleanOK
<1>13. StatsOK'
    <2>1. \A n : SelectedTo(n)' = SelectedTo(n)
        BY <1>1 DEF SelectedTo, IsSelected
    <2>2. /\ SelectedTo(testNum + 1) = SelectedTo(testNum) \cup {testNum + 1}
          /\ Cardinality(SelectedTo(testNum + 1)) = len + 1
        <3>1. len = Cardinality(SelectedTo(testNum))
            BY DEF IInv, StatsOK
        <3> QED
            BY <1>4, <3>1, OneMoreSelected
    <2>3. ASSUME NEW n \in SelectedTo(testNum + 1)
          PROVE  /\ Cardinality(SelectedTo(n)) \in 1..len + 1
                 /\ statistics'[Cardinality(SelectedTo(n))].file = listing[n]
        <3>1. CASE n \in SelectedTo(testNum)
            <4>1. PICK c \in 1..len : c = Cardinality(SelectedTo(n)) /\ statistics[c].file = listing[n]
                BY <3>1 DEF IInv, StatsOK
            <4> QED
                BY <1>6, <4>1
        <3>2. CASE n = testNum + 1
            BY <1>5, <1>6, <2>2, <3>2 DEF dtsFile
        <3> QED
            BY <2>2, <3>1, <3>2
    <2>4. ASSUME NEW i \in 1..len + 1
          PROVE  \E n \in 1..testNum + 1 : statistics'[i].file = listing[n]
        <3>1. CASE i \in 1..len
            <4>1. PICK n \in 1..testNum : statistics[i].file = listing[n]
                BY <3>1 DEF IInv, StatsOK
            <4>2. n \in 1..testNum + 1
                BY <1>4
            <4> QED
                BY <1>6, <3>1, <4>1, <4>2
        <3>2. CASE i = len + 1
            <4>1. testNum + 1 \in 1..testNum + 1
                BY <1>4
            <4> QED
                BY <1>5, <1>6, <3>2, <4>1 DEF dtsFile
        <3> QED
            BY <1>7, <3>1, <3>2
    <2> QED
        BY <1>1, <1>6, <2>1, <2>2, <2>3, <2>4 DEF StatsOK
<1>14. VerdictOK'
    <2>1. IsSample(dtsFile) => (new.succ <=> kind[dtsFile[1]] = "good")
        BY <1>1, <1>2, <1>5 DEF IInv, CodeOK
    <2>2. ASSUME NEW i \in 1..len + 1, IsSample(statistics'[i].file)
          PROVE  statistics'[i].succ = (kind[statistics'[i].file[1]] = "good")
        <3>1. CASE i \in 1..len
            BY <1>6, <2>2, <3>1 DEF IInv, VerdictOK
        <3>2. CASE i = len + 1
            <4>1. statistics'[i] = new /\ new.succ \in BOOLEAN
                BY <1>5, <1>6, <3>2 DEF Results
            <4> QED
                BY <1>5, <2>1, <2>2, <4>1
        <3> QED
            BY <1>7, <3>1, <3>2
    <2>3. Succs' = IF returnCode = 0 THEN Succs \cup {len + 1} ELSE Succs
        <3>1. Succs' = {i \in 1..len + 1 : statistics'[i].succ}
            BY <1>6 DEF Succs
        <3>2. \A i : i \in 1..len + 1 <=> i \in 1..len \/ i = len + 1
            BY <1>6
        <3>3. \A i : i \in Succs' <=> i \in Succs \/ (i = len + 1 /\ returnCode = 0)
            BY <1>5, <1>6, <3>1, <3>2 DEF Succs
        <3> QED
            BY <3>3
    <2>4. IsFiniteSet(Succs) /\ Cardinality(Succs) \in Nat /\ len + 1 \notin Succs
        <3>1. IsFiniteSet(1..len) /\ Succs \in SUBSET (1..len)
            BY <1>6, FS_Interval DEF Succs
        <3>2. IsFiniteSet(Succs)
            BY <3>1, FS_Subset
        <3> QED
            BY <1>6, <3>1, <3>2, FS_CardinalityType
    <2>5. returnCode \in {0, 1} /\ numOfSucc = Cardinality(Succs)
        BY DEF IInv, CodeOK, VerdictOK
    <2>6. numOfSucc' = Cardinality(Succs')
        <3>1. Cardinality(Succs \cup {len + 1}) = Cardinality(Succs) + 1
            BY <2>4, FS_AddElement
        <3> QED
            BY <1>1, <2>3, <2>4, <2>5, <3>1
    <2> QED
        BY <1>1, <1>6, <2>2, <2>6 DEF VerdictOK
<1>15. NewOK'
    <2>1. TempFiles = {Input(dtsFile), Output(dtsFile)} /\ pc # "idle"
        BY <1>1, <1>3, <1>4 DEF TempFiles
    <2>2. dir \subseteq Listed
        BY <1>1, <2>1 DEF IInv, NewOK, TodoOK
    <2> QED
        BY <1>1, <2>2, NothingNew
<1> QED
    BY <1>8, <1>9, <1>10, <1>11, <1>12, <1>13, <1>14, <1>15 DEF IInv

\* Before the first test there are no results.
LEMMA NoResults ==
    ASSUME testNum = 0, statistics = <<>>, numOfSucc = 0
    PROVE  StatsOK /\ VerdictOK /\ CleanOK
PROOF
<1>1. statistics \in Seq(Results) /\ Len(statistics) = 0 /\ 1..0 = {}
    OBVIOUS
<1>2. SelectedTo(0) = {} /\ Succs = {}
    BY <1>1 DEF SelectedTo, Succs
<1> QED
    BY <1>1, <1>2, FS_EmptySet DEF StatsOK, VerdictOK, CleanOK

LEMMA StartIInv == ASSUME IInv, NEW args, Start(args) PROVE IInv'
PROOF
<1>1. /\ pc \in Ended /\ runs < MaxRuns /\ pc' = "next" /\ runs' = runs + 1
      /\ listing' \in SetToSeqs(dir)
      /\ testNum' = 0 /\ statistics' = <<>> /\ numOfSucc' = 0
      /\ UNCHANGED <<kind, execThrows, dir, tmp, returnCode, todo>>
    BY DEF Start, listFilesForFolder, world, files, test
<1>2. runs \in Nat /\ MaxRuns \in Nat /\ runs' \in 0..MaxRuns
    BY <1>1, SampleRunnerAssumption DEF IInv, ListOK
<1>3. PICK n \in Nat :
            /\ listing' \in [1..n -> dir]
            /\ \A i, j \in 1..n : i # j => listing'[i] # listing'[j]
    <2>1. Cardinality(dir) \in Nat
        BY FS_CardinalityType DEF IInv, FilesOK
    <2> QED
        BY <1>1, <2>1 DEF SetToSeqs
<1>4. \A f \in dir : NameOK(f, runs') /\ f \in Seq(Words)
    BY <1>1 DEF IInv, FilesOK, NameOK
<1>5. listing' \in Seq(Seq(Words)) /\ Len(listing') = n
    <2>1. listing' \in [1..n -> Seq(Words)]
        BY <1>3, <1>4
    <2>2. listing' \in Seq(Seq(Words))
        BY <2>1, SeqDef
    <2> QED
        BY <2>1, <2>2, LenProperties
<1>6. ListOK'
    BY <1>2, <1>3, <1>4, <1>5 DEF ListOK
<1>7. FilesOK'
    <2>1. \A f \in dir \cup tmp : NameOK(f, runs + 1 + 1)
        <3>1. \A f \in dir \cup tmp : NameOK(f, runs + 1)
            BY DEF IInv, FilesOK
        <3>2. runs + 1 \in Nat
            BY <1>2
        <3> QED
            BY <3>1, <3>2, LongerNameOK
    <2> QED
        BY <1>1, <2>1 DEF IInv, FilesOK
<1>8. SamplesKept'
    BY <1>1 DEF IInv, SamplesKept
<1>9. PlaceOK'
    BY <1>1, <1>5 DEF PlaceOK, Testing
<1>10. CodeOK'
    BY <1>1 DEF IInv, CodeOK, Testing
<1>11. TodoOK'
    BY <1>1 DEF IInv, TodoOK, Ended
<1>12. StatsOK' /\ VerdictOK' /\ CleanOK'
    <2>1. statistics' \in Seq(Results) /\ Len(statistics') = 0 /\ 1..0 = {}
        BY <1>1
    <2>2. SelectedTo(0)' = {} /\ Succs' = {}
        BY <2>1 DEF SelectedTo, Succs
    <2> QED
        BY <1>1, <2>1, <2>2, FS_EmptySet DEF StatsOK, VerdictOK, CleanOK
<1>13. NewOK'
    <2> DEFINE D == 1..Cardinality(dir)
    <2>1. Cardinality(dir) \in Nat /\ IsFiniteSet(dir)
        BY FS_CardinalityType DEF IInv, FilesOK
    <2>2. /\ listing' \in [D -> dir]
          /\ \A i, j \in D : i # j => listing'[i] # listing'[j]
        BY <1>1 DEF SetToSeqs
    <2>3. listing' \in Injection(D, dir)
        BY <2>2 DEF Injection, IsInjective
    <2>4. Cardinality(D) = Cardinality(dir)
        BY <2>1, FS_Interval
    <2>5. listing' \in Surjection(D, dir)
        BY <2>1, <2>3, <2>4, FS_Injection
    <2>6. \A f \in dir : \E i \in D : listing'[i] = f
        BY <2>5 DEF Surjection
    <2>7. Len(listing') = Cardinality(dir)
        <3>1. DOMAIN listing' = 1..Cardinality(dir) /\ DOMAIN listing' = 1..Len(listing')
            BY <1>5, <2>2
        <3> QED
            BY <1>5, <2>1, <3>1, LenProperties
    <2>8. dir \subseteq Listed'
        BY <2>6, <2>7 DEF Listed
    <2> QED
        BY <1>1, <2>8 DEF NewOK
<1> QED
    BY <1>6, <1>7, <1>8, <1>9, <1>10, <1>11, <1>12, <1>13 DEF IInv

LEMMA InitIInv == ASSUME Init PROVE IInv
PROOF
<1>1. /\ kind \in [Samples -> Kinds] /\ execThrows \in BOOLEAN
      /\ dir = {Original(s) : s \in Samples} /\ tmp = {} /\ pc = "idle" /\ runs = 0
      /\ listing = <<>> /\ returnCode = 0 /\ todo = <<>>
      /\ testNum = 0 /\ statistics = <<>> /\ numOfSucc = 0
    BY DEF Init
<1>2. IsFiniteSet(dir)
    <2> DEFINE name == [s \in Samples |-> Original(s)]
    <2>1. name \in Surjection(Samples, dir)
        BY <1>1 DEF Surjection
    <2> HIDE DEF name
    <2> QED
        BY <2>1, FS_Surjection, SampleRunnerAssumption
<1>3. FilesOK
    <2>1. \A f \in dir : NameOK(f, 0 + 1)
        BY <1>1, OriginalName
    <2> QED
        BY <1>1, <1>2, <2>1 DEF FilesOK
<1>4. listing \in Seq(Seq(Words)) /\ Len(listing) = 0 /\ 1..0 = {} /\ 0 \in 0..MaxRuns
    BY <1>1, SampleRunnerAssumption
<1>5. ListOK
    BY <1>1, <1>4 DEF ListOK
<1>6. PlaceOK
    BY <1>1, <1>4 DEF PlaceOK, Ended, Testing
<1>7. CodeOK
    BY <1>1 DEF CodeOK, Testing
<1>8. TodoOK
    BY <1>1 DEF TodoOK
<1>9. StatsOK /\ VerdictOK /\ CleanOK
    BY <1>1, NoResults
<1>10. SamplesKept /\ NewOK
    BY <1>1 DEF SamplesKept, NewOK
<1> QED
    BY <1>3, <1>5, <1>6, <1>7, <1>8, <1>9, <1>10 DEF IInv

LEMMA StutterIInv == ASSUME IInv, UNCHANGED vars PROVE IInv'
PROOF
<1>1. UNCHANGED <<kind, execThrows, dir, tmp, pc, runs, listing, testList,
                  returnCode, todo, testNum, statistics, numOfSucc>>
    BY DEF vars, world, files, run, test, counts
<1>2. FilesOK' /\ CleanOK' /\ SamplesKept' /\ ListOK' /\ StatsOK' /\ VerdictOK'
    BY <1>1, FilesSame, ResultsSame
<1>3. dtsFile' = dtsFile /\ (IsSelected(testNum + 1)' <=> IsSelected(testNum + 1))
    BY <1>1 DEF dtsFile, IsSelected
<1>4. PlaceOK'
    BY <1>1, <1>3 DEF IInv, PlaceOK
<1>5. CodeOK'
    BY <1>1, <1>3 DEF IInv, CodeOK
<1>6. TodoOK'
    BY <1>1, <1>3 DEF IInv, TodoOK
<1>7. NewOK'
    BY <1>1, <1>3 DEF IInv, NewOK, Listed, TempFiles
<1> QED
    BY <1>2, <1>4, <1>5, <1>6, <1>7 DEF IInv

LEMMA IInvHolds == Spec => []IInv
PROOF
<1>1. Init => IInv
    BY InitIInv
<1>2. ASSUME IInv, [Next]_vars PROVE IInv'
    <2>1. CASE \E args \in parse_args : Start(args)
        BY <1>2, <2>1, StartIInv
    <2>2. CASE Step
        BY <1>2, <2>2, NextFileIInv, ParseIInv, WriteInputIInv, PreProcIInv,
           CompileIInv, DeleteIInv, ResultIInv, FinishIInv DEF Step
    <2>3. CASE Kill
        BY <1>2, <2>3, KillIInv
    <2>4. CASE UNCHANGED vars
        BY <1>2, <2>4, StutterIInv
    <2> QED
        BY <1>2, <2>1, <2>2, <2>3, <2>4 DEF Next
<1> QED
    BY <1>1, <1>2, PTL DEF Spec

-----------------------------------------------------------------------------
(* The theorems *)

\* Every variable keeps its type.  In particular run k makes names of at most
\* k prefixes, the leftovers of leftovers among them, and no more successes are
\* counted than there are results.
THEOREM TypeCorrect == Spec => []TypeOK
PROOF
<1>1. IInv => TypeOK
    <2> SUFFICES ASSUME IInv PROVE TypeOK
        OBVIOUS
    <2>1. runs \in 0..MaxRuns /\ MaxRuns \in Nat
        BY SampleRunnerAssumption DEF IInv, ListOK
    <2>2. runs \in 0..MaxRuns + 1 /\ runs + 1 \in 0..MaxRuns + 1
        BY <2>1
    <2>3. dir \subseteq Names /\ tmp \subseteq Names
        BY <2>2, NamesAre DEF IInv, FilesOK
    <2>4. \A i \in 1..Len(listing) : listing[i] \in Names
        BY <2>2, NamesAre DEF IInv, ListOK
    <2>5. ToSet(listing) \subseteq Names
        BY <2>4 DEF IInv, ListOK, ToSet
    <2>6. Len(todo) <= 4
        <3>1. todo \in {<<>>, Deletions, ThreeLeft, TwoLeft, OneLeft}
            BY DEF IInv, TodoOK
        <3>2. Len(Deletions) = 4 /\ Len(ThreeLeft) = 3 /\ Len(TwoLeft) = 2 /\ Len(OneLeft) = 1
            BY DEF Deletions, ThreeLeft, TwoLeft, OneLeft
        <3>3. Len(<<>>) = 0
            OBVIOUS
        <3>4. Len(todo) \in {0, 1, 2, 3, 4}
            BY <3>1, <3>2, <3>3, Zenon
        <3>5. \A n \in {0, 1, 2, 3, 4} : n <= 4
            OBVIOUS
        <3> QED
            BY <3>4, <3>5, Zenon
    <2>7. statistics \in Seq(Results) /\ DOMAIN statistics = 1..Len(statistics)
          /\ Len(statistics) \in Nat
        BY DEF IInv, StatsOK
    <2>8. ASSUME NEW i \in DOMAIN statistics
          PROVE  statistics[i] \in [file : Names, succ : BOOLEAN]
        <3>1. statistics[i] \in Results
            BY <2>7
        <3>2. PICK n \in 1..testNum : statistics[i].file = listing[n]
            BY <2>7 DEF IInv, StatsOK
        <3>3. n \in 1..Len(listing)
            BY DEF IInv, PlaceOK, ListOK
        <3>4. statistics[i].file \in Names
            BY <2>4, <3>2, <3>3
        <3> QED
            BY <3>1, <3>4 DEF Results
    <2>9. numOfSucc \in 0..Len(statistics)
        <3>1. Succs \in SUBSET (1..Len(statistics))
            BY DEF Succs
        <3>2. IsFiniteSet(1..Len(statistics)) /\ Cardinality(1..Len(statistics)) = Len(statistics)
            BY <2>7, FS_Interval
        <3>3. /\ Cardinality(Succs) \in Nat
              /\ Cardinality(Succs) <= Cardinality(1..Len(statistics))
            BY <3>1, <3>2, FS_Subset, FS_CardinalityType
        <3> QED
            BY <2>7, <3>2, <3>3 DEF IInv, VerdictOK
    <2>10. pc \in Ended \cup
                  {"next", "read", "write", "gcc", "dtc", "hung", "delete", "result"}
        BY DEF IInv, PlaceOK, Testing
    <2>11. /\ kind \in [Samples -> Kinds] /\ execThrows \in BOOLEAN
           /\ returnCode \in {0, 1} /\ testNum \in 0..Len(listing)
        BY DEF IInv, CodeOK, PlaceOK
    <2> QED
        BY <2>1, <2>3, <2>5, <2>6, <2>8, <2>9, <2>10, <2>11 DEF TypeOK
<1> QED
    BY <1>1, IInvHolds, PTL

\* No test, clean-up or interruption ever removes a sample of the repository:
\* the names check_compile_tree deletes have a prefix, and no sample has one.
THEOREM SamplesAlwaysKept == Spec => []SamplesKept
PROOF
<1>1. IInv => SamplesKept
    BY DEF IInv
<1> QED
    BY <1>1, IInvHolds, PTL

\* The results hold Succ for a sample exactly when both tools accept it, on
\* whichever return of check_compile_tree it left, and numOfSucc is their number.
THEOREM VerdictsAlwaysRight == Spec => []Verdicts
PROOF
<1>1. IInv => Verdicts
    <2> SUFFICES ASSUME IInv PROVE Verdicts
        OBVIOUS
    <2>1. DOMAIN statistics = 1..Len(statistics)
        BY DEF IInv, StatsOK
    <2> QED
        BY <2>1 DEF IInv, VerdictOK, Verdicts, Succs
<1> QED
    BY <1>1, IInvHolds, PTL

\* A run of main that comes to its end has tested each file its arguments
\* select once, in the order of the listing, and nothing else, for any set of
\* numbers parse_args returns, with gaps and numbers of no file.
THEOREM SelectedAlwaysTested == Spec => []TestsSelected
PROOF
<1>1. IInv => TestsSelected
    <2> SUFFICES ASSUME IInv, pc = "finished"
                 PROVE  /\ Len(statistics) = Cardinality(Selected)
                        /\ \A n \in Selected :
                            statistics[Cardinality({m \in Selected : m <= n})].file = listing[n]
        BY DEF TestsSelected
    <2>1. testNum = Len(listing) /\ Len(listing) \in Nat
        BY DEF IInv, PlaceOK, ListOK
    <2>2. Selected = SelectedTo(testNum)
        BY <2>1 DEF Selected, SelectedTo, IsSelected
    <2>3. ASSUME NEW n \in Selected
          PROVE  {m \in Selected : m <= n} = SelectedTo(n)
        <3>1. n \in 1..testNum
            BY <2>2 DEF SelectedTo
        <3>2. \A m : m \in 1..n <=> m \in 1..testNum /\ m <= n
            BY <2>1, <3>1
        <3> QED
            BY <2>2, <3>2 DEF SelectedTo
    <2> QED
        BY <2>2, <2>3 DEF IInv, StatsOK
<1> QED
    BY <1>1, IInvHolds, PTL

\* Whether a run of main goes on, has finished, or was aborted, killed or left
\* hanging, no temporary file of a file that has a result is there.
THEOREM AlwaysCleansUp == Spec => []CleansUp
PROOF
<1>1. IInv => CleansUp
    <2> SUFFICES ASSUME IInv PROVE CleansUp
        OBVIOUS
    <2>1. DOMAIN statistics = 1..Len(statistics)
        BY DEF IInv, StatsOK
    <2> QED
        BY <2>1 DEF IInv, CleanOK, Cleaned, CleansUp
<1> QED
    BY <1>1, IInvHolds, PTL

\* What an unfinished run of main adds to ./samples are at most the input and
\* the output file of the test it stopped in, and a finished one adds nothing.
THEOREM AlwaysLeavesOnlyCurrent == Spec => []LeavesOnlyCurrent
PROOF
<1>1. IInv => LeavesOnlyCurrent
    <2> SUFFICES ASSUME IInv PROVE LeavesOnlyCurrent
        OBVIOUS
    <2>1. ToSet(listing) = Listed
        BY DEF IInv, ListOK, ToSet, Listed
    <2> QED
        BY <2>1 DEF IInv, NewOK, TempFiles, LeavesOnlyCurrent
<1> QED
    BY <1>1, IInvHolds, PTL

=============================================================================
