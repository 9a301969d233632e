# silver-tree: a verification project

silver-tree is an Eclipse plug-in for device tree sources. It contributes an
editor for `.dts` files, a *Device Tree* view with the tree of the file in the
active editor, and a *Memory Map* view with its address ranges. Parsing is done
by a compiled library, `jars/silver-leaves.jar`. The repository's own code is
about 1200 lines of Java under `src/com.silver-tree.ide-plugin/src`, and 200
lines of test harness under `tests`; everything else is kernel samples, icons,
packaging and the update site.

`PROJECT.json` maps each definition to the source lines it models and lists the
runs, the faulty variants that show each property can fail, the hazards, the
findings and the theorems.

## Inventory

Paths are relative to `com.silver-tree.ide-plugin/src/com/silvertree/ideplugin`.

**Device Tree view** (`views/DeviceTreeView.java`,
`views/DeviceTreeContentProvider.java`).
State: `page`, `currEditorName`, the JFace viewer with its provider, and in the
provider the text (`_content`) and the tree built from it (`invisibleRoot`).
Operations: `createPartControl`, `partActivated`, the resource listener,
`getDeviceTreeEditorContent`, `getElements`, `navigateToLine`.
Called by the workbench on the UI thread, and by the workspace in whichever
thread changed it. It reads the file of the active editor, not its buffer.
Hard: it decides by a remembered *name* whether it already shows a file; the
resource listener may run in a job, interleaved with the UI thread, and cannot
touch widgets from there; the listeners outlive the view; reads fail.
Correct when: it holds the right file, never an outdated version; the widget
agrees with the provider; a double click selects a range of the text it came from.

**Memory Map view** (`views/MemoryView.java`,
`views/DeviceTreeMemoryProvider.java`). The same shape, no resource listener, no
navigation. Its provider has the field `memoryProvider`, which is set by the
first `getElements` and makes every later one return no rows.
Correct when: the table never shows another file's map, and shows the map that
its content has.

**Workbench** (Eclipse, external). Files, open editors, the active editor, the
active part, workspace changes.

**Comment damager and repairer** (`editors/NonRuleBasedDamagerRepairer.java`).
No state of its own; after each edit it computes the region to restyle from the
event, the partition and the document's lines.
Correct when: after any edit the comment, and only the comment, has its style.
Hard: edits that join or split lines, end inside a CR LF, or come with a null text.

**Double click strategy** (`editors/XMLDoubleClickStrategy.java`). Two scans with
backslashes, quotes and line ends. Correct when: what is selected contains the
character clicked on, and is the string or the word around it.

**Partition scanner** (`editors/XMLPartitionScanner.java`, `TagRule.java`,
`XMLDocumentProvider.java`). Rules that split a document into comments, tags and
the rest, when the document is created. Hard: a rule that fails gives back less
than it has read, and the next rule, or the next token, starts there.
Correct when: the partitions are exactly the comments and the tags, up to their
first end, without overlap.

**Editor and configuration** (`editors/DeviceTreeEditor.java`,
`XMLConfiguration.java`, `ColorManager.java`, the scanners). A colour table per
editor, scanners made on first use, disposed with the editor. Hard: the document,
the configuration (possibly repeated) and the disposal come from the platform.
Correct when: each partition has a repairer whose colours are live, and no colour
outlives the editor.

**Command runner** (`tests/com/silver_tree/tests/CmdProc.java`). Runs gcc or dtc,
reads standard output to its end, then standard error, then waits. Correct when:
it returns with all the output; hard because of the bounded pipes.

**Sample runner** (`tests/com/silver_tree/tests/parser.java`). Lists the `.dts`
files, runs two checks on each selected one, writes temporary files beside it,
and keeps statistics. State: the files on disk, which outlive a run, and the
locals of `main`. Hard: two temporary files are called `.dts` themselves, so an
interrupted run changes the next one's listing; any exception in a test ends the
run; a test hangs with `CmdProc`. Correct when: no sample is lost, the verdict is
the tools', the selected files are tested once each, and the temporary files go.

**Activator, silver-leaves, samples, update site**: no behaviour of this
repository's own to model (see "Not modelled").

## Modules

| module | models | state | actions |
|---|---|---|---|
| `Workbench` | the Eclipse calls the views make | `disk`, `editors`, `activeEditor`, `activePart` | building blocks: `EditorActivated`, `ViewActivated`, `ActiveEditorClosed`, `EditorClosed`, `WorkspaceChanged` |
| `DeviceTreeView` | the Device Tree view on a workbench | `phase`, `page`, `currEditorName`, `provider`, `shown`, `notice`, `selection` | opening (three outcomes), closing, activating and closing editors, changes on the UI thread and in a job, the two steps of the listener in a job, double click |
| `FollowView` | what the Device Tree view promises (abstract) | `saved`, `front`, `open`, `tree` | the view is opened or closed, another editor comes to the front, the workspace changes |
| `MemoryView` | the Memory Map view on a workbench | `phase`, `page`, `currEditorName`, `provider`, `shown` | opening, closing, activating and closing editors, saves |
| `DamagerRepairer` | the damager and repairer of comments | `text`, `partition`, `styled` | an edit inside the comment, an edit that changes the partitioning |
| `DoubleClickStrategy` | the double click strategy | `text`, `caret`, `selected`, `doubled` | `Click`, `doubleClicked` |
| `CmdProc` | the command runner, its child and the two pipes | `total`, `left`, `child`, `pipe`, `got`, `pc` | the child turns to a stream, writes, exits; the constructor starts it, reads a stream, meets its end, waits |
| `PartitionScanner` | the partitioning of a document | `text`, `scanner`, `offset`, `parts` | `Connect`, `NextToken` |
| `DeviceTreeEditor` | an editor with its document, configuration and colours; extends `PartitionScanner` | `phase`, `fColorTable`, `live`, `tagScanner`, `xmlScanner`, `reconciler`, `configured` | `Construct`, `createDocument`, `Scan`, `Configure`, `dispose` |
| `SampleRunner` | the sample tests, over several runs | the samples' kinds, `dir`, `tmp`, `pc`, `listing`, `testList`, `testNum`, `returnCode`, `todo`, `statistics`, `numOfSucc` | one per step between which a run can be killed: `Start`, `NextFile`, `Parse`, `WriteInput`, `PreProc`, `Compile`, each `Delete`, `Result`, `Finish`; and `Kill`. `PreProc` and `Compile` may also `Hang` |

The modules have `MC` modules that define the small instances their
configurations use; `*_proofs` modules hold the theorems. `DeviceTreeView` and `MemoryView`
compose their component with the workbench: each action conjoins what the
workbench does with the listener the event calls.

Data that no property tells apart is abstracted. A text is the pair of its file
and the number of times the file had been saved; a tree or a memory map is named
by the text it was made from. In `DamagerRepairer` only line delimiters are
distinguished, in `DoubleClickStrategy` quotes, backslashes, CR, identifier
characters and others, in `PartitionScanner` the characters of the two rules, in
`CmdProc` output is an amount. In `SampleRunner` a file name is the sequence of
the prefixes put before a sample's name, and a sample is what the parser and the
two tools make of it. Of `CmdProc` it uses what that module's run shows: when the
child, gcc or dtc, fills its error pipe, the constructor never returns, and the
test stands in `hung` until it is killed. What the tools make of a leftover is
open: any exit code, or a hang. The arguments of a run are any set of numbers, as
`parse_args` takes them; one number that no file has stands for all such, and an
argument that is no number, which ends `main` before it does anything, is left
out. In `DeviceTreeEditor` a scanner or a repairer is the set of the colours it
holds.

`PartitionScanner` includes JFace's scanner and pattern rule as the two rules use
them: a rule that meets its start but no end gives back all but the start, and of
that one character; a failed rule leaves the scanner where it stopped, and the
next rule goes on from there.

An event handler on the UI thread is one action, because nothing else runs on
that thread meanwhile. The resource listener in a job is two actions, the read
and the update, and UI events fall in between. Off the UI thread the viewer
replaces its provider and then throws before it refreshes; the model does the same.

Definitions whose names end in `_Something` and whose comment begins "Faulty
variant" are plausible bugs of the code. They are used by no specification; each
property fails when the variant stands for the definition it follows.

## Runs

| run | checks | shows |
|---|---|---|
| `tree_any` | `TypeOK`, `ProviderCurrent`, `ActivationRepairs`, `NoticeApplied` | the most general workspace: equal names, another kind of editor, closing, failing reads, malformed texts, jobs. No outdated content once a change is announced, and every change a job announces is eventually applied |
| `tree_tracked` | `WidgetCurrent`, `RightFile`, `RevealsOwnText`, `FollowsEditor` | distinct names, only device tree editors, none closed, no jobs: the view implements `FollowView`, double clicks land in their own text. Includes a file outside the workspace, failing reads and a malformed text |
| `tree_samename`, `tree_reopened` | `RightFile` | drop one of the conditions of `tree_tracked` alone, and the view ends with the wrong content: violated |
| `tree_job` | `NeverAnotherFile` | allow changes in jobs, and the view has another file's content than the active editor's: violated |
| `memory_any` | `TypeOK`, `NeverAnotherMap`, `ActivationFresh` | the table never shows another file's map, files of the same name included, and an activation never leaves an outdated map in it, although nothing tells the view of saves |
| `memory_blank` | `RefreshShowsMap` | re-activating the same editor empties the table: violated |
| `damager_edits` | `TypeOK`, `Repaired`, `EndOfLineAsDocumented` | all edits of all short documents; `endOfLineOf` against its Javadoc |
| `double_click` | `TypeOK`, `CoversCaret`, `SelectsString`, `SelectsWord` | the loops against a definition without loops |
| `cmdproc_pipes` | `TypeOK`, `Collected`, `OverflowHangs`, `FittingReturns` | all output is collected; exactly the children whose standard error overflows its pipe are never waited for |
| `editor_life` | `TypeOK`, `Partitioned`, `Painted`, `NoColorLeft` | the partitions of every short document are the comments and tags of a definition without a scanner; every order of document, configuration and disposal leaves each partition painted and no colour behind |
| `sample_runs` | `TypeOK`, `SamplesKept`, `Verdicts`, `TestsSelected`, `CleansUp`, `LeavesOnlyCurrent`, `CleanRunFinishes` | two runs over two samples of every kind, with any set of arguments, each killed at any step, hung in a tool, aborted or finished |

### Bounds

* Views: two or three files and one or two saves of each. The code compares the
  activated editor with the last one only, so two device tree files and one
  foreign file give every case of "same name", "other name" and "other editor";
  one save separates the current version from an outdated one, and two let an
  outdated one be replaced by another. The theorems remove these bounds.
* At most one announcement of a job is under way (`notice`), and a change on the
  UI thread waits for it: the workspace delivers POST_CHANGE under its lock.
* `DamagerRepairer`: documents up to 4 characters, insertions up to 2: enough
  for an edit inside a CR LF with a line on each side. The theorem removes them.
* `DoubleClickStrategy`: documents up to 5 characters: two quotes, two
  backslashes in a row and the caret. The theorems remove the bound.
* `CmdProc`: pipes of 2, output up to 4: nothing, less than a pipe, exactly one
  and more, on either stream. The theorems remove the bounds.
* `DeviceTreeEditor`: documents up to 6 characters of `< > ! -`, up to 4 of all
  six kinds, and a complete comment with one character before it, one in it and
  two behind it: every start and end, cut off at every point. The viewer is
  configured up to twice, which is once more than the lazy getters notice. The
  theorems remove both bounds.
* `SampleRunner`: two samples and two runs: the first run leaves something, the
  second one meets it before or after the sample it was made from. A leftover of
  a leftover needs a third run, and is treated like any leftover. The arguments
  are any subset of 0 to the number of files listed. The second run lists up to
  four files, so selections of several files with one passed over between them
  occur, in every order of samples and leftovers. The theorems are about any
  number of samples, runs and arguments.

### Fairness

`tree_any` assumes weak fairness of the listener's two steps only: once a job
has announced its change, the platform runs the listener to its end. Nothing is
assumed of the user. `CmdProc` assumes that some process makes a step while
one can; every step there brings the end nearer. It permits deadlock, which is the
state the command runner hangs in and also the state it returns in.
`SampleRunner` assumes that the run goes on while it can: it is one thread. A
child that fills its pipe, gcc or dtc, takes it to `hung`, a state that only a
kill leaves, so the fairness grants no progress there. Nobody has to start or kill it; it stops after its last run, and so
permits deadlock, as `DeviceTreeEditor` does, which ends with its editor.

## Findings

All four are in the views; each is the subject of a run that is expected to be
violated.

1. `tree_samename`: files are compared by `getName()`. Two files of the same name
   are taken for one, and the view keeps the first one's tree.
2. `tree_reopened`: `resourceChanged` reads whichever editor is active, and leaves
   `currEditorName` alone. After a change with no editor open, the view stays
   empty for the reopened file. With an editor of another kind in front the same
   line makes it show that editor's text under the old name.
3. `tree_job`: a job's listener reads the file of the active editor; another
   editor is activated, and the view shows its file; then the listener sets the
   text it read, and the first file's content stands under the second's name.
4. `memory_blank`: `getElements` returns rows only once, so the refresh for the
   same editor empties the table.

Two things are known and not stated by the repository either way, so no run is
about them. An interrupted run of the samples leaves `input-*.dts` and
`output*.dts` files; the next one lists them, and ends with an exception as soon
as it gets to one that is no text, or that the clean-up of the sample it was made
from has deleted meanwhile. And `check_paths` cannot fail, because it ends by
setting its return code to 0.

The double click strategy documents no intent for backslashes. What the model
records: the scan back skips the character *before* a backslash, so an escaped
quote ends it, and an opening quote that a backslash follows is not seen; the
scan forward knows no escapes; `Character.LINE_SEPARATOR` is 13, so only CR ends
a line for either.

## Proofs

Every safety property that a passing run checks, invariant, action property or
refinement, is also a theorem, for every value of the constants: any set of
files, any length of document, any pipe size, any number of runs.

The assumptions are those the modules state about their constants: the file
sets are subsets of `Files`, `Null` is neither a file, a name nor a text,
`Malformed` and `Unmappable` are sets of texts, `Texts` are documents, the set of
samples is finite and no sample is called like one of the two prefixes, a pipe
holds at least one unit, and bounds are natural numbers. `Files` may be infinite.

* `Workbench_proofs`: each building block preserves the workbench's types.
* `DeviceTreeView_proofs`: `TypeCorrect`, `ProviderStaysCurrent`,
  `WidgetStaysCurrent`, `ActivationAlwaysRepairs`, `TrackedRightFile`,
  `TrackedRevealsOwnText`, `TrackedFollowsEditor`. `ProviderCurrent` is not inductive: `ListenerSets`
  installs a text read earlier. The inductive invariant `IInv` adds that a text
  in transit is current (`ReadCurrent`; no save can come between, because the
  announcement holds the workspace), that an unopened view has no content, that a
  view that is not live shows nothing, that the provider's cache is empty or the
  tree of its content (`CacheOK`), and that without jobs no notice is under way
  and the widget agrees with the provider (`Quiet`). Under the four conditions
  of `Tracked` a second invariant, `TrackInv`, ties `currEditorName` to the file
  of the content, and says that without an editor there is no content;
  `RightFile` follows from it, and `RevealsOwnText` as well. The refinement maps
  `FollowView`'s tree to `shown` and its open view to a live one. The two
  invariants give that the widget is on a tree of the editor in front after
  every step (`ShowsFront`); what is left is that each action changes the other
  variables as some abstract action does, and that activating the editor in front
  again changes nothing.
* `MemoryView_proofs`: `TypeCorrect`, `NeverShowsAnotherMap`,
  `ActivationIsFresh`. The strengthening
  says that a provider whose view is live is spent: it has built its map or has
  no content. That is why the refresh of a same-named file can only empty the
  table, and so why the name check is harmless here.
* `DamagerRepairer_proofs`: `TypeCorrect`, `AlwaysRepaired`,
  `EndOfLineAlwaysAsDocumented`, for every alphabet and length. They
  rest on lemmas about line starts and ends: the damage starts at or before the
  edit and `endOfLineOf` ends at or after it, so the damage covers what was
  inserted, and clipping keeps it inside the partition. For the Javadoc, the line
  whose start is the last one up to an offset ends at the first end behind it,
  delimiter included.
* `DoubleClickStrategy_proofs`: `TypeCorrect`, `AlwaysCoversCaret`,
  `AlwaysSelectsString`, `AlwaysSelectsWord`. The invariant `Chosen` says that the
  selection is the one range the text and the caret determine; the work is in
  that range. The loop back is a recursive function, and the provers cannot use
  the library's induction theorems. The proofs use its theorem on least elements
  instead: were there a position from which the loop is wrong, there would be a
  least one, and the loop goes from it to a smaller one. That gives that the
  function exists (`LoopExists`) and that it ends at the last stop that an even
  number of backslashes follows (`FindsStopBack`): a backslash skips one
  character, so the parity of the backslashes behind a stop decides whether the
  loop steps over it.
* `DeviceTreeEditor_proofs`: `TypeCorrect`, `AlwaysPartitioned`, `AlwaysPainted`,
  `DisposedHasNoColorLeft`. `Partitioned` is about a finished scan; the invariant
  `Scanned` says the same of the text up to the scanner: the partitions found
  are comments and tags up to their first ends, they do not overlap, and where no
  partition is, none could start. A rule that fails leaves the scanner behind
  where it started and before what it read; that nothing starts in between is
  part of the lemma about one token, `TokenStep`. `Colored` says that the table holds exactly the live
  colours while the editor is open, and that a scanner that was made has only
  colours of the table. `Painted` and `NoColorLeft` follow.
* `CmdProc_proofs`: `TypeCorrect`, `AlwaysCollected`, `OverflowAlwaysHangs`. The
  invariant has the conservation of output (`Conserved`: read, in the pipe or
  still to come), and what the constructor's place says of the child (`Place`):
  nothing of standard error is read before the child has ended. So all of
  it was in the pipe then (`Fits`), which is the hang.
* `SampleRunner_proofs`: `TypeCorrect`, `SamplesAlwaysKept`,
  `VerdictsAlwaysRight`, `SelectedAlwaysTested`, `AlwaysCleansUp`,
  `AlwaysLeavesOnlyCurrent`, for any set of arguments. None is
  inductive. Names carry the argument: a name is a sample's with prefixes, a
  prefix makes a longer name, equal prefixed names come from equal ones, and
  no input file is an output file (`PrefixesDiffer`). So the temporary files of the
  file under test are no sample and no other file's temporary files, even when
  the file under test is itself a leftover. `TodoOK` says which files are gone
  after each deletion, `CodeOK` what a sample is known to be at each step of its
  test, `StatsOK` that the n-th selected position has the n-th result, and
  `ListOK` that no file is listed twice, without which a later test could
  make again what an earlier one removed. `NewOK` says that between tests there
  is no file that was not listed, and within one only its own two; that a
  listing has all of `dir` to begin with is a count: it is as long as `dir` is
  large, and has no file twice (`FS_Injection`).

The inductive invariants are checked by TLC on the runs' instances before they
are proved.

Only model-checked: liveness (`NoticeApplied`, `FittingReturns`,
`CleanRunFinishes`), which is out of the proof system's reach, as it needs
fairness and ENABLED. `RightFile` is a theorem only under `Tracked`, and false
without it, as `NeverAnotherFile` is; `RefreshShowsMap` is false.

## Not modelled

* The drill-down position, context menus, labels, icons, the message dialog of the
  Memory Map's double click: no property distinguishes them.
* Unsaved buffers: both views read the saved file. `RevealsOwnText` is about the
  saved text; in an editor with unsaved changes the range may be another one, and
  the code does nothing about it.
* Deleting and renaming files, and several views at once: views share no state,
  and what one does to the other goes through the workbench's events, which
  happen in every order in each view's module.
* The rows of the memory map: the view only sorts and formats them, and the
  addresses are computed by the library. What it makes of a range that ends above
  2^63 is `Unmappable`.
* The platform's incremental repartitioning after an edit. `DamagerRepairer` lets an
  edit change the partitioning in any way.
* How `XMLScanner` and `XMLTagScanner` colour the inside of a partition: layout,
  done by JFace's rules.
* The text of `tests_results.txt`, and the number of tests in its last line.
* `Activator` (template code whose instance nobody reads), `silver-leaves.jar`
  (no source; represented by `Malformed` and `Unmappable`), the samples
  (sources and headers of the Linux kernel, which are the tests' input), packaging.

## Plan

Every component with behaviour of its own has a module, and every safety property
of a passing run has a theorem. What may be added:

1. For the three liveness properties, the safety half as theorems: in `CmdProc` and
   `SampleRunner` every step of the runner decreases a measure, so that what is
   left to the model checker is only that some step is always possible.
2. `PartitionScanner` after an edit, if the incremental repartitioning becomes part
   of this repository.
