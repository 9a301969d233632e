-------------------------- MODULE MemoryView_proofs --------------------------
(***************************************************************************)
(* Proofs about the Memory Map view, for every set of files, names and     *)
(* unmappable texts and every bound on the versions.                       *)
(***************************************************************************)
EXTENDS MemoryView, Workbench_proofs

\* Reading gives nothing, or the current text of the active editor's file.
LEMMA ContentRead ==
    ASSUME WorkbenchTypeOK, NEW e \in Files,
           NEW c \in getDeviceTreeEditorContent(e)
    PROVE  c \in Texts \cup {Null} /\ (c # Null => c.file = e)
PROOF
<1>1. CASE c = Null
    BY <1>1
<1>2. CASE c # Null
    <2>1. c = Text(e, disk[e])
        BY <1>2, WorkbenchAssumption DEF getDeviceTreeEditorContent
    <2> QED
        BY <2>1 DEF Text, Texts, WorkbenchTypeOK
<1> QED
    BY <1>1, <1>2

\* After getElements the provider has no rows left to hand out.
LEMMA ElementsSpent ==
    ASSUME NEW p \in Providers
    PROVE  /\ getElements(p) \in Providers
           /\ ~Builds(getElements(p))
           /\ Rows(p) \in Texts \cup {Null}
           /\ Rows(p) # Null => Builds(p) /\ Rows(p) = p._content
PROOF
<1>1. CASE Builds(p)
    BY <1>1 DEF getElements, Builds, Rows, Providers
<1>2. CASE ~Builds(p)
    BY <1>2 DEF getElements, Rows
<1> QED
    BY <1>1, <1>2

LEMMA ProviderFresh ==
    ASSUME NEW c \in Texts \cup {Null}
    PROVE  /\ DeviceTreeMemoryProvider(c) \in Providers
           /\ DeviceTreeMemoryProvider(c)._content = c
PROOF
    BY DEF DeviceTreeMemoryProvider, Providers

\* The provider of a live view has handed out its rows: every refresh after
\* the first one empties the table.
Spent == phase = "live" => ~Builds(provider)

IInv == TypeOK /\ NeverAnotherMap /\ Spent

LEMMA InitIInv == Init => IInv
PROOF
<1> SUFFICES ASSUME Init PROVE IInv
    OBVIOUS
<1>1. provider \in Providers
    BY ProviderFresh DEF Init
<1>2. WorkbenchTypeOK
    BY WorkbenchInitType DEF Init
<1>3. TypeOK
    <2>1. page \in BOOLEAN
        BY DEF Init
    <2> QED
        BY <1>1, <1>2, <2>1 DEF Init, TypeOK
<1> QED
    BY <1>3 DEF IInv, Init, NeverAnotherMap, Spent

\* The part listener, when f's editor has come to the front.
LEMMA PartEventIInv ==
    ASSUME IInv, NEW f \in Files, partActivated(f), WorkbenchTypeOK',
           activeEditor' = f, phase' = phase
    PROVE  IInv'
PROOF
<1>1. TypeOK /\ WorkbenchTypeOK /\ provider \in Providers
    BY DEF IInv, TypeOK
<1>2. CASE PartIgnored(f)
    BY <1>1, <1>2
    DEF PartIgnored, Listening, IInv, TypeOK, NeverAnotherMap, Spent, Builds
<1>3. CASE SameEditorActivated(f)
    <2>1. refresh(provider) /\ page' = page /\ currEditorName' = currEditorName
        BY <1>3 DEF SameEditorActivated
    <2>2. CASE phase = "live"
        <3>1. provider' = getElements(provider) /\ shown' = Rows(provider)
            BY <2>1, <2>2 DEF refresh
        <3>2. provider' \in Providers /\ ~Builds(getElements(provider))
              /\ shown' \in Texts \cup {Null}
            BY <1>1, <3>1, ElementsSpent
        <3>3. ~Builds(provider)'
            BY <3>1, <3>2 DEF Builds
        <3>4. shown' = Null
            BY <1>1, <2>2, <3>1, ElementsSpent DEF IInv, Spent
        <3>5. TypeOK'
            BY <1>1, <2>1, <3>2 DEF TypeOK
        <3> QED
            BY <3>3, <3>4, <3>5 DEF IInv, NeverAnotherMap, Spent
    <2>3. CASE phase # "live"
        BY <1>1, <2>1, <2>3 DEF refresh, IInv, TypeOK, NeverAnotherMap, Spent
    <2> QED
        BY <2>2, <2>3
<1>4. CASE NewEditorActivated(f)
    <2>1. page' = TRUE /\ currEditorName' = NameOf[f]
        BY <1>4 DEF NewEditorActivated
    <2>2. PICK c \in getDeviceTreeEditorContent(f) : setContentProvider(c)
        BY <1>4 DEF NewEditorActivated
    <2>3. c \in Texts \cup {Null} /\ (c # Null => c.file = f)
        BY <1>1, ContentRead
    <2> DEFINE p == DeviceTreeMemoryProvider(c)
    <2>4. p \in Providers /\ p._content = c /\ refresh(p)
        BY <2>2, <2>3, ProviderFresh DEF setContentProvider
    <2> HIDE DEF p
    <2>5. NameOf[f] \in Names
        BY DEF Names
    <2>6. CASE phase = "live"
        <3>1. provider' = getElements(p) /\ shown' = Rows(p)
            BY <2>4, <2>6 DEF refresh
        <3>2. /\ provider' \in Providers /\ ~Builds(getElements(p))
              /\ shown' \in Texts \cup {Null}
              /\ shown' # Null => shown'.file = f
            BY <2>3, <2>4, <3>1, ElementsSpent
        <3>3. ~Builds(provider)'
            BY <3>1, <3>2 DEF Builds
        <3>4. TypeOK'
            BY <1>1, <2>1, <2>5, <3>2 DEF TypeOK
        <3> QED
            BY <3>2, <3>3, <3>4 DEF IInv, NeverAnotherMap, Spent
    <2>7. CASE phase # "live"
        BY <1>1, <2>1, <2>4, <2>5, <2>7 DEF refresh, IInv, TypeOK, NeverAnotherMap, Spent
    <2> QED
        BY <2>6, <2>7
<1> QED
    BY <1>2, <1>3, <1>4 DEF partActivated

\* Opening the view.
LEMMA OpenIInv ==
    ASSUME IInv, OpenWithoutPart \/ OpenOnEditor \/ OpenFails
    PROVE  IInv'
PROOF
<1>1. TypeOK /\ WorkbenchTypeOK
    BY DEF IInv, TypeOK
<1>2. WorkbenchTypeOK' /\ activePart' = "view"
    BY <1>1, OpeningType DEF OpenWithoutPart, OpenOnEditor, OpenFails
<1>3. NeverAnotherMap'
    BY <1>2 DEF NeverAnotherMap
<1>4. page' \in BOOLEAN
    BY <1>1 DEF TypeOK, OpenWithoutPart, OpenOnEditor, OpenFails
<1>5. currEditorName' \in Names \cup {Null}
    BY <1>1 DEF TypeOK, WorkbenchTypeOK, Names, OpenWithoutPart, OpenOnEditor, OpenFails
<1>6. ASSUME NEW c \in Texts \cup {Null}, phase' = "live",
             provider' = getElements(DeviceTreeMemoryProvider(c)),
             shown' = Rows(DeviceTreeMemoryProvider(c))
      PROVE  IInv'
    <2> DEFINE p == DeviceTreeMemoryProvider(c)
    <2>1. p \in Providers /\ provider' = getElements(p) /\ shown' = Rows(p)
        BY <1>6, ProviderFresh
    <2> HIDE DEF p
    <2>2. provider' \in Providers /\ ~Builds(getElements(p)) /\ shown' \in Texts \cup {Null}
        BY <2>1, ElementsSpent
    <2>3. ~Builds(provider)'
        BY <2>1, <2>2 DEF Builds
    <2> QED
        BY <1>2, <1>3, <1>4, <1>5, <1>6, <2>2, <2>3 DEF IInv, TypeOK, Spent
<1>7. CASE OpenWithoutPart
    BY <1>6, <1>7 DEF OpenWithoutPart
<1>8. CASE OpenOnEditor
    <2>1. PICK c \in getDeviceTreeEditorContent(activeEditor) :
                /\ provider' = getElements(DeviceTreeMemoryProvider(c))
                /\ shown' = Rows(DeviceTreeMemoryProvider(c))
        BY <1>8 DEF OpenOnEditor
    <2>2. activeEditor \in Files
        BY <1>1, <1>8 DEF OpenOnEditor, WorkbenchTypeOK
    <2>3. c \in Texts \cup {Null}
        BY <1>1, <2>2, ContentRead
    <2> QED
        BY <1>6, <1>8, <2>1, <2>3 DEF OpenOnEditor
<1>9. CASE OpenFails
    BY <1>1, <1>2, <1>3, <1>4, <1>5, <1>9 DEF OpenFails, IInv, TypeOK, Spent
<1> QED
    BY <1>7, <1>8, <1>9

LEMMA NextIInv ==
    ASSUME IInv, [Next]_vars
    PROVE  IInv'
PROOF
<1>1. TypeOK /\ WorkbenchTypeOK
    BY DEF IInv, TypeOK
<1>2. CASE OpenWithoutPart \/ OpenOnEditor \/ OpenFails
    BY <1>2, OpenIInv
<1>3. CASE CloseView
    <2>1. provider' \in Providers
        BY <1>3, ProviderFresh DEF CloseView
    <2>2. WorkbenchTypeOK'
        BY <1>1, <1>3 DEF CloseView, wbVars, WorkbenchTypeOK
    <2> QED
        BY <1>1, <1>3, <2>1, <2>2 DEF CloseView, IInv, TypeOK, NeverAnotherMap, Spent
<1>4. ASSUME NEW f \in Files, ActivateEditor(f)
      PROVE  IInv'
    <2>1. WorkbenchTypeOK'
        BY <1>1, <1>4, ActivationType DEF ActivateEditor
    <2> QED
        BY <1>4, <2>1, PartEventIInv DEF ActivateEditor, EditorActivated
\* The view is left alone; another editor in front means a view is active.
<1>5. ASSUME UNCHANGED viewVars, WorkbenchTypeOK',
             activePart' # "editor" \/ UNCHANGED <<activeEditor, activePart>>
      PROVE  IInv'
    <2>1. UNCHANGED <<phase, page, currEditorName, provider, shown>>
        BY <1>5 DEF viewVars
    <2>2. TypeOK' /\ Spent'
        BY <1>1, <1>5, <2>1 DEF IInv, TypeOK, Spent, Builds
    <2>3. NeverAnotherMap'
        BY <1>5, <2>1 DEF IInv, NeverAnotherMap
    <2> QED
        BY <2>2, <2>3 DEF IInv
<1>6. CASE ActivateView
    <2>1. WorkbenchTypeOK'
        BY <1>1, <1>6 DEF ActivateView, ViewActivated, WorkbenchTypeOK
    <2> QED
        BY <1>5, <1>6, <2>1 DEF ActivateView, ViewActivated
<1>7. ASSUME NEW f \in Files, NEW g \in Files, CloseActiveEditor(f, g)
      PROVE  IInv'
    <2>1. WorkbenchTypeOK'
        BY <1>1, <1>7, ClosingType DEF CloseActiveEditor
    <2>2. CASE activePart = "editor"
        BY <1>7, <2>1, <2>2, PartEventIInv DEF CloseActiveEditor, ActiveEditorClosed
    <2>3. CASE activePart # "editor"
        BY <1>5, <1>7, <2>1, <2>3 DEF CloseActiveEditor, ActiveEditorClosed, viewVars
    <2> QED
        BY <2>2, <2>3
<1>8. ASSUME NEW f \in Files, CloseEditor(f)
      PROVE  IInv'
    <2>1. WorkbenchTypeOK'
        BY <1>1, <1>8, ClosingType DEF CloseEditor
    <2>2. activePart' # "editor" \/ UNCHANGED <<activeEditor, activePart>>
        BY <1>8 DEF CloseEditor, EditorClosed
    <2> QED
        BY <1>5, <1>8, <2>1, <2>2 DEF CloseEditor
<1>9. ASSUME NEW f \in Files, SaveFile(f)
      PROVE  IInv'
    BY <1>1, <1>5, <1>9, ChangeType DEF SaveFile
<1>10. CASE UNCHANGED vars
    <2>1. WorkbenchTypeOK'
        BY <1>1, <1>10 DEF vars, wbVars, WorkbenchTypeOK
    <2> QED
        BY <1>5, <1>10, <2>1 DEF vars, wbVars
<1> QED
    BY <1>2, <1>3, <1>4, <1>6, <1>7, <1>8, <1>9, <1>10 DEF Next

LEMMA IInvHolds == Spec => []IInv
PROOF
<1>1. Init => IInv
    BY InitIInv
<1>2. IInv /\ [Next]_vars => IInv'
    BY NextIInv
<1> QED
    BY <1>1, <1>2, PTL DEF Spec

\* The fields of the view, its provider and the table always have their
\* types, whatever is opened, saved or closed, in any order.
THEOREM TypeCorrect == Spec => []TypeOK
PROOF
<1>1. IInv => TypeOK
    BY DEF IInv
<1> QED
    BY <1>1, IInvHolds, PTL

\* With a device tree editor in front, partActivated never leaves the table
\* on the memory map of another file, files of equal names included.
THEOREM NeverShowsAnotherMap == Spec => []NeverAnotherMap
PROOF
<1>1. IInv => NeverAnotherMap
    BY DEF IInv
<1> QED
    BY <1>1, IInvHolds, PTL

\* The part listener on a live view leaves nothing, or a map just read.
LEMMA PartEventFresh ==
    ASSUME IInv, NEW f \in Files, f \in DTFiles, partActivated(f), phase = "live"
    PROVE  shown' = Null \/ shown'.version = disk[shown'.file]
PROOF
<1>1. WorkbenchTypeOK /\ provider \in Providers /\ Listening
    BY DEF IInv, TypeOK, Listening
<1>2. CASE SameEditorActivated(f)
    <2>1. shown' = Rows(provider)
        BY <1>2 DEF SameEditorActivated, refresh
    <2> QED
        BY <1>1, <2>1, ElementsSpent DEF IInv, Spent
<1>3. CASE NewEditorActivated(f)
    <2>1. PICK c \in getDeviceTreeEditorContent(f) : setContentProvider(c)
        BY <1>3 DEF NewEditorActivated
    <2>2. c \in Texts \cup {Null}
        BY <1>1, ContentRead
    <2>3. shown' = Rows(DeviceTreeMemoryProvider(c))
        BY <2>1 DEF setContentProvider, refresh
    <2>4. shown' \in {Null, c}
        BY <2>2, <2>3, ProviderFresh, ElementsSpent
    <2>5. c = Null \/ c = Text(f, disk[f])
        BY DEF getDeviceTreeEditorContent
    <2> QED
        BY <2>4, <2>5 DEF Text
<1> QED
    BY <1>1, <1>2, <1>3 DEF partActivated, PartIgnored

\* A save leaves an outdated map in the table, but no activation of a device
\* tree editor does: partActivated reads the file, or empties the table.
THEOREM ActivationIsFresh == Spec => ActivationFresh
PROOF
<1> DEFINE A == /\ phase = "live" /\ activePart' = "editor" /\ activeEditor' \in DTFiles
                /\ <<activePart, activeEditor>>' # <<activePart, activeEditor>>
                => shown' = Null \/ shown'.version = disk[shown'.file]
<1>1. ASSUME IInv, [Next]_vars
      PROVE  [A]_vars
    <2> SUFFICES ASSUME Next, phase = "live", activePart' = "editor",
                        activeEditor' \in DTFiles,
                        <<activePart, activeEditor>>' # <<activePart, activeEditor>>
                 PROVE  shown' = Null \/ shown'.version = disk[shown'.file]
        BY <1>1
    <2>1. WorkbenchTypeOK
        BY <1>1 DEF IInv, TypeOK
    <2>2. ASSUME NEW f \in Files, ActivateEditor(f)
          PROVE  shown' = Null \/ shown'.version = disk[shown'.file]
        BY <1>1, <2>2, PartEventFresh DEF ActivateEditor, EditorActivated
    <2>3. ASSUME NEW f \in Files, NEW g \in Files, CloseActiveEditor(f, g)
          PROVE  shown' = Null \/ shown'.version = disk[shown'.file]
        BY <1>1, <2>3, PartEventFresh DEF CloseActiveEditor, ActiveEditorClosed
    <2>4. ASSUME NEW f \in Files, CloseEditor(f)
          PROVE  FALSE
        BY <2>1, <2>4 DEF CloseEditor, EditorClosed, WorkbenchTypeOK
    <2>5. ASSUME \/ OpenWithoutPart \/ OpenOnEditor \/ OpenFails \/ CloseView \/ ActivateView
                 \/ \E f \in Files : SaveFile(f)
          PROVE  FALSE
        BY <2>5 DEF OpenWithoutPart, OpenOnEditor, OpenFails, CloseView, ActivateView,
                    ViewActivated, SaveFile, WorkspaceChanged, wbVars
    <2> QED
        BY <2>2, <2>3, <2>4, <2>5 DEF Next
<1>2. IInv /\ [Next]_vars => [A]_vars
    BY <1>1
<1> QED
    BY <1>2, IInvHolds, PTL DEF Spec, ActivationFresh

=============================================================================
