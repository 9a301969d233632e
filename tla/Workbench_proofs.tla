--------------------------- MODULE Workbench_proofs ---------------------------
(***************************************************************************)
(* The workbench's actions keep its type, and only a workspace change      *)
(* changes a file.  Used by the proofs about both views.                   *)
(***************************************************************************)
EXTENDS Workbench, TLAPS

\* Initially nothing is open.
LEMMA WorkbenchInitType == WorkbenchInit => WorkbenchTypeOK
PROOF
    BY WorkbenchAssumption DEF WorkbenchInit, WorkbenchTypeOK

\* Bringing an editor or a view to the front.
LEMMA ActivationType ==
    ASSUME WorkbenchTypeOK, NEW f \in Files, EditorActivated(f) \/ ViewActivated
    PROVE  WorkbenchTypeOK' /\ disk' = disk
PROOF
<1>1. CASE EditorActivated(f)
    BY <1>1, WorkbenchAssumption DEF EditorActivated, WorkbenchTypeOK
<1>2. CASE ViewActivated
    BY <1>2 DEF ViewActivated, WorkbenchTypeOK
<1> QED
    BY <1>1, <1>2

\* Closing an editor.
LEMMA ClosingType ==
    ASSUME WorkbenchTypeOK, NEW f \in Files, NEW g \in Files,
           ActiveEditorClosed(f, g) \/ EditorClosed(f)
    PROVE  WorkbenchTypeOK' /\ disk' = disk
PROOF
<1>1. CASE ActiveEditorClosed(f, g)
    BY <1>1, WorkbenchAssumption DEF ActiveEditorClosed, WorkbenchTypeOK
<1>2. CASE EditorClosed(f)
    <2>1. CASE f = activeEditor
        BY <1>2, <2>1, WorkbenchAssumption DEF EditorClosed, WorkbenchTypeOK
    <2>2. CASE f # activeEditor
        BY <1>2, <2>2, WorkbenchAssumption DEF EditorClosed, WorkbenchTypeOK
    <2> QED
        BY <2>1, <2>2
<1> QED
    BY <1>1, <1>2

\* A change of the workspace leaves the editors alone.
LEMMA ChangeType ==
    ASSUME WorkbenchTypeOK, NEW f, WorkspaceChanged(f)
    PROVE  /\ WorkbenchTypeOK'
           /\ UNCHANGED <<editors, activeEditor, activePart>>
PROOF
<1>1. disk' \in [Files -> 0..MaxVersion]
    BY WorkbenchAssumption DEF WorkspaceChanged, WorkbenchTypeOK
<1> QED
    BY <1>1 DEF WorkspaceChanged, WorkbenchTypeOK

\* The active part becomes the view that is opened.
LEMMA OpeningType ==
    ASSUME WorkbenchTypeOK, activePart' = "view",
           UNCHANGED <<disk, editors, activeEditor>>
    PROVE  WorkbenchTypeOK'
PROOF
    BY DEF WorkbenchTypeOK

=============================================================================
