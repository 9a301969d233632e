----------------------------- MODULE MemoryView -----------------------------
(***************************************************************************)
(* The Memory Map view (views/MemoryView.java) with its content provider   *)
(* (views/DeviceTreeMemoryProvider.java), driven by the workbench.  It     *)
(* follows the active editor like the Device Tree view, but has no         *)
(* resource listener and no navigation, and its provider hands out the     *)
(* rows of the memory map on the first getElements only.                   *)
(***************************************************************************)
EXTENDS Workbench

CONSTANT
    Unmappable      \* texts for which generateMemoryMap throws: no tree, or
                    \* an address or a length that Long.decode refuses

ASSUME MemoryViewAssumption == Unmappable \subseteq Texts

VARIABLES
    phase,           \* life cycle of the view
    page,            \* whether the field page is set
    currEditorName,  \* the field currEditorName
    provider,        \* the viewer's DeviceTreeMemoryProvider
    shown            \* the text whose memory map the table shows, or Null

viewVars == <<phase, page, currEditorName, provider, shown>>
vars == <<wbVars, viewVars>>

Providers == [_content : Texts \cup {Null}, memoryProvider : BOOLEAN]

TypeOK ==
    /\ WorkbenchTypeOK
    /\ phase \in {"closed", "live", "broken", "disposed"}
    /\ page \in BOOLEAN
    /\ currEditorName \in Names \cup {Null}
    /\ provider \in Providers
    /\ shown \in Texts \cup {Null}

-----------------------------------------------------------------------------
(* DeviceTreeMemoryProvider *)

\* The constructor: no DeviceTreeMemory yet.
DeviceTreeMemoryProvider(content) ==
    [_content |-> content, memoryProvider |-> FALSE]

\* The first call with a content builds the DeviceTreeMemory and returns the
\* rows of its map; building never throws, generating the rows may.
Builds(p) == ~p.memoryProvider /\ p._content # Null

\* The provider after getElements has been called.
getElements(p) ==
    IF Builds(p) THEN [p EXCEPT !.memoryProvider = TRUE] ELSE p

\* Faulty variant: rows are returned whether or not they could be generated,
\* and on every call.
Rows_Always(p) == p._content

\* The rows getElements returns, named by their text; Null is new Object[0].
Rows(p) ==
    IF Builds(p) /\ p._content \notin Unmappable THEN p._content ELSE Null

-----------------------------------------------------------------------------
(* The JFace viewer, as the view uses it *)

refresh(p) ==
    \/ /\ phase = "live"
       /\ provider' = getElements(p)
       /\ shown' = Rows(p)
    \/ /\ phase # "live"
       /\ provider' = p
       /\ UNCHANGED shown

setContentProvider(content) == refresh(DeviceTreeMemoryProvider(content))

-----------------------------------------------------------------------------
(* MemoryView *)

\* The part listener is registered at the end of createPartControl.
Listening == phase \in {"live", "disposed"}

\* The results getDeviceTreeEditorContent() can have when the page's active
\* editor is e.
getDeviceTreeEditorContent(e) ==
    IF e # Null /\ e \notin ExternalFiles
    THEN {Text(e, disk[e])} \cup (IF ReadsMayFail THEN {Null} ELSE {})
    ELSE {Null}

\* partActivated: not a device tree editor, or nobody listens yet.
PartIgnored(f) ==
    /\ ~Listening \/ f \notin DTFiles
    /\ UNCHANGED <<page, currEditorName, provider, shown>>

\* partActivated: the editor has the name of the last one.
SameEditorActivated(f) ==
    /\ Listening /\ f \in DTFiles
    /\ page /\ currEditorName = NameOf[f]
    /\ refresh(provider)
    /\ UNCHANGED <<page, currEditorName>>

\* Faulty variant: the editor input is remembered instead of its name.
NewEditorActivated_KeepsInput(f) ==
    /\ Listening /\ f \in DTFiles
    /\ ~(page /\ currEditorName = NameOf[f])
    /\ page' = TRUE
    /\ currEditorName' = f
    /\ \E content \in getDeviceTreeEditorContent(f) : setContentProvider(content)

\* partActivated: first editor, or one of another name.
NewEditorActivated(f) ==
    /\ Listening /\ f \in DTFiles
    /\ ~(page /\ currEditorName = NameOf[f])
    /\ page' = TRUE
    /\ currEditorName' = NameOf[f]
    /\ \E content \in getDeviceTreeEditorContent(f) : setContentProvider(content)

partActivated(f) ==
    \/ PartIgnored(f)
    \/ SameEditorActivated(f)
    \/ NewEditorActivated(f)

-----------------------------------------------------------------------------
(* Actions *)

Init ==
    /\ WorkbenchInit
    /\ phase = "closed"
    /\ page = FALSE
    /\ currEditorName = Null
    /\ provider = DeviceTreeMemoryProvider(Null)
    /\ shown = Null

\* createPartControl with no active part.
OpenWithoutPart ==
    /\ phase = "closed" /\ activePart = "none"
    /\ phase' = "live"
    /\ provider' = getElements(DeviceTreeMemoryProvider(Null))
    /\ shown' = Rows(DeviceTreeMemoryProvider(Null))
    /\ activePart' = "view"
    /\ UNCHANGED <<disk, editors, activeEditor, page, currEditorName>>

\* createPartControl with an active editor; setInput asks for the elements.
OpenOnEditor ==
    /\ phase = "closed" /\ activePart # "none" /\ activeEditor # Null
    /\ phase' = "live"
    /\ page' = TRUE
    /\ currEditorName' = NameOf[activeEditor]
    /\ \E content \in getDeviceTreeEditorContent(activeEditor) :
            /\ provider' = getElements(DeviceTreeMemoryProvider(content))
            /\ shown' = Rows(DeviceTreeMemoryProvider(content))
    /\ activePart' = "view"
    /\ UNCHANGED <<disk, editors, activeEditor>>

\* createPartControl with an active part and no active editor throws.
OpenFails ==
    /\ phase = "closed" /\ activePart # "none" /\ activeEditor = Null
    /\ phase' = "broken"
    /\ page' = TRUE
    /\ activePart' = "view"
    /\ UNCHANGED <<disk, editors, activeEditor, currEditorName, provider, shown>>

\* The view is closed; the part listener stays registered.
CloseView ==
    /\ phase = "live"
    /\ phase' = "disposed"
    /\ provider' = DeviceTreeMemoryProvider(Null)
    /\ shown' = Null
    /\ UNCHANGED <<wbVars, page, currEditorName>>

ActivateEditor(f) ==
    /\ EditorActivated(f)
    /\ partActivated(f)
    /\ UNCHANGED phase

ActivateView ==
    /\ ViewActivated
    /\ UNCHANGED viewVars

CloseActiveEditor(f, g) ==
    /\ ActiveEditorClosed(f, g)
    /\ \/ activePart = "editor" /\ partActivated(g)
       \/ activePart # "editor" /\ UNCHANGED <<page, currEditorName, provider, shown>>
    /\ UNCHANGED phase

CloseEditor(f) ==
    /\ EditorClosed(f)
    /\ UNCHANGED viewVars

\* A file is saved: this view does not listen.
SaveFile(f) ==
    /\ WorkspaceChanged(f)
    /\ UNCHANGED viewVars

Next ==
    \/ OpenWithoutPart
    \/ OpenOnEditor
    \/ OpenFails
    \/ CloseView
    \/ \E f \in Files : ActivateEditor(f)
    \/ ActivateView
    \/ \E f, g \in Files : CloseActiveEditor(f, g)
    \/ \E f \in Files : CloseEditor(f)
    \/ \E f \in Files : SaveFile(f)

Spec == Init /\ [][Next]_vars

-----------------------------------------------------------------------------
(* Properties *)

\* With a device tree editor in front, partActivated's name check never
\* leaves another file's memory map in the table, files of the same name
\* included: the table shows the map of that editor's file, or nothing.
NeverAnotherMap ==
    /\ phase = "live" /\ activePart = "editor" /\ activeEditor \in DTFiles
    /\ shown # Null
    => shown.file = activeEditor

\* The view has no resource listener, so a save leaves an outdated map in the
\* table.  partActivated ends that: the table never comes out of the
\* activation of a device tree editor with a map of an outdated version.
ActivationFresh ==
    [][/\ phase = "live" /\ activePart' = "editor" /\ activeEditor' \in DTFiles
       /\ <<activePart, activeEditor>>' # <<activePart, activeEditor>>
       => shown' = Null \/ shown'.version = disk[shown'.file]]_vars

\* partActivated's first branch ("in that case just need to refresh"): the
\* view of a device tree editor shows the memory map that its provider's
\* content has.
RefreshShowsMap ==
    /\ phase = "live" /\ activePart = "editor" /\ activeEditor \in DTFiles
    /\ provider._content # Null /\ provider._content \notin Unmappable
    => shown = provider._content

=============================================================================
