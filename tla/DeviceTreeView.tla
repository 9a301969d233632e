--------------------------- MODULE DeviceTreeView ---------------------------
(***************************************************************************)
(* The Device Tree view (views/DeviceTreeView.java) with its content       *)
(* provider (views/DeviceTreeContentProvider.java), driven by the          *)
(* workbench.                                                              *)
(*                                                                         *)
(* One instance of the view is modelled, from before it is opened until    *)
(* after it is closed: instances share nothing, and every reachable        *)
(* workbench is one in which this instance may be opened.  Its two         *)
(* listeners are never removed, so they keep running after it is closed.   *)
(*                                                                         *)
(* Part events and double clicks run on the UI thread.  A workspace change *)
(* is announced by the thread that made it: the UI thread (a save in an    *)
(* editor), or a background job (a build, a refresh), and then the         *)
(* listener's read and its update interleave with the UI thread.           *)
(***************************************************************************)
EXTENDS Workbench

CONSTANTS
    Malformed,          \* texts DeviceTreeRoot.create makes no tree of
    BackgroundChanges   \* whether jobs change the workspace

ASSUME DeviceTreeViewAssumption ==
    /\ Malformed \subseteq Texts
    /\ BackgroundChanges \in BOOLEAN

VARIABLES
    phase,           \* life cycle of the view
    page,            \* whether the field page is set
    currEditorName,  \* the field currEditorName
    provider,        \* the viewer's DeviceTreeContentProvider
    shown,           \* the text whose tree the widget shows, or Null
    notice,          \* the POST_CHANGE a job is delivering
    selection        \* what the last double click selected, and where

viewVars == <<phase, page, currEditorName, provider, shown, notice, selection>>
vars == <<wbVars, viewVars>>

Providers == [_content : Texts \cup {Null}, invisibleRoot : Texts \cup {Null}]

TypeOK ==
    /\ WorkbenchTypeOK
    /\ phase \in {"closed", "live", "broken", "disposed"}
    /\ page \in BOOLEAN
    /\ currEditorName \in Names \cup {Null}
    /\ provider \in Providers
    /\ shown \in Texts \cup {Null}
    /\ notice \in [at : {"idle", "posted", "read"}, text : Texts \cup {Null}]
    /\ selection \in [node : Texts, editor : Files] \cup {Null}

-----------------------------------------------------------------------------
(* DeviceTreeContentProvider *)

\* The constructor: the content is kept, the tree is not built yet.
DeviceTreeContentProvider(content) ==
    [_content |-> content, invisibleRoot |-> Null]

\* Faulty variant: the tree that was built is not kept.
getElements_Forgets(p) == [p EXCEPT !.invisibleRoot = Null]

\* The provider after getElements has been called: the tree is built on the
\* first call that can build one, and kept.  A tree is named by its text.
getElements(p) ==
    IF /\ p.invisibleRoot = Null
       /\ p._content # Null
       /\ p._content \notin Malformed
    THEN [p EXCEPT !.invisibleRoot = p._content]
    ELSE p

-----------------------------------------------------------------------------
(* The JFace viewer, as the view uses it *)

\* refresh() asks the provider for its elements again.  On a viewer whose
\* control is disposed it only throws.
refresh(p) ==
    \/ /\ phase = "live"
       /\ provider' = getElements(p)
       /\ shown' = getElements(p).invisibleRoot
    \/ /\ phase # "live"
       /\ provider' = p
       /\ UNCHANGED shown

\* Replacing the provider of a viewer refreshes it.
setContentProvider(content) == refresh(DeviceTreeContentProvider(content))

\* The same call on another thread: the provider is replaced before the
\* refresh throws "Invalid thread access".
setContentProviderOffThread(content) ==
    /\ provider' = DeviceTreeContentProvider(content)
    /\ UNCHANGED shown

-----------------------------------------------------------------------------
(* DeviceTreeView: reading the active editor's file *)

\* Both listeners are registered at the end of createPartControl.
Listening == phase \in {"live", "disposed"}

\* The editor whose file is read: page.getActiveEditor(), Null without page.
PageEditor == IF page THEN activeEditor ELSE Null

\* The results getDeviceTreeEditorContent() can have when that editor is e
\* and the files hold versions d.  No page, no editor, an input without
\* IFile, and a failing read all give null.
getDeviceTreeEditorContent(e, d) ==
    IF e # Null /\ e \notin ExternalFiles
    THEN {Text(e, d[e])} \cup (IF ReadsMayFail THEN {Null} ELSE {})
    ELSE {Null}

-----------------------------------------------------------------------------
(* partActivated *)

\* Not a device tree editor, or nobody listens yet.
PartIgnored(f) ==
    /\ ~Listening \/ f \notin DTFiles
    /\ UNCHANGED <<page, currEditorName, provider, shown>>

\* Faulty variant: the early return comes before the refresh.
SameEditorActivated_NoRefresh(f) ==
    /\ Listening /\ f \in DTFiles
    /\ page /\ currEditorName = NameOf[f]
    /\ UNCHANGED <<page, currEditorName, provider, shown>>

\* The editor has the name of the last one: refresh and return.
SameEditorActivated(f) ==
    /\ Listening /\ f \in DTFiles
    /\ page /\ currEditorName = NameOf[f]
    /\ refresh(provider)
    /\ UNCHANGED <<page, currEditorName>>

\* Faulty variant: the editor input is remembered instead of its name.
NewEditorActivated_KeepsInput(f) ==
    /\ Listening /\ f \in DTFiles
    /\ ~(page /\ currEditorName = NameOf[f])
    /\ page' = TRUE
    /\ currEditorName' = f
    /\ \E content \in getDeviceTreeEditorContent(f, disk) :
            setContentProvider(content)

\* Faulty variant: only the first editor's name is remembered.
NewEditorActivated_KeepsName(f) ==
    /\ Listening /\ f \in DTFiles
    /\ ~(page /\ currEditorName = NameOf[f])
    /\ page' = TRUE
    /\ currEditorName' = IF currEditorName = Null THEN NameOf[f] ELSE currEditorName
    /\ \E content \in getDeviceTreeEditorContent(f, disk) :
            setContentProvider(content)

\* First editor, or one of another name: new content for the tree.
NewEditorActivated(f) ==
    /\ Listening /\ f \in DTFiles
    /\ ~(page /\ currEditorName = NameOf[f])
    /\ page' = TRUE
    /\ currEditorName' = NameOf[f]
    /\ \E content \in getDeviceTreeEditorContent(f, disk) :
            setContentProvider(content)

\* The part listener, called when the editor of f has become the active part.
partActivated(f) ==
    \/ PartIgnored(f)
    \/ SameEditorActivated(f)
    \/ NewEditorActivated(f)

-----------------------------------------------------------------------------
(* resourceChanged *)

\* Faulty variant: a change is only a reason to refresh.
resourceChanged_RefreshOnly ==
    IF Listening THEN refresh(provider) ELSE UNCHANGED <<provider, shown>>

\* POST_CHANGE delivered on the UI thread, after the change.
resourceChanged ==
    \/ /\ Listening
       /\ \E content \in getDeviceTreeEditorContent(PageEditor, disk') :
               setContentProvider(content)
    \/ /\ ~Listening
       /\ UNCHANGED <<provider, shown>>

-----------------------------------------------------------------------------
(* Actions *)

Init ==
    /\ WorkbenchInit
    /\ phase = "closed"
    /\ page = FALSE
    /\ currEditorName = Null
    /\ provider = DeviceTreeContentProvider(Null)
    /\ shown = Null
    /\ notice = [at |-> "idle", text |-> Null]
    /\ selection = Null

\* createPartControl with no active part: nothing to show yet.
OpenWithoutPart ==
    /\ phase = "closed" /\ activePart = "none"
    /\ phase' = "live"
    /\ provider' = getElements(DeviceTreeContentProvider(Null))
    /\ shown' = Null
    /\ activePart' = "view"
    /\ UNCHANGED <<disk, editors, activeEditor, page, currEditorName, notice, selection>>

\* createPartControl with an active part and an active editor, whichever
\* editor that is.
OpenOnEditor ==
    /\ phase = "closed" /\ activePart # "none" /\ activeEditor # Null
    /\ phase' = "live"
    /\ page' = TRUE
    /\ currEditorName' = NameOf[activeEditor]
    /\ \E content \in getDeviceTreeEditorContent(activeEditor, disk) :
            LET p == getElements(DeviceTreeContentProvider(content))
            IN  /\ provider' = p
                /\ shown' = p.invisibleRoot
    /\ activePart' = "view"
    /\ UNCHANGED <<disk, editors, activeEditor, notice, selection>>

\* createPartControl with an active part and no active editor:
\* page.getActiveEditor() is null and the call on it throws, before the
\* viewer has a provider and before any listener is registered.
OpenFails ==
    /\ phase = "closed" /\ activePart # "none" /\ activeEditor = Null
    /\ phase' = "broken"
    /\ page' = TRUE
    /\ activePart' = "view"
    /\ UNCHANGED <<disk, editors, activeEditor, currEditorName, provider,
                   shown, notice, selection>>

\* The view is closed.  The viewer lets go of its provider; the listeners
\* stay registered.
CloseView ==
    /\ phase = "live"
    /\ phase' = "disposed"
    /\ provider' = DeviceTreeContentProvider(Null)
    /\ shown' = Null
    /\ UNCHANGED <<wbVars, page, currEditorName, notice, selection>>

ActivateEditor(f) ==
    /\ EditorActivated(f)
    /\ partActivated(f)
    /\ UNCHANGED <<phase, notice, selection>>

ActivateView ==
    /\ ViewActivated
    /\ UNCHANGED viewVars

CloseActiveEditor(f, g) ==
    /\ ActiveEditorClosed(f, g)
    /\ \/ activePart = "editor" /\ partActivated(g)
       \/ activePart # "editor" /\ UNCHANGED <<page, currEditorName, provider, shown>>
    /\ UNCHANGED <<phase, notice, selection>>

CloseEditor(f) ==
    /\ EditorClosed(f)
    /\ UNCHANGED viewVars

\* A change on the UI thread; it waits for a job's change to be announced.
ChangeInUI(f) ==
    /\ notice.at = "idle"
    /\ WorkspaceChanged(f)
    /\ resourceChanged
    /\ UNCHANGED <<phase, page, currEditorName, notice, selection>>

\* A change in a job, and then the listener's two steps in the job's thread.
ChangeInBackground(f) ==
    /\ BackgroundChanges
    /\ notice.at = "idle"
    /\ WorkspaceChanged(f)
    /\ notice' = [at |-> "posted", text |-> Null]
    /\ UNCHANGED <<phase, page, currEditorName, provider, shown, selection>>

ListenerReads ==
    /\ notice.at = "posted"
    /\ \/ /\ Listening
          /\ \E content \in getDeviceTreeEditorContent(PageEditor, disk) :
                  notice' = [at |-> "read", text |-> content]
       \/ /\ ~Listening
          /\ notice' = [at |-> "idle", text |-> Null]
    /\ UNCHANGED <<wbVars, phase, page, currEditorName, provider, shown, selection>>

\* Faulty variant: the text that was read is never handed to the viewer.
ListenerSets_Drops ==
    /\ notice.at = "read"
    /\ notice' = [at |-> "idle", text |-> Null]
    /\ UNCHANGED <<wbVars, phase, page, currEditorName, provider, shown, selection>>

ListenerSets ==
    /\ notice.at = "read"
    /\ setContentProviderOffThread(notice.text)
    /\ notice' = [at |-> "idle", text |-> Null]
    /\ UNCHANGED <<wbVars, phase, page, currEditorName, selection>>

\* A double click on a node of the tree.  navigateToLine opens the file of
\* the page's active editor, which activates that editor, and selects there
\* the range the node has in the text its tree was built from.
DoubleClick ==
    /\ phase = "live" /\ shown # Null /\ activePart = "view"
    /\ page /\ activeEditor # Null /\ activeEditor \notin ExternalFiles
    /\ EditorActivated(activeEditor)
    /\ partActivated(activeEditor)
    /\ selection' = [node |-> shown, editor |-> activeEditor]
    /\ UNCHANGED <<phase, notice>>

Next ==
    \/ OpenWithoutPart
    \/ OpenOnEditor
    \/ OpenFails
    \/ CloseView
    \/ \E f \in Files : ActivateEditor(f)
    \/ ActivateView
    \/ \E f, g \in Files : CloseActiveEditor(f, g)
    \/ \E f \in Files : CloseEditor(f)
    \/ \E f \in Files \cup {Null} : ChangeInUI(f)
    \/ \E f \in Files \cup {Null} : ChangeInBackground(f)
    \/ ListenerReads
    \/ ListenerSets
    \/ DoubleClick

Spec == Init /\ [][Next]_vars

\* Once a job has announced a change, the platform runs the listener in that
\* job to its end.  Nothing obliges the user to do anything.
FairSpec == Spec /\ WF_vars(ListenerReads) /\ WF_vars(ListenerSets)

-----------------------------------------------------------------------------
(* Properties *)

\* A text that is the saved version of its file.
Current(t) == t # Null => t.version = disk[t.file]

\* The tree a text gives, named by the text.
TreeOf(t) == IF t \in Malformed THEN Null ELSE t

\* The resource listener replaces the provider after every workspace change,
\* whichever file it is reading by then: once the change has been announced,
\* the view never holds an outdated version of the file it holds.
ProviderCurrent == notice.at = "idle" => Current(provider._content)

\* When no job changes the workspace, the widget itself is up to date: it
\* shows the tree of the saved version of the file it shows, and nothing
\* that provider and viewer cached on the way is older.
WidgetCurrent ==
    ~BackgroundChanges =>
        /\ Current(shown)
        /\ phase = "live" => shown = TreeOf(provider._content)

\* partActivated's two branches ("just need to refresh", "need to set a new
\* content to the tree"): with a device tree editor in front and no change
\* being announced, the live view holds what reading that editor's file gives.
RightFile ==
    /\ phase = "live" /\ notice.at = "idle"
    /\ activePart = "editor" /\ activeEditor \in DTFiles
    => provider._content \in getDeviceTreeEditorContent(activeEditor, disk)

\* "or we opened a new file, in that case need to set a new content to the
\* tree": once partActivated has set the content of the device tree editor in
\* front, no announcement that is over has put another file's in its place.
NeverAnotherFile ==
    /\ phase = "live" /\ notice.at = "idle"
    /\ activePart = "editor" /\ activeEditor \in DTFiles
    /\ provider._content # Null
    => provider._content.file = activeEditor

\* A double click selects, in the editor it reveals, a range of the text that
\* this editor's file holds: offsets are never applied to another file or to
\* another version.
RevealsOwnText ==
    [][selection' # selection =>
            selection'.node = Text(selection'.editor, disk[selection'.editor])]_vars

\* What all of the above is for.  The abstract view has no provider, no
\* remembered name and no listeners.
Following == INSTANCE FollowView
    WITH saved <- disk, front <- activeEditor, open <- phase = "live", tree <- shown

\* createPartControl, partActivated and resourceChanged between them make the
\* widget follow the editor in front: at every moment the open view shows the
\* tree of that editor's saved file, and it changes for no other reason.
FollowsEditor == Following!Spec

\* The refresh on activation also repairs a widget that a job's update could
\* not reach: as soon as a device tree editor is activated, the widget shows
\* what the provider holds.
ActivationRepairs ==
    [][/\ phase = "live" /\ activePart' = "editor" /\ activeEditor' \in DTFiles
       /\ <<activePart, activeEditor>>' # <<activePart, activeEditor>>
       => shown' = TreeOf(provider'._content)]_vars

\* A change announced by a job reaches the provider of a live view.
NoticeApplied ==
    notice.at # "idle" ~> notice.at = "idle" /\ Current(provider._content)

=============================================================================
