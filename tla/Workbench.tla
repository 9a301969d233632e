------------------------------ MODULE Workbench ------------------------------
(***************************************************************************)
(* The Eclipse workbench as the two views of the plug-in use it: files in  *)
(* the workspace, the editors opened on them, the active editor of the     *)
(* page and the active part of the window.  The platform is not part of    *)
(* the repository; everything here is modelled from the calls that         *)
(* DeviceTreeView and MemoryView make (getActivePart, getActiveEditor,     *)
(* getEditorInput().getName(), getAdapter(IFile.class), getContents) and   *)
(* from the events they listen to (partActivated, POST_CHANGE).            *)
(*                                                                         *)
(* A text is abstracted to where it comes from: the file and the number of *)
(* times that file had been saved.                                         *)
(***************************************************************************)
EXTENDS Naturals

CONSTANTS
    Files,          \* the files an editor can be opened on
    DTFiles,        \* the ones opened with DeviceTreeEditor ("dts", plugin.xml)
    ExternalFiles,  \* the ones outside the workspace: no IFile adapter
    NameOf,         \* NameOf[f]: the editor input's name, which is not a path
    Closable,       \* the files whose editors the user closes
    ReadsMayFail,   \* whether getContents() may throw
    MaxVersion,     \* bound: how often a file is saved
    Null            \* Java's null

ASSUME WorkbenchAssumption ==
    /\ DTFiles \subseteq Files
    /\ ExternalFiles \subseteq Files
    /\ Closable \subseteq Files
    /\ NameOf \in [Files -> {NameOf[f] : f \in Files}]
    /\ ReadsMayFail \in BOOLEAN
    /\ MaxVersion \in Nat
    /\ Null \notin Files
    /\ \A f \in Files : NameOf[f] # Null

VARIABLES
    disk,           \* disk[f]: the saved version of f
    editors,        \* the files open in an editor of the page
    activeEditor,   \* page.getActiveEditor(), or Null
    activePart      \* the active part: an editor, some view, or none

wbVars == <<disk, editors, activeEditor, activePart>>

Names == {NameOf[f] : f \in Files}

Texts == [file : Files, version : 0..MaxVersion]

ASSUME TextAssumption == Null \notin Texts

\* The text a file holds when its saved version is v.
Text(f, v) == [file |-> f, version |-> v]

WorkbenchTypeOK ==
    /\ disk \in [Files -> 0..MaxVersion]
    /\ editors \subseteq Files
    /\ activeEditor \in editors \cup {Null}
    /\ activePart \in {"editor", "view", "none"}
    /\ activePart = "editor" => activeEditor # Null

WorkbenchInit ==
    /\ disk = [f \in Files |-> 0]
    /\ editors = {}
    /\ activeEditor = Null
    /\ activePart = "none"

-----------------------------------------------------------------------------
(* What the user and the platform do to the workbench.  The views' modules *)
(* conjoin each of these with the listeners the event calls.               *)

\* f's editor is opened or brought to the front and becomes the active part.
EditorActivated(f) ==
    /\ ~(activePart = "editor" /\ activeEditor = f)
    /\ editors' = editors \cup {f}
    /\ activeEditor' = f
    /\ activePart' = "editor"
    /\ UNCHANGED disk

\* Some view becomes the active part; the page keeps its active editor.
ViewActivated ==
    /\ activePart # "view"
    /\ activePart' = "view"
    /\ UNCHANGED <<disk, editors, activeEditor>>

\* The active editor f is closed and g comes to the front in its place; g
\* is activated only if f was the active part.
ActiveEditorClosed(f, g) ==
    /\ f \in Closable
    /\ f = activeEditor
    /\ g \in editors \ {f}
    /\ editors' = editors \ {f}
    /\ activeEditor' = g
    /\ UNCHANGED <<disk, activePart>>

\* An editor is closed without another one coming to the front: it was not
\* the active one, or it was the last.
EditorClosed(f) ==
    /\ f \in Closable \cap editors
    /\ f = activeEditor => editors = {f}
    /\ editors' = editors \ {f}
    /\ activeEditor' = IF f = activeEditor THEN Null ELSE activeEditor
    /\ IF f = activeEditor /\ activePart = "editor"
       THEN activePart' \in {"view", "none"}
       ELSE UNCHANGED activePart
    /\ UNCHANGED disk

\* The workspace changes: file f is saved, or (f = Null) something else
\* changes, such as a folder, a marker or a build output.
WorkspaceChanged(f) ==
    /\ \/ /\ f = Null
          /\ UNCHANGED disk
       \/ /\ f \in Files \ ExternalFiles
          /\ disk[f] < MaxVersion
          /\ disk' = [disk EXCEPT ![f] = @ + 1]
    /\ UNCHANGED <<editors, activeEditor, activePart>>

=============================================================================
