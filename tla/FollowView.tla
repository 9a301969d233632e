----------------------------- MODULE FollowView -----------------------------
(***************************************************************************)
(* What the Device Tree view is for, without its listeners, its provider   *)
(* and its remembered name: while it is open it shows the tree of the text *)
(* that the file of the editor in front has on disk, or nothing if that    *)
(* file cannot be read or its text has no tree.  What it shows changes     *)
(* only when another editor comes to the front or the workspace changes.   *)
(***************************************************************************)
EXTENDS Naturals

CONSTANTS Files, ExternalFiles, Malformed, ReadsMayFail, Null

VARIABLES
    saved,      \* saved[f]: how often f was saved
    front,      \* the editor in front, or Null
    open,       \* whether the view is open
    tree        \* the text whose tree is shown, or Null

vars == <<saved, front, open, tree>>

\* The trees that reading f can give when the files hold versions d.
Trees(f, d) ==
    LET text == [file |-> f, version |-> d[f]]
    IN  IF f \in Files \ ExternalFiles
        THEN (IF text \in Malformed THEN {Null} ELSE {text})
                \cup (IF ReadsMayFail THEN {Null} ELSE {})
        ELSE {Null}

Init ==
    /\ saved = [f \in Files |-> 0]
    /\ front = Null
    /\ open = FALSE
    /\ tree = Null

\* The view shows what the file of the editor in front has.
Show == IF open' THEN tree' \in Trees(front', saved') ELSE tree' = Null

OpenView ==
    /\ ~open /\ open'
    /\ Show
    /\ UNCHANGED <<saved, front>>

CloseView ==
    /\ open /\ ~open'
    /\ Show
    /\ UNCHANGED <<saved, front>>

\* Another editor comes to the front.
Turn(f) ==
    /\ f # front /\ front' = f
    /\ Show
    /\ UNCHANGED <<saved, open>>

\* f is saved, or (f = Null) something else changes in the workspace.
Change(f) ==
    /\ IF f = Null THEN UNCHANGED saved ELSE saved' = [saved EXCEPT ![f] = @ + 1]
    /\ Show
    /\ UNCHANGED <<front, open>>

Next ==
    \/ OpenView
    \/ CloseView
    \/ \E f \in Files : Turn(f)
    \/ \E f \in (Files \ ExternalFiles) \cup {Null} : Change(f)

Spec == Init /\ [][Next]_vars

=============================================================================
