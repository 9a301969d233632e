---------------------------- MODULE MCMemoryView ----------------------------
(***************************************************************************)
(* Small workspaces for the Memory Map view: two device tree files and a   *)
(* file that another editor opens.                                         *)
(***************************************************************************)
EXTENDS MemoryView

CONSTANTS board, overlay, readme

BoardOnly == {board}
TwoTrees == {board, overlay}
AllFiles == {board, overlay, readme}
NoFiles == {}

OwnNames == [f \in Files |-> IF f = board THEN "board.dts"
                             ELSE IF f = overlay THEN "overlay.dts" ELSE "README"]

\* Files of two directories that have the same name.
SameNames == [f \in Files |-> IF f = readme THEN "README" ELSE "board.dts"]

NothingUnmappable == {}
FirstSaveUnmappable == {[file |-> board, version |-> 1]}

=============================================================================
