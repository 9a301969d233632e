-------------------------- MODULE MCDeviceTreeView --------------------------
(***************************************************************************)
(* Small workspaces for the Device Tree view: two device tree files of the *)
(* workspace, one outside it, and a file that another editor opens.        *)
(***************************************************************************)
EXTENDS DeviceTreeView

CONSTANTS board, overlay, outside, readme

BoardOnly == {board}
TwoTrees == {board, overlay}
AllFiles == {board, overlay, readme}
TreeAndReadme == {board, readme}
NoFiles == {}
AllTrees == {board, overlay, outside}
Outside == {outside}

\* Every file has a name of its own.
OwnNames == [f \in Files |-> IF f = board THEN "board.dts"
                             ELSE IF f = overlay THEN "overlay.dts"
                             ELSE IF f = outside THEN "outside.dts" ELSE "README"]

\* Files of two directories that have the same name.
SameNames == [f \in Files |-> IF f = readme THEN "README" ELSE "board.dts"]

NothingMalformed == {}
FirstSaveMalformed == {[file |-> board, version |-> 1]}

=============================================================================
