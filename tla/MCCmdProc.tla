------------------------------ MODULE MCCmdProc ------------------------------
(***************************************************************************)
(* Children that write nothing, less than a pipe holds, exactly as much,   *)
(* and more, to either stream.                                             *)
(***************************************************************************)
EXTENDS CmdProc

=============================================================================
