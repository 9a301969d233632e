----------------------- MODULE MCDoubleClickStrategy -----------------------
(***************************************************************************)
(* Every document up to the bound, every place for the caret.              *)
(***************************************************************************)
EXTENDS DoubleClickStrategy

=============================================================================
