--------------------------- MODULE MCSampleRunner ---------------------------
(***************************************************************************)
(* Two samples of every kind, and enough runs for one to meet what another *)
(* one left.                                                               *)
(***************************************************************************)
EXTENDS SampleRunner

TwoSamples == {"board", "overlay"}

=============================================================================
