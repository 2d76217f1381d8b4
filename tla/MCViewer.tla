------------------------------- MODULE MCViewer ------------------------------
(***************************************************************************)
(* Instances of Viewer for TLC.                                            *)
(***************************************************************************)
EXTENDS Viewer

CONSTANTS r1, r2, r3, r4

==============================================================================
