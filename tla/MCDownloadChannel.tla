-------------------------- MODULE MCDownloadChannel --------------------------
(***************************************************************************)
(* Instances of DownloadChannel for TLC.                                   *)
(***************************************************************************)
EXTENDS DownloadChannel

CONSTANTS r1, r2, c1

==============================================================================
