-------------------------- MODULE MCDownloadApproval -------------------------
(***************************************************************************)
(* Instances of DownloadApproval for TLC.                                  *)
(***************************************************************************)
EXTENDS DownloadApproval

CONSTANTS r1, r2, r3

==============================================================================
