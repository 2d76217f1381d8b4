---------------------------- MODULE MCModifyApproval -------------------------
(***************************************************************************)
(* Instances of ModifyApproval for TLC.                                    *)
(***************************************************************************)
EXTENDS ModifyApproval

CONSTANTS r1, r2, r3, r4

==============================================================================
