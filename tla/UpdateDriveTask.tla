---------------------------- MODULE UpdateDriveTask --------------------------
(***************************************************************************)
(* The variables of the drive model, and the steps that every task which   *)
(* changes the drive has in common (UpdateDriveTaskBase).                  *)
(*                                                                         *)
(* A step of a task is a job on the background thread together with the    *)
(* callback it posts to the session thread: the job of a step touches only *)
(* files nobody else reads before that callback.  Where a job writes two   *)
(* things a restart reads, it is two steps, so that a crash can come       *)
(* between them.                                                           *)
(***************************************************************************)
EXTENDS DriveState

VARIABLES
    chain,      \* the chain's view of the drive
    inbox,      \* chain events posted to the session thread, in order
    up,         \* "up", "down" after a crash, "closed" after finishDriveClosure
    drive,      \* the drive in the memory of the replicator
    acct,       \* its ModifyOpinionController
    disk,       \* the files of the drive that a restart reads
    sent,       \* the opinions handed to the other replicators or to the chain
    crashes     \* how often the process died

vars == <<chain, inbox, up, drive, acct, disk, sent, crashes>>

environment == <<chain, inbox, up, crashes>>

\* The files a restart reads: the file tree, and the named restart values
\* (each save is atomic, see RestartValue).
Disks == [root        : Roots,      \* fs_tree/FsTree.bin
          last        : ModOrZero,  \* "approvedModification"
          approved    : Uploads,    \* "approvedCumulativeUploads"
          notApproved : Uploads,    \* "notApprovedCumulativeUploads"
          opinion     : Uploads]    \* "myOpinion"

\* The running task is of one of the kinds and waits for step s.
At(kinds, s) == up = "up" /\ drive.task.kind \in kinds /\ drive.task.step = s

Updating == {"modify", "catchup"}

\* myRootHashIsCalculated, for a sandbox tree with root r and a modification
\* whose size the chain does not expect yet (add).
MyRootHashIsCalculated(r, add) ==
    IF drive.task.interrupted
    THEN /\ drive' = FinishTask(drive)
         /\ UNCHANGED acct
    ELSE /\ drive' = [drive EXCEPT !.task.root = r, !.task.step = "saveNot"]
         /\ acct' = UpdateUploads(acct, drive.task.mod, add)

\* The upload table is saved; onCumulativeUploadsUpdated makes the opinion.
SaveNotApproved ==
    /\ At(Updating, "saveNot")
    /\ disk' = [disk EXCEPT !.notApproved = acct.notApproved]
    /\ drive' = IF drive.task.interrupted
                THEN FinishTask(drive)
                ELSE [drive EXCEPT !.task.step = "saveOpinion"]
    /\ UNCHANGED <<environment, acct, sent>>

\* synchronizationIsCompleted
SynchronizationIsCompleted ==
    /\ acct' = ApproveUploads(acct)
    /\ drive' = [drive EXCEPT !.task.step = "saveUploads"]

\* approveCumulativeUploads saves the approved table first ...
SaveApprovedUploads ==
    /\ At(Updating, "saveUploads")
    /\ disk' = [disk EXCEPT !.approved = acct.approved]
    /\ drive' = [drive EXCEPT !.task.step = "saveLast"]
    /\ UNCHANGED <<environment, acct, sent>>

\* A mutant: the root of the drive is not replaced.
SaveLastKeepsRoot ==
    /\ At(Updating, "saveLast")
    /\ disk' = [disk EXCEPT !.last = drive.task.mod]
    /\ drive' = FinishTask([drive EXCEPT !.last = drive.task.mod])
    /\ UNCHANGED <<environment, acct, sent>>

\* ... then the approved modification; modifyIsCompleted makes the sandbox
\* tree the tree of the drive.
SaveLastApproved ==
    /\ At(Updating, "saveLast")
    /\ disk' = [disk EXCEPT !.last = drive.task.mod]
    /\ drive' = FinishTask([drive EXCEPT !.root = drive.task.root,
                                         !.last = drive.task.mod])
    /\ UNCHANGED <<environment, acct, sent>>

==============================================================================
