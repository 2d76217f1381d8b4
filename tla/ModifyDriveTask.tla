---------------------------- MODULE ModifyDriveTask --------------------------
(***************************************************************************)
(* ModifyDriveTask (with ModifyApprovalTaskBase): a modification of the    *)
(* client is executed in the sandbox, and replaces the drive once the      *)
(* chain approved it.  How the replicators come to send the approval is    *)
(* the module ModifyApproval; here the approval comes from the chain.      *)
(***************************************************************************)
EXTENDS UpdateDriveTask

Modification == drive.task.mod

\* modifyIsCompletedWithError: the result will be the current tree.
CompletedWithError(d) ==
    [d EXCEPT !.task.step = "copy", !.task.listed = TRUE]

\* run, when the download of the action list ends.
ActionListDownloaded ==
    /\ At({"modify"}, "list")
    /\ drive' = IF Outcome[Modification] = "list"
                THEN CompletedWithError(drive)
                ELSE [drive EXCEPT !.task.step = "prep", !.task.listed = TRUE]
    /\ UNCHANGED <<environment, acct, disk, sent>>

\* prepareDownloadMissingFiles and downloadMissingFiles: either some file is
\* missing, or the tree is modified at once.
PrepareDownloadMissingFiles ==
    /\ At({"modify"}, "prep")
    /\ \/ drive' = [drive EXCEPT !.task.step = "files"]
       \/ /\ Outcome[Modification] # "files"
          /\ drive' = [drive EXCEPT !.task.step = "sandbox"]
    /\ UNCHANGED <<environment, acct, disk, sent>>

\* The last missing file is there, or a download failed.
MissingFilesDownloaded ==
    /\ At({"modify"}, "files")
    /\ drive' = IF Outcome[Modification] = "files"
                THEN CompletedWithError(drive)
                ELSE [drive EXCEPT !.task.step = "sandbox"]
    /\ UNCHANGED <<environment, acct, disk, sent>>

\* modifyFsTreeInSandbox: the actions are applied to a copy of the tree.
ModifyFsTreeInSandbox ==
    /\ At({"modify"}, "sandbox")
    /\ IF Outcome[Modification] = "space"
       THEN /\ drive' = CompletedWithError(drive)
            /\ UNCHANGED acct
       ELSE MyRootHashIsCalculated(drive.root \cup {Modification}, Size[Modification])
    /\ UNCHANGED <<environment, disk, sent>>

\* modifyIsCompletedWithError, when the current tree was copied.
CopyFsTreeAfterError ==
    /\ At({"modify"}, "copy")
    /\ MyRootHashIsCalculated(drive.root, Size[Modification])
    /\ UNCHANGED <<environment, disk, sent>>

\* A mutant: the task does not wait for the approval.
MyOpinionIsCreatedAndApplied ==
    /\ At({"modify"}, "saveOpinion")
    /\ disk' = [disk EXCEPT !.opinion = acct.notApproved]
    /\ IF drive.task.interrupted
       THEN /\ drive' = FinishTask(drive)
            /\ UNCHANGED sent
       ELSE /\ drive' = [drive EXCEPT !.task.calculated = TRUE, !.task.step = "sync"]
            /\ sent' = sent \cup {acct.notApproved}
    /\ UNCHANGED <<environment, acct>>

\* The opinion is saved; myOpinionIsCreated hands it on as a single approval
\* if the chain was faster, else shares it and waits.
MyOpinionIsCreated ==
    /\ At({"modify"}, "saveOpinion")
    /\ disk' = [disk EXCEPT !.opinion = acct.notApproved]
    /\ IF drive.task.interrupted
       THEN /\ drive' = FinishTask(drive)
            /\ UNCHANGED sent
       ELSE /\ drive' = [drive EXCEPT !.task.calculated = TRUE,
                                      !.task.step = IF drive.task.approved
                                                    THEN "sync" ELSE "wait"]
            /\ sent' = sent \cup {acct.notApproved}
    /\ UNCHANGED <<environment, acct>>

\* startSynchronizingDriveWithSandbox and continueSynchronizing...: the tree
\* of the sandbox is moved to the drive and the unused files are removed.
SynchronizeDriveWithSandbox ==
    /\ At({"modify"}, "sync")
    /\ disk' = [disk EXCEPT !.root = drive.task.root]
    /\ SynchronizationIsCompleted
    /\ UNCHANGED <<environment, sent>>

------------------------------------------------------------------------------
(* Callbacks from the drive.  For an approval of tx:                        *)

\* The approval is for this task, and the task will end with it.
ApprovesTask(t, tx) == t.mod = tx /\ t.listed

\* A mutant: an approval that comes before the sandbox is calculated is lost.
ModifyOnApprovalForgets(d, tx) ==
    IF d.task.interrupted THEN d
    ELSE IF ApprovesTask(d.task, tx)
         THEN IF d.task.calculated
              THEN [d EXCEPT !.task.approved = TRUE, !.task.step = "sync"]
              ELSE d
         ELSE BreakTask([d EXCEPT !.task.approved = TRUE])

\* onApprovalTxPublished, the task's part of it.  Its own approval is only
\* noted while the sandbox is not calculated; the approval of another
\* modification interrupts the task.
ModifyOnApproval(d, tx) ==
    LET a == [d EXCEPT !.task.approved = TRUE]
    IN  IF d.task.interrupted THEN d
        ELSE IF ApprovesTask(d.task, tx)
             THEN IF d.task.calculated THEN [a EXCEPT !.task.step = "sync"] ELSE a
             ELSE BreakTask(a)

\* The returned value: should 'CatchingUp' be started?
ModifyStartsCatchUp(d, tx) == d.task.interrupted \/ ~ApprovesTask(d.task, tx)

\* A task that gives way to another approval expects its own size as approved.
ModifyOnApprovalAccount(d, a, tx) ==
    IF ~d.task.interrupted /\ ~ApprovesTask(d.task, tx)
    THEN IncreaseExpected(a, Size[d.task.mod])
    ELSE a

\* shouldCancelModify
ModifyShouldCancel(d, tx) == ~d.task.interrupted /\ d.task.mod = tx

==============================================================================
