-------------------------- MODULE SynchronizationTask ------------------------
(***************************************************************************)
(* CatchingUpTask (with SynchronizationTaskBase): a drive that missed an   *)
(* approval downloads the approved tree and its files from the other       *)
(* replicators.                                                            *)
(***************************************************************************)
EXTENDS UpdateDriveTask

\* The root hash the chain approved with the modification of the task.
ApprovedRoot == chain.rootAt[drive.task.mod]

\* run: nothing is to be done if the modification is already the last
\* approved one, nothing is to be downloaded if the root is the same.
CatchUpStep(d, tx, root) ==
    IF d.last = tx THEN "finish" ELSE IF d.root = root THEN "sandbox" ELSE "tree"

\* The download of the file tree ends.
FsTreeDownloaded ==
    /\ At({"catchup"}, "tree")
    /\ drive' = [drive EXCEPT !.task.step = "unused"]
    /\ UNCHANGED <<environment, acct, disk, sent>>

\* createUnusedFileList and removeUnusedFiles; then the missing files are
\* downloaded, if there are any.
RemoveUnusedFiles ==
    /\ At({"catchup"}, "unused")
    /\ IF drive.task.interrupted
       THEN drive' = FinishTask(drive)
       ELSE \E s \in {"files", "sandbox"} : drive' = [drive EXCEPT !.task.step = s]
    /\ UNCHANGED <<environment, acct, disk, sent>>

\* downloadMissingFiles, when the last file is there.
CatchUpFilesDownloaded ==
    /\ At({"catchup"}, "files")
    /\ drive' = [drive EXCEPT !.task.step = "sandbox"]
    /\ UNCHANGED <<environment, acct, disk, sent>>

\* modifyDriveInSandbox: the approved size is already expected.
ModifyDriveInSandbox ==
    /\ At({"catchup"}, "sandbox")
    /\ MyRootHashIsCalculated(ApprovedRoot, 0)
    /\ UNCHANGED <<environment, disk, sent>>

\* myOpinionIsCreated: the single approval is sent even by an interrupted task.
CatchUpOpinionIsCreated ==
    /\ At({"catchup"}, "saveOpinion")
    /\ disk' = [disk EXCEPT !.opinion = acct.notApproved]
    /\ sent' = sent \cup {acct.notApproved}
    /\ drive' = IF drive.task.interrupted
                THEN FinishTask(drive)
                ELSE [drive EXCEPT !.task.calculated = TRUE, !.task.step = "sync"]
    /\ UNCHANGED <<environment, acct>>

\* A mutant: the modification is saved before the tree is moved.
CatchUpSavesLastFirst ==
    /\ At({"catchup"}, "sync")
    /\ disk' = [disk EXCEPT !.last = drive.task.mod]
    /\ drive' = [drive EXCEPT !.task.step = "syncLast"]
    /\ UNCHANGED <<environment, acct, sent>>

\* continueSynchronizingDriveWithSandbox moves the tree ...
CatchUpMoveFsTree ==
    /\ At({"catchup"}, "sync")
    /\ disk' = [disk EXCEPT !.root = drive.task.root]
    /\ drive' = [drive EXCEPT !.task.step = "syncLast"]
    /\ UNCHANGED <<environment, acct, sent>>

\* ... and saves the modification, before approveCumulativeUploads does.
CatchUpSaveLast ==
    /\ At({"catchup"}, "syncLast")
    /\ disk' = [disk EXCEPT !.last = drive.task.mod]
    /\ SynchronizationIsCompleted
    /\ UNCHANGED <<environment, sent>>

\* onApprovalTxPublished; the returned value is always true.
CatchUpOnApproval(d) == IF d.task.interrupted THEN d ELSE BreakTask(d)

\* shouldCancelModify
CatchUpShouldCancel(a, tx) == tx = a.notApproved.id

==============================================================================
