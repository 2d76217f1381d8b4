------------------------------ MODULE DriveState -----------------------------
(***************************************************************************)
(* The state of one drive on one replicator, and the operations on it that *)
(* its tasks share: DriveParams, DriveTaskBase, UpdateDriveTaskBase and    *)
(* ModifyOpinionController.                                                *)
(*                                                                         *)
(* Modifications are numbered in the order in which the client's           *)
(* transactions enter the chain; 0 is the zero hash ("no modification").   *)
(* A root hash stands for the contents of the drive: it is the set of      *)
(* modifications whose actions the file tree contains.  The upload table   *)
(* of an opinion is abstracted to its modification and its sum.            *)
(***************************************************************************)
EXTENDS Integers, Sequences, FiniteSets

CONSTANTS
    MaxMods,    \* how many modifications the client ever requests
    Size,       \* m_maxDataSize of every modification
    Outcome     \* where executing a modification fails, "ok" if it does not

Mods == 1..MaxMods

\* A modification, or the zero hash.
ModOrZero == 0..MaxMods

\* An absent verification request (a verification may name the zero hash).
NoVerification == -1

\* The statuses of ModificationStatus: SUCCESS, DOWNLOAD_FAILED on the action
\* list or on a file of it, and NOT_ENOUGH_SPACE.
Outcomes == {"ok", "list", "files", "space"}

ASSUME DriveAssumption ==
    /\ MaxMods \in Nat
    /\ Size \in [Mods -> Nat \ {0}]
    /\ Outcome \in [Mods -> Outcomes]

Roots == SUBSET Mods

\* The root hash after modification m was executed on a tree with root r: a
\* failed modification leaves the tree as it is (modifyIsCompletedWithError).
Execute(r, m) == IF Outcome[m] = "ok" THEN r \cup {m} ELSE r

\* Where a queue of modifications contains m, 0 if it does not.
Position(s, m) ==
    IF \E i \in DOMAIN s : s[i] = m THEN CHOOSE i \in DOMAIN s : s[i] = m ELSE 0

\* The queue without m.
Without(s, m) ==
    LET p == Position(s, m)
    IN  IF p = 0 THEN s ELSE SubSeq(s, 1, p - 1) \o SubSeq(s, p + 1, Len(s))

------------------------------------------------------------------------------
(* Tasks.  `step' names the callback the task is waiting for:
     load                          InitializeDriveTask::initialize
     list, prep, files, sandbox    ModifyDriveTask up to the sandbox tree
     tree, unused, files, sandbox  SynchronizationTaskBase up to the sandbox tree
     copy                          the unchanged tree is copied after an error
     saveNot, saveOpinion          notApprovedCumulativeUploads and myOpinion are saved
     wait                          the opinion is shared, the approval awaited
     sync, syncLast                the sandbox tree replaces the tree of the drive
     saveUploads, saveLast         approvedCumulativeUploads and approvedModification are saved
     disapprove, clear             CancelModificationDriveTask
     remove                        CloseDriveDriveTask
     finish                        the sandbox is cleared, runNextTask is next  *)
Kinds == {"none", "init", "modify", "catchup", "cancel", "close"}

Steps == {"idle", "load", "list", "prep", "files", "sandbox", "tree", "unused",
          "copy", "saveNot", "saveOpinion", "wait", "sync", "syncLast",
          "saveUploads", "saveLast", "disapprove", "clear", "remove", "finish"}

Tasks == [kind        : Kinds,
          mod         : ModOrZero,    \* getModificationTransactionHash()
          step        : Steps,
          root        : Roots,        \* m_sandboxRootHash
          interrupted : BOOLEAN,      \* m_taskIsInterrupted
          approved    : BOOLEAN,      \* m_modifyApproveTxReceived
          calculated  : BOOLEAN,      \* m_sandboxCalculated
          listed      : BOOLEAN,      \* m_actionListIsReceived or m_status # SUCCESS
          cancels     : SUBSET Mods]  \* m_cancelRequests, m_completedModifications

NewTask(kind, mod, step) ==
    [kind |-> kind, mod |-> mod, step |-> step, root |-> {},
     interrupted |-> FALSE, approved |-> FALSE, calculated |-> FALSE,
     listed |-> FALSE, cancels |-> {}]

NoTask == NewTask("none", 0, "idle")

\* m_downloadingLtHandle is set exactly in these steps.
Downloading == {"list", "files", "tree"}

\* From here on the task replaces files of the drive by those of the sandbox.
Synchronizing == {"sync", "syncLast", "saveUploads", "saveLast"}

\* The session thread's view of the drive: DefaultFlatDrive and DriveParams.
Drives == [task       : Tasks,               \* m_task
           deferred   : Seq(Mods),           \* m_deferredModificationRequests
           catchReq   : ModOrZero,           \* m_catchingUpRequest
           cancelReq  : ModOrZero,           \* m_modificationCancelRequest
           closeReq   : BOOLEAN,             \* m_closeDriveRequest
           verifyReq  : ModOrZero \cup {NoVerification}, \* m_deferredVerificationRequest
           verifyTask : ModOrZero \cup {NoVerification}, \* m_verificationTask
           root       : Roots,               \* m_rootHash and m_fsTree
           last       : ModOrZero]           \* m_lastApprovedModification

\* A drive just created by asyncAddDrive; `cancelled' are the modifications
\* the chain lists as completed with the status CANCELLED.
NewDrive(cancelled) ==
    [task |-> [NewTask("init", 0, "load") EXCEPT !.cancels = cancelled],
     deferred |-> <<>>, catchReq |-> 0, cancelReq |-> 0, closeReq |-> FALSE,
     verifyReq |-> NoVerification, verifyTask |-> NoVerification,
     root |-> {}, last |-> 0]

------------------------------------------------------------------------------
(* DriveTaskBase and UpdateDriveTaskBase *)

FinishTask(d) == [d EXCEPT !.task.step = "finish"]

\* A mutant: a modification that waits for its approval is not ended.
TryBreakTaskWaits(d) == d

\* tryBreakTask: only a modification that waits for its approval ends at
\* once, every other task runs to its next check of m_taskIsInterrupted.
TryBreakTask(d) ==
    IF d.task.kind = "modify" /\ d.task.calculated /\ ~d.task.approved
    THEN FinishTask(d)
    ELSE d

\* breakTorrentDownloadAndRunNextTask
BreakTask(d) ==
    LET i == [d EXCEPT !.task.interrupted = TRUE]
    IN  IF d.task.step \in Downloading THEN FinishTask(i) ELSE TryBreakTask(i)

------------------------------------------------------------------------------
(* ModifyOpinionController: how many bytes were uploaded to this drive in   *)
(* all, according to the approved modifications and to the current one.     *)

Uploads == [id : ModOrZero, sum : Nat]

Accounts == [expected    : Nat,       \* m_approvedExpectedCumulativeDownload
             approved    : Uploads,   \* m_approvedCumulativeUploads
             notApproved : Uploads]   \* m_notApprovedCumulativeUploads

NoUploads == [id |-> 0, sum |-> 0]

\* The sizes of a sequence of modifications.
TotalSize(s) ==
    LET total[i \in 0..Len(s)] == IF i = 0 THEN 0 ELSE total[i - 1] + Size[s[i]]
    IN  total[Len(s)]

\* increaseApprovedExpectedCumulativeDownload
IncreaseExpected(a, add) == [a EXCEPT !.expected = @ + add]

\* A mutant: uploads that were not approved yet keep their modification.
UpdateUploadsKeepsId(a, m, add) ==
    [a EXCEPT !.notApproved = [id  |-> IF @ = a.approved THEN m ELSE @.id,
                               sum |-> a.expected + add]]

\* updateCumulativeUploads: normalizeUploads spreads the difference between
\* the expected and the accounted sum over the uploaders, so that the new sum
\* is the expected one.
UpdateUploads(a, m, add) ==
    [a EXCEPT !.notApproved = [id |-> m, sum |-> a.expected + add]]

\* approveCumulativeUploads
ApproveUploads(a) ==
    [a EXCEPT !.approved = a.notApproved,
              !.expected = IF @ > a.notApproved.sum THEN @ ELSE a.notApproved.sum]

\* disapproveCumulativeUploads
DisapproveUploads(a) == [a EXCEPT !.notApproved = a.approved]

==============================================================================
