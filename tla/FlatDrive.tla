------------------------------- MODULE FlatDrive -----------------------------
(***************************************************************************)
(* DefaultFlatDrive: the scheduler of one drive of one replicator, the     *)
(* chain whose events it handles, and crashes and restarts of the          *)
(* replicator.  The other replicators of the drive appear through the      *)
(* chain: they may approve the next modification at any moment, before or  *)
(* after this replicator has executed it.                                  *)
(***************************************************************************)
EXTENDS ModifyDriveTask, SynchronizationTask

CONSTANTS
    MaxCancels,     \* bound on the modifications the client cancels
    MaxVerify,      \* bound on the verifications the chain starts
    MaxCrashes,     \* bound on the crashes of the replicator
    MayClose        \* may the chain close the drive?

ASSUME BoundAssumption ==
    /\ MaxCancels \in Nat /\ MaxVerify \in Nat /\ MaxCrashes \in Nat
    /\ MayClose \in BOOLEAN

------------------------------------------------------------------------------
(* The chain.  Only the oldest pending modification can be approved, and an *)
(* approved modification can no longer be cancelled.                        *)

Chains == [issued    : ModOrZero,                 \* the newest modification
           pending   : Seq(Mods),                 \* neither approved nor cancelled
           last      : ModOrZero,                 \* the last approved one
           rootAt    : [ModOrZero -> Roots],      \* approved root hashes
           sizeAt    : [ModOrZero -> Nat],        \* approved cumulative sizes
           cancelled : SUBSET Mods,
           verifies  : 0..MaxVerify,              \* verifications started
           verifying : ModOrZero \cup {NoVerification}, \* the pending one
           closed    : BOOLEAN]

NewChain == [issued |-> 0, pending |-> <<>>, last |-> 0,
             rootAt |-> [m \in ModOrZero |-> {}], sizeAt |-> [m \in ModOrZero |-> 0],
             cancelled |-> {}, verifies |-> 0, verifying |-> NoVerification,
             closed |-> FALSE]

Events == [type : {"modify", "approve", "cancel", "close", "verify", "verified"},
           mod  : ModOrZero]

IsApproved(m) == m \in 1..chain.last /\ m \notin chain.cancelled

\* What is posted reaches the session thread only while the process runs.
Post(type, m) ==
    inbox' = IF up = "up" THEN Append(inbox, [type |-> type, mod |-> m]) ELSE inbox

replicator == <<up, drive, acct, disk, sent, crashes>>

\* The client requests a modification.
ChainModify ==
    /\ ~chain.closed
    /\ chain.issued < MaxMods
    /\ LET m == chain.issued + 1
       IN  /\ chain' = [chain EXCEPT !.issued = m, !.pending = Append(@, m)]
           /\ Post("modify", m)
    /\ UNCHANGED replicator

\* The oldest pending modification is approved: more than two thirds of the
\* replicators have executed it on the last approved tree.
ChainApprove ==
    /\ ~chain.closed
    /\ chain.pending # <<>>
    /\ LET m == Head(chain.pending)
       IN  /\ chain' = [chain EXCEPT
                 !.pending = Tail(@),
                 !.last = m,
                 !.rootAt[m] = Execute(chain.rootAt[chain.last], m),
                 !.sizeAt[m] = chain.sizeAt[chain.last] + Size[m]]
           /\ Post("approve", m)
    /\ UNCHANGED replicator

\* The client cancels a pending modification.
ChainCancel(m) ==
    /\ ~chain.closed
    /\ Cardinality(chain.cancelled) < MaxCancels
    /\ \E i \in DOMAIN chain.pending : chain.pending[i] = m
    /\ chain' = [chain EXCEPT !.pending = Without(@, m), !.cancelled = @ \cup {m}]
    /\ Post("cancel", m)
    /\ UNCHANGED replicator

\* The drive is closed; the chain says no more about it.
ChainClose ==
    /\ MayClose
    /\ ~chain.closed
    /\ chain' = [chain EXCEPT !.closed = TRUE]
    /\ Post("close", 0)
    /\ UNCHANGED replicator

\* A verification of the last approved tree starts.
ChainVerify ==
    /\ ~chain.closed
    /\ chain.verifies < MaxVerify
    /\ chain.verifying = NoVerification
    /\ chain' = [chain EXCEPT !.verifies = @ + 1, !.verifying = chain.last]
    /\ Post("verify", chain.last)
    /\ UNCHANGED replicator

\* The pending verification is approved, or expires.
ChainVerified ==
    /\ ~chain.closed
    /\ chain.verifying # NoVerification
    /\ chain' = [chain EXCEPT !.verifying = NoVerification]
    /\ Post("verified", 0)
    /\ UNCHANGED replicator

------------------------------------------------------------------------------
(* The process starts and ends *)

EmptyDisk == [root |-> {}, last |-> 0, approved |-> NoUploads,
              notApproved |-> NoUploads, opinion |-> NoUploads]

NewAccount(expected) == [expected |-> expected, approved |-> NoUploads,
                         notApproved |-> NoUploads]

\* The process ends, and with it what it had in memory.
Die == /\ up' = "down"
       /\ inbox' = <<>>
       /\ drive' = NewDrive({})
       /\ acct' = NewAccount(0)

------------------------------------------------------------------------------
(* The task scheduler *)

\* runVerificationTask
RunVerificationTask(d) ==
    [d EXCEPT !.verifyTask = d.verifyReq, !.verifyReq = NoVerification]

\* A mutant: a running verification is not terminated.
CancelVerificationKeepsTask(d) == [d EXCEPT !.verifyReq = NoVerification]

\* cancelVerification
CancelVerification(d) ==
    [d EXCEPT !.verifyReq = NoVerification, !.verifyTask = NoVerification]

\* A mutant: the modification to catch up with stays in the queue.
SkippedOffByOne(d) == SubSeq(d.deferred, 1, Position(d.deferred, d.catchReq) - 1)

\* runCatchingUpTask drops the deferred modifications up to the one to catch up.
Skipped(d) == SubSeq(d.deferred, 1, Position(d.deferred, d.catchReq))

\* runDeferredModificationTask
RunModificationTask(d) ==
    [d EXCEPT !.task = NewTask("modify", Head(d.deferred), "list"),
              !.deferred = Tail(@)]

\* runCatchingUpTask and the synchronous part of CatchingUpTask::run.
RunCatchingUpTask(d) ==
    [d EXCEPT !.deferred = SubSeq(@, Len(Skipped(d)) + 1, Len(@)),
              !.task = NewTask("catchup", d.catchReq,
                               CatchUpStep(d, d.catchReq, chain.rootAt[d.catchReq])),
              !.catchReq = 0]

\* runCancelModificationTask
RunCancelModificationTask(d) ==
    [d EXCEPT !.task = NewTask("cancel", d.cancelReq, "disapprove"),
              !.cancelReq = 0]

\* runCloseDriveTask
RunCloseDriveTask(d) ==
    [d EXCEPT !.task = NewTask("close", 0, "remove"), !.closeReq = FALSE]

\* A mutant: the deferred modifications go before the catch-up.
RunNextTaskModifiesFirst(d) ==
    LET n == [d EXCEPT !.task = NoTask]
        v == IF n.verifyReq # NoVerification /\ n.last = n.verifyReq
             THEN RunVerificationTask(n) ELSE n
    IN  CASE n.closeReq -> RunCloseDriveTask(n)
          [] ~n.closeReq /\ n.cancelReq # 0 -> RunCancelModificationTask(v)
          [] ~n.closeReq /\ n.cancelReq = 0 /\ n.deferred # <<>> ->
                RunModificationTask(v)
          [] ~n.closeReq /\ n.cancelReq = 0 /\ n.deferred = <<>> /\ n.catchReq # 0 ->
                RunCatchingUpTask(v)
          [] OTHER -> v

\* runNextTask.  A verification does not keep another task from starting.
RunNextTask(d) ==
    LET n == [d EXCEPT !.task = NoTask]
        v == IF n.verifyReq # NoVerification /\ n.last = n.verifyReq
             THEN RunVerificationTask(n) ELSE n
    IN  CASE n.closeReq -> RunCloseDriveTask(n)
          [] ~n.closeReq /\ n.cancelReq # 0 -> RunCancelModificationTask(v)
          [] ~n.closeReq /\ n.cancelReq = 0 /\ n.catchReq # 0 -> RunCatchingUpTask(v)
          [] ~n.closeReq /\ n.cancelReq = 0 /\ n.catchReq = 0 /\ n.deferred # <<>> ->
                RunModificationTask(v)
          [] OTHER -> v

\* A mutant: the sizes of the dropped requests are not expected.
RunNextAccountSkipsSizes(d, a) ==
    IF ~d.closeReq /\ d.cancelReq # 0 THEN DisapproveUploads(a) ELSE a

\* What runNextTask does to the accounts: the sizes of the dropped requests
\* are expected, a cancelled modification is disapproved.
RunNextAccount(d, a) ==
    IF d.closeReq THEN a
    ELSE IF d.cancelReq # 0 THEN DisapproveUploads(a)
    ELSE IF d.catchReq # 0 THEN IncreaseExpected(a, TotalSize(Skipped(d)))
    ELSE a

HasTask(d) == d.task.kind # "none"

\* A handler left the drive in state d and the accounts in state a, and then
\* calls runNextTask if no task is running.
ThenRunIfIdle(d, a) ==
    IF HasTask(d)
    THEN drive' = d /\ acct' = a
    ELSE drive' = RunNextTask(d) /\ acct' = RunNextAccount(d, a)

\* The sandbox was cleared after finishTask: the next task runs.
FinishAndRunNextTask ==
    /\ At(Kinds, "finish")
    /\ drive' = RunNextTask(drive)
    /\ acct' = RunNextAccount(drive, acct)
    /\ UNCHANGED <<environment, disk, sent>>

------------------------------------------------------------------------------
(* Events of the chain, in the order in which they were posted *)

\* The session thread takes the next event.
Take(type) ==
    /\ up = "up"
    /\ inbox # <<>>
    /\ Head(inbox).type = type
    /\ inbox' = Tail(inbox)
    /\ UNCHANGED <<chain, up, disk, crashes>>

\* startModifyDrive
OnModify ==
    /\ Take("modify")
    /\ ThenRunIfIdle([drive EXCEPT !.deferred = Append(@, Head(inbox).mod)], acct)
    /\ UNCHANGED sent

\* m_task->onApprovalTxPublished: DriveTaskBase ignores the approval.
TaskOnApproval(d, tx) ==
    CASE d.task.kind = "modify"  -> ModifyOnApproval(d, tx)
      [] d.task.kind = "catchup" -> CatchUpOnApproval(d)
      [] OTHER                   -> d

\* Its returned value: should 'CatchingUp' be started?
TaskStartsCatchUp(d, tx) ==
    CASE d.task.kind = "modify" -> ModifyStartsCatchUp(d, tx)
      [] OTHER                  -> d.task.kind \in {"catchup", "init"}

\* Does the task send its opinion with the approval (which lacks it)?
TaskSendsOpinion(d, tx) ==
    /\ d.task.kind = "modify"
    /\ ~d.task.interrupted /\ ApprovesTask(d.task, tx) /\ d.task.calculated

\* onApprovalTransactionHasBeenPublished; `mine' says whether the approval
\* carries the opinion of this replicator.
OnApproval ==
    /\ Take("approve")
    /\ LET tx == Head(inbox).mod
           c  == CancelVerification(drive)
           d  == IF HasTask(c) THEN TaskOnApproval(c, tx) ELSE c
           a  == IF drive.task.kind = "modify"
                 THEN ModifyOnApprovalAccount(drive, acct, tx) ELSE acct
       IN  /\ IF HasTask(drive) => TaskStartsCatchUp(drive, tx)
              THEN ThenRunIfIdle([d EXCEPT !.catchReq = tx], a)
              ELSE drive' = d /\ acct' = a
           /\ \E mine \in BOOLEAN :
                 sent' = IF TaskSendsOpinion(drive, tx) /\ ~mine
                         THEN sent \cup {acct.notApproved} ELSE sent

\* m_task->shouldCancelModify, the task's part of it: a task that is still
\* initialising keeps the request.
TaskOnCancel(d, tx) ==
    CASE d.task.kind = "modify" /\ ModifyShouldCancel(d, tx) -> BreakTask(d)
      [] d.task.kind = "init" /\ d.task.step = "load" ->
             [d EXCEPT !.task.cancels = @ \cup {tx}]
      [] OTHER -> d

\* Its returned value.
TaskShouldCancel(d, a, tx) ==
    CASE d.task.kind = "modify"  -> ModifyShouldCancel(d, tx)
      [] d.task.kind = "catchup" -> CatchUpShouldCancel(a, tx)
      [] d.task.kind = "init"    -> d.task.step # "load" /\ a.notApproved.id = tx
      [] OTHER                   -> FALSE

\* cancelModifyDrive
CancelModifyDrive(d, a, tx) ==
    LET t == TaskOnCancel(d, tx)
    IN  IF TaskShouldCancel(d, a, tx)
        THEN [t EXCEPT !.cancelReq = tx]
        ELSE [t EXCEPT !.deferred = Without(@, tx)]

\* The request that was moved to m_modificationCancelRequest is dereferenced
\* for every deferred request: a null pointer.
CancelDereferencesNull(d, a, tx) == TaskShouldCancel(d, a, tx) /\ d.deferred # <<>>

OnCancel ==
    LET tx == Head(inbox).mod
    IN  \/ /\ Take("cancel")
           /\ ~CancelDereferencesNull(drive, acct, tx)
           /\ drive' = CancelModifyDrive(drive, acct, tx)
           /\ UNCHANGED <<acct, sent>>
        \/ /\ up = "up" /\ inbox # <<>> /\ Head(inbox).type = "cancel"
           /\ CancelDereferencesNull(drive, acct, tx)
           /\ Die
           /\ UNCHANGED <<chain, disk, sent, crashes>>

\* startDriveClosing
OnClose ==
    /\ Take("close")
    /\ LET d == [CancelVerification(drive) EXCEPT !.closeReq = TRUE]
       IN  IF d.task.kind \in Updating /\ ~d.task.interrupted
           THEN drive' = BreakTask(d) /\ UNCHANGED acct
           ELSE ThenRunIfIdle(d, acct)
    /\ UNCHANGED sent

\* startVerification
OnVerify ==
    /\ Take("verify")
    /\ LET d == [drive EXCEPT !.verifyReq = Head(inbox).mod]
       IN  drive' = IF d.task.kind # "init" /\ d.last = d.verifyReq
                    THEN RunVerificationTask(d) ELSE d
    /\ UNCHANGED <<acct, sent>>

\* onVerifyApprovalTransactionHasBeenPublished, asyncCancelDriveVerification
OnVerified ==
    /\ Take("verified")
    /\ drive' = CancelVerification(drive)
    /\ UNCHANGED <<acct, sent>>

------------------------------------------------------------------------------
(* The remaining tasks *)

\* A mutant: the cancellations the chain lists are not looked at.
InitializedForgetsCancels(d, a) == FinishTask(d)

\* onInitialized replays the cancellation of the modification whose uploads
\* were not approved before the restart.
Initialized(d, a) ==
    IF a.notApproved.id \in d.task.cancels
    THEN FinishTask([d EXCEPT !.cancelReq = a.notApproved.id])
    ELSE FinishTask(d)

\* A mutant: where the two disagree, the modification of the saved uploads
\* replaces the saved approved modification.
InitializeDriveRepairs ==
    /\ At({"init"}, "load")
    /\ acct' = [acct EXCEPT !.approved = disk.approved,
                            !.notApproved = disk.notApproved]
    /\ disk' = [disk EXCEPT !.last = disk.approved.id]
    /\ drive' = Initialized([drive EXCEPT !.root = disk.root, !.last = disk'.last], acct')
    /\ sent' = IF disk.opinion = NoUploads THEN sent ELSE sent \cup {disk.opinion}
    /\ UNCHANGED environment

\* InitializeDriveTask: initialize reads the files, onInitialized sends the
\* saved opinion once more.
InitializeDrive ==
    /\ At({"init"}, "load")
    /\ sent' = IF disk.opinion = NoUploads THEN sent ELSE sent \cup {disk.opinion}
    /\ IF disk.notApproved.id \in drive.task.cancels /\ drive.deferred # <<>>
       THEN Die /\ UNCHANGED <<chain, crashes>>   \* cancelModifyDrive, see above
       ELSE /\ acct' = [acct EXCEPT !.approved = disk.approved,
                                    !.notApproved = disk.notApproved]
            /\ drive' = Initialized([drive EXCEPT !.root = disk.root, !.last = disk.last],
                                    acct')
            /\ UNCHANGED environment
    /\ UNCHANGED disk

\* CancelModificationDriveTask::run saves the disapproved uploads ...
SaveDisapproved ==
    /\ At({"cancel"}, "disapprove")
    /\ disk' = [disk EXCEPT !.notApproved = acct.notApproved]
    /\ drive' = [drive EXCEPT !.task.step = "clear"]
    /\ UNCHANGED <<environment, acct, sent>>

\* ... and removes the files that only the cancelled modification used.
ClearDrive ==
    /\ At({"cancel"}, "clear")
    /\ drive' = FinishTask(drive)
    /\ UNCHANGED <<environment, acct, disk, sent>>

\* CloseDriveDriveTask removes all data, finishDriveClosure forgets the drive.
RemoveAllDriveData ==
    /\ At({"close"}, "remove")
    /\ up' = "closed"
    /\ disk' = EmptyDisk
    /\ drive' = NewDrive({})
    /\ acct' = NewAccount(0)
    /\ inbox' = <<>>
    /\ UNCHANGED <<chain, sent, crashes>>

------------------------------------------------------------------------------
(* Crash and restart of the replicator.  The save of a restart value is one *)
(* step, so the process dies before or after it.  RestartValue shows that   *)
(* saveRestartData gives this, but for a value that an earlier crash left   *)
(* in its ".tmp" file only: a crash in the next save of that same value     *)
(* loses it, and such a pair of crashes is not among these.                 *)

Crash ==
    /\ up = "up"
    /\ crashes < MaxCrashes
    /\ crashes' = crashes + 1
    /\ Die
    /\ UNCHANGED <<chain, disk, sent>>

\* The drive is added with what the chain knows about it, then the last
\* approval, the pending verification and the pending modifications follow.
Restart ==
    /\ up = "down"
    /\ ~chain.closed
    /\ up' = "up"
    /\ drive' = NewDrive(chain.cancelled)
    /\ acct' = NewAccount(chain.sizeAt[chain.last])
    /\ LET approval == IF chain.last = 0 THEN <<>>
                       ELSE <<[type |-> "approve", mod |-> chain.last]>>
           verify   == IF chain.verifying = NoVerification THEN <<>>
                       ELSE <<[type |-> "verify", mod |-> chain.verifying]>>
       IN  inbox' = approval \o verify \o
                    [i \in DOMAIN chain.pending |->
                        [type |-> "modify", mod |-> chain.pending[i]]]
    /\ UNCHANGED <<chain, disk, sent, crashes>>

\* A drive that was closed meanwhile is not added, and its data is removed.
RemoveUnusedDrives ==
    /\ up = "down"
    /\ chain.closed
    /\ up' = "closed"
    /\ disk' = EmptyDisk
    /\ UNCHANGED <<chain, inbox, drive, acct, sent, crashes>>

------------------------------------------------------------------------------
Init == /\ chain = NewChain
        /\ inbox = <<>>
        /\ up = "up"
        /\ drive = NewDrive({})
        /\ acct = NewAccount(0)
        /\ disk = EmptyDisk
        /\ sent = {}
        /\ crashes = 0

ChainStep == \/ ChainModify \/ ChainApprove \/ ChainClose
             \/ \E m \in Mods : ChainCancel(m)
             \/ ChainVerify \/ ChainVerified

OnEvent == OnModify \/ OnApproval \/ OnCancel \/ OnClose \/ OnVerify \/ OnVerified

\* Downloads may never end: the client can be offline.
ClientDownload == ActionListDownloaded \/ MissingFilesDownloaded

\* The other replicators offer what was approved.
ReplicatorDownload == FsTreeDownloaded \/ CatchUpFilesDownloaded

\* Jobs of the background thread and their callbacks.
TaskStep == \/ InitializeDrive
            \/ PrepareDownloadMissingFiles \/ ModifyFsTreeInSandbox \/ CopyFsTreeAfterError
            \/ MyOpinionIsCreated \/ SynchronizeDriveWithSandbox
            \/ RemoveUnusedFiles \/ ModifyDriveInSandbox
            \/ CatchUpOpinionIsCreated \/ CatchUpMoveFsTree \/ CatchUpSaveLast
            \/ SaveNotApproved \/ SaveApprovedUploads \/ SaveLastApproved
            \/ SaveDisapproved \/ ClearDrive \/ RemoveAllDriveData
            \/ FinishAndRunNextTask

Next == ChainStep \/ OnEvent \/ ClientDownload \/ ReplicatorDownload \/ TaskStep
        \/ Crash \/ Restart \/ RemoveUnusedDrives

Spec == Init /\ [][Next]_vars

\* The session and the background thread run what is posted to them, a dead
\* process is started again, and data the chain approved can be downloaded.
Fairness == /\ WF_vars(OnEvent)
            /\ WF_vars(TaskStep)
            /\ WF_vars(ReplicatorDownload)
            /\ WF_vars(ClientDownload /\ IsApproved(drive.task.mod))
            /\ WF_vars(Restart \/ RemoveUnusedDrives)

FairSpec == Spec /\ Fairness

------------------------------------------------------------------------------
(* Properties *)

TypeOK == /\ chain \in Chains
          /\ inbox \in Seq(Events)
          /\ up \in {"up", "down", "closed"}
          /\ drive \in Drives
          /\ acct \in Accounts
          /\ disk \in Disks
          /\ sent \in SUBSET Uploads
          /\ crashes \in 0..MaxCrashes

Initialising == drive.task.kind = "init" /\ drive.task.step = "load"

Running == up = "up" /\ ~Initialising

\* Only a modification the chain approved ever becomes part of the drive: one
\* that is cancelled, or overtaken by the approval of another one, never gets
\* as far as startSynchronizingDriveWithSandbox, nor into the restart values.
AppliedIsApproved ==
    /\ up = "up" /\ drive.task.step \in Synchronizing => IsApproved(drive.task.mod)
    /\ drive.last # 0 => IsApproved(drive.last)
    /\ disk.last # 0 => IsApproved(disk.last)

\* No modification was cancelled.  After a cancellation the approval of another
\* modification can be lost (see EventuallySynchronized); if the process ended
\* in between, the drive executes the next modification on a tree that lacks
\* it, and its approval only logs the wrong root hash.
NothingCancelled == chain.cancelled = {}

\* As long as nothing is cancelled, the tree of the drive is at every moment a
\* tree the chain approved, and not older than the modification the drive
\* believes to be the last one: no stale sandbox ever gets into it, whenever
\* the process dies.
RootIsApproved ==
    NothingCancelled /\ Running =>
        \E m \in {0} \cup {n \in Mods : IsApproved(n)} :
            m >= drive.last /\ drive.root = chain.rootAt[m]

\* As long as nothing is cancelled, startSynchronizingDriveWithSandbox replaces
\* the drive only by the tree the chain approved for the modification of the
\* task: every task executes its modification on the tree of the one the chain
\* approved before it ("Invalid Sandbox Root Hash" is never logged).
SandboxIsApprovedTree ==
    NothingCancelled /\ Running /\ drive.task.step \in Synchronizing =>
        drive.task.root = chain.rootAt[drive.task.mod]

\* A modification is only executed if the drive does not have it yet, however
\* its request and the approval were interleaved with other tasks.
NoWorkIsRepeated ==
    Running /\ drive.task.kind = "modify" /\ drive.task.step # "finish" =>
        drive.task.mod > drive.last

\* The process has not ended yet: there was no crash, and no cancellation, which
\* may end it too (CancelDereferencesNull).
NeverRestarted == crashes = 0 /\ NothingCancelled

\* approveCumulativeUploads asserts that it approves the uploads of the
\* modification it is called for: whatever catch-ups, cancellations and crashes
\* came between the opinion and the approval.
ApprovesOwnUploads ==
    up = "up" /\ drive.task.step \in Synchronizing => acct.notApproved.id = drive.task.mod

\* updateCumulativeUploads asserts that something is expected, and at least what
\* is accounted for; the code subtracts one from the other without a sign.
\* This does not hold after a restart: saved uploads of a modification may
\* count another one twice that the chain counts once.
UploadsAreExpected ==
    /\ At({"modify"}, "sandbox") /\ ~drive.task.interrupted =>
           acct.expected + Size[drive.task.mod] >= acct.notApproved.sum
    /\ At({"catchup"}, "sandbox") /\ ~drive.task.interrupted =>
           acct.expected > 0 /\ acct.expected >= acct.notApproved.sum

\* It holds until the first crash or cancellation.
UploadsAreExpectedAtFirst == NeverRestarted => UploadsAreExpected

\* run asserts that a catch-up with nothing to do finds the root hash of the
\* chain.  This does not hold once a cancellation has made the drive execute a
\* modification on a tree that lacks an approved one (see NothingCancelled).
CatchUpFindsRoot ==
    up = "up" /\ drive.task.kind = "catchup" /\ drive.last = drive.task.mod =>
        drive.root = ApprovedRoot

\* shouldCancelModify asserts that the modification of the saved uploads is only
\* cancelled in a catch-up that has nothing to do ("After the initialization
\* we are running the task / Without actually need to catch up").  This does
\* not hold of every cancellation.
CancelMeetsIdleCatchUp ==
    up = "up" /\ drive.task.kind = "catchup" /\ acct.notApproved.id # 0 /\ inbox # <<>>
        /\ Head(inbox) = [type |-> "cancel", mod |-> acct.notApproved.id]
        => drive.last = drive.task.mod

\* What holds of the two: the first one as long as nothing is cancelled, and the
\* second one of the first modification that is cancelled.
CatchUpAssertionsAtFirst ==
    /\ NothingCancelled => CatchUpFindsRoot
    /\ chain.cancelled = {acct.notApproved.id} => CancelMeetsIdleCatchUp

Idle == up = "up" /\ ~HasTask(drive) /\ inbox = <<>>

\* A cancellation is never lost, whether it finds the modification queued,
\* running, initialising or finished before a restart: at rest nothing of it
\* is left in the accounts, on disk or in memory.
CancelledIsForgotten ==
    Idle => /\ acct.notApproved.id \notin chain.cancelled
            /\ disk.notApproved = acct.notApproved

\* A verification runs on the approved files it is about, never while a task
\* replaces them, until the first crash or cancellation.
VerificationOnStableDrive ==
    NeverRestarted /\ up = "up" /\ drive.verifyTask # NoVerification =>
        /\ drive.verifyTask = drive.last
        /\ drive.task.step \notin Synchronizing

\* The restart values never go back: no task, catch-up or restart overwrites what
\* the drive has confirmed by something older, whatever the process is doing when
\* it dies between two saves.  (What a crash inside a save may do to the one value
\* that is saved is the subject of RestartValue.)
NeverForgetsApproved ==
    [][up' # "closed" => disk.last' >= disk.last /\ disk.approved.id' >= disk.approved.id]_vars

\* A replicator that handles a cancellation goes on with the modifications
\* that wait (testCancelDuringModification.cpp cancels the first of two and
\* expects the second one to be completed by all replicators).
OnlyCrashesEndTheProcess ==
    [][up = "up" /\ up' = "down" => crashes' = crashes + 1]_vars

\* An opinion never names less than what the chain approved, and no sum of a
\* drive is ever negative.
OpinionsNeverUndercount ==
    /\ TypeOK
    /\ \A o \in sent : IsApproved(o.id) => o.sum >= chain.sizeAt[o.id]

\* Once the chain stops, the drive ends up with the last approved tree.
EventuallySynchronized ==
    <>[](~chain.closed => up = "up" /\ drive.last = chain.last)

\* A drive the chain closes is removed, even if the client is gone, with one
\* exception: a modification that was interrupted before it began to download
\* its files waits for the client.
ClosedOrDownloading ==
    chain.closed ~> \/ up = "closed"
                    \/ At({"modify"}, "files") /\ drive.task.interrupted

==============================================================================
