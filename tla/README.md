# A TLA+ development of the storage replicator

The repository implements the storage layer of a blockchain platform: *clients*
keep *drives*, every drive is stored by several *replicators*, and the *chain*
decides what a drive contains.  A client announces a *modification* in a chain
transaction; the replicators download its data from the client, execute it in a
sandbox, agree on the result, and replace the drive by the sandbox once the chain
has published an approval.  A replicator that missed an approval *catches up* from
the others.  Replicators *verify* one another, sell downloads over prepaid
*channels*, record *streams*, and let a contract executor modify a drive file by
file.  This directory holds TLA+ modules of these parts, TLC instances, and proofs
checked by TLAPS.

## 1. Inventory

| Component | State | Operations | Hard behaviour |
|---|---|---|---|
| `RestartValueSerializer` (`DriveParams.h`) | two files per value | save, load | a crash between two file operations |
| `DefaultFlatDrive` (`FlatDrive.cpp`) | current task, requests that wait, root hash, last approved modification | one handler per chain event, `runNextTask` | any event meets any task in any step |
| `InitializeDriveTask` | - | read the restart values, replay cancellations | events that arrive before it ends |
| `ModifyDriveTask`, `UpdateDriveTaskBase`, `ModifyApprovalTaskBase` | step, sandbox, `m_taskIsInterrupted`, `m_modifyApproveTxReceived`, opinions, timer | download, execute, share the opinion, synchronise, save | approvals before, during and after the execution; interruption while a job runs |
| `CatchingUpTask`, `SynchronizationTaskBase` | step, sandbox | download tree and files, synchronise, save | a newer approval; a crash between two saves |
| `CancelModificationTask`, `CloseDriveTask` | - | disapprove, clear; remove everything | events that arrive meanwhile |
| `ModifyOpinionController` | expected sum, approved and not approved upload tables | update, approve, disapprove | sums of several approvals that overlap; unsigned differences |
| `VerificationDriveTask` | codes, opinions, two timers, a thread of its own | start, calculate, exchange, cancel | messages before the start and after the end; opinions formed again after a restart |
| Download channels (`DownloadLimiter.h`, `RcptSyncronizer.h`) | prepaid and used traffic, receipts | check limits, accept and pass on receipts, synchronise, save | receipts lost, late, repeated, larger than what is prepaid |
| Download approval (`Replicator.cpp`) | opinions per event of a channel, two timers | initiate, share, collect, send, retry | the shard changes while a transaction is on its way |
| `ManualModificationsTask` | two sandboxes over one folder of files, open streams, iterators, sizes | open, read, write, remove, move, commit, discard | files shared by three trees; termination at any moment |
| `StreamTask`, `StreamerSession` | announced chunks, the current download, the end of the stream | announce, download, ask for what is missing, complete | two threads; announcements lost, late and reordered |
| `ViewerSession` | known chunks, playlist, votes on the saved stream | ask, download, switch to the saved stream | late answers; votes of the replicators |
| `Timer` | a shared flag | start, cancel, `operator bool` | an expired timer is still `true` |
| `Replicator` | drives, channels, configuration | dispatch of chain events and messages | messages for unknown or removed drives |
| `ManualSynchronizationTask` | as `CatchingUpTask` | a catch-up a contract asks for | - |
| `FsTree`, `ActionList` | pure data | add, move, remove, merge | - |
| `EndpointsManager`, `Kademlia` | endpoint tables | search, expire | time-outs |
| RPC, HTTP, supercontract and messenger servers, sessions, networking, crypto | - | transport | - |

A replicator has a *session thread* that runs all handlers and callbacks of its
drives, a *background thread* that runs file operations, and one thread per
verification.  Drives talk to the chain through `Replicator` (events in, opinions
and transactions out) and to other replicators through the DHT messages of the
session (opinions, verification codes, receipts, chunk infos).  What makes the system
correct:

- a drive only ever contains what the chain approved, and all of it at rest; a
  cancelled modification leaves nothing behind; a crash at any moment neither loses an
  approval nor invents one; a drive that is closed is removed, whatever the client does;
- a transaction (approval, verification, download approval) is a quorum of opinions
  that were really given, and comes about if there is a quorum;
- the sums stated in opinions are the same on all replicators, and what is sent to a
  client is covered by what it has signed, as far as the replicator remembers it;
- an opinion of a verification never vouches for files that differ;
- a contract call sees its own copy of the drive, and all or nothing of it is kept;
- a stream is recorded and replayed whole and in order.

## 2. Modules

```
AtomicValue <--refines-- RestartValue <- AccountProofs

DriveState <- UpdateDriveTask <- ModifyDriveTask     <- FlatDrive <- MCFlatDrive
                              <- SynchronizationTask <-           <- FlatDriveProofs
                                                                     <- AccountProofs

ModifyApproval   <- MCModifyApproval, ModifyApprovalProofs
Verification     <- MCVerification, VerificationProofs
DownloadChannel  <- MCDownloadChannel, DownloadChannelProofs
DownloadApproval <- MCDownloadApproval, DownloadApprovalProofs
SandboxedStorage <--refines-- ManualModifications <- MCManualModifications,
                                                             ManualModificationsProofs
Stream <- MCStream, StreamProofs
Viewer <- MCViewer, StreamProofs
```

`FlatDrive` is one replicator among an environment; `ModifyApproval`,
`Verification` and `DownloadApproval` are several replicators of which only the
exchange is kept.  They meet where one abstracts the other: the chain of `FlatDrive`
may approve the oldest modification at any time, which is what `ModifyApproval` shows
in detail, and a save of one restart value is one step, which is what `RestartValue`
establishes with one exception: a value that a crash left in its `.tmp` file only is lost
by a second crash in the next save of it.  Such a pair of crashes is not among those of
`FlatDrive`.

**RestartValue** has one action per file operation of `saveRestartData` (`OpenTmp`
truncates `<name>.tmp`, `WriteTmp`, `RemoveMain`, `RenameTmp`), a `ProcessDies` that may
come between any two, and a `ProcessStarts` that loads.  **AtomicValue** is what the
rest of the code relies on: a save takes effect at one moment or not at all.  Its
`exposed` says when a value can be lost.

**DriveState** types the state of a drive: `drive` is `DefaultFlatDrive` with its
`m_task`, `acct` its `ModifyOpinionController`.  Modifications are numbered in chain
order and 0 is the zero hash.  A root hash is the set of the modifications whose
actions the tree contains, so two trees are equal exactly if they contain the same
modifications.  An upload table is its modification id and its sum.

**UpdateDriveTask** declares the variables and the steps tasks share,
**ModifyDriveTask** and **SynchronizationTask** the rest of a modification and of a
catch-up.  `task.step` names the callback a task waits for.  A step is a job of the
background thread with the callback it posts: the job touches only files that
nobody else reads before the callback, and an event handled between the two finds
the same state as one handled before both.  A job that writes two things a restart
reads is two steps (`CatchUpMoveFsTree`, `CatchUpSaveLast`; `SaveApprovedUploads`,
`SaveLastApproved`).

**FlatDrive** composes them with the scheduler (`RunNextTask` and the `On...` handlers,
one per event), the remaining tasks, the chain, and `Crash`/`Restart`.  The chain's
rules are those of the emulator in `examples/standalone-tests/TestEnvironment.h`: only
the oldest pending modification is approved, an approved one cannot be cancelled, and a
replicator that starts again is told the last approval, the pending verification and the
pending modifications.  Events reach the session thread in order (`inbox`) and are lost
while the process is down.  The process goes down by a `Crash`, or by
`cancelModifyDrive` itself, which dereferences a null pointer in one case
(`CancelDereferencesNull`).  A drive that is closed while the process is down is not
added again, and its data is removed (`RemoveUnusedDrives`).  `task.cancels` stands for
both `m_cancelRequests` and the cancellations among `m_completedModifications`.

**ModifyApproval** is the protocol among the replicators for one modification.  An
opinion is its author and its result (`Deviant` replicators calculate another one).  The
own opinion is set on the session thread (`CreateMyOpinion`), saved on the background
thread (phase `saving`), and only then are the opinions validated that came before
(`MyOpinionIsCreated`); those that come in between are validated, but counted with the
rest.  The chain checks transactions by the rules of `modifyApprovalTransactionIsReady`,
which look at who signed and how many, not at what; the list of replicators may change,
and the sender of an invalid transaction is told after the new list.  `validated` in a
transaction is a history variable.

**Verification** is the protocol for a sequence of verifications.  A code is a hash
over the files, so two replicators calculate the same code for a third exactly if
their files are the same (`SameFiles`); which replicators have damaged files is chosen
at the start.  `task[r]` is `m_verificationTask`, `early[r]` the two queues for
messages that come before their verification, `drive[r]` what decides whether a
deferred verification may run.  `ProcessedVerificationOpinion`,
`CheckVerifyCodeNumber` and `ProcessedVerificationCode` have the names of the methods.

**DownloadChannel** is one channel on the replicators of its shard: the client signs a
receipt (`AcceptReceipt`), `acceptUploadSize` and `tryFixReceiptSize` of a receipt that
comes from the client, from another replicator or by synchronisation,
`checkDownloadLimit` of a piece that is sent, the enlargement and closing of the
channel, and a stop or crash of a replicator with the file of channels it reads again.
`sent` of a channel is `m_sentClientMap`, which goes back to the file, or to zero, with
the process; the history variable `traffic` is what was really sent, and how often that
count was lost.

**DownloadApproval** is the protocol for one event of a channel.  `entry[r]` is the
entry of `m_downloadOpinionMap`, with the timer that sends the transaction and the one
that shares the opinion again; `posted[r]` the opinions that the extension will hand to
`addOpinion` (opinions reach it only through the extension, which checks them).
`Replace` changes the shard, `ApprovalHasFailed` takes the opinions away that the new
shard does not accept, `Outdate` is the hour after which an entry is erased.

In these protocols **the network** is the set of what was shared so far: any of it can
be received at any time, any number of times, or never, which covers loss,
duplication, reordering and the repeated sharing by timers.

**ManualModifications** has the two sandboxes as trees of names, the files of all
trees in one folder (`disk`), under their content hash or a temporary one.  A request
has a part on the session thread, a `job` on the background thread, and its callback;
`Terminate` may come between any two.  **SandboxedStorage** is the promise: three
copies with commit and discard.  The refinement mapping reads the content of the trees
through `disk`, so it fails if a file is changed or removed under another tree.
A termination may fall between the steps of an apply; the queues of the two threads
decide what of the apply is then still done: a job that comes before the sandbox
folder is cleared takes effect as a whole, one that comes later finds no tree to move
(`AppliedTooLate`).  The history variable `careless` notes that the executor has moved a
file onto itself or one that is not there.

**Stream** is a `StreamerSession`, the lossy announcements, and the `StreamTask` of the
only replicator of a drive.  The queue of each thread is a sequence of the jobs posted
to it; downloads and chain events come in between.  **Viewer** is a `ViewerSession` that
asks replicators of which some have ended the stream and some have not; `kept` are the
chunks that stay on the drives of those that have.

Assertions (`SIRIUS_ASSERT`) are not guards: the models go on past them, as a
release build does.  The important ones of the drive are properties of their own
(`ApprovesOwnUploads`, `UploadsAreExpected`, `CatchUpFindsRoot`, `CancelMeetsIdleCatchUp`).

## 3. Runs

| Run | Instance | Properties |
|---|---|---|
| `restart_value` | 3 values, 3 crashes; 616 states | the files implement `AtomicValue` |
| `drive_safety` | 3 modifications (the files of the third do not come), 1 cancellation, 1 verification, 1 crash, closing; 1,072,760 states | `RootIsApproved`, `AppliedIsApproved`, `SandboxIsApprovedTree`, `NoWorkIsRepeated`, `ApprovesOwnUploads`, `UploadsAreExpectedAtFirst`, `CatchUpAssertionsAtFirst`, `OpinionsNeverUndercount`, `CancelledIsForgotten`, `VerificationOnStableDrive`, `NeverForgetsApproved` |
| `drive_synchronized` | 2 modifications, 1 crash, closing, fairness; 3,803 states | `EventuallySynchronized`, `ClosedOrDownloading` |
| `approval` | 4 replicators, 2 of them on the list at first, one of these deviant, the others may join, one silent; 3 changes of the list, fairness; 82,610 states | `QuorumDecides`, `ApprovalIsUnanimous`, `SentIsPending`, `EventuallyApproved` |
| `verification` | 2 replicators, one of them possibly damaged, 2 verifications, 1 crash, approval or expiry, fairness; 100,072 states | `PublishedByQuorum`, `OpinionsAreJustified`, `NoFalseAlarm`, `NothingIsLeftOver`, `EveryVerificationEnds` |
| `download_receipts` | 2 replicators, one of them joining, 1 client, 1 or 2 pieces prepaid, 1 enlargement, closing, stop or crash; 585,514 states | `AccountsAreConsistent`, `TrafficIsCovered`, `AgreeWhenDelivered`, `AcceptedNeverShrinks` |
| `download_approval` | a shard of 2 and one replicator that joins, 1 change, 1 restart or hour, fairness; 39,455 states | `TransactionsAreQuorums`, `OwnOpinionComesBack`, `EventuallyPublished` |
| `manual_modifications` | 2 names (symmetric), sizes up to 2, 2 temporary files, 1 task; 1,675,334 states | `FilesStay`, `SizesAreExact`, `NothingIsLeft`, `ImplementsSandboxedStorage` |
| `stream` | streams of 2 and 3 chunks, one of which repeats a chunk, 1 lost message, cancellation, fairness; 796,292 states | `ChunksInOrder`, `DriveIsTheStream`, `EndsOnce`, `StreamIsCompleted` |
| `viewer` | 4 replicators, 2 chunks, 1 before the last one in a live playlist, 2 announcements at a time, fairness; 129,092 states | `PlaylistIsPlayable`, `ViewerGetsAll` |

The bounds are the smallest at which the interesting cases happen.

- *Drive.*  Three modifications are needed for one to run, one to wait in the queue and
  one to be approved meanwhile.  Sizes are powers of two, so no two sets of
  modifications have the same sum, and all but the last one succeed, so no two
  trees are the same: a failing modification in the middle would hide that the next one
  is executed on a stale tree.  The other results are in `drive_synchronized`.  One crash
  reaches every pair of steps it can fall between.
- *Approval.*  A replicator sends when all opinions are there or when its timer expires;
  with fewer than four on the list it needs all of them, so the timer matters from four
  on.  Three changes let both others join and the deviant one leave, while transactions
  with its opinion are on the way.  In the run no list of four has three live
  replicators that agree, so that these get there by the timer alone is not checked.
  The safety properties are proved for every number.
- *Verification.*  Two verifications are needed for a message of the first to meet the
  second, and the one disturbance lets a replicator form its opinion a second time with
  another content.  More replicators than two are left to the theorems.
- *Downloads.*  A receipt of 2 exceeds a prepaid size of 1 and not of 2, so receipts are
  refused, accepted, and refused and then fixed.  Two of three opinions are the smallest
  quorum a change of the shard can break.
- *Manual modifications.*  Two names are needed to move a file, and two temporary files
  for one in each sandbox.
- *Stream, viewer.*  Three chunks with a gap are needed for a request for a missing
  announcement; with fewer than four replicators no vote of a viewer is ever enough.  Two
  chunks are enough for one that the viewer has missed and one that is not kept; a live
  playlist that drops its first chunk needs three, which is left to the theorem.

`CHECK_DEADLOCK FALSE` is set where the system may really stop: when the bounded
requests are used up and every task has ended nothing is left to do.

**Fairness.**  It is always weak fairness of what the threads of a live process do
(both threads run what is posted to them, timers expire), and beyond that:

- `FlatDrive`: of the restart and of downloads of *approved* data, which other
  replicators have.  The client may go offline: nothing is assumed of downloads only it
  can serve.
- `ModifyApproval`, `Verification`, `DownloadApproval`: of the delivery of an opinion
  to a live replicator *as long as it is shared again by its timer*, of the restart of
  a crashed replicator (`Verification`), and of the chain.  The codes of a verification
  need not arrive: `m_verifyCodeTimer` covers their loss.
- `Stream`: the streamer stays online and answers, and messages that are not lost
  arrive.
- `Viewer`: of downloads of what some replicator still has; strong fairness of the
  delivery of each replicator's answer about the saved stream, which is asked for again
  every second although answers may come too late.

### Disagreements between the code and its tests and assertions

Two runs are expected to violate their property; `PROJECT.json` quotes the lines.  More
disagreements, which have no run, are in section 5.

- `drive_assert_root`: an approval that arrives while `CancelModificationTask` runs is
  dropped, because `DriveTaskBase::onApprovalTxPublished` returns `false`.  After a
  restart `InitializeDriveTask` may replay the cancellation, and the approval dropped
  for it is the only one the drive was told: it executes the *next* modification on a
  tree that lacks the dropped one, whose approval only logs "Invalid Sandbox Root Hash"
  (`ModifyDriveTask.cpp:521`) and lets the wrong tree become the drive.  If the process
  dies after the modification is saved as approved, its approval comes again, and the
  assertion at the start of a catch-up (`SynchronizationTaskBase.h:62`) fails.  This is
  why `RootIsApproved`, `SandboxIsApprovedTree` and the first part of
  `CatchUpAssertionsAtFirst` are stated for chains on which nothing was cancelled, and
  `EventuallySynchronized` for a run without cancellations: if no other modification
  follows the dropped approval, the drive executes its modification and waits for an
  approval that does not come again.
- `drive_cancel_dies`: a cancellation of the running modification ends the process if
  another modification waits in the queue: the request was moved away before the
  queue is searched for it.  The standalone test of this case cancels while the drive
  is still initialising, where the request is not moved.

## 4. Proofs

The last part of `AccountProofs` proves `SerializerTypeCorrect` and `SavesAreAtomic`
(`SerializerSpec => ImplementsAtomicValue`) for every set of values and any number of
crashes.  Two facts make the invariant inductive: the `.tmp` file holds the argument of
the save from `WriteTmp` until `RenameTmp`, and a process that runs without the main
file has loaded what the `.tmp` file holds (`LoadInv`).  The abstract value is what the
two files stand for (`Stored`), and it is exposed while there is no main file and the
`.tmp` file is the one the next save truncates (`Exposed`).

`ModifyApprovalProofs` proves `TypeCorrect`, `Unanimous` (`Spec =>
[]ApprovalIsUnanimous`) and `Quorum` (`Spec => []QuorumDecides`) for all finite sets of
replicators, all deviant ones and all changes of the list.  The inductive invariant
`IInv` adds to the properties: what a replicator has collected was shared; once its own
opinion is saved it keeps only opinions that agree with it (before that it keeps all of
them, which is why the invariant depends on the phase); a transaction in the pool that
was sent after that inherits both; and without changes of the list an approval has more
than two thirds of the list.  `Quorum` then follows by counting, for transactions that
were not validated too: an approval of deviant opinions only is a subset of `Deviant`.
`SentStaysPending` (`Spec => []SentIsPending`) has a second layer (`Safe`) over it:
nothing is sent before the own opinion, only replicators of the list work, and none of
them is told of an approval that is not there (`Settled`).

`FlatDriveProofs` proves `AppliedIsApprovedTheorem` (`Spec => []AppliedIsApproved`) for
any number of modifications, whatever their results, and any number of cancellations,
verifications and crashes.  The property is not inductive: that a task reaches the
synchronisation only with an approved modification depends on where its approval came
from.  `IInv` adds that pending modifications are newer than the last approved one, in
order, and not cancelled (`ChainInv`, so an approval stays one:  `StillApproved`); that
every approval event and every catch-up request names an approved modification
(`InboxInv`, `DriveIsApproved`); and that a modification marked as approved is either
approved itself or interrupted (`ApprovalIsOwn`).  The last part fails for a moment
inside `onApprovalTxPublished`, which sets `m_modifyApproveTxReceived` for any approval
and then interrupts the task; hence the two levels `DriveIsApproved` and `DriveInv`.
The helpers of the scheduler are treated one by one (`BreakKeeps`, `FinishKeeps`,
`RunNextKeeps`, `TaskOnApprovalKeeps`), then one lemma per action or group of actions
that share an argument.  Of the accounts that proof needs only the fields
(`AccountShape`).  `TypesAreKept` (`Spec => []TypeOK`) adds the rest (`Typed`, next to
`IInv`): that the accounts stay numbers rests on `TotalSize`, a recursive function over
the requests a catch-up drops, being one for every queue (`TotalsExist`).

The second layer adds the order of events and proves three more theorems about the
drive.  The first two are again for any number of modifications, cancellations,
verifications and crashes:  `NoWorkIsRepeatedTheorem` (`Spec => []NoWorkIsRepeated`) and
`NeverForgetsApprovedTheorem` (`Spec => NeverForgetsApproved`, an action property, about
processes that die between two saves: a save is one step of `FlatDrive`, see section
2).  Neither is inductive: that the drive does not go back rests on the events coming in
the order of the chain and on what `runCatchingUpTask` throws away.  The invariant
`Safe` says that an approval in the inbox is followed only by newer requests and
approvals (`PairOrder`); that a request is newer than all the drive has (`NewRequest`);
that an approval is newer than what the drive applies, has applied or was asked to catch
up with; that an approval still to come is of a modification that waits or is older than
all that wait (`Covered`), so that the queue loses exactly what a catch-up has
overtaken; that a task that applies is not behind the saved files; and the same of the
accounts and the downloads.  Most steps only move a task away from applying anything:
`Calmer` names that, and one lemma serves all of them.  The third one is
`VerificationOnStableDriveTheorem` (`Spec => []VerificationOnStableDrive`), for any
number of modifications and verifications until the first crash or cancellation.  A
second invariant (`Stable`) says that a verification in the inbox, requested or running,
is never about less than the drive has, was told to have or is about to have
(`NotBefore`), that no approval in front of it is newer than it is (`VerifyEvents`), and
that a catch-up at work is newer than the drive (`VerifyOrder`).  A running verification
is about exactly what the drive has, so a task that replaces files would be both newer
than the drive and not newer.

The third layer is about the trees themselves:  `SandboxIsApprovedTreeTheorem` (`Spec =>
[]SandboxIsApprovedTree`) and `RootIsApprovedTheorem` (`Spec => []RootIsApproved`), both
for any number of modifications with any results, verifications and crashes, as long as
nothing is cancelled (section 3 says why that is needed).  A modification has to be
executed on the tree of the one before it, so when `runDeferredModificationTask` takes
the first one of the queue that must be the next one of the chain.  No state says so by
itself: the queue has a gap behind a catch-up that is still to come, and after a restart
the queue, the inbox and the files say different things until the first approval was
handled.  The invariant `Sound` names where the drive is going:  `Goal` is the
modification it will have when it is done with its task and with the catch-up that
waits, and every newer modification of the chain is in the queue or on its way
(`Reaches`).  Either the drive knows its goal (`Informed`), or it was just started, and
the goal is the approval at the head of its inbox (`Started`).  With that, an idle drive
takes exactly modification `last + 1` (`ModifyCourse`), or catches up with the goal
(`CatchUpCourse`).  `TaskTrees` follows the tree from there to the sandbox, `MovedFirst`
says that the tree of the drive is replaced before the restart values name its
modification, so a crash between the two leaves a tree that is newer than the saved
modification and never older (`Within`).  The chain's own part (`ChainTrees`) is that
every approved tree is the one before it, modified, and that all modifications that are
not approved are pending.

`AccountProofs` extends these layers by a fourth, about the sums:
`OpinionsNeverUndercountTheorem` (`Spec => []OpinionsNeverUndercount`, the types
included), for any sizes and any number of modifications, cancellations, verifications,
catch-ups and crashes.  The property speaks of opinions only, but a sum is right because
of what was added to it long before, in four places of the code: an approval that is not
caught up with, what a catch-up drops from the queue (`TotalSize`), the catch-up itself,
and an approved own modification.  The invariant `Accounted` is a ledger: every
modification the chain approved is either still *open* on the drive (it waits, or is at
work), or the expected sum of the drive covers the chain's sum up to it (`Expects`).
For a step to keep this, the drive must not lose an open modification without adding it,
so `Ledger` also says what is open: all that is pending (`PendingOpen`), all whose
approval is on the way, but for the one a restarted drive hears of first
(`ApprovalsOpen`), and nothing else but what is about to be cancelled (`OpenIsKnown`).
The catch-up needs the sum of a prefix of the queue, whose approved sizes add up one by
one (`SkippedSizes`).  `Books` says the same of every sum that is kept: the files, the
account and the opinions sent cover what the chain approved for their modification, or
will.  An opinion is given for the oldest pending modification or an approved one, so
what was approved before it is not open and hence accounted for (`OlderExpected`), and
its own size is added when it is (`NewUploadsCover`).  `CancelledIsForgottenTheorem`
(`Spec => []CancelledIsForgotten`), of the same generality, has a second invariant
(`Cleared`) over it.  The property says nothing of a drive that is at work, so
`Remembers` follows the uploads that are not approved yet from the accounts to the file
and back: they are of a modification that the chain approved after all (`Settles`), or
the drive has noted to disapprove them (`cancelReq`, or the list of cancellations it was
started with), or their modification is still the oldest one that is open (`Alive`), so
that its cancellation, which may be on its way, finds it (`CancelFindsUploads`).  The
last case is the one that can go wrong, as the drive may turn to another modification.
It does so only for an approval (`ApprovalEndsWork`) or when a task ends, and both are
shown to leave nothing behind; and a drive that is started again finds every
modification in one of the three cases, because the uploads in its file are not newer
than any pending modification (`Covers`, `RestartCleared`).  Three theorems are about
the assertions of the code:  `ApprovesOwnUploadsTheorem` (`Spec =>
[]ApprovesOwnUploads`, without conditions), `UploadsAreExpectedTheorem` (`Spec =>
[]UploadsAreExpectedAtFirst`) and `CatchUpAssertionsTheorem` (`Spec =>
[]CatchUpAssertionsAtFirst`); the assertions of the last two fail outside their
conditions (`drive_assert_root`, and section 5).  They rest on all of these layers and
on one more invariant (`Steady`), about a drive that has not handled a cancellation yet:
every approved modification is open, or the drive has it or is on its way to it
(`Reached`), or it was just started and is told of it next (`Told`).  So there is no
approved modification between the last one of the drive and the one it has uploads of
(`Passed`), and when the first cancellation takes back these uploads a catch-up, which
is older than what is cancelled, has nothing left to do: what
`CatchingUpTask::shouldCancelModify` asserts.  `Passed` has to survive a crash between
the file of the uploads and that of the last modification, so it is stated of the files
as well as of the memory.  `Balanced` says of the sums that until the process first ends
the uploads are not more than is expected, but for those of the task that wait for their
approval (`Own`), which the approval of another modification does not leave behind
(`GivesWayFollows`).

`VerificationProofs` proves `JustifiedOpinions` (`Spec => []OpinionsAreJustified`) and
`PublishedQuorum` (`Spec => []PublishedByQuorum`) for every finite set of replicators
and any number of verifications, crashes, approvals and expiries.  The inductive
invariant follows an opinion from the message to the transaction: what waits in the two
queues of early messages was shared, one opinion of each replicator (`EarlyOK`); a task
has received only codes that were shared for its verification and collected only
opinions on it, one of each (`TaskOK`, with `Unique`: after a restart a replicator may
share a *different* opinion on the same verification, and only the first one counts);
while the timer runs there are enough of them.  A task collects its own opinion before
it is shared, so these parts take the sets of codes and opinions as parameters, and
`Advanced` states what holds between the two.  `NoFalseAlarms` (`Spec =>
[]NoFalseAlarm`) counts: no replicator receives its own code, so `N - 1` codes are those
of all the others.  `NothingLeftOver` (`Spec => []NothingIsLeftOver`) follows the
notifications: between two starts there is a stop, and what was started is stopped once
the chain has no verification pending.

`DownloadApprovalProofs` proves `SentQuorum` (`Spec => []TransactionsAreQuorums`) for
every shard, every minimal number of replicators and any number of changes, restarts and
outdated entries.  The invariant says that the opinions of an entry and those handed back
by a failed transaction were given, and that an entry whose timer runs has enough of them
(`EntryOK`).  A replicator counts against the shard it knows, which may be an old one; so
the invariant also says that every shard a replicator knows or is going to be told of has
the size of the first one (`Shard`, `GoodMessage`).  `OwnOpinionKept`
(`Spec => []OwnOpinionComesBack`, the types included) has a second layer (`Safe`): a
replicator outside the shard has nothing to do, and an entry that still shares has its own
opinion or is about to get it back (`Tidy`).

`DownloadChannelProofs` proves `AccountsAreConsistentTheorem` (`Spec =>
[]AccountsAreConsistent`, the types included), `TrafficIsCoveredTheorem` (`Spec =>
[]TrafficIsCovered`), `AcceptedNeverShrinksTheorem` (`Spec => AcceptedNeverShrinks`, an
action property) and `AgreeWhenDeliveredTheorem` (`Spec => []AgreeWhenDelivered`) for
every shard, any number of clients, receipts and enlargements, and any number of stops,
crashes and restarts.  The relation `Grown` between a channel and what became of it by
receipts carries the argument: nothing accepted is lost, what was sent stays as it is,
and if the total was the sum of the parts and no replicator was credited with more than
is prepaid, it is still so.  Each layer of the code is shown to be such a step:
`tryFixReceiptSize` keeps the larger of the two sizes of a receipt (`GrownByFix`), a new
receipt adds to the total what it adds to one part (`GrownByTaking`, `TakenTotal`), and
the rest follows because `Grown` is transitive, for a whole answer of
`onSyncRcptReceived` too (`GrownBySync`).  The invariant `Accounts` adds that saved
channels are covered as well, which a restored channel needs, and that a replicator
waits for no more enlargements than there were.  `AgreeWhenDelivered` has a second layer
(`Agreed`): nobody has a receipt for more than was signed, what was signed for a
replicator is known to it and was passed on to all the others (`AllPassedOn`), and while
all that was signed is prepaid no receipt is ever refused (`AllNeat`).  The last part
compares the total, a sum over replicators of sums over clients, with the sum of all
that was signed (`SumOfColumns`).  What was really sent has an invariant of its own
(`Rationed`): it is what the replicator still counts, in the channel or in the file
(`Counted`), and at most one ration (`Ration`) for every time the count was lost,
because each life of the count ends with at most what the client has signed, the limit
and one piece.  Sums and the answer of a synchronisation are folds over finite sets.
What they return is proved by an induction in which the *set* of numbers, or of subsets,
with a property stands for the property (`NumberInduction`, `ChoiceInduction`): the
provers can instantiate a set, not an operator.

`ManualModificationsProofs` proves `FilesStayTheorem` (`Spec => []FilesStay`),
`SizesAreExactTheorem` (`Spec => []SizesAreExact`), `NothingIsLeftTheorem` (`Spec =>
[]NothingIsLeft`, the types included) and `SandboxedStorageTheorem` (`Spec =>
ImplementsSandboxedStorage`) for any finite set of names, any sizes and any number of
calls, batches, modifications and terminations at any moment.  None of the properties is
inductive, because the trees share one folder: that a file may be removed depends on who
else has it.  The invariant `IInv` gives every file an owner.  A file under a hash
belongs to a torrent, or to the batch whose hash was computed (`HashFiles`, with
`Torrents` for the files of the drive while the storage is applied); a file under a
temporary hash belongs to the lower sandbox or to the call that created it, and has one
name only (`TempFiles`, `CallFiles`, `OneName`).  A job knows what it is going to create
or remove (`Pending`, `Doomed`), and a file that is open for writing was created by the
call and still has its name (`Opened`, `Named`): this is what `checkUnlock` is for.  The
sizes then are those of the temporary files up to what a job still owes (`Due`), by
lemmas about sums over finite sets; after a careless move they may only be more
(`Covers`), and files under a temporary name may have no owner.  The refinement reads
the content of a tree through the disk (`ContentOn`) and shows of every action which
step of `SandboxedStorage` it is, or that it is none (one lemma `...Mapped` per
action).  A call modifies only its copy because no file it changes is one of the lower
sandbox (`CallModifies`); the end of a call has taken effect when the job has removed
the files, not when the sandboxes are exchanged (`EndSandboxMapped`); the hash of the
batch renames files and leaves the content of the tree (`ComputeHashMapped`); the batch
is committed when its tree is moved to the drive (`TorrentsDeletedMapped`), also while
the task is being ended, and dropped when the apply comes too late (`Live`).

`StreamProofs` proves `ChunksInOrderTheorem` (`Spec => []ChunksInOrder`),
`DriveIsTheStreamTheorem` (`Spec => []DriveIsTheStream`) and `EndsOnceTheorem` (`Spec =>
[]EndsOnce`) for streams of any length, with any repetitions, and any loss of messages.
The jobs of the two threads are sequences, so the invariant speaks of which jobs are in
a queue and how often (`Has`, `Once`).  It follows the downloads (`Downloads`: until the
drive is synchronised it has exactly the chunks that were passed, the last one perhaps
unfinished), the synchronisation from one thread to the other (`SyncJobs`), and the
opinion (`OpinionJobs`).  `Completed` says that a stream that is completed has all its
chunks in its map, which may be removed again only by the synchronisation, and that only
the last one may still be downloaded (`Late`) if it repeats no other: these are the
exceptions of `DriveIsTheStream`.  `OneEnd` lists what can still end a task, and why
there is at most one of it: an opinion that is worked on, torrents that are being
removed, or the synchronisation.  The same module proves `PlaylistIsPlayableTheorem`
(`ViewerSpec => []PlaylistIsPlayable`) for any number of replicators and chunks and any
answers: the invariant `WInv` says that the chunk that is downloaded live is the next
one that is counted, that all chunks before it are marked as there, and that the saved
stream, once it is downloaded, takes the place of all of them.

The proofs rest on the named assumptions `RestartAssumption`, `ReplicatorsAssumption`,
`DriveAssumption`, `BoundAssumption`, `VerificationAssumption`,
`DownloadApprovalAssumption`, `DownloadChannelAssumption`, `StreamAssumption`,
`ViewerAssumption` and `ManualModificationsAssumption`, which say what the constants
are.  A theorem that needs more, such as a drive without cancellations, has it as its
first hypothesis; a run of section 3 satisfies each of them.

Every invariant, action property and refinement that a passing run checks is proved.  Only
model-checked are the liveness properties (fairness and `ENABLED` are out of the
provers' reach).

## 5. Observations

What the models had to follow and a maintainer may want to look at.  None of these has a
run of its own; most are named as exceptions in a property or an assumption.

*Restart values.*  A crash between `fs::remove` and `fs::rename` leaves the value in its
`.tmp` file only; the next save of it truncates that file first, so that a second crash
there loses the value (`DriveParams.h:99`).  `AtomicValue` allows just this.

*Assertions of the drive.*  The code asserts three things without a condition which its
executions do not keep; the models state when they hold.

- `SynchronizationTaskBase.h:62`, see `drive_assert_root` above.
- `ModifyOpinionController.h:141-143`: that something is expected, and at least what is
  accounted for (`UploadsAreExpected`).  A process that ends between the save of
  `notApprovedCumulativeUploads` and the approval takes them back from the file and
  counts its own sum again for the next modification, so that more may be accounted for
  than is expected; a release build goes on and subtracts the unsigned numbers in line
  145.  It holds until the first crash or cancellation (`UploadsAreExpectedAtFirst`).  A
  crash is not needed: with four modifications of descending sizes one cancellation
  suffices, if it ends the process (`drive_cancel_dies`).
- `CatchingUpTask.cpp:35-42`: that the modification of the saved uploads is only
  cancelled during a catch-up that had nothing to do (`CancelMeetsIdleCatchUp`).  It
  holds of the first cancellation (`CatchUpAssertionsAtFirst`) and not of a second
  one: the approval of one modification is lost while an older one is disapproved after
  a restart, the next one is executed and saved, and after the process has ended again
  its cancellation is handled while the drive catches up with the lost one.

*Drive.*  An approval handled while the previous modification is being finished counts
that modification twice (`ModifyDriveTask.cpp:541`); `OpinionsNeverUndercount` shows
that the error is never in the other direction.  A modification interrupted while
`prepareDownloadMissingFiles` runs still starts its downloads
(`ModifyDriveTask.cpp:197`); `ClosedOrDownloading` shows that this is the only way in
which closing can hang.  After a restart the pending verification is started right
before the catch-up that replaces the files, so `VerificationOnStableDrive` is stated
for drives that were not restarted (`NeverRestarted`).  A catch-up saves
`approvedModification` before `approvedCumulativeUploads`, so the comment in
`InitializeDriveTask.cpp` (lines 234-237) names only one of the two ways in which they
can differ.

*Approval.*  `m_myOpinion` is set on the session thread before the background thread
saves the opinion (`UpdateDriveTaskBase.h:310-331`), and the opinions that came first are
validated only after that ("validate already received opinions [...] Maybe send approval
transaction", `ModifyApprovalTaskBase.h:84-91`).  An opinion that arrives in between is
validated itself (`ModifyDriveTask.cpp:487-493`), but `checkOpinionNumberAndStartTimer`
counts the others too and may send them, directly or by the timer, with results that
disagree.  What remains true is `QuorumDecides`, which covers these transactions, and
`ApprovalIsUnanimous`, which is about the later ones.  After a failed approval
transaction an expired timer counts as started (`ModifyApprovalTaskBase.h:150`).

*Verification.*  With a single replicator no transaction is ever sent: its opinion is the
first one and then taken for a duplicate (`VerificationDriveTask.cpp:227`); of three
replicators all three are needed.  `runVerificationTask` erases the opinions twice and
the codes never (`FlatDrive.cpp:513`).  The handler for invalid opinions is empty
(`Replicator.cpp:1477`).

*Download channels.*  `m_isSynchronizing` is never reset (`DownloadLimiter.h:187`), the
threshold of answers may exceed the number of replicators (`Replicator.cpp:752`), and the
synchronisation is tried again only once (`RcptSyncronizer.h:86`).  The total of the
receipts is not restored from the file (`DownloadLimiter.h:299`).  A receipt that comes
before the enlargement that covers it stays refused until another one comes.  The limit
is applied to each replicator, so the sum over all of them may exceed what is prepaid
(`DownloadLimiter.h:867`).  After a restart nobody shares a download opinion again, an
entry that gets too old is erased with the own opinion, and `shareDownloadOpinion`
expects one (`Replicator.cpp:1200`).  `m_sentClientMap` is only as new as the file, so
what was sent since it was written is forgotten by a crash (`DownloadLimiter.h:299`):
`TrafficIsCovered` counts how often.  If the replicator stops before the channel was
announced to it again, it overwrites the file with a map without that channel
(`Replicator.cpp:199`, `1924`), which loses the count as well.

*Manual modifications.*  Moving a file onto itself, or a file that is not there, is not
refused and loses the content of the name that is moved to; what of the properties such
moves do not keep is said with `careless`.  When the storage is applied nothing sets
`m_isUsed` to `false` before the files of the new tree are marked
(`ManualModificationsTask.cpp:1522`; `SynchronizationTaskBase.h:194`,
`UpdateDriveTaskBase.h:194` and `CancelModificationTask.cpp:67` do), and it is true from
the start (`DriveParams.h:36`): the files of the old tree are never removed, although
the comment in line 1574 says so.  `clearTrash` removes the shared empty file (line
1761); `openFile` goes on after it has refused (lines 132-135).

*Streams.*  `StreamTask` has opinions and timers of its own under the names of the base
class (`StreamTask.cpp:56-72`), so that with other replicators on the list no approval
of a stream is sent.  A cancellation that comes while nothing is downloaded and the
opinion is not calculated leaves a task that never ends (lines 122-134).  The stream may
be completed while its last chunk is still downloaded, because `checkFinishCondition`
looks into `m_torrentHandleMap`, which has a chunk from the start of its download,
although it means to "check that all chunks are received" (line 782); it is then
completed a second time.  `DriveIsTheStream` says what this does to the drive (`early`):
the last chunk may be missing or stay too much; that it is completed twice is left out
of `EndsOnce`.  A last announcement that is lost is never asked for, requests are never
repeated, and a last chunk that repeats another one is not noticed: these are the
exceptions of `StreamIsCompleted`.  If the last chunk repeats an earlier one, the stream
may be completed, approved and synchronised while a job that downloads the next chunk
still waits, which then brings a chunk back that was removed, and the task may end
twice; this came out of the proof, with a stream longer than the run has (`<<a, b, a, a,
a>>`, of which only the second chunk is kept), and is the exception `LastIsNew` of
`DriveIsTheStream` and `EndsOnce`.  The announced chunks are a deque with an iterator
into it that is kept while chunks are added (lines 38, 256, 260 and 350), which
invalidates it; the model has an index in its place, so it says nothing of what the
iterator reads then.

*Viewer.*  `completeStreamFinishing` lists all chunks in the saved playlist
(`StreamTask.cpp:862`), while only those with `m_saveOnDrive` stay on the drive (lines
456-470, 826-836).  A viewer that has not seen the others live asks for them for ever
(`ViewerSession.cpp:733-792`), so an example that finishes a stream in part and waits
for the end of its download (`streamExample.cpp:774`, `791`) ends only if it has;
`ViewerGetsAll` is about viewers that have.  The saved playlist takes the place of the
live one before its chunks are there, which `PlaylistIsPlayable` leaves out.  A vote
needs more than `(n * 2) / 3 + 1` answers: with three replicators or fewer it is never
accepted, with four all must agree.  An answer with chunk infos that comes after the
saved stream was downloaded overwrites its playlist.

## 6. What is not modelled

The repository has some 153,000 lines of code, of which more than 100,000 are examples,
test drivers and their copies, and some 20,000 are taken over from other projects
(networking, crypto and utilities of the catapult server, the HTTP server of the Boost
examples).  The drive code proper, `src/src/drive` and `src/include/drive`, has 27,000
lines: it is where the state machines are, and where the map lies.  A map of a third of
the repository would have to name code without a state of its own.

Within the drive code these parts are left out:

- `normalizeUploads`, the table behind the sum of an opinion, and all file contents and
  errors of the file system other than a crash; action lists and trees that do not
  deserialise; a graceful stop of the replicator (a crash that comes between two jobs).
- Nested folders, of `FsTree` and of manual modifications: one folder has all the
  sharing of files between trees.
- A queue in which modifications, streams and manual modifications mix: each of the
  tasks is modelled with the handlers of `FlatDrive` it uses, and only modifications
  with one another.  `ManualSynchronizationTask` has the steps of `CatchingUpTask`; what
  is special to it is decided by the contract executor, which is not in the repository.
- More than one replicator of a stream (no approval would come about); downloads of a
  viewer that fail; parsing of media playlists.
- Opinions about a modification that is not running (`m_unknownModificationOpinions`):
  they are handed to a constructor that drops them.  A replicator that left the list
  does not come back.
- `EndpointsManager` and `Kademlia`, RPC and the servers: they find addresses and carry
  messages, and all protocol models let any message be lost.

`PROJECT.json` lists every component with its status.

## 7. Plan

1. Done: restart values, drive scheduler and its tasks, approval of modifications,
   verification, download channels and their approval, manual modifications, streams and
   viewers; the theorems of section 4.
2. Models: `normalizeUploads` as a pure algorithm against "the sums are exact and no
   share is negative", with integer widths; `FsTree` on nested folders against a
   definition on sets of paths; streams in the queue of `FlatDrive`.
