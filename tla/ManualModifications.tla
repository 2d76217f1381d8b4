------------------------- MODULE ManualModifications -------------------------
(***************************************************************************)
(* ManualModificationsTask: the executor of a contract modifies the drive  *)
(* file by file.  The task keeps a lower sandbox (the batch) and, while a  *)
(* call runs, an upper one.  The sandboxes are trees of names only: the    *)
(* files of all of them, and of the drive, are in one folder, under their  *)
(* hash or, while they can still be written, under a temporary hash.       *)
(*                                                                         *)
(* A request does its first part on the session thread, a job on the       *)
(* background thread and the rest on the session thread again; meanwhile   *)
(* the drive may terminate the task.  The tree has one folder here.        *)
(***************************************************************************)
EXTENDS Integers, FiniteSets, FiniteSetsExt

CONSTANTS
    Names,          \* of files
    MaxSize,        \* m_maxSize
    MaxFiles,       \* bound on the temporary files there are at a time
    MaxTasks        \* bound on the modifications

ASSUME ManualModificationsAssumption ==
    /\ IsFiniteSet(Names) /\ Names # {}
    /\ MaxSize \in Nat \ {0} /\ MaxFiles \in Nat /\ MaxTasks \in Nat

VARIABLES
    drive,          \* m_drive.m_fsTree
    handles,        \* the keys of m_torrentHandleMap
    disk,           \* the sizes of the files in m_driveFolder
    lower, upper,   \* m_lowerSandboxFsTree, m_upperSandboxFsTree
    lowerSize, upperSize,   \* m_lowerSandboxFilesSize, m_upperSandboxFilesSize
    managed,        \* m_callManagedHashes
    open,           \* m_openFilesRead, m_openFilesWrite
    iterating,      \* m_folderIterators has an iterator of the folder
    job,            \* what executes the query (m_isExecutingQuery)
    hashed,         \* m_sandboxRootHash
    chain,          \* how far applyStorageModifications has come
    interrupted,    \* m_taskIsInterrupted
    finish,         \* how far finishTask has come
    tasks,
    careless        \* the executor has moved a file onto itself or one that is
                    \* not there (a record of what happened)

task == <<lower, upper, lowerSize, upperSize, managed, open, iterating, job,
          hashed, chain, interrupted, finish, tasks, careless>>

vars == <<drive, handles, disk, task>>

\* Two files have the same content here if they have the same size, so the
\* size stands for the hash; 0 is Hash256(), the hash of all empty files.
Hashes == 0..MaxSize
Temporary == (MaxSize + 1)..(MaxSize + MaxFiles)
Ids == Hashes \cup Temporary

Absent == -1
Trees == [Names -> Ids \cup {Absent}]
NoTree == [n \in {} |-> Absent]

Files(tree) == {tree[n] : n \in DOMAIN tree} \ {Absent}

OpenFiles == [name : Names, id : Ids, mode : {"read", "write"}]

Jobs == [op    : {"none", "open", "write", "query", "close", "remove", "streams",
                  "apply", "hash"},
         stage : {"background", "session"},
         file  : OpenFiles \cup {NoTree},
         files : SUBSET Ids,            \* to be removed
         size  : Int,                   \* of the files removed or cleared
         ok    : BOOLEAN]

NoJob == [op |-> "none", stage |-> "session", file |-> NoTree, files |-> {},
          size |-> 0, ok |-> TRUE]

Job(op) == [NoJob EXCEPT !.op = op, !.stage = "background"]

OnBackground(op) == job.op = op /\ job.stage = "background"
OnSession(op) == job.op = op /\ job.stage = "session"

\* The size of those of the files that exist.
SizeOnDisk(ids) == MapThenSumSet(LAMBDA i : disk[i], {i \in ids : disk[i] # Absent})

\* The folder without the files.
Without(ids) == [i \in Ids |-> IF i \in ids THEN Absent ELSE disk[i]]

------------------------------------------------------------------------------
(* Requests of the executor, which waits for the answer of each *)

Accepts == finish = "running" /\ ~interrupted /\ job.op = "none" /\ chain = "none"

InCall == Accepts /\ upper # NoTree
BetweenCalls == Accepts /\ upper = NoTree

\* checkUnlock: neither the folder nor the file is in use.
CheckUnlock(n) == ~iterating /\ \A o \in open : o.name # n

\* initiateSandboxModifications.  The executor begins no call after it has asked
\* for the hash of the batch, and applies the storage only then; the code relies
\* on it (the assertion on m_sandboxRootHash in onAppliedStorageModifications).
InitiateSandboxModifications ==
    /\ BetweenCalls /\ ~hashed
    /\ upper' = lower
    /\ upperSize' = lowerSize
    /\ UNCHANGED <<drive, handles, disk, lower, lowerSize, managed, open, iterating,
                   job, hashed, chain, interrupted, finish, tasks, careless>>

\* openFile, to read.  If m_maxOpenedStreams are open the request is answered
\* with an error, and then executed: the limit is none.
OpenToRead(n) ==
    /\ InCall /\ CheckUnlock(n)
    /\ upper[n] # Absent
    /\ job' = [Job("open") EXCEPT !.file = [name |-> n, id |-> upper[n], mode |-> "read"]]
    /\ UNCHANGED <<drive, handles, disk, lower, upper, lowerSize, upperSize, managed,
                   open, iterating, hashed, chain, interrupted, finish, tasks, careless>>

\* A mutant: a file that an earlier call has created is written as it is.
OpenToWriteInPlace(n) ==
    /\ InCall /\ CheckUnlock(n)
    /\ LET new == {t \in Temporary : disk[t] = Absent /\ t \notin Files(upper)}
           id  == IF upper[n] \in managed \cup Temporary THEN upper[n] ELSE Min(new)
       IN  /\ upper[n] \in managed \cup Temporary \/ new # {}
           /\ upper' = [upper EXCEPT ![n] = id]
           /\ managed' = managed \cup {id}
           /\ job' = [Job("open") EXCEPT !.file = [name |-> n, id |-> id, mode |-> "write"]]
    /\ UNCHANGED <<drive, handles, disk, lower, lowerSize, upperSize, open, iterating,
                   hashed, chain, interrupted, finish, tasks, careless>>

\* openFile, to write: a file that this call has not created is replaced by a
\* new one with a random hash.
OpenToWrite(n) ==
    /\ InCall /\ CheckUnlock(n)
    /\ LET new == {t \in Temporary : disk[t] = Absent /\ t \notin Files(upper)}
           id  == IF upper[n] \in managed THEN upper[n] ELSE Min(new)
       IN  /\ upper[n] \in managed \/ new # {}
           /\ upper' = [upper EXCEPT ![n] = id]
           /\ managed' = managed \cup {id}
           /\ job' = [Job("open") EXCEPT !.file = [name |-> n, id |-> id, mode |-> "write"]]
    /\ UNCHANGED <<drive, handles, disk, lower, lowerSize, upperSize, open, iterating,
                   hashed, chain, interrupted, finish, tasks, careless>>

\* writeFile, of one unit.
WriteFile(o) ==
    /\ InCall
    /\ o \in open /\ o.mode = "write"
    /\ upperSize + 1 <= MaxSize
    /\ upperSize' = upperSize + 1
    /\ job' = [Job("write") EXCEPT !.file = o]
    /\ UNCHANGED <<drive, handles, disk, lower, upper, lowerSize, managed, open,
                   iterating, hashed, chain, interrupted, finish, tasks, careless>>

\* readFile, flush, fileSize: nothing but the time they take.
Query ==
    /\ InCall
    /\ job' = Job("query")
    /\ UNCHANGED <<drive, handles, disk, lower, upper, lowerSize, upperSize, managed,
                   open, iterating, hashed, chain, interrupted, finish, tasks, careless>>

\* closeFile
CloseFile(o) ==
    /\ InCall
    /\ o \in open
    /\ job' = [Job("close") EXCEPT !.file = o]
    /\ UNCHANGED <<drive, handles, disk, lower, upper, lowerSize, upperSize, managed,
                   open, iterating, hashed, chain, interrupted, finish, tasks, careless>>

\* removeFsTreeEntry: the file itself is removed if this call has created it
\* (obtainUnusedFiles).
RemoveFsTreeEntry(n) ==
    /\ InCall /\ CheckUnlock(n)
    /\ upper[n] # Absent
    /\ managed' = managed \ {upper[n]}
    /\ upper' = [upper EXCEPT ![n] = Absent]
    /\ job' = [Job("remove") EXCEPT !.files = {upper[n]} \cap managed]
    /\ UNCHANGED <<drive, handles, disk, lower, lowerSize, upperSize, open, iterating,
                   hashed, chain, interrupted, finish, tasks, careless>>

\* A mutant: the file that is overwritten is forgotten, not removed.
MoveFsTreeEntryForgets(n, dst) ==
    /\ InCall /\ CheckUnlock(n) /\ CheckUnlock(dst)
    /\ careless' = (careless \/ n = dst \/ upper[n] = Absent)
    /\ managed' = managed \ {upper[dst]}
    /\ IF upper[n] = Absent
       THEN UNCHANGED <<upper, job>>
       ELSE /\ upper' = IF n = dst THEN upper
                        ELSE [upper EXCEPT ![dst] = upper[n], ![n] = Absent]
            /\ job' = Job("remove")
    /\ UNCHANGED <<drive, handles, disk, lower, lowerSize, upperSize, open, iterating,
                   hashed, chain, interrupted, finish, tasks>>

\* moveFsTreeEntry: what is at the destination is no longer managed by this
\* call, and will be removed, before moveFlat decides whether it moves anything.
\* So a file that is moved onto itself is lost, and one onto which a file that is
\* not there is moved is never removed.
MoveFsTreeEntry(n, dst) ==
    /\ InCall /\ CheckUnlock(n) /\ CheckUnlock(dst)
    /\ careless' = (careless \/ n = dst \/ upper[n] = Absent)
    /\ managed' = managed \ {upper[dst]}
    /\ IF upper[n] = Absent
       THEN UNCHANGED <<upper, job>>
       ELSE /\ upper' = IF n = dst THEN upper
                        ELSE [upper EXCEPT ![dst] = upper[n], ![n] = Absent]
            /\ job' = [Job("remove") EXCEPT !.files = {upper[dst]} \cap managed]
    /\ UNCHANGED <<drive, handles, disk, lower, lowerSize, upperSize, open, iterating,
                   hashed, chain, interrupted, finish, tasks>>

\* folderIteratorCreate and folderIteratorDestroy, for the folder.
FolderIteratorCreate ==
    /\ InCall /\ ~iterating /\ open = {}
    /\ iterating' = TRUE
    /\ UNCHANGED <<drive, handles, disk, lower, upper, lowerSize, upperSize, managed,
                   open, job, hashed, chain, interrupted, finish, tasks, careless>>

FolderIteratorDestroy ==
    /\ InCall /\ iterating
    /\ iterating' = FALSE
    /\ UNCHANGED <<drive, handles, disk, lower, upper, lowerSize, upperSize, managed,
                   open, job, hashed, chain, interrupted, finish, tasks, careless>>

\* applySandboxModifications: closeFiles, the end of the call.
ApplySandboxModifications(success) ==
    /\ InCall
    /\ open' = {}
    /\ job' = [Job("streams") EXCEPT !.ok = success]
    /\ UNCHANGED <<drive, handles, disk, lower, upper, lowerSize, upperSize, managed,
                   iterating, hashed, chain, interrupted, finish, tasks, careless>>

\* evaluateStorageHash, the end of the batch.
EvaluateStorageHash ==
    /\ BetweenCalls /\ ~hashed
    /\ job' = Job("hash")
    /\ UNCHANGED <<drive, handles, disk, lower, upper, lowerSize, upperSize, managed,
                   open, iterating, hashed, chain, interrupted, finish, tasks, careless>>

\* applyStorageModifications.  Unlike the others, this request does not count as
\* a query that is executed.
ApplyStorageModifications(success) ==
    /\ BetweenCalls /\ hashed
    /\ IF success THEN chain' = "add" /\ UNCHANGED finish
                  ELSE finish' = "trash" /\ UNCHANGED chain
    /\ UNCHANGED <<drive, handles, disk, lower, upper, lowerSize, upperSize, managed,
                   open, iterating, job, hashed, interrupted, tasks, careless>>

------------------------------------------------------------------------------
(* The background thread *)

\* createStream
CreateStream ==
    /\ OnBackground("open")
    /\ LET id == job.file.id
           write == job.file.mode = "write"
       IN  /\ disk' = IF write THEN [disk EXCEPT ![id] = 0] ELSE disk
           /\ job' = [job EXCEPT !.stage = "session",
                                 !.ok = write \/ disk[id] # Absent,
                                 !.size = IF write THEN SizeOnDisk({id}) ELSE 0]
    /\ UNCHANGED <<drive, handles, lower, upper, lowerSize, upperSize, managed, open,
                   iterating, hashed, chain, interrupted, finish, tasks, careless>>

\* writeStream; readStream, flushStream, closeStream, closeStreams.
UseStream ==
    /\ \E op \in {"write", "query", "close", "streams"} : OnBackground(op)
    /\ disk' = IF job.op = "write" THEN [disk EXCEPT ![job.file.id] = @ + 1] ELSE disk
    /\ job' = [job EXCEPT !.stage = "session"]
    /\ UNCHANGED <<drive, handles, lower, upper, lowerSize, upperSize, managed, open,
                   iterating, hashed, chain, interrupted, finish, tasks, careless>>

\* removeUnusedFiles
RemoveUnusedFiles ==
    /\ OnBackground("remove")
    /\ disk' = Without(job.files)
    /\ job' = [job EXCEPT !.stage = "session", !.size = SizeOnDisk(job.files)]
    /\ UNCHANGED <<drive, handles, lower, upper, lowerSize, upperSize, managed, open,
                   iterating, hashed, chain, interrupted, finish, tasks, careless>>

\* The files acceptUpperSandboxModifications removes.
AcceptedFiles == Files(lower) \ (Files(upper) \cup handles \cup {0})

\* The job of onSandboxModificationStreamsClosed: acceptUpperSandboxModifications
\* or discardUpperSandboxModifications.  validateSandboxState also adds the sizes
\* of the torrent files, which are not modelled: files that fit in may still be
\* refused.  It needs all files: file_size throws where nothing catches it.
EndSandboxModifications ==
    /\ OnBackground("apply")
    /\ \E valid \in BOOLEAN :
          LET ok    == job.ok /\ valid
              files == IF ok THEN AcceptedFiles ELSE managed
          IN  /\ job.ok => \A i \in Files(upper) : disk[i] # Absent
              /\ ok => SizeOnDisk(Files(upper)) < MaxSize
              /\ disk' = Without(files)
              /\ job' = [job EXCEPT !.stage = "session", !.ok = ok,
                                    !.size = SizeOnDisk(files)]
    /\ UNCHANGED <<drive, handles, lower, upper, lowerSize, upperSize, managed, open,
                   iterating, hashed, chain, interrupted, finish, tasks, careless>>

\* computeSandboxHash: a file that was written gets its hash, unless it is empty
\* or the drive has it already.
ComputeSandboxHash ==
    /\ OnBackground("hash")
    /\ LET written == Files(lower) \cap Temporary
           new     == {disk[i] : i \in written} \ (handles \cup {0})
       IN  /\ lower' = [n \in Names |-> IF lower[n] \in written THEN disk[lower[n]]
                                        ELSE lower[n]]
           /\ disk' = [i \in Ids |-> IF i \in written THEN Absent
                                     ELSE IF i \in new THEN i ELSE disk[i]]
    /\ job' = [job EXCEPT !.stage = "session"]
    /\ hashed' = TRUE
    /\ UNCHANGED <<drive, handles, upper, lowerSize, upperSize, managed, open,
                   iterating, chain, interrupted, finish, tasks, careless>>

\* addNewTorrentsToSession
AddNewTorrentsToSession ==
    /\ chain = "add"
    /\ handles' = handles \cup (Files(lower) \ {0})
    /\ chain' = "delete"
    /\ UNCHANGED <<drive, disk, lower, upper, lowerSize, upperSize, managed, open,
                   iterating, job, hashed, interrupted, finish, tasks, careless>>

\* onNewTorrentAdded, and when the session has removed the torrents,
\* onUnusedTorrentsDeleted, if clearing the sandbox folder has not yet removed
\* the tree that it moves.  Unlike in the other tasks nothing sets m_isUsed to
\* FALSE before markUsedFiles: no torrent is unused, and no file is removed.
OnUnusedTorrentsDeleted ==
    /\ chain = "delete" /\ finish \notin {"cleared", "over"}
    /\ chain' = "swap"
    /\ UNCHANGED <<drive, handles, disk, lower, upper, lowerSize, upperSize, managed,
                   open, iterating, job, hashed, interrupted, finish, tasks, careless>>

\* Otherwise moveFile throws, and the storage is not applied.  (If the task is
\* deleted already, its callback has no task; Run waits for it.)
AppliedTooLate ==
    /\ chain = "delete" /\ finish \in {"cleared", "over"}
    /\ chain' = "none"
    /\ UNCHANGED <<drive, handles, disk, lower, upper, lowerSize, upperSize, managed,
                   open, iterating, job, hashed, interrupted, finish, tasks, careless>>

\* A mutant: files of the drive are taken for trash.
ClearTrashOfDrive ==
    /\ finish = "trash"
    /\ disk' = Without(Files(lower) \cup Files(upper))
    /\ finish' = "close"
    /\ UNCHANGED <<drive, handles, lower, upper, lowerSize, upperSize, managed, open,
                   iterating, job, hashed, chain, interrupted, tasks, careless>>

\* clearTrash, also of the file all empty files share.  It is posted after the
\* job that adds the torrents.
ClearTrash ==
    /\ finish = "trash" /\ chain # "add"
    /\ disk' = Without((Files(lower) \cup Files(upper)) \ handles)
    /\ finish' = "close"
    /\ UNCHANGED <<drive, handles, lower, upper, lowerSize, upperSize, managed, open,
                   iterating, job, hashed, chain, interrupted, tasks, careless>>

------------------------------------------------------------------------------
(* The session thread *)

\* Every callback of a query finishes the task if it was interrupted.
Interrupted ==
    /\ job.op # "none" /\ job.stage = "session" /\ interrupted
    /\ finish' = "trash"
    /\ job' = NoJob
    /\ UNCHANGED <<drive, handles, disk, lower, upper, lowerSize, upperSize, managed,
                   open, iterating, hashed, chain, interrupted, tasks, careless>>

\* onFileOpened
OnFileOpened ==
    /\ OnSession("open") /\ ~interrupted
    /\ upperSize' = upperSize - job.size
    /\ open' = IF job.ok THEN open \cup {job.file} ELSE open
    /\ job' = NoJob
    /\ UNCHANGED <<drive, handles, disk, lower, upper, lowerSize, managed, iterating,
                   hashed, chain, interrupted, finish, tasks, careless>>

\* onFileWritten, onReadFile, onFlushed, onFileSizeObtained, onStorageHashEvaluated
OnAnswer ==
    /\ \E op \in {"write", "query", "hash"} : OnSession(op)
    /\ ~interrupted
    /\ job' = NoJob
    /\ UNCHANGED <<drive, handles, disk, lower, upper, lowerSize, upperSize, managed,
                   open, iterating, hashed, chain, interrupted, finish, tasks, careless>>

\* onFileClosed
OnFileClosed ==
    /\ OnSession("close") /\ ~interrupted
    /\ open' = open \ {job.file}
    /\ job' = NoJob
    /\ UNCHANGED <<drive, handles, disk, lower, upper, lowerSize, upperSize, managed,
                   iterating, hashed, chain, interrupted, finish, tasks, careless>>

\* A mutant: the size of what was removed stays in the sum.
OnRemovedKeepsSize ==
    /\ OnSession("remove") /\ ~interrupted
    /\ job' = NoJob
    /\ UNCHANGED <<drive, handles, disk, lower, upper, lowerSize, upperSize, managed,
                   open, iterating, hashed, chain, interrupted, finish, tasks, careless>>

\* onRemoved, onMoved
OnRemoved ==
    /\ OnSession("remove") /\ ~interrupted
    /\ upperSize' = upperSize - job.size
    /\ job' = NoJob
    /\ UNCHANGED <<drive, handles, disk, lower, upper, lowerSize, managed, open,
                   iterating, hashed, chain, interrupted, finish, tasks, careless>>

\* onSandboxModificationStreamsClosed
OnSandboxModificationStreamsClosed ==
    /\ OnSession("streams") /\ ~interrupted
    /\ iterating' = FALSE
    /\ job' = [Job("apply") EXCEPT !.ok = job.ok]
    /\ UNCHANGED <<drive, handles, disk, lower, upper, lowerSize, upperSize, managed,
                   open, hashed, chain, interrupted, finish, tasks, careless>>

\* onAppliedSandboxModifications
OnAppliedSandboxModifications ==
    /\ OnSession("apply") /\ ~interrupted
    /\ LET size == upperSize - job.size
       IN  IF job.ok
           THEN /\ lower' = upper /\ lowerSize' = size /\ upperSize' = size
           ELSE /\ UNCHANGED <<lower, lowerSize>> /\ upperSize' = 0
    /\ upper' = NoTree
    /\ managed' = {}
    /\ job' = NoJob
    /\ UNCHANGED <<drive, handles, disk, open, iterating, hashed, chain, interrupted,
                   finish, tasks, careless>>

\* onAppliedStorageModifications
OnAppliedStorageModifications ==
    /\ chain = "swap"
    /\ drive' = lower
    /\ lower' = NoTree
    /\ chain' = "none"
    /\ finish' = IF finish = "running" THEN "trash" ELSE finish
    /\ UNCHANGED <<handles, disk, upper, lowerSize, upperSize, managed, open,
                   iterating, job, hashed, interrupted, tasks, careless>>

\* terminate, when an approval, another request or the end of the drive comes;
\* while the storage is applied no query is executed, and the task ends at once.
Terminate ==
    /\ finish # "over" /\ ~interrupted
    /\ interrupted' = TRUE
    /\ finish' = IF finish = "running" /\ job.op = "none" THEN "trash" ELSE finish
    /\ UNCHANGED <<drive, handles, disk, lower, upper, lowerSize, upperSize, managed,
                   open, iterating, job, hashed, chain, tasks, careless>>

\* closeFiles, after clearTrash ...
CloseFiles ==
    /\ finish = "close"
    /\ open' = {}
    /\ finish' = "closing"
    /\ UNCHANGED <<drive, handles, disk, lower, upper, lowerSize, upperSize, managed,
                   iterating, job, hashed, chain, interrupted, tasks, careless>>

\* ... DriveTaskBase::finishTask clears the sandbox folder, with the tree that was
\* to be applied ...
ClearSandbox ==
    /\ finish = "closing"
    /\ finish' = "cleared"
    /\ UNCHANGED <<drive, handles, disk, lower, upper, lowerSize, upperSize, managed,
                   open, iterating, job, hashed, chain, interrupted, tasks, careless>>

\* ... and the next task runs and this one is deleted.  A tree that was moved
\* before is taken over first: its callback is ahead in the queue.
TaskIsFinished ==
    /\ finish = "cleared" /\ chain # "swap"
    /\ finish' = "over"
    /\ lower' = NoTree /\ upper' = NoTree
    /\ lowerSize' = 0 /\ upperSize' = 0
    /\ managed' = {} /\ iterating' = FALSE /\ hashed' = FALSE /\ interrupted' = FALSE
    /\ UNCHANGED <<drive, handles, disk, open, job, chain, tasks, careless>>

\* runDeferredModificationManualModificationTask and run
Run ==
    /\ finish = "over" /\ chain = "none"
    /\ tasks < MaxTasks
    /\ tasks' = tasks + 1
    /\ finish' = "running"
    /\ lower' = drive
    /\ UNCHANGED <<drive, handles, disk, upper, lowerSize, upperSize, managed, open,
                   iterating, job, hashed, chain, interrupted, careless>>

------------------------------------------------------------------------------
Init == /\ drive \in [Names -> Hashes \cup {Absent}]
        /\ handles = Files(drive) \ {0}
        /\ disk = [i \in Ids |-> IF i \in handles \cup {0} THEN i ELSE Absent]
        /\ lower = NoTree /\ upper = NoTree
        /\ lowerSize = 0 /\ upperSize = 0
        /\ managed = {} /\ open = {} /\ iterating = FALSE
        /\ job = NoJob /\ hashed = FALSE /\ chain = "none"
        /\ interrupted = FALSE /\ finish = "over" /\ tasks = 0
        /\ careless = FALSE

Request ==
    \/ InitiateSandboxModifications \/ Query
    \/ FolderIteratorCreate \/ FolderIteratorDestroy
    \/ \E n \in Names : OpenToRead(n) \/ OpenToWrite(n) \/ RemoveFsTreeEntry(n)
    \/ \E n \in Names, dst \in Names : MoveFsTreeEntry(n, dst)
    \/ \E o \in open : WriteFile(o) \/ CloseFile(o)
    \/ \E success \in BOOLEAN : \/ ApplySandboxModifications(success)
                                \/ ApplyStorageModifications(success)
    \/ EvaluateStorageHash

Background == CreateStream \/ UseStream \/ RemoveUnusedFiles \/ EndSandboxModifications
                \/ ComputeSandboxHash \/ AddNewTorrentsToSession
                \/ OnUnusedTorrentsDeleted \/ AppliedTooLate \/ ClearTrash \/ ClearSandbox

Session == Interrupted \/ OnFileOpened \/ OnAnswer \/ OnFileClosed \/ OnRemoved
                \/ OnSandboxModificationStreamsClosed \/ OnAppliedSandboxModifications
                \/ OnAppliedStorageModifications \/ CloseFiles \/ TaskIsFinished

Next == Request \/ Background \/ Session \/ Terminate \/ Run

Spec == Init /\ [][Next]_vars

------------------------------------------------------------------------------
(* Properties *)

TypeOK == /\ drive \in Trees
          /\ handles \subseteq Hashes \ {0}
          /\ disk \in [Ids -> -1..MaxSize]
          /\ lower \in Trees \cup {NoTree} /\ upper \in Trees \cup {NoTree}
          /\ lowerSize \in 0..MaxSize /\ upperSize \in 0..MaxSize
          /\ managed \subseteq Temporary
          /\ open \subseteq OpenFiles
          /\ iterating \in BOOLEAN /\ hashed \in BOOLEAN /\ interrupted \in BOOLEAN
          /\ job \in Jobs
          /\ chain \in {"none", "add", "delete", "swap"}
          /\ finish \in {"running", "trash", "close", "closing", "cleared", "over"}
          /\ tasks \in 0..MaxTasks
          /\ careless \in BOOLEAN

\* Whatever a call does and whenever the task is terminated, also while the
\* storage is applied, the files of the drive stay as they are (clearTrash,
\* acceptUpperSandboxModifications, onAppliedStorageModifications).
DriveFilesStay == \A i \in Files(drive) \ {0} : disk[i] = i

\* Between two queries every file of the lower sandbox is there, and of the upper
\* one unless the executor moved a file onto itself, although both sandboxes and
\* the drive share one folder.
SandboxFilesExist ==
    finish = "running" /\ job.op = "none" =>
        /\ \A i \in Files(lower) \ {0} : disk[i] # Absent
        /\ ~careless => \A i \in Files(upper) \ {0} : disk[i] # Absent

\* The files that are in use stay: those of the drive and those of the two
\* sandboxes.
FilesStay == DriveFilesStay /\ SandboxFilesExist

\* The size that limits what a call may write never falls short of the files that
\* were written and, unless the executor made a careless move, is their size
\* exactly: a call that is discarded gives back what it took (the assertions of
\* onAppliedSandboxModifications).
SizesAreExact ==
    finish = "running" /\ job.op = "none" /\ ~hashed =>
        LET size == IF upper = NoTree THEN lowerSize ELSE upperSize
        IN  /\ SizeOnDisk((Files(lower) \cup Files(upper)) \cap Temporary) <= size
            /\ ~careless => size = SizeOnDisk(Ids \ (handles \cup {0}))

\* A task that is over, whether it was applied, refused or terminated at any
\* moment, leaves no file under a temporary name, unless the executor made a
\* careless move; every other file has its torrent, so that the tasks which
\* clean up by the torrents will find it.
NothingIsLeft ==
    /\ TypeOK
    /\ finish = "over" /\ chain = "none" =>
        /\ Files(drive) \ {0} \subseteq handles
        /\ \A i \in Ids : disk[i] # Absent =>
              i \in handles \cup {0} \/ (careless /\ i \in Temporary)

\* What is in the files of a tree.
Content(tree) ==
    [n \in Names |-> CASE tree[n] = Absent -> Absent
                       [] tree[n] = 0 -> 0
                       [] OTHER -> disk[tree[n]]]

Accepted == OnSession("apply") /\ job.ok
Discarded == OnSession("apply") /\ ~job.ok

InBatch == lower # NoTree /\ chain # "swap" /\ (finish = "running" \/ chain # "none")

Storage == INSTANCE SandboxedStorage WITH
    Contents <- [Names -> -1..MaxSize],
    None <- NoTree,
    committed <- Content(IF chain = "swap" THEN lower ELSE drive),
    batch <- IF ~InBatch THEN NoTree
             ELSE Content(IF Accepted THEN upper ELSE lower),
    call <- IF ~InBatch \/ upper = NoTree \/ Accepted \/ Discarded THEN NoTree
            ELSE Content(upper)

\* Whatever is written, moved or removed and whenever the task is terminated, the
\* sandboxes isolate the drive from the batch and the batch from the call, and are
\* taken over as a whole or not at all.
ImplementsSandboxedStorage == Storage!Spec

==============================================================================
