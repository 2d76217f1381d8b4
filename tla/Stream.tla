-------------------------------- MODULE Stream --------------------------------
(***************************************************************************)
(* A stream: StreamerSession announces chunk after chunk to a replicator   *)
(* (chunk-info messages), the StreamTask of the replicator downloads them  *)
(* one by one and asks for the announcements it misses, and once the       *)
(* transaction that ends the stream is published it adds the chunks the    *)
(* streamer wants to keep to the drive and has them approved.              *)
(*                                                                         *)
(* A StreamTask works on two threads. A job that is posted to one of them  *)
(* is an element of the queue of that thread (session, bg); messages, the  *)
(* end of a download and the chain's transactions come in between, on the  *)
(* session thread. A chunk is known by its content; its index, counted     *)
(* from 0 in the code, is its place from 1 in a sequence. The replicator   *)
(* is the only one of its drive: its own opinion is enough.                *)
(***************************************************************************)
EXTENDS Naturals, SequencesExt

CONSTANTS
    Contents,   \* what a chunk can contain
    Streams,    \* the streams there may be: the chunks, which of them
                \* are kept, and whether the drive is busy at the start
    MaxLost,    \* bound on the messages that are lost
    MayCancel,  \* the stream may be cancelled, or the drive closed
    Null

ASSUME StreamAssumption ==
    /\ Null \notin Contents
    /\ \A s \in Streams : /\ s.chunks \in Seq(Contents) \ {<<>>}
                          /\ s.from \in 1..Len(s.chunks) /\ s.to \in 1..Len(s.chunks)
                          /\ s.waits \in BOOLEAN
    /\ MaxLost \in Nat
    /\ MayCancel \in BOOLEAN

VARIABLES
    streamer,   \* the StreamerSession
    net,        \* the messages on the way, and what was lost
    chain,      \* the transactions of the stream
    drive,      \* m_torrentHandleMap, the files and the tree of the drive
    task,       \* the StreamTask
    session,    \* the jobs posted to the session thread
    bg          \* the jobs posted to the background thread

vars == <<streamer, net, chain, drive, task, session, bg>>

Chunks == streamer.stream.chunks

\* The chunks the finish-info file says are to be kept (m_saveOnDrive).
Saved == {Chunks[i] : i \in streamer.stream.from..streamer.stream.to}

------------------------------------------------------------------------------
(* The streamer *)

\* addMediaToStream: the chunk gets the next index and is announced.
AddMediaToStream ==
    /\ ~streamer.finished
    /\ streamer.added < Len(Chunks)
    /\ streamer' = [streamer EXCEPT !.added = @ + 1]
    /\ net' = [net EXCEPT !.infos = @ \cup {streamer'.added}]
    /\ UNCHANGED <<chain, drive, task, session, bg>>

\* finishStream: the finish-info file lists the chunks and says which of them
\* are to be kept, those inside a span of time. The transaction that names
\* the file is published.
FinishStream ==
    /\ ~streamer.finished
    /\ streamer.added = Len(Chunks)
    /\ streamer' = [streamer EXCEPT !.finished = TRUE]
    /\ chain' = [chain EXCEPT !.finish = "published"]
    /\ UNCHANGED <<net, drive, task, session, bg>>

\* sendSingleChunkInfo answers get-chunk-info, if the index is known.
SendSingleChunkInfo(i) ==
    /\ i \in net.asks
    /\ net' = [net EXCEPT !.asks = @ \ {i},
                          !.answers = IF i <= streamer.added THEN @ \cup {i} ELSE @]
    /\ UNCHANGED <<streamer, chain, drive, task, session, bg>>

\* A message gets lost.
LoseInfo(i) ==
    /\ i \in net.infos
    /\ net.lost < MaxLost
    /\ net' = [net EXCEPT !.infos = @ \ {i}, !.missed = @ \cup {i}, !.lost = @ + 1]
    /\ UNCHANGED <<streamer, chain, drive, task, session, bg>>

LoseRequest(i) ==
    /\ i \in net.asks \cup net.answers
    /\ net.lost < MaxLost
    /\ net' = [net EXCEPT !.asks = @ \ {i}, !.answers = @ \ {i},
                          !.lost = @ + 1, !.cut = TRUE]
    /\ UNCHANGED <<streamer, chain, drive, task, session, bg>>

------------------------------------------------------------------------------
(* The announcements and the downloads of a StreamTask *)

\* A mutant: no empty cells are left for the announcements that are missing.
WithInfoAppends(infos, i) ==
    IF i > Len(infos) THEN Append(infos, Chunks[i]) ELSE [infos EXCEPT ![i] = Chunks[i]]

\* acceptChunkInfoMessage fills m_chunkInfoList, with empty cells for the
\* announcements that are missing.
WithInfo(infos, i) ==
    [j \in 1..(IF i > Len(infos) THEN i ELSE Len(infos)) |->
        IF j = i THEN Chunks[i] ELSE IF j <= Len(infos) THEN infos[j] ELSE Null]

\* tryDownloadNextChunk posts a job, unless a chunk is being downloaded. Two
\* such jobs in a row do what one does.
TryDownloadNextChunk(handle, queue) ==
    IF handle # Null \/ (queue # <<>> /\ Last(queue) = "next")
    THEN queue ELSE Append(queue, "next")

\* FlatDrive::acceptChunkInfoMessage: another task of the drive drops the
\* message.
AcceptChunkInfo(i) ==
    /\ i \in net.infos \cup net.answers
    /\ task.phase \notin {"dead", "over"}
    /\ IF task.phase # "deferred"
       THEN /\ task' = [task EXCEPT !.infos = WithInfo(@, i)]
            /\ session' = TryDownloadNextChunk(task.handle, session)
            /\ net' = [net EXCEPT !.infos = @ \ {i}, !.answers = @ \ {i}]
       ELSE /\ net' = [net EXCEPT !.infos = @ \ {i}, !.answers = @ \ {i},
                                  !.missed = @ \cup {i}]
            /\ UNCHANGED <<task, session>>
    /\ UNCHANGED <<streamer, chain, drive, bg>>

\* A mutant: the job waits for a missing announcement instead of asking for it.
DownloadNextChunkWaits ==
    LET next == task.current + 1
        rest == Tail(session)
    IN  /\ session # <<>> /\ Head(session) = "next"
        /\ IF task.handle # Null \/ next > Len(task.infos) \/ task.infos[next] = Null
           THEN session' = rest /\ UNCHANGED <<drive, task>>
           ELSE /\ task' = [task EXCEPT !.current = next, !.handle = task.infos[next]]
                /\ drive' = [drive EXCEPT !.map = @ \cup {task.infos[next]}]
                /\ session' = rest
        /\ UNCHANGED <<streamer, net, chain, bg>>

\* The job of tryDownloadNextChunk.
DownloadNextChunk ==
    LET next == task.current + 1
        rest == Tail(session)
    IN  /\ session # <<>> /\ Head(session) = "next"
        /\ IF task.handle # Null \/ next > Len(task.infos)
           THEN session' = rest /\ UNCHANGED <<net, drive, task>>
           ELSE IF task.infos[next] = Null
           THEN /\ net' = [net EXCEPT !.asks = @ \cup {next}]
                /\ session' = rest
                /\ UNCHANGED <<drive, task>>
           ELSE IF task.infos[next] \in drive.map
           THEN /\ task' = [task EXCEPT !.current = next]
                /\ session' = TryDownloadNextChunk(Null, rest)
                /\ UNCHANGED <<net, drive>>
           ELSE /\ task' = [task EXCEPT !.current = next, !.handle = task.infos[next]]
                /\ drive' = [drive EXCEPT !.map = @ \cup {task.infos[next]}]
                /\ session' = rest
                /\ UNCHANGED net
        /\ UNCHANGED <<streamer, chain, bg>>

\* The chunk is complete: the next one, and the finish condition.
ChunkIsDownloaded ==
    /\ task.handle # Null
    /\ drive' = [drive EXCEPT !.files = @ \cup {task.handle}]
    /\ task' = [task EXCEPT !.handle = Null]
    /\ session' = TryDownloadNextChunk(Null, session)
    /\ bg' = IF task.finish = "none" THEN bg ELSE Append(bg, "check")
    /\ UNCHANGED <<streamer, net, chain>>

------------------------------------------------------------------------------
(* The end of a stream *)

\* acceptFinishStreamTx starts the download of the finish-info file; another
\* task of the drive drops the request.
AcceptFinishStreamTx ==
    /\ chain.finish = "published"
    /\ chain' = [chain EXCEPT !.finish = IF task.phase = "running" THEN "accepted" ELSE "dropped"]
    /\ task' = IF task.phase = "running" THEN [task EXCEPT !.finish = "loading"] ELSE task
    /\ UNCHANGED <<streamer, net, drive, session, bg>>

FinishInfoIsDownloaded ==
    /\ task.finish = "loading" /\ task.phase \notin {"dead", "over"}
    /\ task' = [task EXCEPT !.finish = "loaded"]
    /\ bg' = Append(bg, "parse")
    /\ UNCHANGED <<streamer, net, chain, drive, session>>

\* checkFinishCondition: the announcements that are missing are asked for,
\* and the stream is complete when m_torrentHandleMap has every chunk.
CheckFinishCondition(rest) ==
    LET missing == {i \in 1..Len(Chunks) : task.infos[i] = Null}
    IN  IF task'.finish # "parsed" \/ Len(task.infos) # Len(Chunks)
        THEN bg' = rest /\ UNCHANGED net
        ELSE IF missing # {}
        THEN /\ net' = [net EXCEPT !.asks = @ \cup missing]
             /\ bg' = rest
        ELSE /\ bg' = IF \A i \in 1..Len(Chunks) : task.infos[i] \in drive.map
                      THEN <<"complete">> \o rest ELSE rest
             /\ UNCHANGED net

\* parseFinishInfoFile, continueFinishStream: the first chunk that is not in
\* m_torrentHandleMap is asked for, on the session thread.
ParseFinishInfoFile ==
    LET missing == {i \in 1..Len(Chunks) : Chunks[i] \notin drive.map}
    IN  /\ bg # <<>> /\ Head(bg) = "parse"
        /\ IF missing = {}
           THEN /\ task' = [task EXCEPT !.finish = "parsed"]
                /\ CheckFinishCondition(Tail(bg))
                /\ UNCHANGED session
           ELSE /\ task' = [task EXCEPT !.finish = "parsed",
                                        !.first = CHOOSE i \in missing : \A j \in missing : i <= j]
                /\ session' = Append(session, "ask")
                /\ bg' = Tail(bg)
                /\ UNCHANGED net
        /\ UNCHANGED <<streamer, chain, drive>>

RequestMissingChunkInfo ==
    /\ session # <<>> /\ Head(session) = "ask"
    /\ net' = [net EXCEPT !.asks = @ \cup {task.first}]
    /\ session' = Tail(session)
    /\ UNCHANGED <<streamer, chain, drive, task, bg>>

CheckFinish ==
    /\ bg # <<>> /\ Head(bg) = "check"
    /\ UNCHANGED task
    /\ CheckFinishCondition(Tail(bg))
    /\ UNCHANGED <<streamer, chain, drive, session>>

\* completeStreamFinishing: the tree and the sizes of its files. Asking for
\* the size of a file that does not exist yet is an exception nobody catches.
\* Nothing follows if the drive is full.
CompleteStreamFinishing ==
    /\ bg # <<>> /\ Head(bg) = "complete"
    /\ \/ /\ ~(Saved \subseteq drive.files)
          /\ task' = [task EXCEPT !.phase = "dead", !.handle = Null, !.removing = {}]
          /\ session' = <<>> /\ bg' = <<>>
       \/ /\ session' \in {session, Append(session, "root")}
          /\ task' = [task EXCEPT !.tree = Saved,
                                  !.early = @ \/ ~(Range(Chunks) \subseteq drive.files),
                                  !.full = session' = session,
                                  !.completed = IF @ < 2 THEN @ + 1 ELSE @]
          /\ bg' = Tail(bg)
    /\ UNCHANGED <<streamer, net, chain, drive>>

------------------------------------------------------------------------------
(* The approval of a stream *)

\* finishTask is called for the task t: the sandbox is cleared, and the drive
\* goes on with its next task.
Ending(t) == [t EXCEPT !.ends = IF @ < 2 THEN @ + 1 ELSE @]

\* myRootHashIsCalculated and, when updateCumulativeUploads has saved the
\* uploads, onCumulativeUploadsUpdated: the opinion of the replicator.
MyRootHashIsCalculated ==
    /\ session # <<>> /\ Head(session) = "root"
    /\ session' = Tail(session)
    /\ IF task.interrupted
       THEN task' = Ending(task) /\ bg' = Append(bg, "clear")
       ELSE /\ task' = [task EXCEPT !.opinion = task.tree]
            /\ bg' = Append(bg, "save")
    /\ UNCHANGED <<streamer, net, chain, drive>>

\* The opinion is saved, or the sandbox cleared, and the job calls back.
SaveAndCallBack ==
    /\ bg # <<>> /\ Head(bg) \in {"save", "clear"}
    /\ session' = Append(session, IF Head(bg) = "save" THEN "created" ELSE "finished")
    /\ bg' = Tail(bg)
    /\ UNCHANGED <<streamer, net, chain, drive, task>>

\* myOpinionIsCreated, checkOpinionNumberAndStartTimer, opinionTimerExpired.
\* The opinions of others are kept in StreamTask::m_receivedOpinions and
\* counted in ModifyApprovalTaskBase::m_receivedOpinions: with others on the
\* list no transaction is sent.
MyOpinionIsCreated ==
    /\ session # <<>> /\ Head(session) = "created"
    /\ session' = Tail(session)
    /\ IF task.interrupted
       THEN /\ task' = Ending(task)
            /\ bg' = Append(bg, "clear")
            /\ UNCHANGED chain
       ELSE /\ task' = [task EXCEPT !.calculated = TRUE]
            /\ \E alone \in BOOLEAN : chain' = [chain EXCEPT !.sent = @ \/ alone]
            /\ UNCHANGED bg
    /\ UNCHANGED <<streamer, net, drive>>

\* The chain approves the stream.
ApproveStream ==
    /\ chain.approval = "none"
    /\ chain.finish # "none"
    /\ chain' = [chain EXCEPT !.approval = "published"]
    /\ UNCHANGED <<streamer, net, drive, task, session, bg>>

\* A mutant: the task ends at once, also if an opinion is on its way.
BreakTorrentDownloadEnds(t) ==
    IF t.handle # Null
    THEN /\ task' = [t EXCEPT !.interrupted = TRUE, !.handle = Null, !.removing = @ \cup {"break"}]
         /\ UNCHANGED bg
    ELSE /\ task' = Ending([t EXCEPT !.interrupted = TRUE])
         /\ bg' = Append(bg, "clear")

\* breakTorrentDownloadAndRunNextTask for the task t, with
\* StreamTask::tryBreakTask.
BreakTorrentDownload(t) ==
    IF t.handle # Null
    THEN /\ task' = [t EXCEPT !.interrupted = TRUE, !.handle = Null, !.removing = @ \cup {"break"}]
         /\ UNCHANGED bg
    ELSE IF t.calculated /\ ~t.received
    THEN /\ task' = Ending([t EXCEPT !.interrupted = TRUE])
         /\ bg' = Append(bg, "clear")
    ELSE /\ task' = [t EXCEPT !.interrupted = TRUE]
         /\ UNCHANGED bg

\* onApprovalTxPublished: the drive is synchronized with the sandbox, or the
\* stream is given up for a catch-up, which also covers a stream that waits.
OnApprovalTxPublished ==
    /\ chain.approval = "published"
    /\ chain' = [chain EXCEPT !.approval = "delivered"]
    /\ IF task.phase # "running" \/ task.interrupted
       THEN /\ task' = [task EXCEPT !.phase = IF @ = "deferred" THEN "over" ELSE @]
            /\ UNCHANGED <<drive, bg>>
       ELSE IF task.calculated
       THEN /\ task' = [task EXCEPT !.received = TRUE, !.phase = "syncing",
                                    !.removing = @ \cup {"sync"}]
            /\ drive' = [drive EXCEPT !.used = drive.map \cap task.tree]
            /\ UNCHANGED bg
       ELSE /\ BreakTorrentDownload([task EXCEPT !.received = TRUE])
            /\ UNCHANGED drive
    /\ UNCHANGED <<streamer, net, session>>

\* removeTorrentsFromSession calls back.
TorrentsAreRemoved ==
    \/ /\ "break" \in task.removing
       /\ task' = Ending([task EXCEPT !.removing = @ \ {"break"}])
       /\ bg' = Append(bg, "clear")
       /\ UNCHANGED <<streamer, net, chain, drive, session>>
    \/ /\ "sync" \in task.removing
       /\ task' = [task EXCEPT !.removing = @ \ {"sync"}]
       /\ bg' = Append(bg, "sync")
       /\ UNCHANGED <<streamer, net, chain, drive, session>>

\* A mutant: the chunks that are not kept stay on the drive.
ContinueSynchronizingKeeps ==
    /\ bg # <<>> /\ Head(bg) = "sync"
    /\ session' = Append(session, "synced")
    /\ bg' = Tail(bg)
    /\ UNCHANGED <<streamer, net, chain, drive, task>>

\* continueSynchronizingDriveWithSandbox: the unused files are removed.
ContinueSynchronizing ==
    /\ bg # <<>> /\ Head(bg) = "sync"
    /\ drive' = [drive EXCEPT !.files = @ \ (drive.map \ drive.used), !.map = drive.used]
    /\ session' = Append(session, "synced")
    /\ bg' = Tail(bg)
    /\ UNCHANGED <<streamer, net, chain, task>>

\* synchronizationIsCompleted and, when approveCumulativeUploads has saved
\* the uploads, modifyIsCompleted.
ModifyIsCompleted ==
    /\ session # <<>> /\ Head(session) = "synced"
    /\ session' = Tail(session)
    /\ drive' = [drive EXCEPT !.tree = task.tree]
    /\ task' = Ending([task EXCEPT !.phase = "ending"])
    /\ bg' = Append(bg, "clear")
    /\ UNCHANGED <<streamer, net, chain>>

\* runNextTask: the task is deleted. Jobs that are left would use it; the
\* model ends here.
RunNextTask ==
    /\ session # <<>> /\ Head(session) = "finished"
    /\ task' = [task EXCEPT !.phase = "over", !.handle = Null, !.removing = {}]
    /\ session' = <<>> /\ bg' = <<>>
    /\ UNCHANGED <<streamer, net, chain, drive>>

------------------------------------------------------------------------------
\* startStream, runStreamTask: the drive begins with the stream at once, or
\* when the task it is busy with ends.
RunStreamTask ==
    /\ task.phase = "deferred"
    /\ task' = [task EXCEPT !.phase = "running"]
    /\ UNCHANGED <<streamer, net, chain, drive, session, bg>>

\* shouldCancelModify, onDriveClose, terminate.
CancelStream ==
    /\ MayCancel
    /\ task.phase \in {"running", "syncing"} /\ ~task.interrupted
    /\ BreakTorrentDownload(task)
    /\ UNCHANGED <<streamer, net, chain, drive, session>>

NewTask == [phase |-> "running", infos |-> <<>>, current |-> 0, handle |-> Null,
            finish |-> "none", first |-> 0, tree |-> {}, opinion |-> Null,
            calculated |-> FALSE, received |-> FALSE,
            interrupted |-> FALSE, removing |-> {}, completed |-> 0,
            early |-> FALSE, full |-> FALSE, ends |-> 0]

Init == /\ streamer \in [stream : Streams, added : {0}, finished : {FALSE}]
        /\ net = [infos |-> {}, asks |-> {}, answers |-> {}, missed |-> {}, lost |-> 0, cut |-> FALSE]
        /\ chain = [finish |-> "none", sent |-> FALSE, approval |-> "none"]
        /\ drive = [map |-> {}, files |-> {}, used |-> {}, tree |-> Null]
        /\ task = [NewTask EXCEPT !.phase = IF streamer.stream.waits THEN "deferred" ELSE @]
        /\ session = <<>> /\ bg = <<>>

\* What the session thread does with its jobs, and the background thread.
SessionThread ==
    \/ DownloadNextChunk \/ RequestMissingChunkInfo \/ MyRootHashIsCalculated
    \/ MyOpinionIsCreated \/ ModifyIsCompleted \/ RunNextTask

BackgroundThread ==
    \/ ParseFinishInfoFile \/ CheckFinish \/ CompleteStreamFinishing
    \/ SaveAndCallBack \/ ContinueSynchronizing

\* What libtorrent does.
Torrents == ChunkIsDownloaded \/ FinishInfoIsDownloaded \/ TorrentsAreRemoved

Index == 1..Len(Chunks)

Next ==
    \/ AddMediaToStream \/ FinishStream
    \/ \E i \in Index : \/ SendSingleChunkInfo(i) \/ LoseInfo(i)
                        \/ LoseRequest(i) \/ AcceptChunkInfo(i)
    \/ SessionThread \/ BackgroundThread \/ Torrents
    \/ AcceptFinishStreamTx \/ ApproveStream \/ OnApprovalTxPublished
    \/ RunStreamTask \/ CancelStream

Spec == Init /\ [][Next]_vars

\* The threads run, the streamer stays online and answers, and messages that
\* are not lost arrive.
Fairness == /\ WF_vars(SessionThread) /\ WF_vars(BackgroundThread)
            /\ WF_vars(ChunkIsDownloaded) /\ WF_vars(FinishInfoIsDownloaded)
            /\ WF_vars(\E i \in Index : SendSingleChunkInfo(i))
            /\ WF_vars(\E i \in Index : AcceptChunkInfo(i))

FairSpec == Spec /\ Fairness

------------------------------------------------------------------------------
(* Properties *)

TypeOK ==
    /\ streamer.added \in 0..Len(Chunks)
    /\ net.infos \cup net.asks \cup net.answers \cup net.missed \subseteq Index
    /\ drive.used \subseteq Contents /\ drive.map \subseteq Contents
    /\ task.current <= Len(task.infos) /\ Len(task.infos) <= Len(Chunks)
    /\ task.infos \in Seq(Contents \cup {Null})
    /\ task.handle \in Contents \cup {Null}

\* Chunks are downloaded one by one: m_downloadingChunkInfoIt only passes
\* chunks that are announced and complete, in whatever order, and however
\* often, the announcements come, and nothing is downloaded twice.
ChunksInOrder ==
    /\ TypeOK
    /\ task.phase = "running" /\ ~task.interrupted =>
        /\ \A i \in 1..task.current :
            /\ task.infos[i] = Chunks[i]
            /\ task.infos[i] \in drive.files \/ (i = task.current /\ task.handle = task.infos[i])
        /\ task.handle # Null => task.handle \notin drive.files
        /\ drive.map = {task.infos[i] : i \in 1..task.current}

\* The last chunk does not repeat another one: the stream cannot be complete
\* before tryDownloadNextChunk has passed all its chunks.
LastIsNew == \A i \in 1..(Len(Chunks) - 1) : Chunks[i] # Chunks[Len(Chunks)]

\* After the approval the drive has the chunks the streamer wants to keep and no
\* others (continueSynchronizingDriveWithSandbox).  A stream that was completed while
\* its last chunk was downloaded may lack that one, or keep it too much; one whose last
\* chunk repeats another may download again what was removed.
DriveIsTheStream ==
    LET late == IF task.early THEN {Last(Chunks)} ELSE {}
    IN  drive.tree # Null =>
            /\ Saved \subseteq drive.map
            /\ LastIsNew => drive.map = Saved /\ drive.files \cup late = Saved \cup late
            /\ ~task.early => Saved \subseteq drive.files

\* A task ends once: a second finishTask would delete the task that follows.
\* It holds for a stream that is completed once, with all its chunks, the last
\* of which is no repetition.
EndsOnce == task.completed < 2 /\ ~task.early /\ LastIsNew => task.ends < 2

\* Once the end of the stream is accepted the replicator gets to its opinion,
\* also if announcements were missed. The exceptions: the stream is
\* interrupted, an unfinished file ends the process, the drive is full, a
\* request or its answer was lost, the last announcement was missed, or the
\* last chunk repeats another one.
StreamIsCompleted ==
    chain.finish = "accepted" ~>
        \/ task.calculated \/ task.interrupted
        \/ task.phase = "dead" \/ task.full
        \/ net.cut \/ Len(Chunks) \in net.missed
        \/ ~LastIsNew

==============================================================================
