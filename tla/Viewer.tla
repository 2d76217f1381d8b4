-------------------------------- MODULE Viewer --------------------------------
(***************************************************************************)
(* A viewer watches a stream (DefaultViewerSession): every second it asks  *)
(* the replicators for the announcements that follow the ones it has,      *)
(* downloads the chunks one by one and writes a playlist of the last ones  *)
(* for the player. When replicators tell that the stream is over it asks   *)
(* for the hash of the playlist they have saved, and once enough of them   *)
(* agree it downloads that playlist and the chunks it has missed.          *)
(*                                                                         *)
(* A request and its answer are one step, the answer may arrive at any     *)
(* later time, or never. A replicator that still streams has the chunks    *)
(* that are announced; one that has ended the stream keeps those the       *)
(* streamer wants to be saved, although the playlist it saves names all of *)
(* them. Chunks are numbered from 1.                                       *)
(***************************************************************************)
EXTENDS Naturals, FiniteSets

CONSTANTS
    Replicators,   \* m_replicatorSet
    N,             \* the number of chunks of the stream
    MaxWindow,     \* maxChunkNumber of updatePlaylist
    MaxInfos,      \* bound on the announcements on the way at a time
    NoDownload     \* m_downloadingLtHandle is not set

Indices == 1..N

\* What may be downloaded: a chunk of the live stream, the playlist of the
\* saved stream, and a chunk it names.
Live(i) == [kind |-> "live", chunk |-> i]
SavedChunk(i) == [kind |-> "saved", chunk |-> i]
Playlist == [kind |-> "playlist", chunk |-> 0]

Handles == {Playlist} \cup {Live(i) : i \in Indices} \cup {SavedChunk(i) : i \in Indices}

ASSUME ViewerAssumption ==
    /\ IsFiniteSet(Replicators)
    /\ N \in Nat \ {0} /\ MaxWindow \in Nat \ {0} /\ MaxInfos \in Nat \ {0}
    /\ NoDownload \notin Handles

VARIABLES
    announced,   \* the number of chunks the streamer has announced
    kept,        \* the chunks with m_saveOnDrive
    ended,       \* the replicators that have ended the stream
    answers,     \* the answers on the way to the viewer
    viewer       \* the DefaultViewerSession

viewerVars == <<announced, kept, ended, answers, viewer>>

Infos(first, last) == [query |-> "infos", first |-> first, last |-> last]
Ended == [query |-> "ended"]
PlaylistHash(r) == [query |-> "hash", from |-> r]

------------------------------------------------------------------------------
(* The replicators *)

Announce == /\ announced < N /\ ended = {}
            /\ announced' = announced + 1
            /\ UNCHANGED <<kept, ended, answers, viewer>>

\* The stream is on the drive of the replicator, and the chunks that are not kept
\* are removed (StreamTask::continueSynchronizingDriveWithSandbox).
EndStream(r) == /\ announced = N /\ r \notin ended
                /\ ended' = ended \cup {r}
                /\ UNCHANGED <<announced, kept, answers, viewer>>

\* on_tick, requestChunkInfo: the first announcement the viewer does not have.
Requested == viewer.infos + 1

\* StreamTask::acceptGetChunksInfoMessage: the announcements from the requested
\* index on, as far as the replicator has them and the message may be long.
AnswerInfos(last) ==
    /\ ended # Replicators
    /\ last \in Requested..announced
    /\ Cardinality({m \in answers : m.query = "infos"}) < MaxInfos
    /\ answers' = answers \cup {Infos(Requested, last)}
    /\ UNCHANGED <<announced, kept, ended, viewer>>

\* FlatDrive::acceptGetChunksInfoMessage, when the stream is on the drive.
AnswerEnded ==
    /\ ended # {}
    /\ answers' = answers \cup {Ended}
    /\ UNCHANGED <<announced, kept, ended, viewer>>

------------------------------------------------------------------------------
(* Handles *)

\* A mutant: the next chunk is loaded while another one is downloaded.
TryLoadNextChunkAlways(v) ==
    IF v.infos <= v.next THEN v
    ELSE [v EXCEPT !.next = @ + 1, !.handle = Live(v.next + 1)]

\* tryLoadNextChunk, downloadPlaylist: the saved playlist comes first.
TryLoadNextChunk(v) ==
    IF v.handle # NoDownload THEN v
    ELSE IF v.hash THEN [v EXCEPT !.handle = Playlist]
    ELSE IF v.infos <= v.next THEN v
    ELSE [v EXCEPT !.next = @ + 1, !.handle = Live(v.next + 1)]

\* updatePlaylist: the chunks before the last one, as long as they are marked
\* as downloaded and there are not too many of them.
UpdatePlaylist(last, marked) ==
    LET before == {f \in 1..last : /\ last - f <= MaxWindow
                                   /\ \A i \in f..(last - 1) : i \in marked}
        full == CHOOSE f \in before : \A g \in before : f <= g
        stopped == full > 1 /\ last - full < MaxWindow
    IN  IF stopped THEN (full - 1)..(last - 1) ELSE full..last

\* Some replicator still has the chunk.
IsThere(i) == i \in kept \/ ended # Replicators

LiveChunkIsDownloaded ==
    /\ viewer.handle # NoDownload /\ viewer.handle.kind = "live"
    /\ IsThere(viewer.handle.chunk)
    /\ viewer' = TryLoadNextChunk(
            [viewer EXCEPT !.handle = NoDownload,
                           !.files = @ \cup {viewer.handle.chunk},
                           !.marked = @ \cup {viewer.next},
                           !.playlist = UpdatePlaylist(viewer.next, viewer.marked \cup {viewer.next}),
                           !.saved = FALSE])
    /\ UNCHANGED <<announced, kept, ended, answers>>

\* A mutant: a chunk that was announced is taken for downloaded.
ContinueDownloadChunksSkips(v, after) ==
    LET left == {i \in Indices : i > after /\ i > v.infos}
    IN  IF left = {} THEN [v EXCEPT !.handle = NoDownload, !.complete = TRUE]
        ELSE [v EXCEPT !.handle = SavedChunk(CHOOSE i \in left : \A j \in left : i <= j)]

\* continueDownloadChunks: the next chunk of the saved playlist after the
\* given one that was not downloaded live.
ContinueDownloadChunks(v, after) ==
    LET left == {i \in Indices : i > after /\ i \notin v.marked}
    IN  IF left = {} THEN [v EXCEPT !.handle = NoDownload, !.complete = TRUE]
        ELSE [v EXCEPT !.handle = SavedChunk(CHOOSE i \in left : \A j \in left : i <= j)]

\* downloadPlaylist calls back, downloadChunks. The job that was posted when
\* the hash was accepted runs before.
PlaylistIsDownloaded ==
    /\ viewer.handle = Playlist /\ ~viewer.posted
    /\ viewer' = ContinueDownloadChunks(
            [viewer EXCEPT !.hash = FALSE, !.playlist = Indices, !.saved = TRUE], 0)
    /\ UNCHANGED <<announced, kept, ended, answers>>

SavedChunkIsDownloaded ==
    /\ viewer.handle # NoDownload /\ viewer.handle.kind = "saved"
    /\ IsThere(viewer.handle.chunk)
    /\ viewer' = ContinueDownloadChunks(
            [viewer EXCEPT !.files = @ \cup {viewer.handle.chunk}], viewer.handle.chunk)
    /\ UNCHANGED <<announced, kept, ended, answers>>

------------------------------------------------------------------------------
(* handleDhtResponse *)

\* addChunkInfo skips the announcements the viewer has and stops at a gap.
AddChunkInfos(v, m) ==
    IF m.first > v.infos + 1 THEN v
    ELSE TryLoadNextChunk([v EXCEPT !.infos = IF m.last > @ THEN m.last ELSE @])

HandleInfos(m) ==
    /\ m \in answers /\ m.query = "infos"
    /\ answers' = answers \ {m}
    /\ viewer' = AddChunkInfos(viewer, m)
    /\ UNCHANGED <<announced, kept, ended>>

\* requestPlaylistInfoHash and FlatDrive::acceptGetPlaylistHashRequest: the
\* replicators that have ended the stream answer.
HandleEnded ==
    /\ Ended \in answers
    /\ answers' = (answers \ {Ended}) \cup
            (IF viewer.received THEN {} ELSE {PlaylistHash(r) : r \in ended})
    /\ UNCHANGED <<announced, kept, ended, viewer>>

\* More votes than two thirds of the replicators plus one are needed.
Accepted(votes) == Cardinality(votes) > (Cardinality(Replicators) * 2) \div 3 + 1

\* The playlist of a finished stream; startDownloadFinishedStream posts a job.
HandlePlaylistHash(m) ==
    /\ m \in answers /\ m.query = "hash"
    /\ answers' = answers \ {m}
    /\ viewer' = IF viewer.received THEN viewer
                 ELSE LET votes == viewer.votes \cup {m.from}
                      IN  [viewer EXCEPT !.votes = votes,
                                         !.received = Accepted(votes),
                                         !.hash = Accepted(votes),
                                         !.posted = Accepted(votes)]
    /\ UNCHANGED <<announced, kept, ended>>

StartDownloadFinishedStream ==
    /\ viewer.posted
    /\ viewer' = [viewer EXCEPT !.posted = FALSE,
                                !.handle = IF @ = NoDownload THEN Playlist ELSE @]
    /\ UNCHANGED <<announced, kept, ended, answers>>

------------------------------------------------------------------------------
\* finishStream: the chunks between two times are to be saved.
ViewerInit == /\ announced = 0
        /\ kept \in {first..last : first \in Indices, last \in Indices}
        /\ ended = {}
        /\ answers = {}
        /\ viewer = [infos |-> 0, next |-> 0, handle |-> NoDownload, files |-> {}, marked |-> {},
                     playlist |-> {}, saved |-> FALSE, votes |-> {}, received |-> FALSE,
                     hash |-> FALSE, posted |-> FALSE, complete |-> FALSE]

Download == LiveChunkIsDownloaded \/ PlaylistIsDownloaded \/ SavedChunkIsDownloaded

Deliver == \E m \in answers : HandleInfos(m) \/ HandlePlaylistHash(m)

ViewerNext == \/ Announce
        \/ \E r \in Replicators : EndStream(r)
        \/ \E last \in Indices : AnswerInfos(last)
        \/ AnswerEnded \/ HandleEnded
        \/ Deliver \/ Download \/ StartDownloadFinishedStream

ViewerSpec == ViewerInit /\ [][ViewerNext]_viewerVars

\* The viewer asks again and again, what is asked for is answered, answers
\* arrive, and what some replicator has is downloaded.
ViewerFairness ==
    /\ WF_viewerVars(AnswerEnded) /\ WF_viewerVars(HandleEnded)
    /\ \A r \in Replicators : SF_viewerVars(HandlePlaylistHash(PlaylistHash(r)))
    /\ WF_viewerVars(Download) /\ WF_viewerVars(StartDownloadFinishedStream)

ViewerFairSpec == ViewerSpec /\ ViewerFairness

------------------------------------------------------------------------------
(* Properties *)

ViewerTypeOK ==
    /\ announced \in 0..N /\ kept \subseteq Indices /\ ended \subseteq Replicators
    /\ viewer.infos \in 0..N /\ viewer.next \in 0..N
    /\ viewer.playlist \cup viewer.files \cup viewer.marked \subseteq Indices
    /\ viewer.handle \in Handles \cup {NoDownload}

\* The playlist of the live stream names what is there: the viewer downloads one
\* chunk at a time, it marks the chunk it has downloaded although only the number
\* of the next one is kept, and the playlist it writes names chunks that are
\* complete, up to the last one.  The playlist of the saved stream, which takes its
\* place, names all chunks, before they are downloaded.
PlaylistIsPlayable ==
    /\ ViewerTypeOK
    /\ viewer.marked \subseteq viewer.files
    /\ viewer.next <= viewer.infos /\ viewer.infos <= announced
    /\ viewer.handle # NoDownload /\ viewer.handle.kind = "live" =>
           viewer.handle.chunk = viewer.next
    /\ ~viewer.saved => viewer.playlist \subseteq viewer.files
    /\ ~viewer.saved /\ ~viewer.complete /\ viewer.playlist # {} =>
           \E i \in viewer.playlist : \A j \in viewer.files : j <= i

\* A viewer that has seen a part of the stream gets the rest of it: if, when all
\* replicators have ended the stream, those chunks are saved which it has not
\* downloaded, it ends up with every chunk.
ViewerGetsAll ==
    (ended = Replicators /\ Indices \ viewer.files \subseteq kept)
        ~> (viewer.complete /\ viewer.files = Indices)

==============================================================================
