---------------------------- MODULE DownloadChannel --------------------------
(***************************************************************************)
(* One download channel on the replicators of its shard (DownloadLimiter,  *)
(* ReplicatorUploadRequestInfo, RcptSyncronizer and their callers in       *)
(* Replicator).  A client signs, for every replicator, receipts for the    *)
(* total it is going to download from it.  A replicator sends pieces as    *)
(* long as they are covered by receipts, accepts receipts as long as the   *)
(* prepaid size covers them, and passes every new receipt on to the        *)
(* others, so that each one can state how much everybody has uploaded.     *)
(*                                                                         *)
(* Receipts between replicators are datagrams: lost, duplicated, reordered.*)
(* Sizes are counted in pieces.                                            *)
(***************************************************************************)
EXTENDS Integers, FiniteSets, FiniteSetsExt, Functions

CONSTANTS
    Replicators,    \* m_dnReplicatorShard
    Clients,        \* the clients of the channel
    Joining,        \* those that must be synchronized when they get the channel
    Prepaid,        \* the values m_prepaidDownloadSize may begin with
    ReceiptLimit,   \* m_receiptLimit
    MaxSize,        \* bound on the size of a receipt
    MaxEvents       \* bound on the enlargements of the channel, its closing
                    \* and the restarts of replicators, taken together

ASSUME DownloadChannelAssumption ==
    /\ IsFiniteSet(Replicators) /\ IsFiniteSet(Clients)
    /\ Joining \subseteq Replicators
    /\ Prepaid \subseteq Nat /\ ReceiptLimit \in Nat /\ MaxSize \in Nat
    /\ MaxEvents \in Nat

VARIABLES
    chain,      \* the channel on the chain
    phase,      \* which replicators run
    channel,    \* m_dnChannelMap of every replicator
    file,       \* its saved channel map
    sync,       \* its m_syncChannelMap
    waiting,    \* enlargements posted to it
    connected,  \* the accepted connections
    signed,     \* the receipts of the clients
    net,        \* the receipts sent between replicators
    traffic     \* history: what was really sent, and how often a replicator
                \* has lost its count of it

vars == <<chain, phase, channel, file, sync, waiting, connected, signed, net, traffic>>

Cell == Clients \X Replicators
Zero == [x \in Cell |-> 0]

Sizes == [Cell -> 0..MaxSize]

Channel ==
    [known    : BOOLEAN,    \* the channel is in the map
     syncing  : BOOLEAN,    \* m_isSynchronizing
     prepaid  : Nat,        \* m_prepaidDownloadSize
     total    : Nat,        \* m_totalReceiptsSize
     accepted : Sizes,      \* m_acceptedSize of m_replicatorUploadRequestMap
     refused  : Sizes,      \* m_notAcceptedSize
     receipt  : Sizes,      \* m_clientReceiptMap
     sent     : [Clients -> 0..MaxSize + 1]] \* m_sentClientMap

NoChannel ==
    [known |-> FALSE, syncing |-> FALSE, prepaid |-> 0, total |-> 0,
     accepted |-> Zero, refused |-> Zero, receipt |-> Zero,
     sent |-> [c \in Clients |-> 0]]

\* What is read back of a saved channel.
Saved == [known : BOOLEAN, accepted : Sizes, refused : Sizes,
          sent : [Clients -> 0..MaxSize + 1]]

Save(ch) == [known |-> ch.known, accepted |-> ch.accepted,
             refused |-> ch.refused, sent |-> ch.sent]

Receipt == [to : Replicators, cell : Cell, size : 1..MaxSize]

TypeOK ==
    /\ chain \in [first : Prepaid, prepaid : Nat, closed : BOOLEAN, events : 0..MaxEvents,
                  restarted : BOOLEAN]
    /\ phase \in [Replicators -> {"up", "down"}]
    /\ channel \in [Replicators -> Channel]
    /\ file \in [Replicators -> Saved]
    /\ sync \in [Replicators -> [on : BOOLEAN, answers : SUBSET Replicators,
                                 asked : SUBSET Replicators, timer : BOOLEAN]]
    /\ waiting \in [Replicators -> 0..MaxEvents]
    /\ connected \subseteq Cell
    /\ signed \in Sizes
    /\ net \subseteq Receipt
    /\ traffic \in [Replicators -> [sent : [Clients -> Nat], losses : Nat]]

NoSync == [on |-> FALSE, answers |-> {}, asked |-> {}, timer |-> FALSE]

Init ==
    /\ \E size \in Prepaid :
          chain = [first |-> size, prepaid |-> size, closed |-> FALSE,
                   events |-> 0, restarted |-> FALSE]
    /\ phase = [r \in Replicators |-> "up"]
    /\ channel = [r \in Replicators |-> NoChannel]
    /\ file = [r \in Replicators |-> Save(NoChannel)]
    /\ sync = [r \in Replicators |-> NoSync]
    /\ waiting = [r \in Replicators |-> 0]
    /\ connected = {}
    /\ signed = Zero
    /\ net = {}
    /\ traffic = [r \in Replicators |-> [sent |-> [c \in Clients |-> 0], losses |-> 0]]

Others(r) == Replicators \ {r}

------------------------------------------------------------------------------
(* Receipts. *)

\* maxReceiptSize
MaxReceiptSize(ch, x) == Max({ch.accepted[x], ch.refused[x]})

\* totalReceiptSize of the upload requests of replicator p
TotalReceiptSize(ch, p) ==
    SumFunction([c \in Clients |-> MaxReceiptSize(ch, <<c, p>>)])

\* totalAcceptedReceiptSize
TotalAcceptedReceiptSize(ch, p) ==
    SumFunction([c \in Clients |-> ch.accepted[<<c, p>>]])

\* createMyOpinion: what every replicator has uploaded, as far as ch knows.
CreateMyOpinion(ch) == [p \in Replicators |-> TotalAcceptedReceiptSize(ch, p)]

\* tryFixReceiptSize: refused receipts are accepted once the prepaid size
\* covers what this one replicator was asked for.
TryFixReceiptSize(ch, p) ==
    LET fix == {x \in Cell : /\ x[2] = p /\ ch.refused[x] > ch.accepted[x]
                             /\ ch.prepaid >= TotalReceiptSize(ch, p)}
    IN  [ch EXCEPT !.accepted = [x \in Cell |-> IF x \in fix THEN ch.refused[x]
                                                ELSE ch.accepted[x]],
                   !.refused = [x \in Cell |-> IF x \in fix THEN 0
                                               ELSE ch.refused[x]]]

\* A mutant: the whole size is added to the total, not what is new.
AcceptUploadSizeAddsAll(ch, x, size) ==
    LET fixed == TryFixReceiptSize(ch, x[2])
        total == fixed.total + size
    IN  CASE size <= MaxReceiptSize(fixed, x) -> fixed
          [] size > MaxReceiptSize(fixed, x) /\ total > fixed.prepaid ->
                [fixed EXCEPT !.total = total, !.refused[x] = size]
          [] OTHER -> [fixed EXCEPT !.total = total, !.accepted[x] = size]

\* A mutant: old receipts are not skipped.
AcceptUploadSizeTakesOld(ch, x, size) ==
    LET fixed == TryFixReceiptSize(ch, x[2])
        total == fixed.total + size - MaxReceiptSize(fixed, x)
    IN  IF total > fixed.prepaid
        THEN [fixed EXCEPT !.total = total, !.refused[x] = size]
        ELSE [fixed EXCEPT !.total = total, !.accepted[x] = size]

\* acceptUploadSize
AcceptUploadSize(ch, x, size) ==
    LET fixed == TryFixReceiptSize(ch, x[2])
        total == fixed.total + size - MaxReceiptSize(fixed, x)
    IN  CASE size <= MaxReceiptSize(fixed, x) -> fixed
          [] size > MaxReceiptSize(fixed, x) /\ total > fixed.prepaid ->
                [fixed EXCEPT !.total = total, !.refused[x] = size]
          [] OTHER -> [fixed EXCEPT !.total = total, !.accepted[x] = size]

\* acceptReceiptImpl, for a known channel and client and a valid signature:
\* a receipt is kept, and passed on, whether it was accepted or not.
AcceptReceiptImpl(ch, x, size) ==
    LET done == AcceptUploadSize(ch, x, size)
    IN  [done EXCEPT !.receipt[x] = Max({@, size})]

\* A mutant: a receipt of a client of ours is not passed on.
ForwardedNotOwn(r, before, after, some) ==
    {m \in Receipt : /\ after.receipt[m.cell] = m.size
                     /\ before.receipt[m.cell] < m.size
                     /\ m.cell[2] # r /\ m.to \in some}

\* The receipts that are new to r: those for r itself go to all the others,
\* those for another replicator to some of the others.
Forwarded(r, before, after, some) ==
    {m \in Receipt : /\ after.receipt[m.cell] = m.size
                     /\ before.receipt[m.cell] < m.size
                     /\ m.to \in IF m.cell[2] = r THEN Others(r) ELSE some}

\* Up to four of the others, chosen at random.
Receivers(r) == kSubset(Min({4, Cardinality(Others(r))}), Others(r))

\* Replicator r has processed receipts: its channel is now ch.
Update(r, ch) ==
    /\ channel' = [channel EXCEPT ![r] = ch]
    /\ \E some \in Receivers(r) : net' = net \cup Forwarded(r, channel[r], ch, some)

\* acceptReceipt: the client has signed for more, over its connection.  It is
\* disconnected when the prepaid size is used up.
AcceptReceipt(c, r, size) ==
    /\ phase[r] = "up" /\ <<c, r>> \in connected
    /\ signed[<<c, r>>] < size
    /\ signed' = [signed EXCEPT ![<<c, r>>] = size]
    /\ IF channel[r].known
       THEN LET ch == AcceptReceiptImpl(channel[r], <<c, r>>, size)
            IN  /\ Update(r, ch)
                /\ connected' = IF ch.refused[<<c, r>>] = size
                                THEN connected \ {<<c, r>>} ELSE connected
       ELSE /\ connected' = connected \ {<<c, r>>}
            /\ UNCHANGED <<channel, net>>
    /\ UNCHANGED <<chain, phase, file, sync, waiting, traffic>>

\* acceptReceiptFromAnotherReplicator
OnRcpt(m) ==
    /\ phase[m.to] = "up" /\ channel[m.to].known
    /\ Update(m.to, AcceptReceiptImpl(channel[m.to], m.cell, m.size))
    /\ UNCHANGED <<chain, phase, file, sync, waiting, connected, signed, traffic>>

------------------------------------------------------------------------------
(* The client and its connections. *)

\* acceptClientConnection with the answer LIMITED.  A client that goes away
\* just does nothing any more.
AcceptClientConnection(c, r) ==
    /\ phase[r] = "up" /\ channel[r].known /\ <<c, r>> \notin connected
    /\ channel[r].total < channel[r].prepaid
    /\ connected' = connected \cup {<<c, r>>}
    /\ UNCHANGED <<chain, phase, channel, file, sync, waiting, signed, net, traffic>>

\* checkDownloadLimit
CheckDownloadLimit(ch, c, r) ==
    /\ ch.known /\ ~ch.syncing
    /\ ch.sent[c] <= ch.accepted[<<c, r>>] + ReceiptLimit

\* The session asks checkDownloadLimit, sends a piece and reports onPieceSent.
SendPiece(c, r) ==
    /\ phase[r] = "up" /\ <<c, r>> \in connected
    /\ CheckDownloadLimit(channel[r], c, r)
    /\ channel[r].sent[c] <= MaxSize
    /\ channel' = [channel EXCEPT ![r].sent[c] = @ + 1]
    /\ traffic' = [traffic EXCEPT ![r].sent[c] = @ + 1]
    /\ UNCHANGED <<chain, phase, file, sync, waiting, connected, signed, net>>

------------------------------------------------------------------------------
(* The life of the channel. *)

\* A mutant: of the saved channel only the requests are restored.
RestoreRequestsOnly(ch, saved) ==
    [ch EXCEPT !.accepted = saved.accepted, !.refused = saved.refused]

\* What addChannelInfo takes over from a saved channel: neither the total nor
\* the receipts themselves.
RestoreChannel(ch, saved) ==
    [ch EXCEPT !.sent = saved.sent, !.accepted = saved.accepted,
               !.refused = saved.refused]

\* startSync: the receipts of the others are asked for.
StartSync(r) == [on |-> TRUE, answers |-> {}, asked |-> Others(r), timer |-> TRUE]

\* asyncAddDownloadChannelInfo: the channel is added, and the receipts of the
\* others are asked for if it has to be synchronized.
AddChannelInfo(r) ==
    /\ phase[r] = "up" /\ ~channel[r].known /\ ~chain.closed
    /\ LET new == [NoChannel EXCEPT !.known = TRUE, !.prepaid = chain.prepaid,
                                    !.syncing = r \in Joining]
       IN  channel' = [channel EXCEPT ![r] =
                          IF file[r].known THEN RestoreChannel(new, file[r])
                          ELSE new]
    /\ sync' = [sync EXCEPT ![r] = IF r \in Joining THEN StartSync(r) ELSE NoSync]
    /\ waiting' = [waiting EXCEPT ![r] = 0]
    /\ UNCHANGED <<chain, phase, file, connected, signed, net, traffic>>

\* requestOpinons once more.  The timer that this call starts is cancelled as
\* soon as it returns, so there is no third time.
SyncTimeout(r) ==
    /\ phase[r] = "up" /\ sync[r].on /\ sync[r].timer
    /\ sync' = [sync EXCEPT ![r].asked = Others(r), ![r].timer = FALSE]
    /\ UNCHANGED <<chain, phase, channel, file, waiting, connected, signed, net, traffic>>

\* consensusThreshould
ConsensusThreshould(r) == Min({(Cardinality(Others(r)) * 3) \div 2, 4})

\* createSyncRcpts: the clients and replicators s has receipts for.
CreateSyncRcpts(s) == {x \in Cell : channel[s].receipt[x] > 0}

\* onSyncRcptReceived accepts the receipts of an answer one by one.
AcceptSyncRcpts(ch, cells, receipt) ==
    FoldSet(LAMBDA x, done : AcceptReceiptImpl(done, x, receipt[x]), ch, cells)

\* The answer of s and onSyncRcptReceived at r.  Receipts only grow, so an
\* answer that takes its time is an answer that was given earlier.
OnSyncRcptReceived(r, s) ==
    /\ phase[r] = "up" /\ s \in sync[r].asked
    /\ phase[s] = "up" /\ channel[s].known
    /\ LET answers == sync[r].answers \cup {s}
       IN  /\ sync' = [sync EXCEPT
                          ![r].asked = @ \ {s},
                          ![r].answers = IF sync[r].on THEN answers ELSE @,
                          ![r].on = @ /\ Cardinality(answers) < ConsensusThreshould(r)]
           /\ IF channel[r].known
              THEN Update(r, AcceptSyncRcpts(channel[r], CreateSyncRcpts(s), channel[s].receipt))
              ELSE UNCHANGED <<channel, net>>
    /\ UNCHANGED <<chain, phase, file, waiting, connected, signed, traffic>>

\* The channel is enlarged on the chain.
ChainIncrease ==
    /\ chain.events < MaxEvents /\ ~chain.closed
    /\ chain' = [chain EXCEPT !.events = @ + 1, !.prepaid = @ + 1]
    /\ waiting' = [r \in Replicators |->
                      IF channel[r].known THEN waiting[r] + 1 ELSE waiting[r]]
    /\ UNCHANGED <<phase, channel, file, sync, connected, signed, net, traffic>>

\* increaseChannelSize
IncreaseChannelSize(r) ==
    /\ phase[r] = "up" /\ waiting[r] > 0
    /\ waiting' = [waiting EXCEPT ![r] = @ - 1]
    /\ channel' = [channel EXCEPT ![r].prepaid =
                      IF channel[r].known THEN @ + 1 ELSE @]
    /\ UNCHANGED <<chain, phase, file, sync, connected, signed, net, traffic>>

ChainClose ==
    /\ chain.events < MaxEvents /\ ~chain.closed
    /\ chain' = [chain EXCEPT !.events = @ + 1, !.closed = TRUE]
    /\ UNCHANGED <<phase, channel, file, sync, waiting, connected, signed, net, traffic>>

\* removeChannelInfo
RemoveChannelInfo(r) ==
    /\ phase[r] = "up" /\ chain.closed /\ channel[r].known
    /\ channel' = [channel EXCEPT ![r] = NoChannel]
    /\ UNCHANGED <<chain, phase, file, sync, waiting, connected, signed, net, traffic>>

------------------------------------------------------------------------------
(* Restarts. *)

GoDown(r) ==
    /\ phase[r] = "up" /\ chain.events < MaxEvents
    /\ chain' = [chain EXCEPT !.events = @ + 1, !.restarted = TRUE]
    /\ phase' = [phase EXCEPT ![r] = "down"]
    /\ channel' = [channel EXCEPT ![r] = NoChannel]
    /\ sync' = [sync EXCEPT ![r] = NoSync]
    /\ waiting' = [waiting EXCEPT ![r] = 0]
    /\ connected' = {x \in connected : x[2] # r}
    /\ UNCHANGED <<signed, net>>

\* The count of what was sent is lost if some is.
CountIsLost(r, some) ==
    traffic' = [traffic EXCEPT ![r].losses = IF some THEN @ + 1 ELSE @]

\* stopReplicator: the channel map is saved, over an earlier one that the
\* channel was not restored from yet.
StopReplicator(r) ==
    /\ GoDown(r)
    /\ file' = [file EXCEPT ![r] = Save(channel[r])]
    /\ CountIsLost(r, file[r].known /\ ~channel[r].known)

\* A crash: the file of an earlier orderly stop stays.
Crash(r) ==
    /\ GoDown(r)
    /\ UNCHANGED file
    /\ CountIsLost(r, channel[r].known)

\* start, loadDownloadChannelMap
Start(r) ==
    /\ phase[r] = "down"
    /\ phase' = [phase EXCEPT ![r] = "up"]
    /\ UNCHANGED <<chain, channel, file, sync, waiting, connected, signed, net, traffic>>

------------------------------------------------------------------------------
Next ==
    \/ ChainIncrease \/ ChainClose
    \/ \E c \in Clients, r \in Replicators :
          \/ AcceptClientConnection(c, r) \/ SendPiece(c, r)
          \/ \E size \in 1..MaxSize : AcceptReceipt(c, r, size)
    \/ \E m \in net : OnRcpt(m)
    \/ \E r \in Replicators :
          \/ AddChannelInfo(r)
          \/ SyncTimeout(r) \/ \E s \in Replicators : OnSyncRcptReceived(r, s)
          \/ IncreaseChannelSize(r) \/ RemoveChannelInfo(r)
          \/ StopReplicator(r) \/ Crash(r) \/ Start(r)

Spec == Init /\ [][Next]_vars

------------------------------------------------------------------------------
(* Properties. *)

\* m_totalReceiptsSize, by which connections and receipts are refused, is the
\* sum of the largest receipts of all clients for all replicators, in
\* whatever order they came and although some were refused first and
\* accepted later (acceptUploadSize, tryFixReceiptSize) - as long as nothing
\* was restored from a file.
TotalIsSum ==
    \A r \in Replicators : channel[r].known /\ ~file[r].known =>
        channel[r].total =
            SumFunction([p \in Replicators |-> TotalReceiptSize(channel[r], p)])

\* No single replicator is credited with more than is prepaid
\* (acceptUploadSize, tryFixReceiptSize), as long as nothing was restored.
ReplicatorWithinPrepaid ==
    \A r, p \in Replicators : channel[r].known /\ ~file[r].known =>
        CreateMyOpinion(channel[r])[p] <= channel[r].prepaid

\* The accounts of a channel are consistent: the total is the sum of its
\* parts, and no part exceeds what is prepaid (acceptUploadSize,
\* tryFixReceiptSize).
AccountsAreConsistent == TypeOK /\ TotalIsSum /\ ReplicatorWithinPrepaid

\* What a replicator has really sent to a client is covered by the receipts the
\* client has signed for it, but for the limit and one piece, over orderly
\* restarts too (checkDownloadLimit, saveDownloadChannelMap, addChannelInfo).
\* A crash, or a stop before the channel was restored, forgets what was sent:
\* each such loss costs at most the same once more, whatever an old file
\* brings back and however often the receipts are learnt again.
TrafficIsCovered ==
    \A r \in Replicators, c \in Clients :
        traffic[r].sent[c] <=
            (traffic[r].losses + 1) * (signed[<<c, r>>] + ReceiptLimit + 1)

\* When every receipt that was passed on has come and the channel was always
\* large enough for all that was signed, the replicators state the same sizes
\* (createMyOpinion), and these are what the clients have signed - whatever
\* was duplicated, reordered or learnt by synchronization.  (A receipt that
\* comes before the enlargement that covers it stays refused until another
\* receipt for the same replicator comes.)
AgreeWhenDelivered ==
    /\ ~chain.restarted
    /\ chain.first >= SumFunction(signed)
    /\ \A r \in Replicators : channel[r].known
    /\ \A m \in net : channel[m.to].receipt[m.cell] >= m.size
    => \A r \in Replicators : channel[r].accepted = signed

\* What is accepted is never taken back while the replicator runs, although
\* old receipts come late and more than once (acceptUploadSize).
AcceptedNeverShrinks ==
    [][\A r \in Replicators : channel[r].known /\ channel'[r].known =>
          \A x \in Cell : channel'[r].accepted[x] >= channel[r].accepted[x]]_vars

==============================================================================
