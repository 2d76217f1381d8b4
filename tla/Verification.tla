----------------------------- MODULE Verification ----------------------------
(***************************************************************************)
(* How the replicators of a drive verify one another                       *)
(* (VerificationDriveTask and the part of FlatDrive and Replicator that    *)
(* feeds it).  The chain starts a verification of the last approved tree.  *)
(* Every replicator reads all its files and calculates one code per        *)
(* replicator, shares its own, compares the codes it receives with the     *)
(* ones it calculated, shares an opinion on everybody, collects the        *)
(* opinions of the others and sends a transaction some time after enough   *)
(* have come.                                                              *)
(*                                                                         *)
(* Codes and opinions travel in datagrams: they are shared again and again *)
(* by timers, so what was shared once may arrive at any time, late, in any *)
(* order, more than once or never.  What the chain says is posted to the   *)
(* thread of the drive in order.                                           *)
(***************************************************************************)
EXTENDS Integers, FiniteSets, Sequences

CONSTANTS
    Replicators,        \* m_request->m_replicators
    Damaged,            \* the sets of replicators that may be the ones whose
                        \* files are not the approved ones
    MaxVerifications,   \* bound on the verifications the chain starts
    MaxDisturbances     \* bound on the modifications approved meanwhile, the
                        \* verifications that expire and the crashes of
                        \* replicators, taken together

ASSUME VerificationAssumption ==
    /\ IsFiniteSet(Replicators) /\ Replicators # {}
    /\ Damaged \subseteq SUBSET Replicators
    /\ MaxVerifications \in Nat /\ MaxDisturbances \in Nat

VARIABLES
    chain,          \* what the chain knows of the drive
    inbox,          \* the events posted to every drive
    drive,          \* the state of every replicator's FlatDrive
    task,           \* m_verificationTask of every drive
    early,          \* m_unknownVerificationCodeQueue, m_unknownVerificationOpinions
    codes,          \* the codes that were shared
    opinions,       \* the opinions that were shared
    disturbances    \* how many of those there were

vars == <<chain, inbox, drive, task, early, codes, opinions, disturbances>>

Tx == 1..MaxVerifications
TxOrNone == 0..MaxVerifications
Modification == 0..MaxDisturbances

\* A code is a hash over the verification, the replicator it is for and the
\* bytes of the files: two replicators calculate the same code for a third
\* one exactly when their files are the same.
SameFiles(r, s) == r = s \/ (~drive[r].damaged /\ ~drive[s].damaged)

Code == [tx : Tx, from : Replicators]

\* An opinion: those found good; "late" says that it was formed because the
\* time was up, before all codes had come.
Opinion == [tx : Tx, from : Replicators, good : SUBSET Replicators,
            late : BOOLEAN]

Task == [tx           : Tx,                 \* m_request->m_tx
         calculated   : BOOLEAN,            \* m_myVerifyCodesCalculated
         received     : SUBSET Replicators, \* the keys of m_receivedCodes
         codeTimer    : BOOLEAN,            \* m_codeTimerRun
         formed       : BOOLEAN,            \* m_myOpinion is set
         collected    : SUBSET Opinion,     \* m_myVerificationApprovalTxInfo
         opinionTimer : {"off", "running", "expired"}]

NoTask == [tx |-> 0]

Event == [type : {"start", "stop", "approved"}, id : Nat]

TypeOK ==
    /\ chain \in [pending   : TxOrNone,             \* the running verification
                  started   : TxOrNone,             \* how many were started
                  last      : Modification,         \* the approved modification
                  about     : [Tx -> Modification], \* m_approvedModification
                  published : [Tx -> SUBSET Opinion]]
    /\ inbox \in [Replicators -> Seq(Event)]
    /\ drive \in [Replicators ->
                    [phase   : {"down", "init", "up"},
                     last    : Modification,    \* m_lastApprovedModification
                     target  : Modification,    \* the modification it catches up to
                     request : TxOrNone,        \* m_deferredVerificationRequest
                     damaged : BOOLEAN]]        \* its files are not the approved ones
    /\ task \in [Replicators -> Task \cup {NoTask}]
    /\ early \in [Replicators ->
                    [codes : SUBSET Code, opinions : SUBSET Opinion]]
    /\ codes \subseteq Code
    /\ opinions \subseteq Opinion
    /\ disturbances \in 0..MaxDisturbances

NothingEarly == [codes |-> {}, opinions |-> {}]

Init ==
    /\ chain = [pending |-> 0, started |-> 0, last |-> 0,
                about |-> [t \in Tx |-> 0], published |-> [t \in Tx |-> {}]]
    /\ inbox = [r \in Replicators |-> <<>>]
    /\ \E bad \in Damaged :
          drive = [r \in Replicators |->
                      [phase |-> "up", last |-> 0, target |-> 0, request |-> 0,
                       damaged |-> r \in bad]]
    /\ task = [r \in Replicators |-> NoTask]
    /\ early = [r \in Replicators |-> NothingEarly]
    /\ codes = {}
    /\ opinions = {}
    /\ disturbances = 0

------------------------------------------------------------------------------
(* The chain. *)

\* A replicator that does not run hears of nothing.
Post(type, id) ==
    [r \in Replicators |->
        IF drive[r].phase = "down" THEN inbox[r]
        ELSE Append(inbox[r], [type |-> type, id |-> id])]

ChainStart ==
    /\ chain.pending = 0
    /\ chain.started < MaxVerifications
    /\ LET tx == chain.started + 1
       IN  /\ chain' = [chain EXCEPT !.pending = tx, !.started = tx,
                                     !.about[tx] = chain.last]
           /\ inbox' = Post("start", tx)
    /\ UNCHANGED <<drive, task, early, codes, opinions, disturbances>>

\* cancelVerification of the chain: the verification has expired.
ChainCancel ==
    /\ chain.pending # 0
    /\ disturbances < MaxDisturbances
    /\ disturbances' = disturbances + 1
    /\ chain' = [chain EXCEPT !.pending = 0]
    /\ inbox' = Post("stop", chain.pending)
    /\ UNCHANGED <<drive, task, early, codes, opinions>>

\* A modification is approved; the drives are brought up to it later.
ChainApprove ==
    /\ disturbances < MaxDisturbances
    /\ disturbances' = disturbances + 1
    /\ chain' = [chain EXCEPT !.last = @ + 1]
    /\ inbox' = Post("approved", chain.last + 1)
    /\ UNCHANGED <<drive, task, early, codes, opinions>>

------------------------------------------------------------------------------
(* VerificationDriveTask. *)

ReplicatorNumber == Cardinality(Replicators)

\* A mutant: the opinions of the others are enough.
ProcessedVerificationOpinionWithoutOwn(t, op) ==
    LET all == t.collected \cup {op}
    IN  IF op.from \in {o.from : o \in t.collected} THEN t
        ELSE [t EXCEPT !.collected = all,
                       !.opinionTimer = IF /\ Cardinality(all) >= (2 * ReplicatorNumber) \div 3
                                           /\ t.opinionTimer = "off"
                                        THEN "running" ELSE @]

\* A mutant: the timer is never started by the last opinion that comes.
ProcessedVerificationOpinionStrict(t, op) ==
    LET all == t.collected \cup {op}
    IN  IF op.from \in {o.from : o \in t.collected} THEN t
        ELSE [t EXCEPT !.collected = all,
                       !.opinionTimer = IF /\ t.collected # {} /\ t.formed
                                           /\ Cardinality(all) > ReplicatorNumber
                                           /\ t.opinionTimer = "off"
                                        THEN "running" ELSE @]

\* processedVerificationOpinion of an opinion on this verification.  The
\* first opinion makes up m_myVerificationApprovalTxInfo, is then found there
\* and ignored as a duplicate: it never starts the timer.
ProcessedVerificationOpinion(t, op) ==
    LET all == t.collected \cup {op}
    IN  IF t.collected = {} THEN [t EXCEPT !.collected = {op}]
        ELSE IF op.from \in {o.from : o \in t.collected} THEN t
        ELSE [t EXCEPT !.collected = all,
                       !.opinionTimer = IF /\ t.formed
                                           /\ Cardinality(all) > (2 * ReplicatorNumber) \div 3
                                           /\ t.opinionTimer = "off"
                                        THEN "running" ELSE @]

\* A mutant: a replicator whose code has not come counts as good.
MyOpinionTrusting(r, t, late) ==
    [tx |-> t.tx, from |-> r, late |-> late,
     good |-> {s \in Replicators : s \in t.received => SameFiles(r, s)}]

\* The opinion of r: itself, and those whose code has come and is the one r
\* has calculated for them.
MyOpinion(r, t, late) ==
    [tx |-> t.tx, from |-> r, late |-> late,
     good |-> {s \in Replicators :
                  s = r \/ (s \in t.received /\ SameFiles(r, s))}]

\* verifyCodeTimerExpired: the opinion is formed, shared and collected.
VerifyCodeTimerExpired(r, t, late) ==
    ProcessedVerificationOpinion([t EXCEPT !.formed = TRUE], MyOpinion(r, t, late))

\* A mutant: one code less is taken for all.
CheckVerifyCodeNumberOneShort(r, t) ==
    CASE t.formed -> t
      [] ~t.formed /\ Cardinality(t.received) >= ReplicatorNumber - 2 ->
            VerifyCodeTimerExpired(r, t, FALSE)
      [] OTHER -> [t EXCEPT !.codeTimer = TRUE]

\* checkVerifyCodeNumber
CheckVerifyCodeNumber(r, t) ==
    CASE t.formed -> t
      [] ~t.formed /\ Cardinality(t.received) = ReplicatorNumber - 1 ->
            VerifyCodeTimerExpired(r, t, FALSE)
      [] OTHER -> [t EXCEPT !.codeTimer = TRUE]

\* processedVerificationCode of a code for this verification; the first code
\* of a replicator is kept.
ProcessedVerificationCode(r, t, c) ==
    LET received == [t EXCEPT !.received = @ \cup {c.from}]
    IN  CASE c.from \in t.received -> t
          [] c.from \notin t.received /\ t.calculated ->
                CheckVerifyCodeNumber(r, received)
          [] OTHER -> received

\* shareVerifyOpinion: once the own opinion is formed and collected it is
\* shared, and shared again by a timer.
Share(r, t) == opinions' = opinions \cup {o \in t.collected : o.from = r}

\* verificationCodesCompleted: the verify thread has read all the files.
VerificationCodesCompleted(r) ==
    /\ drive[r].phase # "down" /\ task[r] # NoTask /\ ~task[r].calculated
    /\ task' = [task EXCEPT ![r] =
                   CheckVerifyCodeNumber(r, [task[r] EXCEPT !.calculated = TRUE])]
    /\ codes' = codes \cup {[tx |-> task[r].tx, from |-> r]}
    /\ Share(r, task'[r])
    /\ UNCHANGED <<chain, inbox, drive, early, disturbances>>

\* m_verifyCodeTimer expires before all codes have come.
OnVerifyCodeTimer(r) ==
    /\ drive[r].phase # "down" /\ task[r] # NoTask
    /\ task[r].codeTimer /\ ~task[r].formed
    /\ task' = [task EXCEPT ![r] = VerifyCodeTimerExpired(r, task[r], TRUE)]
    /\ Share(r, task'[r])
    /\ UNCHANGED <<chain, inbox, drive, early, codes, disturbances>>

\* verifyOpinionTimerExpired: the transaction is sent, and published unless
\* the verification is over.
OnVerifyOpinionTimer(r) ==
    /\ drive[r].phase # "down" /\ task[r] # NoTask
    /\ task[r].opinionTimer = "running"
    /\ task' = [task EXCEPT ![r].opinionTimer = "expired"]
    /\ IF chain.pending = task[r].tx
       THEN /\ chain' = [chain EXCEPT !.pending = 0,
                                      !.published[task[r].tx] = task[r].collected]
            /\ inbox' = Post("stop", task[r].tx)
       ELSE UNCHANGED <<chain, inbox>>
    /\ UNCHANGED <<drive, early, codes, opinions, disturbances>>

------------------------------------------------------------------------------
(* FlatDrive. *)

\* The task of verification tx, with what has come early.  The constructor
\* processes the opinions and codes while nothing is calculated and no
\* opinion is formed, so they are only stored.
NewTask(r, tx) ==
    [tx |-> tx, calculated |-> FALSE,
     received |-> {c.from : c \in {c \in early[r].codes : c.tx = tx}},
     codeTimer |-> FALSE, formed |-> FALSE,
     collected |-> {o \in early[r].opinions : o.tx = tx},
     opinionTimer |-> "off"]

\* runVerificationTask. The code erases the opinions twice and leaves the codes
\* in m_unknownVerificationCodeQueue; the task has them, and nobody else reads
\* them again.
RunVerificationTask(r, d) ==
    /\ task' = [task EXCEPT ![r] = NewTask(r, d.request)]
    /\ drive' = [drive EXCEPT ![r] = [d EXCEPT !.request = 0]]
    /\ early' = [early EXCEPT
                    ![r].codes = {c \in @ : c.tx # d.request},
                    ![r].opinions = {o \in @ : o.tx # d.request}]

\* The deferred verification is run if the drive has the tree it is about.
RunDeferred(r, d) ==
    IF d.request # 0 /\ d.phase = "up" /\ d.last = chain.about[d.request]
    THEN RunVerificationTask(r, d)
    ELSE drive' = [drive EXCEPT ![r] = d] /\ UNCHANGED <<task, early>>

Take(r, type) ==
    /\ drive[r].phase # "down"
    /\ inbox[r] # <<>> /\ Head(inbox[r]).type = type
    /\ inbox' = [inbox EXCEPT ![r] = Tail(@)]

\* startVerification
OnStart(r) ==
    /\ Take(r, "start")
    /\ RunDeferred(r, [drive[r] EXCEPT !.request = Head(inbox[r]).id])
    /\ UNCHANGED <<chain, codes, opinions, disturbances>>

\* A mutant: a deferred request stays.
CancelVerificationKeepsRequest(r, d) ==
    /\ drive' = [drive EXCEPT ![r] = d]
    /\ task' = [task EXCEPT ![r] = NoTask]

\* cancelVerification: the timers are cancelled and the thread is joined.
CancelVerification(r, d) ==
    /\ drive' = [drive EXCEPT ![r] = [d EXCEPT !.request = 0]]
    /\ task' = [task EXCEPT ![r] = NoTask]

\* onVerifyApprovalTransactionHasBeenPublished, asyncCancelDriveVerification
OnStop(r) ==
    /\ Take(r, "stop")
    /\ CancelVerification(r, drive[r])
    /\ UNCHANGED <<chain, early, codes, opinions, disturbances>>

\* onApprovalTransactionHasBeenPublished
OnApproved(r) ==
    /\ Take(r, "approved")
    /\ CancelVerification(r, [drive[r] EXCEPT !.target = Head(inbox[r]).id])
    /\ UNCHANGED <<chain, early, codes, opinions, disturbances>>

\* The drive has the tree it was catching up to; runNextTask.
Reach(r) ==
    /\ drive[r].phase = "up" /\ drive[r].last # drive[r].target
    /\ RunDeferred(r, [drive[r] EXCEPT !.last = drive[r].target])
    /\ UNCHANGED <<chain, inbox, codes, opinions, disturbances>>

\* A code or opinion for no running verification is queued.  What is queued
\* for one that is over here is never read again, and left out.
MayBeRead(r, tx) ==
    \/ tx = drive[r].request
    \/ \E i \in DOMAIN inbox[r] : inbox[r][i] = [type |-> "start", id |-> tx]

\* onVerificationCodeReceived
OnVerificationCodeReceived(r, c) ==
    /\ drive[r].phase # "down" /\ c.from # r
    /\ IF task[r].tx = c.tx
       THEN /\ task' = [task EXCEPT ![r] = ProcessedVerificationCode(r, @, c)]
            /\ Share(r, task'[r])
            /\ UNCHANGED early
       ELSE /\ early' = [early EXCEPT ![r].codes =
                            IF MayBeRead(r, c.tx) THEN @ \cup {c} ELSE @]
            /\ UNCHANGED <<task, opinions>>
    /\ UNCHANGED <<chain, inbox, drive, codes, disturbances>>

\* onVerificationOpinionReceived; of a replicator's opinions the first counts.
OnVerificationOpinionReceived(r, o) ==
    /\ drive[r].phase # "down" /\ o.from # r
    /\ IF task[r].tx = o.tx
       THEN /\ task' = [task EXCEPT ![r] = ProcessedVerificationOpinion(@, o)]
            /\ UNCHANGED early
       ELSE /\ early' = [early EXCEPT ![r].opinions =
                            IF /\ MayBeRead(r, o.tx)
                               /\ \A q \in @ : <<q.tx, q.from>> # <<o.tx, o.from>>
                            THEN @ \cup {o} ELSE @]
            /\ UNCHANGED task
    /\ UNCHANGED <<chain, inbox, drive, codes, opinions, disturbances>>

------------------------------------------------------------------------------
(* Crashes. *)

Crash(r) ==
    /\ disturbances < MaxDisturbances /\ drive[r].phase # "down"
    /\ disturbances' = disturbances + 1
    /\ drive' = [drive EXCEPT ![r] = [@ EXCEPT !.phase = "down", !.request = 0,
                                               !.target = drive[r].last]]
    /\ task' = [task EXCEPT ![r] = NoTask]
    /\ early' = [early EXCEPT ![r] = NothingEarly]
    /\ inbox' = [inbox EXCEPT ![r] = <<>>]
    /\ UNCHANGED <<chain, codes, opinions>>

\* The replicator is told the last approval and the pending verification.
Restart(r) ==
    /\ drive[r].phase = "down"
    /\ drive' = [drive EXCEPT ![r].phase = "init"]
    /\ inbox' = [inbox EXCEPT ![r] =
                    <<[type |-> "approved", id |-> chain.last]>> \o
                    IF chain.pending = 0 THEN <<>>
                    ELSE <<[type |-> "start", id |-> chain.pending]>>]
    /\ UNCHANGED <<chain, task, early, codes, opinions, disturbances>>

\* The initialization of the drive is done; runNextTask.
Initialized(r) ==
    /\ drive[r].phase = "init"
    /\ RunDeferred(r, [drive[r] EXCEPT !.phase = "up"])
    /\ UNCHANGED <<chain, inbox, codes, opinions, disturbances>>

------------------------------------------------------------------------------
Step(r) ==
    \/ OnStart(r) \/ OnStop(r) \/ OnApproved(r) \/ Reach(r) \/ Initialized(r)
    \/ VerificationCodesCompleted(r)
    \/ OnVerifyCodeTimer(r)
    \/ OnVerifyOpinionTimer(r)

Deliver(r) ==
    \/ \E c \in codes : OnVerificationCodeReceived(r, c)
    \/ \E o \in opinions : OnVerificationOpinionReceived(r, o)

Next ==
    \/ ChainStart \/ ChainCancel \/ ChainApprove
    \/ \E r \in Replicators : Step(r) \/ Deliver(r) \/ Crash(r) \/ Restart(r)

Spec == Init /\ [][Next]_vars

\* Posted events are handled, threads and timers make progress, a restarted
\* replicator comes up, and what is shared again and again arrives.  The
\* chain may do nothing, and nobody has to crash.
Fairness ==
    \A r \in Replicators :
        /\ WF_vars(Step(r))
        /\ WF_vars(Restart(r))
        /\ \A s \in Replicators \ {r} :
              WF_vars(\E o \in opinions : /\ o.from = s
                                          /\ OnVerificationOpinionReceived(r, o))

FairSpec == Spec /\ Fairness

------------------------------------------------------------------------------
(* Properties. *)

\* A published transaction holds opinions that were really shared for this
\* verification, of more than two thirds of the replicators, one of each
\* (processedVerificationOpinion, verifyOpinionTimerExpired) - whatever was
\* delivered twice, late, or shared again after a restart with another
\* content.
PublishedByQuorum ==
    \A tx \in Tx : LET info == chain.published[tx] IN
        info # {} =>
            /\ Cardinality(info) > (2 * ReplicatorNumber) \div 3
            /\ \A o, q \in info : o.from = q.from => o = q
            /\ \A o \in info : o \in opinions /\ o.tx = tx

\* A replicator is found good only by one that has received a code it shared
\* for this very verification, and only if their files are the same; so the
\* opinion of an intact replicator never vouches for damaged files
\* (verifyCodeTimerExpired).
OpinionsAreJustified ==
    \A o \in opinions : \A s \in o.good :
        /\ SameFiles(o.from, s)
        /\ s = o.from \/ [tx |-> o.tx, from |-> s] \in codes

\* An opinion that did not have to be formed because the time was up blames
\* nobody whose files are the same (checkVerifyCodeNumber).
NoFalseAlarm ==
    \A o \in opinions : ~o.late =>
        \A s \in Replicators : SameFiles(o.from, s) => s \in o.good

\* startVerification never finds a task of an earlier verification, which it
\* logs as an internal error and replaces without joining its thread.
StartFindsNoTask ==
    \A r \in Replicators :
        inbox[r] # <<>> /\ Head(inbox[r]).type = "start" => task[r] = NoTask

\* When the chain has no verification and everything it said is handled, no
\* drive runs one or is going to run one (cancelVerification).
OverIsForgotten ==
    chain.pending = 0 =>
        \A r \in Replicators :
            inbox[r] = <<>> => task[r] = NoTask /\ drive[r].request = 0

\* A running task has been given every code and every opinion that came
\* before it was started (runVerificationTask).
NothingEarlyIsLeft ==
    \A r \in Replicators : task[r] # NoTask =>
        /\ \A c \in early[r].codes : c.tx # task[r].tx
        /\ \A o \in early[r].opinions : o.tx # task[r].tx

\* Nothing of a verification outlives it, and nothing that came early for the
\* next one is left behind (startVerification, cancelVerification,
\* runVerificationTask).
NothingIsLeftOver ==
    TypeOK /\ StartFindsNoTask /\ OverIsForgotten /\ NothingEarlyIsLeft

\* As long as no modification is approved, every verification ends: it is
\* published unless the chain ends it, although replicators crash and come
\* back (checkVerifyCodeNumber, processedVerificationOpinion and the timers).
\* A single replicator is left out: its own opinion is the first one, and
\* never starts the timer.
EveryVerificationEnds ==
    ReplicatorNumber > 1 =>
        chain.pending # 0 ~> (chain.pending = 0 \/ chain.last # 0)
==============================================================================
