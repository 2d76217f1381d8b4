---------------------------- MODULE ModifyApproval ---------------------------
(***************************************************************************)
(* How the replicators of a drive get one modification approved            *)
(* (ModifyApprovalTaskBase, ModifyDriveTask, Replicator): each one         *)
(* executes it, shares its opinion with the others, collects their         *)
(* opinions, and sends an approval transaction to the chain when all have  *)
(* come, or some time after enough have come.                              *)
(*                                                                         *)
(* Opinions travel in datagrams that may be lost, duplicated and           *)
(* reordered; every replicator shares its opinion again and again          *)
(* (m_shareMyOpinionTimer), so what was shared once may arrive at any time *)
(* and any number of times.                                                *)
(***************************************************************************)
EXTENDS Integers, FiniteSets

CONSTANTS
    Replicators,    \* all replicators that are ever on the list of the drive
    Members,        \* the ones on the list at the beginning
    Deviant,        \* those whose execution has another result
    Live,           \* those that keep running
    Down,           \* those that do not run at all
    MinReplicators, \* getMinReplicatorsNumber()
    MaxChanges      \* bound on the changes of the list

ASSUME ReplicatorsAssumption ==
    /\ IsFiniteSet(Replicators)
    /\ Members \subseteq Replicators /\ Members # {}
    /\ Deviant \subseteq Replicators
    /\ Live \subseteq Replicators /\ Down \subseteq Replicators \ Live
    /\ MinReplicators \in Nat
    /\ MaxChanges \in Nat

VARIABLES
    task,       \* the modification task of every replicator
    shared,     \* the replicators whose opinion is on its way
    pool,       \* the approval transactions sent and not yet looked at
    members,    \* the chain's list of replicators of the drive
    approval,   \* the approved transaction, {} if there is none
    changes     \* how often the list was changed

vars == <<task, shared, pool, members, approval, changes>>

\* The root hash, status and sizes an opinion states.
Result(r) == r \in Deviant

Tasks ==
    [phase    : {"idle", "executing",
                 "saving",      \* m_myOpinion is set and being saved
                 "waiting", "done", "removed"},
     received : SUBSET Replicators,             \* m_receivedOpinions
     again    : SUBSET Replicators,             \* opinions passed to processOpinion
     view     : SUBSET Replicators,             \* getAllReplicators()
     timer    : {"off", "running", "expired"},  \* m_modifyOpinionTimer
     sent     : BOOLEAN,                        \* m_modifyApproveTransactionSent
     failed   : BOOLEAN,                        \* a failure is posted
     approved : BOOLEAN]                        \* m_modifyApproveTxReceived

NewTask(r, list) ==
    [phase |-> "idle", received |-> {}, again |-> {}, view |-> list \ {r},
     timer |-> "off", sent |-> FALSE, failed |-> FALSE, approved |-> FALSE]

\* An approval transaction: the opinions it contains, its sender's first.
\* `validated' is a history variable: the sender had validated the opinions
\* that came before its own one.
Transactions == [from : Replicators, opinions : SUBSET Replicators, validated : BOOLEAN]

\* validateOpinion
ValidateOpinion(r, o) == Result(o) = Result(r)

\* replicatorNumber, the opinions of others to wait for.
ReplicatorNumber(t) ==
    LET n == Cardinality(t.view) + 1
    IN  ((IF n > MinReplicators THEN n ELSE MinReplicators) * 2) \div 3

Undecided(t) == ~t.sent /\ ~t.approved

\* opinionTimerExpired of r in the state t of its task.
SendTransaction(r, t) ==
    IF Undecided(t)
    THEN /\ task' = [task EXCEPT ![r] = [t EXCEPT !.sent = TRUE]]
         /\ pool' = pool \cup {[from |-> r, opinions |-> t.received \cup {r},
                                validated |-> t.phase = "waiting"]}
    ELSE /\ task' = [task EXCEPT ![r] = t]
         /\ UNCHANGED pool

\* checkOpinionNumberAndStartTimer: all opinions are there, or enough are
\* and the timer was not started yet.  An expired timer counts as started.
CheckOpinionNumberAndStartTimer(r, t) ==
    IF Undecided(t) /\ Cardinality(t.received) >= Cardinality(t.view)
    THEN SendTransaction(r, [t EXCEPT !.timer = "off"])
    ELSE /\ task' = [task EXCEPT ![r] =
                IF /\ Undecided(t) /\ t.timer = "off"
                   /\ Cardinality(t.received) >= ReplicatorNumber(t)
                THEN [t EXCEPT !.timer = "running"] ELSE t]
         /\ UNCHANGED pool

------------------------------------------------------------------------------
(* A replicator *)

\* runModificationTask: opinions that came before (m_unknownModificationOpinions)
\* are given to the constructor of the task, which drops them.
RunModificationTask(r) ==
    /\ r \in members \ Down
    /\ task[r].phase = "idle"
    /\ ~task[r].approved
    /\ task' = [task EXCEPT ![r].phase = "executing"]
    /\ UNCHANGED <<shared, pool, members, approval, changes>>

\* onCumulativeUploadsUpdated: the opinion is formed, and saved by the
\* background thread.  From now on the task has an opinion.
CreateMyOpinion(r) ==
    /\ task[r].phase = "executing"
    /\ task' = [task EXCEPT ![r].phase = "saving"]
    /\ UNCHANGED <<shared, pool, members, approval, changes>>

\* A mutant: the opinions received before are never validated.
MyOpinionIsCreatedTrusts(r) ==
    /\ task[r].phase = "saving"
    /\ IF task[r].approved
       THEN /\ task' = [task EXCEPT ![r].phase = "done"]
            /\ UNCHANGED <<shared, pool>>
       ELSE /\ shared' = shared \cup {r}
            /\ CheckOpinionNumberAndStartTimer(r, [task[r] EXCEPT !.phase = "waiting"])
    /\ UNCHANGED <<members, approval, changes>>

\* myOpinionIsCreated: the opinion is saved.
MyOpinionIsCreated(r) ==
    /\ task[r].phase = "saving"
    /\ IF task[r].approved
       THEN /\ task' = [task EXCEPT ![r].phase = "done"]
            /\ UNCHANGED <<shared, pool>>
       ELSE /\ shared' = shared \cup {r}
            /\ CheckOpinionNumberAndStartTimer(r,
                  [task[r] EXCEPT !.phase = "waiting",
                                  !.received = {o \in @ : ValidateOpinion(r, o)}])
    /\ UNCHANGED <<members, approval, changes>>

HasOpinion(t) == t.phase \in {"saving", "waiting"}

\* A mutant: an opinion that comes after the own one is not validated.
ProcessedModifyOpinionTrusts(r, o, t) ==
    CASE t.phase = "executing" ->
            /\ task' = [task EXCEPT ![r] = [t EXCEPT !.received = @ \cup {o}]]
            /\ UNCHANGED pool
      [] HasOpinion(t) ->
            CheckOpinionNumberAndStartTimer(r, [t EXCEPT !.received = @ \cup {o}])
      [] OTHER ->
            /\ task' = [task EXCEPT ![r] = t]
            /\ UNCHANGED pool

\* processedModifyOpinion, for the opinion of o.  While the own opinion is
\* saved, the number includes opinions that are not validated yet.
ProcessedModifyOpinion(r, o, t) ==
    CASE t.phase = "executing" ->
            /\ task' = [task EXCEPT ![r] = [t EXCEPT !.received = @ \cup {o}]]
            /\ UNCHANGED pool
      [] HasOpinion(t) /\ ValidateOpinion(r, o) ->
            CheckOpinionNumberAndStartTimer(r, [t EXCEPT !.received = @ \cup {o}])
      [] OTHER ->
            /\ task' = [task EXCEPT ![r] = t]
            /\ UNCHANGED pool

\* asyncOnOpinionReceived.  The chain's extension, which gets an opinion
\* first, accepts only those of replicators of the drive.
OnOpinionReceived(r, o) ==
    /\ task[r].phase \in {"executing", "saving", "waiting"}
    /\ o \in (shared \cap members) \ {r}
    /\ ProcessedModifyOpinion(r, o, task[r])
    /\ UNCHANGED <<shared, members, approval, changes>>

\* The same, for an opinion that onApprovalTxFailed passed to processOpinion.
OnOpinionAgain(r, o) ==
    /\ o \in task[r].again
    /\ LET t == [task[r] EXCEPT !.again = @ \ {o}]
       IN  IF o \in members
           THEN ProcessedModifyOpinion(r, o, t)
           ELSE /\ task' = [task EXCEPT ![r] = t]
                /\ UNCHANGED pool
    /\ UNCHANGED <<shared, members, approval, changes>>

\* The timer of r expires.
OpinionTimerExpired(r) ==
    /\ HasOpinion(task[r])
    /\ task[r].timer = "running"
    /\ SendTransaction(r, [task[r] EXCEPT !.timer = "expired"])
    /\ UNCHANGED <<shared, members, approval, changes>>

\* A mutant: the transaction still counts as sent.
OnApprovalTxFailedKeepsSent(r) ==
    /\ task[r].failed
    /\ task[r].view = members \ {r}
    /\ LET t == task[r]
           u == [t EXCEPT !.failed = FALSE]
       IN  task' = [task EXCEPT ![r] =
              IF t.approved THEN u
              ELSE [u EXCEPT !.again = t.again \cup t.received, !.received = {}]]
    /\ UNCHANGED <<shared, pool, members, approval, changes>>

\* onApprovalTxFailed; the list of replicators was posted before.
OnApprovalTxFailed(r) ==
    /\ task[r].failed
    /\ task[r].view = members \ {r}
    /\ LET t == task[r]
           u == [t EXCEPT !.failed = FALSE]
       IN  task' = [task EXCEPT ![r] =
              IF t.approved THEN u
              ELSE [u EXCEPT !.sent = FALSE, !.again = t.again \cup t.received,
                             !.received = {}]]
    /\ UNCHANGED <<shared, pool, members, approval, changes>>

\* onApprovalTxPublished: a replicator that has not begun catches up, one
\* that is still executing or saving its opinion notes the approval.
OnApprovalTxPublished(r) ==
    /\ approval # {}
    /\ r \in members
    /\ ~task[r].failed /\ ~task[r].approved
    /\ task' = [task EXCEPT
          ![r].approved = TRUE,
          ![r].phase = IF @ \in {"executing", "saving"} THEN @ ELSE "done"]
    /\ UNCHANGED <<shared, pool, members, approval, changes>>

\* asyncSetReplicators
SetReplicators(r) ==
    /\ r \in members
    /\ task[r].view # members \ {r}
    /\ task' = [task EXCEPT ![r].view = members \ {r}]
    /\ UNCHANGED <<shared, pool, members, approval, changes>>

------------------------------------------------------------------------------
(* The chain *)

\* The rules of the chain for an approval transaction, as the emulators of the
\* repository have them: whether the opinions agree is left to the replicators.
Valid(tx) ==
    /\ tx.opinions \subseteq members
    /\ Cardinality(tx.opinions) > (2 * Cardinality(members)) \div 3

\* A transaction is taken from the pool.  One that comes after the approval
\* is dropped, an invalid one is reported to its sender.
ProcessTransaction(tx) ==
    /\ tx \in pool
    /\ pool' = pool \ {tx}
    /\ IF approval # {}
       THEN UNCHANGED <<task, approval>>
       ELSE IF Valid(tx)
            THEN /\ approval' = {tx}
                 /\ UNCHANGED task
            ELSE /\ task' = IF tx.from \in members
                            THEN [task EXCEPT ![tx.from].failed = TRUE] ELSE task
                 /\ UNCHANGED approval
    /\ UNCHANGED <<shared, members, changes>>

\* A replicator leaves the drive (asyncRemoveDrive) ...
Leave(r) ==
    /\ changes < MaxChanges
    /\ r \in members /\ members # {r}
    /\ changes' = changes + 1
    /\ members' = members \ {r}
    /\ task' = [task EXCEPT ![r] = [NewTask(r, {}) EXCEPT !.phase = "removed"]]
    /\ UNCHANGED <<shared, pool, approval>>

\* ... or joins it (asyncAddDrive).
Join(r) ==
    /\ changes < MaxChanges
    /\ r \notin members /\ task[r].phase = "idle"
    /\ changes' = changes + 1
    /\ members' = members \cup {r}
    /\ task' = [task EXCEPT ![r] = NewTask(r, members')]
    /\ UNCHANGED <<shared, pool, approval>>

------------------------------------------------------------------------------
Init == /\ task = [r \in Replicators |-> NewTask(r, Members)]
        /\ shared = {}
        /\ pool = {}
        /\ members = Members
        /\ approval = {}
        /\ changes = 0

\* What a running replicator does.
Step(r) == \/ RunModificationTask(r) \/ CreateMyOpinion(r) \/ MyOpinionIsCreated(r)
           \/ OpinionTimerExpired(r) \/ OnApprovalTxFailed(r)
           \/ OnApprovalTxPublished(r) \/ SetReplicators(r)
           \/ \E o \in Replicators : OnOpinionAgain(r, o)

Next == \/ \E r \in Replicators : Step(r) \/ Leave(r) \/ Join(r)
        \/ \E r \in Replicators, o \in Replicators : OnOpinionReceived(r, o)
        \/ \E tx \in pool : ProcessTransaction(tx)

Spec == Init /\ [][Next]_vars

\* Live replicators run their tasks and timers, share their opinion until it
\* arrives, and the chain looks at every transaction.
Fairness == /\ \A r \in Live : WF_vars(Step(r))
            /\ \A r \in Live : \A o \in Live : WF_vars(OnOpinionReceived(r, o))
            /\ WF_vars(\E tx \in pool : ProcessTransaction(tx))

FairSpec == Spec /\ Fairness

------------------------------------------------------------------------------
(* Properties *)

TypeOK == /\ task \in [Replicators -> Tasks]
          /\ shared \subseteq Replicators
          /\ pool \subseteq Transactions
          /\ members \subseteq Replicators
          /\ approval \subseteq Transactions
          /\ changes \in 0..MaxChanges

\* "validate already received opinions [...] Maybe send approval transaction"
\* (myOpinionIsCreated).  While the own opinion is saved the code does not keep
\* to it: a transaction sent then may hold opinions that disagree.  Once the
\* opinions that came first are validated, all that is sent is of one result, and every replicator in it has executed the modification with that
\* result: what it counts later stays valid over failures that send the
\* opinions through processOpinion again, repetitions and list changes.
ApprovalIsUnanimous ==
    \A tx \in approval : tx.validated =>
        \A a, b \in tx.opinions : a \in shared /\ Result(a) = Result(b)

\* The approval is for the result of the replicators that agree, as long as
\* the deviant ones are at most two thirds of the list: a replicator that does
\* not validate is in any case outvoted within its own transaction.
QuorumDecides ==
    changes = 0 /\ 3 * Cardinality(Deviant) <= 2 * Cardinality(Members) =>
        \A tx \in approval :
            /\ \E a \in tx.opinions : ~Result(a)
            /\ tx.validated => \A a \in tx.opinions : ~Result(a)

\* m_modifyApproveTransactionSent keeps a replicator from sending, so it must
\* not stay set without a reason: the transaction is still to be looked at,
\* its failure is on the way back, or the modification is approved.
SentIsPending ==
    \A r \in members : HasOpinion(task[r]) /\ task[r].sent =>
        \/ \E tx \in pool : tx.from = r
        \/ task[r].failed
        \/ approval # {}

\* The live replicators on the list are enough for an approval, and for the
\* number of opinions each of them waits for.
LiveIsQuorum ==
    LET n == Cardinality(members)
    IN  Cardinality((Live \cap members) \ Deviant)
            > ((IF n > MinReplicators THEN n ELSE MinReplicators) * 2) \div 3

\* If enough replicators that agree stay on the list and keep running, the
\* modification is approved, whatever the others do, whatever is lost and
\* whichever transaction fails.
EventuallyApproved == <>[]LiveIsQuorum => <>(approval # {})

==============================================================================
