------------------------- MODULE ModifyApprovalProofs ------------------------
(***************************************************************************)
(* Safety of the approval of a modification, for every number of           *)
(* replicators, every set of deviant ones and every change of the list.    *)
(***************************************************************************)
EXTENDS ModifyApproval, FiniteSetTheorems, TLAPS

\* What a replicator collects was shared, and after its own execution it
\* keeps only what agrees with its own opinion.
CollectedIsValid ==
    \A r \in Replicators :
        /\ task[r].received \subseteq shared
        /\ task[r].again \subseteq shared
        /\ task[r].phase = "waiting" =>
              /\ r \in shared
              /\ \A o \in task[r].received : Result(o) = Result(r)

\* So does a transaction, unless the own opinion was still being saved.
PoolIsValid ==
    \A tx \in pool : tx.validated =>
        /\ tx.opinions \subseteq shared
        /\ \A o \in tx.opinions : Result(o) = Result(tx.from)

\* As long as the list did not change, an approval has more than two thirds of it.
ApprovalIsQuorum ==
    changes = 0 =>
        /\ members = Members
        /\ \A tx \in approval :
              Cardinality(tx.opinions) > (2 * Cardinality(Members)) \div 3

IInv == TypeOK /\ CollectedIsValid /\ PoolIsValid /\ ApprovalIsUnanimous /\ ApprovalIsQuorum

------------------------------------------------------------------------------
LEMMA InitInvariant == Init => IInv
  BY ReplicatorsAssumption
  DEF Init, IInv, TypeOK, CollectedIsValid, PoolIsValid, ApprovalIsUnanimous,
      ApprovalIsQuorum, NewTask, Tasks, Transactions, Result

\* What sending the transaction of a task with an opinion does to the invariant.
LEMMA SendKeeps ==
    ASSUME IInv, NEW r \in Replicators, NEW t \in Tasks,
           t.received \subseteq shared', t.again \subseteq shared',
           shared \subseteq shared', shared' \subseteq Replicators,
           t.phase = "waiting" =>
              r \in shared' /\ \A o \in t.received : Result(o) = Result(r),
           SendTransaction(r, t),
           UNCHANGED <<members, approval, changes>>
    PROVE  IInv'
<1> DEFINE tx == [from |-> r, opinions |-> t.received \cup {r},
                  validated |-> t.phase = "waiting"]
<1>1. /\ tx \in Transactions
      /\ tx.validated => /\ tx.opinions \subseteq shared'
                         /\ \A o \in tx.opinions : Result(o) = Result(tx.from)
  BY DEF Transactions, Tasks
<1>2. \E u \in Tasks : /\ task' = [task EXCEPT ![r] = u]
                       /\ u.received = t.received /\ u.again = t.again
                       /\ u.phase = t.phase
  <2>1. CASE Undecided(t)
    <3> DEFINE u == [t EXCEPT !.sent = TRUE]
    <3>1. u \in Tasks /\ u.received = t.received /\ u.again = t.again /\ u.phase = t.phase
      BY DEF Tasks
    <3> QED  BY <2>1, <3>1 DEF SendTransaction
  <2>2. CASE ~Undecided(t)
    BY <2>2 DEF SendTransaction
  <2> QED  BY <2>1, <2>2
<1>3. pool' = pool \/ pool' = pool \cup {tx}
  BY DEF SendTransaction
<1>4. TypeOK'
  BY <1>1, <1>2, <1>3 DEF IInv, TypeOK
<1>5. CollectedIsValid'
  BY <1>2 DEF IInv, TypeOK, CollectedIsValid, Result
<1>6. PoolIsValid'
  BY <1>1, <1>3 DEF IInv, PoolIsValid, Result
<1>7. ApprovalIsUnanimous' /\ ApprovalIsQuorum'
  BY DEF IInv, ApprovalIsUnanimous, ApprovalIsQuorum, Result
<1> QED  BY <1>4, <1>5, <1>6, <1>7 DEF IInv


\* The same for a check of the number of opinions.
LEMMA CheckKeeps ==
    ASSUME IInv, NEW r \in Replicators, NEW t \in Tasks,
           t.received \subseteq shared', t.again \subseteq shared',
           shared \subseteq shared', shared' \subseteq Replicators,
           t.phase = "waiting" =>
              r \in shared' /\ \A o \in t.received : Result(o) = Result(r),
           CheckOpinionNumberAndStartTimer(r, t),
           UNCHANGED <<members, approval, changes>>
    PROVE  IInv'
<1>1. CASE Undecided(t) /\ Cardinality(t.received) >= Cardinality(t.view)
  <2> DEFINE u == [t EXCEPT !.timer = "off"]
  <2>1. u \in Tasks /\ u.received = t.received /\ u.again = t.again /\ u.phase = t.phase
    BY DEF Tasks
  <2>2. SendTransaction(r, u)
    BY <1>1 DEF CheckOpinionNumberAndStartTimer
  <2> HIDE DEF u
  <2> QED  BY <2>1, <2>2, SendKeeps
<1>2. CASE ~(Undecided(t) /\ Cardinality(t.received) >= Cardinality(t.view))
  <2> DEFINE v == [t EXCEPT !.timer = "running"]
  <2>1. v \in Tasks /\ v.received = t.received /\ v.again = t.again /\ v.phase = t.phase
    BY DEF Tasks
  <2>2. PICK u \in {t, v} : task' = [task EXCEPT ![r] = u] /\ pool' = pool
    BY <1>2 DEF CheckOpinionNumberAndStartTimer
  <2>3. u \in Tasks /\ u.received = t.received /\ u.again = t.again /\ u.phase = t.phase
    BY <2>1, <2>2
  <2> HIDE DEF v
  <2>4. TypeOK'
    BY <2>2, <2>3 DEF IInv, TypeOK
  <2>5. CollectedIsValid'
    BY <2>2, <2>3 DEF IInv, TypeOK, CollectedIsValid, Result
  <2>6. PoolIsValid' /\ ApprovalIsUnanimous' /\ ApprovalIsQuorum'
    BY <2>2 DEF IInv, PoolIsValid, ApprovalIsUnanimous, ApprovalIsQuorum, Result
  <2> QED  BY <2>4, <2>5, <2>6 DEF IInv
<1> QED  BY <1>1, <1>2

\* A step that leaves the chain alone, and changes the task of one replicator
\* to one that has collected nothing new, keeps the invariant.
LEMMA TaskKeeps ==
    ASSUME IInv, NEW r \in Replicators, NEW u \in Tasks,
           task' = [task EXCEPT ![r] = u],
           u.received \subseteq shared, u.again \subseteq shared,
           u.phase = "waiting" =>
              task[r].phase = "waiting" /\ u.received \subseteq task[r].received,
           UNCHANGED <<shared, pool, members, approval, changes>>
    PROVE  IInv'
<1>1. TypeOK'
  BY DEF IInv, TypeOK
<1>2. CollectedIsValid'
  BY DEF IInv, TypeOK, CollectedIsValid, Result
<1>3. PoolIsValid' /\ ApprovalIsUnanimous' /\ ApprovalIsQuorum'
  BY DEF IInv, PoolIsValid, ApprovalIsUnanimous, ApprovalIsQuorum, Result
<1> QED  BY <1>1, <1>2, <1>3 DEF IInv

\* An opinion that was shared is processed.
LEMMA ProcessKeeps ==
    ASSUME IInv, NEW r \in Replicators, NEW t \in Tasks, NEW o \in shared,
           t.received = task[r].received, t.again \subseteq task[r].again,
           t.phase = task[r].phase,
           ProcessedModifyOpinion(r, o, t),
           UNCHANGED <<shared, members, approval, changes>>
    PROVE  IInv'
<1> DEFINE u == [t EXCEPT !.received = @ \cup {o}]
<1>1. /\ u \in Tasks /\ u.received = t.received \cup {o}
      /\ u.again = t.again /\ u.phase = t.phase
  BY DEF Tasks, IInv, TypeOK
<1>2. /\ shared \subseteq Replicators
      /\ t.received \subseteq shared /\ t.again \subseteq shared
      /\ t.phase = "waiting" =>
            r \in shared /\ \A p \in t.received : Result(p) = Result(r)
  BY DEF IInv, TypeOK, CollectedIsValid
<1> HIDE DEF u
<1>3. CASE t.phase = "executing"
  <2>1. task' = [task EXCEPT ![r] = u] /\ pool' = pool
    BY <1>3 DEF ProcessedModifyOpinion, HasOpinion, u
  <2> QED  BY <1>1, <1>2, <1>3, <2>1, TaskKeeps
<1>4. CASE HasOpinion(t) /\ ValidateOpinion(r, o)
  <2>1. CheckOpinionNumberAndStartTimer(r, u)
    BY <1>4 DEF ProcessedModifyOpinion, HasOpinion, u
  <2>2. u.phase = "waiting" =>
           r \in shared' /\ \A p \in u.received : Result(p) = Result(r)
    BY <1>1, <1>2, <1>4 DEF ValidateOpinion
  <2>3. /\ u.received \subseteq shared' /\ u.again \subseteq shared'
        /\ shared \subseteq shared' /\ shared' \subseteq Replicators
    BY <1>1, <1>2, <1>4
  <2> QED  BY <1>1, <2>1, <2>2, <2>3, CheckKeeps
<1>5. CASE ~(t.phase = "executing") /\ ~(HasOpinion(t) /\ ValidateOpinion(r, o))
  <2>1. task' = [task EXCEPT ![r] = t] /\ pool' = pool
    BY <1>5 DEF ProcessedModifyOpinion
  <2> QED  BY <1>2, <2>1, TaskKeeps
<1> QED  BY <1>3, <1>4, <1>5


------------------------------------------------------------------------------
LEMMA NextInvariant == IInv /\ [Next]_vars => IInv'
<1> SUFFICES ASSUME IInv, [Next]_vars PROVE IInv'
  OBVIOUS
<1>0. /\ TypeOK /\ task \in [Replicators -> Tasks]
      /\ \A r \in Replicators :
            /\ task[r] \in Tasks
            /\ task[r].received \subseteq shared /\ task[r].again \subseteq shared
  BY DEF IInv, TypeOK, CollectedIsValid
<1>1. ASSUME NEW r \in Replicators, RunModificationTask(r) PROVE IInv'
  <2> DEFINE u == [task[r] EXCEPT !.phase = "executing"]
  <2>1. /\ u \in Tasks /\ u.phase = "executing"
        /\ u.received = task[r].received /\ u.again = task[r].again
    BY <1>0 DEF Tasks
  <2>2. task' = [task EXCEPT ![r] = u]
    BY <1>0, <1>1 DEF RunModificationTask
  <2> HIDE DEF u
  <2> QED  BY <1>0, <1>1, <2>1, <2>2, TaskKeeps DEF RunModificationTask
<1>12. ASSUME NEW r \in Replicators, CreateMyOpinion(r) PROVE IInv'
  <2> DEFINE u == [task[r] EXCEPT !.phase = "saving"]
  <2>1. /\ u \in Tasks /\ u.phase = "saving"
        /\ u.received = task[r].received /\ u.again = task[r].again
    BY <1>0 DEF Tasks
  <2>2. task' = [task EXCEPT ![r] = u]
    BY <1>0, <1>12 DEF CreateMyOpinion
  <2> HIDE DEF u
  <2> QED  BY <1>0, <1>12, <2>1, <2>2, TaskKeeps DEF CreateMyOpinion
<1>2. ASSUME NEW r \in Replicators, MyOpinionIsCreated(r) PROVE IInv'
  <2>1. CASE task[r].approved
    <3> DEFINE u == [task[r] EXCEPT !.phase = "done"]
    <3>1. /\ u \in Tasks /\ u.phase = "done"
          /\ u.received = task[r].received /\ u.again = task[r].again
      BY <1>0 DEF Tasks
    <3>2. task' = [task EXCEPT ![r] = u]
      BY <1>0, <1>2, <2>1 DEF MyOpinionIsCreated
    <3> HIDE DEF u
    <3> QED  BY <1>0, <1>2, <2>1, <3>1, <3>2, TaskKeeps DEF MyOpinionIsCreated
  <2>2. CASE ~task[r].approved
    <3> DEFINE u == [task[r] EXCEPT !.phase = "waiting",
                                    !.received = {o \in @ : ValidateOpinion(r, o)}]
    <3>1. /\ u \in Tasks /\ u.phase = "waiting"
          /\ u.received = {o \in task[r].received : ValidateOpinion(r, o)}
          /\ u.again = task[r].again
      BY <1>0 DEF Tasks
    <3>2. /\ shared' = shared \cup {r}
          /\ CheckOpinionNumberAndStartTimer(r, u)
          /\ UNCHANGED <<members, approval, changes>>
      BY <1>2, <2>2 DEF MyOpinionIsCreated
    <3> HIDE DEF u
    <3>3. /\ u.received \subseteq shared' /\ u.again \subseteq shared'
          /\ r \in shared' /\ shared \subseteq shared' /\ shared' \subseteq Replicators
          /\ \A o \in u.received : Result(o) = Result(r)
      BY <1>0, <3>1, <3>2 DEF ValidateOpinion, TypeOK
    <3> QED  BY <3>1, <3>2, <3>3, CheckKeeps
  <2> QED  BY <2>1, <2>2
<1>3. ASSUME NEW r \in Replicators, OpinionTimerExpired(r) PROVE IInv'
  <2> DEFINE u == [task[r] EXCEPT !.timer = "expired"]
  <2>1. /\ u \in Tasks /\ u.phase = task[r].phase
        /\ u.received = task[r].received /\ u.again = task[r].again
    BY <1>0 DEF Tasks
  <2>2. /\ SendTransaction(r, u)
        /\ UNCHANGED <<shared, members, approval, changes>>
    BY <1>3 DEF OpinionTimerExpired
  <2> HIDE DEF u
  <2>3. /\ u.received \subseteq shared' /\ u.again \subseteq shared'
        /\ shared \subseteq shared' /\ shared' \subseteq Replicators
        /\ u.phase = "waiting" =>
              r \in shared' /\ \A o \in u.received : Result(o) = Result(r)
    BY <1>0, <2>1, <2>2 DEF IInv, CollectedIsValid, TypeOK
  <2> QED  BY <2>1, <2>2, <2>3, SendKeeps
<1>4. ASSUME NEW r \in Replicators, OnApprovalTxFailed(r) PROVE IInv'
  <2> DEFINE u == [task[r] EXCEPT !.failed = FALSE]
             v == [u EXCEPT !.sent = FALSE,
                            !.again = task[r].again \cup task[r].received,
                            !.received = {}]
  <2>1. /\ u \in Tasks /\ u.phase = task[r].phase
        /\ u.received = task[r].received /\ u.again = task[r].again
    BY <1>0 DEF Tasks
  <2>2. /\ v \in Tasks /\ v.phase = task[r].phase
        /\ v.received = {} /\ v.again = task[r].again \cup task[r].received
    <3> HIDE DEF u
    <3> QED  BY <1>0, <2>1 DEF Tasks
  <2>3. task' = [task EXCEPT ![r] = u] \/ task' = [task EXCEPT ![r] = v]
    BY <1>4, Zenon DEF OnApprovalTxFailed
  <2>4. UNCHANGED <<shared, pool, members, approval, changes>>
    BY <1>4 DEF OnApprovalTxFailed
  <2> HIDE DEF u, v
  <2>5. CASE task' = [task EXCEPT ![r] = u]
    BY <1>0, <2>1, <2>4, <2>5, TaskKeeps
  <2>6. CASE task' = [task EXCEPT ![r] = v]
    <3>1. v.received \subseteq task[r].received /\ v.received \subseteq shared
          /\ v.again \subseteq shared
      BY <1>0, <2>2
    <3> QED  BY <2>2, <2>4, <2>6, <3>1, TaskKeeps
  <2> QED  BY <2>3, <2>5, <2>6
<1>5. ASSUME NEW r \in Replicators, OnApprovalTxPublished(r) PROVE IInv'
  <2> DEFINE u == [task[r] EXCEPT !.approved = TRUE,
                                  !.phase = IF @ \in {"executing", "saving"} THEN @ ELSE "done"]
  <2>1. /\ u \in Tasks /\ u.phase # "waiting"
        /\ u.received = task[r].received /\ u.again = task[r].again
    <3> DEFINE w == [task[r] EXCEPT !.approved = TRUE]
               x == [w EXCEPT !.phase = "done"]
    <3>1. /\ w \in Tasks /\ w.phase = task[r].phase
          /\ w.received = task[r].received /\ w.again = task[r].again
      BY <1>0 DEF Tasks
    <3>2. /\ x \in Tasks /\ x.phase = "done"
          /\ x.received = task[r].received /\ x.again = task[r].again
      <4> HIDE DEF w
      <4> QED  BY <3>1 DEF Tasks
    <3>3. task[r].phase \in {"executing", "saving"} => u = w
      BY <1>0 DEF Tasks
    <3>4. task[r].phase \notin {"executing", "saving"} => u = x
      BY <1>0 DEF Tasks
    <3> HIDE DEF u, w, x
    <3> QED  BY <3>1, <3>2, <3>3, <3>4
  <2>2. task' = [task EXCEPT ![r] = u]
    BY <1>0, <1>5 DEF OnApprovalTxPublished
  <2> HIDE DEF u
  <2> QED  BY <1>0, <1>5, <2>1, <2>2, TaskKeeps DEF OnApprovalTxPublished
<1>6. ASSUME NEW r \in Replicators, SetReplicators(r) PROVE IInv'
  <2> DEFINE u == [task[r] EXCEPT !.view = members \ {r}]
  <2>1. /\ u \in Tasks /\ u.phase = task[r].phase
        /\ u.received = task[r].received /\ u.again = task[r].again
    BY <1>0 DEF Tasks, TypeOK
  <2>2. task' = [task EXCEPT ![r] = u]
    BY <1>0, <1>6 DEF SetReplicators
  <2> HIDE DEF u
  <2> QED  BY <1>0, <1>6, <2>1, <2>2, TaskKeeps, ZenonT(40) DEF SetReplicators
<1>7. ASSUME NEW r \in Replicators, NEW o \in Replicators, OnOpinionAgain(r, o) PROVE IInv'
  <2> DEFINE t == [task[r] EXCEPT !.again = @ \ {o}]
  <2>1. /\ t \in Tasks /\ t.phase = task[r].phase
        /\ t.received = task[r].received /\ t.again = task[r].again \ {o}
    BY <1>0 DEF Tasks
  <2>2. /\ o \in shared
        /\ UNCHANGED <<shared, members, approval, changes>>
        /\ IF o \in members THEN ProcessedModifyOpinion(r, o, t)
           ELSE task' = [task EXCEPT ![r] = t] /\ UNCHANGED pool
    BY <1>0, <1>7 DEF OnOpinionAgain
  <2> HIDE DEF t
  <2>3. CASE o \in members
    BY <2>1, <2>2, <2>3, ProcessKeeps
  <2>4. CASE o \notin members
    BY <1>0, <2>1, <2>2, <2>4, TaskKeeps
  <2> QED  BY <2>3, <2>4
<1>8. ASSUME NEW r \in Replicators, NEW o \in Replicators, OnOpinionReceived(r, o)
      PROVE IInv'
  <2>1. /\ o \in shared /\ ProcessedModifyOpinion(r, o, task[r])
        /\ UNCHANGED <<shared, members, approval, changes>>
    BY <1>8 DEF OnOpinionReceived
  <2> QED  BY <1>0, <2>1, ProcessKeeps
<1>9. ASSUME NEW tx \in pool, ProcessTransaction(tx) PROVE IInv'
  <2>1. /\ tx \in Transactions
        /\ tx.validated => /\ tx.opinions \subseteq shared
                           /\ \A o \in tx.opinions : Result(o) = Result(tx.from)
    BY <1>0 DEF TypeOK, IInv, PoolIsValid
  <2>2. pool' \subseteq pool /\ UNCHANGED <<shared, members, changes>>
    BY <1>9 DEF ProcessTransaction
  <2>3. /\ task' \in [Replicators -> Tasks]
        /\ \A r \in Replicators : /\ task'[r].received = task[r].received
                                  /\ task'[r].again = task[r].again
                                  /\ task'[r].phase = task[r].phase
    <3> DEFINE u == [task[tx.from] EXCEPT !.failed = TRUE]
    <3>1. tx.from \in Replicators
      BY <2>1 DEF Transactions
    <3>2. /\ u \in Tasks /\ u.received = task[tx.from].received
          /\ u.again = task[tx.from].again /\ u.phase = task[tx.from].phase
      BY <1>0, <3>1 DEF Tasks
    <3>3. task' = task \/ task' = [task EXCEPT ![tx.from] = u]
      BY <1>0, <1>9, <3>1 DEF ProcessTransaction
    <3> HIDE DEF u
    <3> QED  BY <1>0, <3>1, <3>2, <3>3
  <2>4. \/ approval' = approval
        \/ approval' = {tx} /\ Valid(tx)
    BY <1>9 DEF ProcessTransaction
  <2>5. TypeOK'
    BY <1>0, <2>1, <2>2, <2>3, <2>4 DEF TypeOK, Transactions
  <2>6. CollectedIsValid' /\ PoolIsValid'
    BY <2>2, <2>3 DEF IInv, CollectedIsValid, PoolIsValid, Result
  <2>7. ApprovalIsUnanimous'
    BY <2>1, <2>2, <2>4 DEF IInv, ApprovalIsUnanimous, Result
  <2>8. ApprovalIsQuorum'
    BY <2>2, <2>4 DEF IInv, ApprovalIsQuorum, Valid
  <2> QED  BY <2>5, <2>6, <2>7, <2>8 DEF IInv
<1>10. ASSUME NEW r \in Replicators, Leave(r) \/ Join(r) PROVE IInv'
  <2> DEFINE u == [NewTask(r, {}) EXCEPT !.phase = "removed"]
             v == NewTask(r, members')
  <2>1. members' \subseteq Replicators /\ changes < MaxChanges /\ changes' = changes + 1
        /\ UNCHANGED <<shared, pool, approval>>
    BY <1>0, <1>10 DEF Leave, Join, TypeOK
  <2>2. /\ u \in Tasks /\ u.phase = "removed" /\ u.received = {} /\ u.again = {}
        /\ v \in Tasks /\ v.phase = "idle" /\ v.received = {} /\ v.again = {}
    BY <2>1 DEF NewTask, Tasks
  <2>3. task' = [task EXCEPT ![r] = u] \/ task' = [task EXCEPT ![r] = v]
    BY <1>10 DEF Leave, Join
  <2> HIDE DEF u, v
  <2>4. TypeOK'
    BY <1>0, <2>1, <2>2, <2>3, ReplicatorsAssumption DEF TypeOK
  <2>5. CollectedIsValid'
    BY <1>0, <2>1, <2>2, <2>3 DEF IInv, CollectedIsValid, Result
  <2>6. PoolIsValid' /\ ApprovalIsUnanimous'
    BY <2>1 DEF IInv, PoolIsValid, ApprovalIsUnanimous, Result
  <2>7. ApprovalIsQuorum'
    BY <1>0, <2>1, ReplicatorsAssumption DEF ApprovalIsQuorum, TypeOK
  <2> QED  BY <2>4, <2>5, <2>6, <2>7 DEF IInv
<1>11. CASE UNCHANGED vars
  BY <1>11 DEF vars, IInv, TypeOK, CollectedIsValid, PoolIsValid, ApprovalIsUnanimous,
     ApprovalIsQuorum, Result
<1> QED
  BY <1>1, <1>2, <1>3, <1>4, <1>5, <1>6, <1>7, <1>8, <1>9, <1>10, <1>11,
     <1>12 DEF Next, Step

\* The state of the approval protocol has its type, whatever messages are
\* lost or come twice and however the list of replicators changes.
THEOREM TypeCorrect == Spec => []TypeOK
<1>1. IInv => TypeOK
  BY DEF IInv
<1> QED  BY <1>1, InitInvariant, NextInvariant, PTL DEF Spec

\* modifyApprovalTransactionIsReady: once its sender has validated the opinions
\* that came first, an approval holds opinions with one and the same result
\* only, and each was shared.
THEOREM Unanimous == Spec => []ApprovalIsUnanimous
<1>1. IInv => ApprovalIsUnanimous
  BY DEF IInv
<1> QED  BY <1>1, InitInvariant, NextInvariant, PTL DEF Spec

\* Deviant replicators that are at most two thirds of the list never get
\* their result approved, and they are never the only ones in an approval,
\* even in one sent before the opinions were validated.
THEOREM Quorum == Spec => []QuorumDecides
<1>1. IInv => QuorumDecides
  <2> SUFFICES ASSUME IInv, changes = 0,
                      3 * Cardinality(Deviant) <= 2 * Cardinality(Members),
                      NEW tx \in approval
               PROVE  /\ \E a \in tx.opinions : ~Result(a)
                      /\ tx.validated => \A a \in tx.opinions : ~Result(a)
    BY DEF QuorumDecides
  <2>1. tx.opinions \subseteq Deviant => FALSE
    <3> SUFFICES ASSUME tx.opinions \subseteq Deviant PROVE FALSE
      OBVIOUS
    <3>1. IsFiniteSet(Deviant) /\ IsFiniteSet(Members)
      BY ReplicatorsAssumption, FS_Subset
    <3>2. /\ Cardinality(tx.opinions) <= Cardinality(Deviant)
          /\ Cardinality(Deviant) \in Nat /\ Cardinality(Members) \in Nat
          /\ Cardinality(tx.opinions) \in Nat
      BY <3>1, FS_Subset, FS_CardinalityType
    <3>3. Cardinality(tx.opinions) > (2 * Cardinality(Members)) \div 3
      BY DEF IInv, ApprovalIsQuorum
    <3> QED  BY <3>2, <3>3
  <2>2. \E a \in tx.opinions : ~Result(a)
    BY <2>1 DEF Result
  <2>3. tx.validated => \A a, b \in tx.opinions : Result(a) = Result(b)
    BY DEF IInv, ApprovalIsUnanimous
  <2> QED  BY <2>2, <2>3
<1> QED  BY <1>1, InitInvariant, NextInvariant, PTL DEF Spec

------------------------------------------------------------------------------
(* A sent transaction is pending.  A second layer over IInv, about the flags *)
(* of each task: nothing is sent before the own opinion, only replicators of *)
(* the list work, and none of them learns of an approval that is not there.  *)

\* Replicator r with the task t, the transactions p, the list and the approval.
Settled(r, t, p, list, app) ==
    /\ t.phase \in {"idle", "executing"} => ~t.sent
    /\ t.phase = "executing" \/ HasOpinion(t) => r \in list
    /\ t.approved => app # {}
    /\ HasOpinion(t) /\ t.sent =>
          \/ \E tx \in p : tx.from = r
          \/ t.failed
          \/ app # {}

Safe == IInv /\ \A r \in Replicators : Settled(r, task[r], pool, members, approval)

LEMMA SafeInit == Init => Safe
<1> SUFFICES ASSUME Init PROVE Safe
  OBVIOUS
<1>1. \A r \in Replicators : /\ NewTask(r, Members).phase = "idle"
                             /\ ~NewTask(r, Members).sent
                             /\ ~NewTask(r, Members).approved
  BY DEF NewTask
<1>2. \A r \in Replicators : Settled(r, task[r], pool, members, approval)
  BY <1>1 DEF Init, Settled, HasOpinion
<1> QED  BY <1>2, InitInvariant DEF Safe

\* A step of one replicator, which may send a transaction.
LEMMA SettledChanges ==
    ASSUME Safe, IInv', NEW r \in Replicators, NEW u,
           task' = [task EXCEPT ![r] = u], pool \subseteq pool',
           UNCHANGED <<members, approval>>,
           Settled(r, u, pool', members, approval)
    PROVE  Safe'
<1>1. task \in [Replicators -> Tasks]
  BY DEF Safe, IInv, TypeOK
<1>2. ASSUME NEW s \in Replicators
      PROVE  Settled(s, task'[s], pool', members', approval')
  <2>1. CASE s = r
    BY <1>1, <2>1
  <2>2. CASE s # r
    <3>1. Settled(s, task[s], pool, members, approval) /\ task'[s] = task[s]
      BY <1>1, <2>2 DEF Safe
    <3> QED  BY <3>1 DEF Settled
  <2> QED  BY <2>1, <2>2
<1> QED  BY <1>2 DEF Safe

\* opinionTimerExpired: the flag is set together with the transaction.
LEMMA SendSettles ==
    ASSUME Safe, IInv', NEW r \in Replicators, NEW t \in Tasks,
           HasOpinion(t), SendTransaction(r, t),
           Settled(r, t, pool, members, approval), UNCHANGED <<members, approval>>
    PROVE  Safe'
<1>1. CASE Undecided(t)
  <2> DEFINE u == [t EXCEPT !.sent = TRUE]
             tx == [from |-> r, opinions |-> t.received \cup {r},
                    validated |-> t.phase = "waiting"]
  <2>1. u.phase = t.phase /\ u.sent /\ u.approved = t.approved
    BY DEF Tasks
  <2>2. task' = [task EXCEPT ![r] = u] /\ pool' = pool \cup {tx} /\ tx.from = r
    BY <1>1 DEF SendTransaction
  <2> HIDE DEF u, tx
  <2>3. Settled(r, u, pool', members, approval)
    BY <2>1, <2>2 DEF Settled, HasOpinion
  <2> QED  BY <2>2, <2>3, SettledChanges
<1>2. CASE ~Undecided(t)
  <2>1. task' = [task EXCEPT ![r] = t] /\ pool' = pool
    BY <1>2 DEF SendTransaction
  <2> QED  BY <2>1, SettledChanges
<1> QED  BY <1>1, <1>2

LEMMA CheckSettles ==
    ASSUME Safe, IInv', NEW r \in Replicators, NEW t \in Tasks,
           HasOpinion(t), CheckOpinionNumberAndStartTimer(r, t),
           Settled(r, t, pool, members, approval), UNCHANGED <<members, approval>>
    PROVE  Safe'
<1>1. CASE Undecided(t) /\ Cardinality(t.received) >= Cardinality(t.view)
  <2> DEFINE u == [t EXCEPT !.timer = "off"]
  <2>1. /\ u \in Tasks /\ u.phase = t.phase /\ u.sent = t.sent
        /\ u.approved = t.approved /\ u.failed = t.failed
    BY DEF Tasks
  <2>2. SendTransaction(r, u)
    BY <1>1 DEF CheckOpinionNumberAndStartTimer
  <2> HIDE DEF u
  <2>3. Settled(r, u, pool, members, approval) /\ HasOpinion(u)
    BY <2>1 DEF Settled, HasOpinion
  <2> QED  BY <2>1, <2>2, <2>3, SendSettles
<1>2. CASE ~(Undecided(t) /\ Cardinality(t.received) >= Cardinality(t.view))
  <2> DEFINE v == [t EXCEPT !.timer = "running"]
  <2>1. /\ v.phase = t.phase /\ v.sent = t.sent
        /\ v.approved = t.approved /\ v.failed = t.failed
    BY DEF Tasks
  <2>2. PICK u \in {t, v} : task' = [task EXCEPT ![r] = u] /\ pool' = pool
    BY <1>2 DEF CheckOpinionNumberAndStartTimer
  <2> HIDE DEF v
  <2>3. Settled(r, u, pool', members, approval)
    BY <2>1, <2>2 DEF Settled, HasOpinion
  <2> QED  BY <2>2, <2>3, SettledChanges
<1> QED  BY <1>1, <1>2

LEMMA ProcessSettles ==
    ASSUME Safe, IInv', NEW r \in Replicators, NEW t \in Tasks, NEW o \in Replicators,
           ProcessedModifyOpinion(r, o, t),
           Settled(r, t, pool, members, approval), UNCHANGED <<members, approval>>
    PROVE  Safe'
<1> DEFINE u == [t EXCEPT !.received = @ \cup {o}]
<1>1. /\ u \in Tasks /\ u.phase = t.phase /\ u.sent = t.sent
      /\ u.approved = t.approved /\ u.failed = t.failed
  BY DEF Tasks
<1> HIDE DEF u
<1>2. Settled(r, u, pool, members, approval) /\ (HasOpinion(t) => HasOpinion(u))
  BY <1>1 DEF Settled, HasOpinion
<1>3. CASE t.phase = "executing"
  <2>1. task' = [task EXCEPT ![r] = u] /\ pool' = pool
    BY <1>3 DEF ProcessedModifyOpinion, HasOpinion, u
  <2> QED  BY <1>2, <2>1, SettledChanges
<1>4. CASE HasOpinion(t) /\ ValidateOpinion(r, o)
  <2>1. CheckOpinionNumberAndStartTimer(r, u)
    BY <1>4 DEF ProcessedModifyOpinion, HasOpinion, u
  <2> QED  BY <1>1, <1>2, <1>4, <2>1, CheckSettles
<1>5. CASE ~(t.phase = "executing") /\ ~(HasOpinion(t) /\ ValidateOpinion(r, o))
  <2>1. task' = [task EXCEPT ![r] = t] /\ pool' = pool
    BY <1>5 DEF ProcessedModifyOpinion
  <2> QED  BY <2>1, SettledChanges
<1> QED  BY <1>3, <1>4, <1>5

\* The chain looks at a transaction: it is approved, or its sender learns of
\* the failure.
LEMMA TransactionSettles ==
    ASSUME Safe, IInv', NEW tx \in pool, ProcessTransaction(tx)
    PROVE  Safe'
<1>0. /\ task \in [Replicators -> Tasks] /\ tx \in Transactions
      /\ tx.from \in Replicators /\ members \subseteq Replicators
  BY DEF Safe, IInv, TypeOK, Transactions
<1>1. pool' = pool \ {tx} /\ UNCHANGED members
  BY DEF ProcessTransaction
<1>2. ASSUME NEW s \in Replicators
      PROVE  Settled(s, task'[s], pool', members', approval')
  <2>0. Settled(s, task[s], pool, members, approval) /\ task[s] \in Tasks
    BY <1>0 DEF Safe
  <2>1. CASE approval # {}
    <3>1. UNCHANGED <<task, approval>>
      BY <2>1 DEF ProcessTransaction
    <3> QED  BY <1>1, <2>0, <2>1, <3>1 DEF Settled
  <2>2. CASE approval = {} /\ Valid(tx)
    <3>1. approval' = {tx} /\ UNCHANGED task
      BY <2>2 DEF ProcessTransaction
    <3> QED  BY <1>1, <2>0, <3>1 DEF Settled
  <2>3. CASE approval = {} /\ ~Valid(tx)
    <3> DEFINE u == [task[s] EXCEPT !.failed = TRUE]
    <3>1. /\ task' = (IF tx.from \in members THEN [task EXCEPT ![tx.from].failed = TRUE]
                      ELSE task)
          /\ UNCHANGED approval
      BY <2>3 DEF ProcessTransaction
    <3>2. /\ u.failed /\ u.phase = task[s].phase /\ u.sent = task[s].sent
          /\ u.approved = task[s].approved
      BY <2>0 DEF Tasks
    <3>3. CASE s = tx.from /\ s \in members
      <4>1. task'[s] = u
        BY <1>0, <3>1, <3>3
      <4> HIDE DEF u
      <4> QED  BY <1>1, <2>0, <3>1, <3>2, <4>1 DEF Settled, HasOpinion
    <3>4. CASE s # tx.from \/ s \notin members
      <4>1. task'[s] = task[s]
        BY <1>0, <3>1, <3>4
      <4> QED  BY <1>1, <2>0, <3>1, <3>4, <4>1 DEF Settled
    <3> QED  BY <3>3, <3>4
  <2> QED  BY <2>1, <2>2, <2>3
<1> QED  BY <1>2 DEF Safe

\* The list changes.
LEMMA ListSettles ==
    ASSUME Safe, IInv', NEW r \in Replicators, Leave(r) \/ Join(r)
    PROVE  Safe'
<1> DEFINE u == [NewTask(r, {}) EXCEPT !.phase = "removed"]
           v == NewTask(r, members')
<1>1. /\ u.phase = "removed" /\ ~u.approved /\ ~u.sent
      /\ v.phase = "idle" /\ ~v.approved /\ ~v.sent
  BY DEF NewTask
<1>2. task' = [task EXCEPT ![r] = u] \/ task' = [task EXCEPT ![r] = v]
  BY DEF Leave, Join
<1>3. members \ {r} \subseteq members' /\ UNCHANGED <<pool, approval>>
  BY DEF Leave, Join
<1> HIDE DEF u, v
<1>4. ASSUME NEW s \in Replicators
      PROVE  Settled(s, task'[s], pool', members', approval')
  <2>0. task \in [Replicators -> Tasks] /\ Settled(s, task[s], pool, members, approval)
    BY DEF Safe, IInv, TypeOK
  <2>1. CASE s = r
    <3>1. task'[s] = u \/ task'[s] = v
      BY <1>2, <2>0, <2>1
    <3> QED  BY <1>1, <3>1 DEF Settled, HasOpinion
  <2>2. CASE s # r
    <3>1. task'[s] = task[s]
      BY <1>2, <2>0, <2>2
    <3> QED  BY <1>3, <2>0, <2>2, <3>1 DEF Settled
  <2> QED  BY <2>1, <2>2
<1> QED  BY <1>4 DEF Safe

LEMMA SafeNext == Safe /\ [Next]_vars => Safe'
<1> SUFFICES ASSUME Safe, [Next]_vars PROVE Safe'
  OBVIOUS
<1>0. IInv'
  BY NextInvariant DEF Safe
<1>00. /\ task \in [Replicators -> Tasks] /\ shared \subseteq Replicators
       /\ \A r \in Replicators :
             task[r] \in Tasks /\ Settled(r, task[r], pool, members, approval)
  BY DEF Safe, IInv, TypeOK
<1>1. ASSUME NEW r \in Replicators, RunModificationTask(r) PROVE Safe'
  <2> DEFINE u == [task[r] EXCEPT !.phase = "executing"]
  <2>1. /\ u.phase = "executing" /\ u.sent = task[r].sent
        /\ u.approved = task[r].approved /\ u.failed = task[r].failed
    BY <1>00 DEF Tasks
  <2>2. /\ task' = [task EXCEPT ![r] = u] /\ r \in members /\ task[r].phase = "idle"
        /\ UNCHANGED <<pool, members, approval>>
    BY <1>1 DEF RunModificationTask
  <2> HIDE DEF u
  <2>3. Settled(r, u, pool', members, approval)
    BY <1>00, <2>1, <2>2 DEF Settled, HasOpinion
  <2> QED  BY <1>0, <2>2, <2>3, SettledChanges
<1>12. ASSUME NEW r \in Replicators, CreateMyOpinion(r) PROVE Safe'
  <2> DEFINE u == [task[r] EXCEPT !.phase = "saving"]
  <2>1. /\ u.phase = "saving" /\ u.sent = task[r].sent
        /\ u.approved = task[r].approved /\ u.failed = task[r].failed
    BY <1>00 DEF Tasks
  <2>2. /\ task' = [task EXCEPT ![r] = u] /\ task[r].phase = "executing"
        /\ UNCHANGED <<pool, members, approval>>
    BY <1>12 DEF CreateMyOpinion
  <2> HIDE DEF u
  <2>3. Settled(r, u, pool', members, approval)
    BY <1>00, <2>1, <2>2 DEF Settled, HasOpinion
  <2> QED  BY <1>0, <2>2, <2>3, SettledChanges
<1>2. ASSUME NEW r \in Replicators, MyOpinionIsCreated(r) PROVE Safe'
  <2>0. task[r].phase = "saving" /\ UNCHANGED <<members, approval>>
    BY <1>2 DEF MyOpinionIsCreated
  <2>1. CASE task[r].approved
    <3> DEFINE u == [task[r] EXCEPT !.phase = "done"]
    <3>1. u.phase = "done" /\ u.approved = task[r].approved
      BY <1>00 DEF Tasks
    <3>2. task' = [task EXCEPT ![r] = u] /\ pool' = pool
      BY <1>2, <2>1 DEF MyOpinionIsCreated
    <3> HIDE DEF u
    <3>3. Settled(r, u, pool', members, approval)
      BY <1>00, <3>1 DEF Settled, HasOpinion
    <3> QED  BY <1>0, <2>0, <3>2, <3>3, SettledChanges
  <2>2. CASE ~task[r].approved
    <3> DEFINE u == [task[r] EXCEPT !.phase = "waiting",
                                    !.received = {o \in @ : ValidateOpinion(r, o)}]
    <3>1. /\ u \in Tasks /\ u.phase = "waiting" /\ u.sent = task[r].sent
          /\ u.approved = task[r].approved /\ u.failed = task[r].failed
      BY <1>00 DEF Tasks
    <3>2. CheckOpinionNumberAndStartTimer(r, u)
      BY <1>2, <2>2 DEF MyOpinionIsCreated
    <3> HIDE DEF u
    <3>3. Settled(r, u, pool, members, approval) /\ HasOpinion(u)
      BY <1>00, <2>0, <2>2, <3>1 DEF Settled, HasOpinion
    <3> QED  BY <1>0, <2>0, <3>1, <3>2, <3>3, CheckSettles
  <2> QED  BY <2>1, <2>2
<1>3. ASSUME NEW r \in Replicators, OpinionTimerExpired(r) PROVE Safe'
  <2> DEFINE u == [task[r] EXCEPT !.timer = "expired"]
  <2>1. /\ u \in Tasks /\ u.phase = task[r].phase /\ u.sent = task[r].sent
        /\ u.approved = task[r].approved /\ u.failed = task[r].failed
    BY <1>00 DEF Tasks
  <2>2. /\ HasOpinion(task[r]) /\ SendTransaction(r, u)
        /\ UNCHANGED <<members, approval>>
    BY <1>3 DEF OpinionTimerExpired
  <2> HIDE DEF u
  <2>3. Settled(r, u, pool, members, approval) /\ HasOpinion(u)
    BY <1>00, <2>1, <2>2 DEF Settled, HasOpinion
  <2> QED  BY <1>0, <2>1, <2>2, <2>3, SendSettles
<1>4. ASSUME NEW r \in Replicators, OnApprovalTxFailed(r) PROVE Safe'
  <2> DEFINE u == [task[r] EXCEPT !.failed = FALSE]
             v == [u EXCEPT !.sent = FALSE,
                            !.again = task[r].again \cup task[r].received,
                            !.received = {}]
  <2>1. /\ u \in Tasks /\ u.phase = task[r].phase /\ u.sent = task[r].sent
        /\ u.approved = task[r].approved
    BY <1>00 DEF Tasks
  <2>2. v.phase = task[r].phase /\ ~v.sent /\ v.approved = task[r].approved
    <3> HIDE DEF u
    <3> QED  BY <2>1 DEF Tasks
  <2>3. task' = [task EXCEPT ![r] = IF task[r].approved THEN u ELSE v]
    BY <1>4, Zenon DEF OnApprovalTxFailed
  <2>4. UNCHANGED <<pool, members, approval>>
    BY <1>4 DEF OnApprovalTxFailed
  <2> HIDE DEF u, v
  <2>5. CASE task[r].approved
    <3>1. Settled(r, u, pool', members, approval)
      BY <1>00, <2>1, <2>4, <2>5 DEF Settled, HasOpinion
    <3> QED  BY <1>0, <2>3, <2>4, <2>5, <3>1, SettledChanges
  <2>6. CASE ~task[r].approved
    <3>1. Settled(r, v, pool', members, approval)
      BY <1>00, <2>2, <2>4, <2>6 DEF Settled, HasOpinion
    <3> QED  BY <1>0, <2>3, <2>4, <2>6, <3>1, SettledChanges
  <2> QED  BY <2>5, <2>6
<1>5. ASSUME NEW r \in Replicators, OnApprovalTxPublished(r) PROVE Safe'
  <2> DEFINE w == [task[r] EXCEPT !.approved = TRUE]
             x == [w EXCEPT !.phase = "done"]
  <2>1. w \in Tasks /\ w.phase = task[r].phase /\ w.sent = task[r].sent
    BY <1>00 DEF Tasks
  <2>2. x.phase = "done"
    <3> HIDE DEF w
    <3> QED  BY <2>1 DEF Tasks
  <2>3. /\ task' = [task EXCEPT ![r] =
              IF task[r].phase \in {"executing", "saving"} THEN w ELSE x]
        /\ approval # {} /\ UNCHANGED <<pool, members, approval>>
    BY <1>00, <1>5 DEF OnApprovalTxPublished, Tasks
  <2> HIDE DEF w, x
  <2>4. CASE task[r].phase \in {"executing", "saving"}
    <3>1. Settled(r, w, pool', members, approval)
      BY <1>00, <2>1, <2>3, <2>4 DEF Settled, HasOpinion
    <3> QED  BY <1>0, <2>3, <2>4, <3>1, SettledChanges
  <2>5. CASE task[r].phase \notin {"executing", "saving"}
    <3>1. Settled(r, x, pool', members, approval)
      BY <2>2, <2>3 DEF Settled, HasOpinion
    <3> QED  BY <1>0, <2>3, <2>5, <3>1, SettledChanges
  <2> QED  BY <2>4, <2>5
<1>6. ASSUME NEW r \in Replicators, SetReplicators(r) PROVE Safe'
  <2> DEFINE u == [task[r] EXCEPT !.view = members \ {r}]
  <2>1. /\ u.phase = task[r].phase /\ u.sent = task[r].sent
        /\ u.approved = task[r].approved /\ u.failed = task[r].failed
    BY <1>00 DEF Tasks
  <2>2. task' = [task EXCEPT ![r] = u] /\ UNCHANGED <<pool, members, approval>>
    BY <1>6 DEF SetReplicators
  <2> HIDE DEF u
  <2>3. Settled(r, u, pool', members, approval)
    BY <1>00, <2>1, <2>2 DEF Settled, HasOpinion
  <2> QED  BY <1>0, <2>2, <2>3, SettledChanges
<1>7. ASSUME NEW r \in Replicators, NEW o \in Replicators, OnOpinionAgain(r, o) PROVE Safe'
  <2> DEFINE t == [task[r] EXCEPT !.again = @ \ {o}]
  <2>1. /\ t \in Tasks /\ t.phase = task[r].phase /\ t.sent = task[r].sent
        /\ t.approved = task[r].approved /\ t.failed = task[r].failed
    BY <1>00 DEF Tasks
  <2>2. /\ UNCHANGED <<members, approval>>
        /\ IF o \in members THEN ProcessedModifyOpinion(r, o, t)
           ELSE task' = [task EXCEPT ![r] = t] /\ UNCHANGED pool
    BY <1>7 DEF OnOpinionAgain
  <2> HIDE DEF t
  <2>3. Settled(r, t, pool, members, approval)
    BY <1>00, <2>1 DEF Settled, HasOpinion
  <2>4. CASE o \in members
    BY <1>0, <2>1, <2>2, <2>3, <2>4, ProcessSettles
  <2>5. CASE o \notin members
    <3>1. task' = [task EXCEPT ![r] = t] /\ pool' = pool
      BY <2>2, <2>5
    <3> QED  BY <1>0, <2>2, <2>3, <3>1, SettledChanges
  <2> QED  BY <2>4, <2>5
<1>8. ASSUME NEW r \in Replicators, NEW o \in Replicators, OnOpinionReceived(r, o)
      PROVE Safe'
  <2>1. ProcessedModifyOpinion(r, o, task[r]) /\ UNCHANGED <<members, approval>>
    BY <1>8 DEF OnOpinionReceived
  <2> QED  BY <1>0, <1>00, <2>1, ProcessSettles
<1>9. ASSUME NEW tx \in pool, ProcessTransaction(tx) PROVE Safe'
  BY <1>0, <1>9, TransactionSettles
<1>10. ASSUME NEW r \in Replicators, Leave(r) \/ Join(r) PROVE Safe'
  BY <1>0, <1>10, ListSettles
<1>11. CASE UNCHANGED vars
  BY <1>0, <1>11 DEF vars, Safe
<1> QED
  BY <1>1, <1>2, <1>3, <1>4, <1>5, <1>6, <1>7, <1>8, <1>9, <1>10, <1>11,
     <1>12 DEF Next, Step

\* m_modifyApproveTransactionSent never blocks a replicator for nothing: while
\* it is set, the transaction is still to be looked at, its failure is posted,
\* or the modification is approved (opinionTimerExpired, onApprovalTxFailed).
THEOREM SentStaysPending == Spec => []SentIsPending
<1>1. Safe => SentIsPending
  <2> SUFFICES ASSUME Safe, NEW r \in members, HasOpinion(task[r]), task[r].sent
               PROVE  (\E tx \in pool : tx.from = r) \/ task[r].failed \/ approval # {}
    BY DEF SentIsPending
  <2>1. r \in Replicators
    BY DEF Safe, IInv, TypeOK
  <2> QED  BY <2>1 DEF Safe, Settled
<1> QED  BY <1>1, SafeInit, SafeNext, PTL DEF Spec

==============================================================================
