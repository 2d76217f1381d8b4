---------------------------- MODULE FlatDriveProofs --------------------------
(***************************************************************************)
(* What holds of a drive for any number of modifications, cancellations,   *)
(* verifications and crashes, in three parts:                              *)
(*   I.   Only approved modifications become part of a drive, and every    *)
(*        variable of the scheduler keeps its type.                        *)
(*   II.  A drive never goes back, the restart values never forget an      *)
(*        approved modification, and a verification runs on files that no  *)
(*        task replaces, until the first restart.                          *)
(*   III. As long as nothing is cancelled, every modification is executed  *)
(*        on the tree of the one before it, and the drive holds a tree the *)
(*        chain approved.                                                  *)
(* Each part has an inductive invariant, which rests on that of the part   *)
(* before it.                                                              *)
(***************************************************************************)
EXTENDS FlatDrive, SequenceTheorems, WellFoundedInduction, TLAPS

(* I. The inductive invariant.  Its parts are stated over a chain c and a    *)
(* drive d, so that the helpers of the scheduler can be treated one by one.  *)

Approved(c, m) == m \in 1..c.last /\ m \notin c.cancelled

\* A task that is about to replace the drive, or that catches up, has an
\* approved modification; one that modifies the drive has a modification.
TaskIsApproved(c, t) ==
    /\ t.kind = "modify" => t.mod \in Mods
    /\ t.kind = "catchup" => Approved(c, t.mod)
    /\ t.step \in Synchronizing => Approved(c, t.mod)

\* The approval a modification goes on after is its own: if it was that of
\* another one, the task is interrupted.
ApprovalIsOwn(c, t) ==
    t.kind = "modify" /\ t.approved /\ ~t.interrupted => Approved(c, t.mod)

DriveIsApproved(c, d) ==
    /\ d \in Drives
    /\ d.last # 0 => Approved(c, d.last)
    /\ d.catchReq # 0 => Approved(c, d.catchReq)
    /\ TaskIsApproved(c, d.task)

DriveInv(c, d) == DriveIsApproved(c, d) /\ ApprovalIsOwn(c, d.task)

\* The pending modifications are newer than the last approved one and in the
\* order of their numbers, and none of them is cancelled.
ChainInv(c) ==
    /\ c \in Chains
    /\ c.last <= c.issued
    /\ c.last \notin c.cancelled
    /\ \A m \in c.cancelled : m <= c.issued
    /\ \A i \in 1..Len(c.pending) :
          /\ c.last < c.pending[i] /\ c.pending[i] <= c.issued
          /\ c.pending[i] \notin c.cancelled
    /\ \A i, j \in 1..Len(c.pending) : i < j => c.pending[i] < c.pending[j]

\* Every approval on its way is of an approved modification; what is
\* requested or cancelled is not the zero hash.
EventInv(c, e) ==
    /\ e.type = "approve" => Approved(c, e.mod)
    /\ e.type \in {"modify", "cancel"} => e.mod \in Mods

InboxInv(c, q) == q \in Seq(Events) /\ \A i \in 1..Len(q) : EventInv(c, q[i])

\* The fields of the accounts; their sums need no type here.
AccountShape(a) ==
    /\ DOMAIN a = {"expected", "approved", "notApproved"}
    /\ a.approved.id \in ModOrZero /\ a.notApproved.id \in ModOrZero

\* The same for the files, and the saved modification is approved.
DiskInv(c, k) ==
    /\ DOMAIN k = {"root", "last", "approved", "notApproved", "opinion"}
    /\ k.root \in Roots /\ k.last \in ModOrZero
    /\ k.approved.id \in ModOrZero /\ k.notApproved.id \in ModOrZero
    /\ k.last # 0 => Approved(c, k.last)

IInv == /\ ChainInv(chain)
        /\ InboxInv(chain, inbox)
        /\ DiskInv(chain, disk)
        /\ DriveInv(chain, drive)
        /\ AccountShape(acct)

------------------------------------------------------------------------------
(* Sequences *)

\* Part of a sequence.
LEMMA SubSeqOfSeq ==
    ASSUME NEW S, NEW s \in Seq(S), NEW m \in Int, NEW n \in Int, 1 <= m, n <= Len(s)
    PROVE  /\ SubSeq(s, m, n) \in Seq(S)
           /\ Len(SubSeq(s, m, n)) = IF m <= n THEN n - m + 1 ELSE 0
           /\ \A i \in 1..(n - m + 1) : SubSeq(s, m, n)[i] = s[m + i - 1]
<1>1. Len(s) \in Nat  BY LenProperties
<1>2. \A i \in m..n : i \in 1..Len(s)  BY <1>1
<1>3. \A i \in m..n : s[i] \in S  BY <1>2, ElementOfSeq
<1> QED  BY <1>3, SubSeqProperties


\* A sequence without its element p.
LEMMA DropAt ==
    ASSUME NEW S, NEW s \in Seq(S), NEW p \in 1..Len(s), NEW w,
           w = SubSeq(s, 1, p - 1) \o SubSeq(s, p + 1, Len(s))
    PROVE  /\ w \in Seq(S)
           /\ Len(w) = Len(s) - 1
           /\ \A i \in 1..(Len(s) - 1) : w[i] = IF i < p THEN s[i] ELSE s[i + 1]
<1>0. Len(s) \in Nat /\ p \in Int /\ 1 <= p /\ p <= Len(s)  BY LenProperties
<1>1. PICK a : a = SubSeq(s, 1, p - 1)  OBVIOUS
<1>2. PICK b : b = SubSeq(s, p + 1, Len(s))  OBVIOUS
<1>3. a \in Seq(S) /\ Len(a) = p - 1 /\ \A i \in 1..(p - 1) : a[i] = s[i]
  <2>1. PICK o, q : o = 1 /\ q = p - 1  OBVIOUS
  <2>2. o \in Int /\ q \in Int /\ 1 <= o /\ q <= Len(s)  BY <1>0, <2>1
  <2>3. /\ SubSeq(s, o, q) \in Seq(S)
        /\ Len(SubSeq(s, o, q)) = IF o <= q THEN q - o + 1 ELSE 0
        /\ \A i \in 1..(q - o + 1) : SubSeq(s, o, q)[i] = s[o + i - 1]
    BY <2>2, SubSeqOfSeq, ZenonT(40)
  <2>4. /\ a \in Seq(S)
        /\ Len(a) = IF o <= q THEN q - o + 1 ELSE 0
        /\ \A i \in 1..(q - o + 1) : a[i] = s[o + i - 1]
    BY <2>1, <2>3, <1>1, Zenon
  <2> QED  BY ONLY <2>4, <1>0, <2>1
<1>4. b \in Seq(S) /\ Len(b) = Len(s) - p /\ \A i \in 1..(Len(s) - p) : b[i] = s[p + i]
  <2>1. PICK q : q = p + 1  OBVIOUS
  <2>2. q \in Int /\ Len(s) \in Int /\ 1 <= q /\ Len(s) <= Len(s)  BY <1>0, <2>1
  <2>3. /\ SubSeq(s, q, Len(s)) \in Seq(S)
        /\ Len(SubSeq(s, q, Len(s))) = IF q <= Len(s) THEN Len(s) - q + 1 ELSE 0
        /\ \A i \in 1..(Len(s) - q + 1) : SubSeq(s, q, Len(s))[i] = s[q + i - 1]
    BY <2>2, SubSeqOfSeq, ZenonT(40)
  <2>4. /\ b \in Seq(S)
        /\ Len(b) = IF q <= Len(s) THEN Len(s) - q + 1 ELSE 0
        /\ \A i \in 1..(Len(s) - q + 1) : b[i] = s[q + i - 1]
    BY <2>1, <2>3, <1>2, Zenon
  <2> QED  BY ONLY <2>4, <1>0, <2>1
<1>5. w = a \o b  BY <1>1, <1>2
<1>6. /\ a \o b \in Seq(S)
      /\ Len(a \o b) = Len(s) - 1
      /\ \A i \in 1..(Len(s) - 1) : (a \o b)[i] = IF i < p THEN s[i] ELSE s[i + 1]
  <2>1. /\ a \o b \in Seq(S)
        /\ Len(a \o b) = Len(a) + Len(b)
        /\ \A i \in 1..(Len(a) + Len(b)) :
              (a \o b)[i] = IF i <= Len(a) THEN a[i] ELSE b[i - Len(a)]
    BY <1>3, <1>4, ConcatProperties, Zenon
  <2>2. Len(a \o b) = Len(s) - 1  BY <1>0, <1>3, <1>4, <2>1
  <2>3. ASSUME NEW i \in 1..(Len(s) - 1)
        PROVE  (a \o b)[i] = IF i < p THEN s[i] ELSE s[i + 1]
    <3>1. (a \o b)[i] = IF i <= p - 1 THEN a[i] ELSE b[i - (p - 1)]
      BY <1>0, <1>3, <1>4, <2>1
    <3>2. CASE i < p  BY <3>1, <3>2, <1>0, <1>3
    <3>3. CASE ~(i < p)
      <4>1. PICK j : j = i - (p - 1)  OBVIOUS
      <4>2. j \in 1..(Len(s) - p) /\ p + j = i + 1  BY <3>3, <4>1, <1>0
      <4>3. b[j] = s[i + 1]  BY <4>2, <1>4
      <4> QED  BY ONLY <4>1, <4>3, <3>1, <3>3, <1>0
    <3> QED  BY <3>2, <3>3
  <2> QED  BY <2>1, <2>2, <2>3
<1> QED  BY <1>5, <1>6, Zenon

\* The place of m in a queue.
LEMMA PositionType ==
    ASSUME NEW S, NEW s \in Seq(S), NEW m
    PROVE  /\ Position(s, m) \in 0..Len(s)
           /\ (\E i \in DOMAIN s : s[i] = m) =>
                 Position(s, m) # 0 /\ s[Position(s, m)] = m
  BY LenProperties DEF Position

\* The queue without m, when it contains m and when it does not.
LEMMA WithoutProperties ==
    ASSUME NEW S, NEW s \in Seq(S), NEW m
    PROVE  /\ Without(s, m) \in Seq(S)
           /\ (\E i \in DOMAIN s : s[i] = m) =>
                 /\ Len(Without(s, m)) = Len(s) - 1
                 /\ \A i \in 1..(Len(s) - 1) :
                       Without(s, m)[i] = IF i < Position(s, m) THEN s[i] ELSE s[i + 1]
<1>1. PICK p : p = Position(s, m)  OBVIOUS
<1>2. p \in 0..Len(s) /\ ((\E i \in DOMAIN s : s[i] = m) => p # 0)
  BY <1>1, PositionType
<1>3. Len(s) \in Nat  BY LenProperties
<1>4. CASE p = 0
  <2>1. Without(s, m) = s  BY <1>1, <1>4 DEF Without
  <2> QED  BY <2>1, <1>2, <1>4
<1>5. CASE p # 0
  <2>1. PICK w : w = SubSeq(s, 1, p - 1) \o SubSeq(s, p + 1, Len(s))  OBVIOUS
  <2>2. Without(s, m) = w  BY <1>1, <1>5, <2>1, Zenon DEF Without
  <2>3. p \in 1..Len(s)  BY <1>2, <1>3, <1>5
  <2>4. /\ w \in Seq(S)
        /\ Len(w) = Len(s) - 1
        /\ \A i \in 1..(Len(s) - 1) : w[i] = IF i < p THEN s[i] ELSE s[i + 1]
    BY <2>1, <2>3, DropAt, ZenonT(40)
  <2> QED  BY <2>2, <2>4, <1>1, Zenon
<1> QED  BY <1>4, <1>5

\* The requests a catch-up leaves in the queue.
LEMMA RestOfQueue ==
    ASSUME NEW S, NEW s \in Seq(S), NEW m
    PROVE  SubSeq(s, Len(SubSeq(s, 1, Position(s, m))) + 1, Len(s)) \in Seq(S)
<1>1. PICK p, o : p = Position(s, m) /\ o = 1  OBVIOUS
<1>2. p \in 0..Len(s) /\ Len(s) \in Nat  BY <1>1, PositionType, LenProperties
<1>3. o \in Int /\ p \in Int /\ 1 <= o /\ p <= Len(s)  BY <1>1, <1>2
<1>4. /\ SubSeq(s, o, p) \in Seq(S)
      /\ Len(SubSeq(s, o, p)) = IF o <= p THEN p - o + 1 ELSE 0
      /\ \A i \in 1..(p - o + 1) : SubSeq(s, o, p)[i] = s[o + i - 1]
  BY <1>3, SubSeqOfSeq, ZenonT(40)
<1>5. PICK q : q = Len(SubSeq(s, o, p)) + 1  OBVIOUS
<1>6. q \in Int /\ Len(s) \in Int /\ 1 <= q /\ Len(s) <= Len(s)
  BY <1>1, <1>2, <1>4, <1>5
<1>7. SubSeq(s, q, Len(s)) \in Seq(S)  BY <1>6, SubSeqOfSeq, Zenon
<1> QED  BY <1>1, <1>5, <1>7, Zenon

USE DEF ModOrZero, Mods

------------------------------------------------------------------------------
(* Tasks and drives *)

\* A new task is a task.
LEMMA NewTaskType ==
    ASSUME NEW k \in Kinds, NEW m \in ModOrZero, NEW s \in Steps
    PROVE  NewTask(k, m, s) \in Tasks
  BY DEF NewTask, Tasks, Roots

\* A drive that was just added satisfies the invariant.
LEMMA NewDriveInv ==
    ASSUME NEW c, NEW x \in SUBSET Mods
    PROVE  DriveInv(c, NewDrive(x))
<1> DEFINE n == NewTask("init", 0, "load")
           t == [n EXCEPT !.cancels = x]
<1>0. n \in Tasks /\ n.kind = "init" /\ n.step = "load"
  <2>1. n \in Tasks  BY DriveAssumption, NewTaskType DEF Kinds, Steps
  <2> QED  BY <2>1 DEF NewTask
<1>1. t \in Tasks /\ t.kind = "init" /\ t.step = "load"
  <2> HIDE DEF n
  <2> QED  BY <1>0 DEF Tasks
<1>2. NewDrive(x) \in Drives /\ NewDrive(x).task = t
      /\ NewDrive(x).last = 0 /\ NewDrive(x).catchReq = 0
  BY <1>1, DriveAssumption, EmptySeq DEF NewDrive, Drives, Roots
<1> QED
  BY <1>1, <1>2 DEF DriveInv, DriveIsApproved, ApprovalIsOwn, TaskIsApproved, Synchronizing

\* A task that ends is harmless.
LEMMA FinishKeeps ==
    ASSUME NEW c, NEW d, DriveIsApproved(c, d)
    PROVE  /\ DriveIsApproved(c, FinishTask(d))
           /\ ApprovalIsOwn(c, d.task) => DriveInv(c, FinishTask(d))
           /\ d.task.interrupted => DriveInv(c, FinishTask(d))
  BY DEF DriveInv, DriveIsApproved, ApprovalIsOwn, TaskIsApproved, FinishTask,
         Drives, Tasks, Steps, Synchronizing

\* A task that is interrupted no longer goes on after an approval.
LEMMA BreakKeeps ==
    ASSUME NEW c, NEW d, DriveIsApproved(c, d)
    PROVE  DriveInv(c, BreakTask(d))
<1> DEFINE i == [d EXCEPT !.task.interrupted = TRUE]
<1>1. DriveIsApproved(c, i) /\ i.task.interrupted
  BY DEF DriveIsApproved, TaskIsApproved, Drives, Tasks
<1>2. DriveInv(c, i) /\ DriveInv(c, FinishTask(i))
  BY <1>1, FinishKeeps DEF DriveInv, ApprovalIsOwn
<1> QED  BY <1>2 DEF BreakTask, TryBreakTask

------------------------------------------------------------------------------
(* The scheduler *)

\* Verifications do not touch what the invariant is about.
LEMMA VerificationKeeps ==
    ASSUME NEW c, NEW d, DriveInv(c, d)
    PROVE  /\ DriveInv(c, CancelVerification(d)) /\ CancelVerification(d).task = d.task
           /\ DriveInv(c, RunVerificationTask(d))
  BY DEF CancelVerification, RunVerificationTask, DriveInv, DriveIsApproved, Drives

\* The last step of every task that was started: r differs from d in what
\* runNextTask starts.
LEMMA StartedKeeps ==
    ASSUME NEW c, NEW d, DriveInv(c, d), NEW r \in Drives,
           r.last = d.last, r.catchReq \in {0, d.catchReq},
           TaskIsApproved(c, r.task), ApprovalIsOwn(c, r.task)
    PROVE  DriveInv(c, r)
  BY DEF DriveInv, DriveIsApproved

\* Whatever runNextTask starts: a catch-up has an approved modification, the
\* other tasks are far from replacing the drive.
LEMMA RunNextKeeps ==
    ASSUME NEW c, NEW d, DriveInv(c, d)
    PROVE  DriveInv(c, RunNextTask(d))
<1> DEFINE n == [d EXCEPT !.task = NoTask]
           v == IF n.verifyReq # NoVerification /\ n.last = n.verifyReq
                THEN RunVerificationTask(n) ELSE n
<1>0. 0 \in ModOrZero /\ \A m \in Mods : m \in ModOrZero
  BY DriveAssumption
<1>1. NoTask \in Tasks /\ NoTask.kind = "none" /\ NoTask.step = "idle"
  <2>1. NoTask \in Tasks  BY <1>0, NewTaskType DEF NoTask, Kinds, Steps
  <2> QED  BY <2>1 DEF NoTask, NewTask
<1>2. DriveInv(c, n) /\ n.task = NoTask
  BY <1>1 DEF DriveInv, DriveIsApproved, TaskIsApproved, ApprovalIsOwn, Drives, Synchronizing
<1>3. DriveInv(c, v)
  BY <1>2, VerificationKeeps
<1>4. v.last = n.last /\ v.catchReq = n.catchReq /\ v.cancelReq = n.cancelReq
      /\ v.closeReq = n.closeReq /\ v.deferred = n.deferred
  BY <1>2 DEF RunVerificationTask, DriveInv, DriveIsApproved, Drives
<1>5. n.closeReq = d.closeReq /\ n.cancelReq = d.cancelReq /\ n.catchReq = d.catchReq
      /\ n.deferred = d.deferred
  BY DEF DriveInv, DriveIsApproved, Drives
<1> HIDE DEF n, v
<1>6. DriveInv(c, RunCloseDriveTask(n))
  <2> DEFINE t == NewTask("close", 0, "remove")
  <2>1. t \in Tasks  BY <1>0, NewTaskType DEF Kinds, Steps
  <2>2. t.kind = "close" /\ t.step = "remove"  BY DEF NewTask
  <2> HIDE DEF t
  <2>3. RunCloseDriveTask(n) \in Drives /\ RunCloseDriveTask(n).task = t
        /\ RunCloseDriveTask(n).last = n.last /\ RunCloseDriveTask(n).catchReq = n.catchReq
    BY <1>2, <2>1 DEF t, RunCloseDriveTask, DriveInv, DriveIsApproved, Drives
  <2> QED
    BY <1>2, <2>2, <2>3, StartedKeeps DEF TaskIsApproved, ApprovalIsOwn, Synchronizing
<1>7. DriveInv(c, RunCancelModificationTask(v))
  <2> DEFINE t == NewTask("cancel", v.cancelReq, "disapprove")
  <2>1. t \in Tasks  BY <1>3, NewTaskType DEF Kinds, Steps, DriveInv, DriveIsApproved, Drives
  <2>2. t.kind = "cancel" /\ t.step = "disapprove"  BY DEF NewTask
  <2> HIDE DEF t
  <2> DEFINE r == RunCancelModificationTask(v)
  <2>3. r \in Drives /\ r.task = t /\ r.last = v.last /\ r.catchReq = v.catchReq
    BY <1>0, <1>3, <2>1 DEF t, RunCancelModificationTask, DriveInv, DriveIsApproved, Drives
  <2> QED
    BY <1>3, <2>2, <2>3, StartedKeeps DEF TaskIsApproved, ApprovalIsOwn, Synchronizing
<1>8. ASSUME v.deferred # <<>>
      PROVE  DriveInv(c, RunModificationTask(v))
  <2>1. v.deferred \in Seq(Mods)  BY <1>3 DEF DriveInv, DriveIsApproved, Drives
  <2>2. Head(v.deferred) \in Mods /\ Tail(v.deferred) \in Seq(Mods)
    BY <1>8, <2>1, HeadTailProperties
  <2> DEFINE t == NewTask("modify", Head(v.deferred), "list")
  <2>3. t \in Tasks  BY <1>0, <2>2, NewTaskType DEF Kinds, Steps
  <2>4. t.kind = "modify" /\ t.mod \in Mods /\ t.step = "list" /\ t.approved = FALSE
    BY <2>2 DEF NewTask
  <2> HIDE DEF t
  <2> DEFINE r == RunModificationTask(v)
  <2>5. r \in Drives /\ r.task = t /\ r.last = v.last /\ r.catchReq = v.catchReq
    BY <1>3, <2>2, <2>3 DEF t, RunModificationTask, DriveInv, DriveIsApproved, Drives
  <2> QED
    BY <1>3, <2>4, <2>5, StartedKeeps DEF TaskIsApproved, ApprovalIsOwn, Synchronizing
<1>9. ASSUME v.catchReq # 0
      PROVE  DriveInv(c, RunCatchingUpTask(v))
  <2>1. v.deferred \in Seq(Mods) /\ v.catchReq \in ModOrZero /\ Approved(c, v.catchReq)
    BY <1>3, <1>9 DEF DriveInv, DriveIsApproved, Drives
  <2> DEFINE rest == SubSeq(v.deferred, Len(Skipped(v)) + 1, Len(v.deferred))
             step == CatchUpStep(v, v.catchReq, chain.rootAt[v.catchReq])
             t == NewTask("catchup", v.catchReq, step)
  <2>2. rest \in Seq(Mods)
    BY <2>1, RestOfQueue DEF Skipped
  <2>3. step \in {"finish", "sandbox", "tree"}  BY DEF CatchUpStep
  <2>4. t \in Tasks  BY <2>1, <2>3, NewTaskType DEF Kinds, Steps
  <2>5. t.kind = "catchup" /\ t.mod = v.catchReq /\ t.step = step  BY DEF NewTask
  <2> HIDE DEF rest, step, t
  <2> DEFINE r == RunCatchingUpTask(v)
  <2>6. r \in Drives /\ r.task = t /\ r.last = v.last /\ r.catchReq = 0
    BY <1>0, <1>3, <2>2, <2>4
    DEF t, step, rest, RunCatchingUpTask, DriveInv, DriveIsApproved, Drives
  <2> QED
    BY <1>3, <2>1, <2>3, <2>5, <2>6, StartedKeeps
    DEF TaskIsApproved, ApprovalIsOwn, Synchronizing
<1>10. RunNextTask(d) \in {RunCloseDriveTask(n), RunCancelModificationTask(v), v}
       \/ (n.catchReq # 0 /\ RunNextTask(d) = RunCatchingUpTask(v))
       \/ (n.deferred # <<>> /\ RunNextTask(d) = RunModificationTask(v))
  BY DEF RunNextTask, n, v
<1> QED  BY <1>3, <1>4, <1>6, <1>7, <1>8, <1>9, <1>10

------------------------------------------------------------------------------
(* The chain *)

\* What chain c approved is approved by chain b.
StillApproved(c, b) == \A m \in ModOrZero : Approved(c, m) => Approved(b, m)

\* The invariant holds on as long as nothing loses its approval.
LEMMA StillApprovedKeeps ==
    ASSUME NEW c, NEW b, StillApproved(c, b)
    PROVE  /\ \A d : DriveInv(c, d) => DriveInv(b, d)
           /\ \A q : InboxInv(c, q) => InboxInv(b, q)
           /\ \A k : DiskInv(c, k) => DiskInv(b, k)
<1>1. ASSUME NEW d, DriveInv(c, d)  PROVE DriveInv(b, d)
  BY <1>1 DEF StillApproved, DriveInv, DriveIsApproved, TaskIsApproved, ApprovalIsOwn,
              Drives, Tasks
<1>2. ASSUME NEW q, InboxInv(c, q)  PROVE InboxInv(b, q)
  <2>1. \A i \in 1..Len(q) : q[i] \in Events  BY <1>2, ElementOfSeq DEF InboxInv
  <2>2. \A i \in 1..Len(q) : q[i].mod \in ModOrZero  BY <2>1 DEF Events
  <2> QED  BY <1>2, <2>2 DEF StillApproved, InboxInv, EventInv
<1>3. ASSUME NEW k, DiskInv(c, k)  PROVE DiskInv(b, k)
  BY <1>3 DEF StillApproved, DiskInv
<1> QED  BY <1>1, <1>2, <1>3

\* An event is posted to the session thread.
LEMMA PostKeeps ==
    ASSUME NEW c, InboxInv(c, inbox), NEW m \in ModOrZero,
           NEW k \in {"modify", "approve", "cancel", "close", "verify", "verified"},
           Post(k, m), EventInv(c, [type |-> k, mod |-> m])
    PROVE  InboxInv(c, inbox')
<1> DEFINE e == [type |-> k, mod |-> m]
<1>1. e \in Events /\ EventInv(c, e)  BY DEF Events
<1>2. inbox' = inbox \/ inbox' = Append(inbox, e)  BY DEF Post
<1>3. ASSUME inbox' = Append(inbox, e)  PROVE InboxInv(c, inbox')
  <2> HIDE DEF e
  <2>1. /\ inbox' \in Seq(Events)
        /\ Len(inbox') = Len(inbox) + 1
        /\ \A i \in 1..Len(inbox) : inbox'[i] = inbox[i]
        /\ inbox'[Len(inbox) + 1] = e
    BY <1>1, <1>3, AppendProperties DEF InboxInv
  <2>2. Len(inbox) \in Nat  BY LenProperties DEF InboxInv
  <2>3. ASSUME NEW i \in 1..Len(inbox')
        PROVE  EventInv(c, inbox'[i])
    <3>1. CASE i \in 1..Len(inbox)  BY <2>1, <2>3, <3>1 DEF InboxInv
    <3>2. CASE i = Len(inbox) + 1   BY <1>1, <2>1, <2>3, <3>2
    <3> QED  BY <2>1, <2>2, <3>1, <3>2
  <2> QED  BY <2>1, <2>3 DEF InboxInv
<1> QED  BY <1>2, <1>3

\* A step of the chain reaches the replicator only as an event.
LEMMA ChainStepKeeps ==
    ASSUME IInv, ChainInv(chain'), StillApproved(chain, chain'), UNCHANGED replicator,
           NEW k \in {"modify", "approve", "cancel", "close", "verify", "verified"},
           NEW m \in ModOrZero, Post(k, m), EventInv(chain', [type |-> k, mod |-> m])
    PROVE  IInv'
<1>1. /\ DriveInv(chain', drive) /\ DiskInv(chain', disk) /\ InboxInv(chain', inbox)
  BY StillApprovedKeeps DEF IInv
<1>2. InboxInv(chain', inbox')  BY <1>1, PostKeeps
<1>3. drive' = drive /\ disk' = disk /\ acct' = acct  BY DEF replicator
<1> QED  BY <1>1, <1>2, <1>3 DEF IInv

\* Modifications are numbers.
LEMMA Numbers ==
    /\ 0 \in ModOrZero
    /\ \A m \in Mods : m \in ModOrZero
    /\ \A m \in ModOrZero : m \in Int /\ 0 <= m
  BY DriveAssumption

\* The fields of the chain.
LEMMA ChainTypes ==
    ASSUME NEW c, ChainInv(c)
    PROVE  /\ c \in Chains /\ c.pending \in Seq(Mods)
           /\ c.last \in ModOrZero /\ c.issued \in ModOrZero
           /\ c.last \in Int /\ c.issued \in Int
<1>1. /\ c \in Chains /\ c.pending \in Seq(Mods)
      /\ c.last \in ModOrZero /\ c.issued \in ModOrZero
  BY DEF ChainInv, Chains
<1> QED  BY <1>1, Numbers

\* A new modification is newer than all others.
LEMMA ChainModifyInv == IInv /\ ChainModify => IInv'
<1> SUFFICES ASSUME IInv, ChainModify  PROVE IInv'
  OBVIOUS
<1> DEFINE m == chain.issued + 1
           q == Append(chain.pending, m)
<1>1. chain \in Chains /\ chain.pending \in Seq(Mods) /\ chain.issued \in ModOrZero
      /\ ChainInv(chain)
  BY DEF IInv, ChainInv, Chains
<1>2. m \in Mods /\ m \in ModOrZero /\ chain.issued < m
  BY <1>1, DriveAssumption DEF ChainModify
<1>3. chain' = [chain EXCEPT !.issued = m, !.pending = q] /\ Post("modify", m)
      /\ UNCHANGED replicator
  BY DEF ChainModify
<1> HIDE DEF m
<1>4. /\ q \in Seq(Mods) /\ Len(q) = Len(chain.pending) + 1
      /\ \A i \in 1..Len(chain.pending) : q[i] = chain.pending[i]
      /\ q[Len(chain.pending) + 1] = m
      /\ Len(chain.pending) \in Nat
  BY <1>1, <1>2, AppendProperties, LenProperties
<1> HIDE DEF q
<1>5. /\ chain' \in Chains /\ chain'.issued = m /\ chain'.pending = q
      /\ chain'.last = chain.last /\ chain'.cancelled = chain.cancelled
  BY <1>1, <1>2, <1>3, <1>4 DEF Chains
<1>6. StillApproved(chain, chain')  BY <1>5 DEF StillApproved, Approved
<1>7. ChainInv(chain')
  <2>1. /\ chain.last \in Int /\ m \in Int /\ chain.issued \in Int /\ chain.last < m
        /\ m \notin chain.cancelled
        /\ \A x \in chain.cancelled : x \in Int
    BY <1>1, <1>2, DriveAssumption DEF ChainInv, Chains
  <2>2. /\ chain'.last <= chain'.issued
        /\ chain'.last \notin chain'.cancelled
        /\ \A x \in chain'.cancelled : x <= chain'.issued
    BY <1>1, <1>2, <1>5, <2>1 DEF ChainInv
  <2>3. \A i \in 1..Len(chain.pending) : chain.pending[i] \in Int
    BY <1>1, ElementOfSeq, DriveAssumption
  <2>4. ASSUME NEW i \in 1..Len(q)
        PROVE  chain.last < q[i] /\ q[i] <= m /\ q[i] \notin chain.cancelled
    <3>1. CASE i \in 1..Len(chain.pending)
      BY <3>1, <1>1, <1>2, <1>4, <2>1, <2>3, SMTT(30) DEF ChainInv
    <3>2. CASE i = Len(chain.pending) + 1  BY <3>2, <1>4, <2>1
    <3> QED  BY <1>4, <3>1, <3>2
  <2>5. ASSUME NEW i \in 1..Len(q), NEW j \in 1..Len(q), i < j
        PROVE  q[i] < q[j]
    <3>1. i \in 1..Len(chain.pending)  BY <1>4, <2>5
    <3>2. CASE j \in 1..Len(chain.pending)  BY <3>1, <3>2, <1>1, <1>4, <2>5 DEF ChainInv
    <3>3. CASE j = Len(chain.pending) + 1
      BY <3>1, <3>3, <1>1, <1>2, <1>4, <2>1, <2>3, SMTT(30) DEF ChainInv
    <3> QED  BY <1>4, <3>2, <3>3
  <2> QED  BY <1>5, <2>2, <2>4, <2>5 DEF ChainInv
<1>8. EventInv(chain', [type |-> "modify", mod |-> m])  BY <1>2 DEF EventInv
<1> QED  BY <1>2, <1>3, <1>6, <1>7, <1>8, ChainStepKeeps

\* The oldest pending modification is newer than the last approved one.
LEMMA ChainApproveInv == IInv /\ ChainApprove => IInv'
<1> SUFFICES ASSUME IInv, ChainApprove  PROVE IInv'
  OBVIOUS
<1> DEFINE m == Head(chain.pending)
           q == Tail(chain.pending)
<1>1. chain \in Chains /\ chain.pending \in Seq(Mods) /\ chain.pending # <<>>
      /\ ChainInv(chain) /\ chain.last \in ModOrZero
  BY ChainTypes DEF IInv, ChainApprove
<1>2. /\ m = chain.pending[1] /\ m \in Mods /\ q \in Seq(Mods)
      /\ Len(q) = Len(chain.pending) - 1 /\ Len(chain.pending) \in Nat \ {0}
      /\ \A i \in 1..Len(q) : q[i] = chain.pending[i + 1]
  <2>1. m \in Mods /\ q \in Seq(Mods) /\ Len(q) = Len(chain.pending) - 1
        /\ \A i \in 1..Len(q) : q[i] = chain.pending[i + 1]
    BY <1>1, HeadTailProperties
  <2>2. Len(chain.pending) \in Nat \ {0}  BY <1>1, EmptySeq
  <2>3. m = chain.pending[1]  BY <1>1
  <2> QED  BY <2>1, <2>2, <2>3
<1> DEFINE ra == [chain.rootAt EXCEPT ![m] = Execute(chain.rootAt[chain.last], m)]
           sa == [chain.sizeAt EXCEPT ![m] = chain.sizeAt[chain.last] + Size[m]]
<1>3. chain' = [chain EXCEPT !.pending = q, !.last = m, !.rootAt = ra, !.sizeAt = sa]
      /\ Post("approve", m) /\ UNCHANGED replicator
  BY <1>1 DEF ChainApprove, Chains
<1> HIDE DEF m, q
<1>4. ra \in [ModOrZero -> Roots] /\ sa \in [ModOrZero -> Nat]
  <2>1. chain.rootAt \in [ModOrZero -> Roots] /\ chain.sizeAt \in [ModOrZero -> Nat]
    BY <1>1 DEF Chains
  <2>2. Execute(chain.rootAt[chain.last], m) \in Roots
    BY <1>1, <1>2, <2>1 DEF Execute, Roots
  <2>3. Size[m] \in Nat  BY <1>2, DriveAssumption
  <2>4. chain.sizeAt[chain.last] + Size[m] \in Nat
    <3>1. chain.sizeAt[chain.last] \in Nat  BY <1>1, <2>1
    <3> QED  BY ONLY <3>1, <2>3
  <2>5. m \in ModOrZero  BY <1>2, Numbers
  <2> QED  BY <2>1, <2>2, <2>4, <2>5, Zenon
<1> HIDE DEF ra, sa
<1>5. /\ chain' \in Chains /\ chain'.issued = chain.issued /\ chain'.pending = q
      /\ chain'.last = m /\ chain'.cancelled = chain.cancelled
  <2>1. m \in ModOrZero  BY <1>2, Numbers
  <2> QED  BY <1>1, <1>2, <1>3, <1>4, <2>1 DEF Chains
<1>6. /\ chain.last < m /\ m <= chain.issued /\ m \notin chain.cancelled
      /\ chain.last \in Int /\ m \in Int /\ chain.issued \in Int
  <2>1. 1 \in 1..Len(chain.pending)  BY <1>2
  <2>2. chain.last \in Int /\ m \in Int /\ chain.issued \in Int
    BY <1>1, <1>2, ChainTypes, Numbers
  <2> QED  BY <1>1, <1>2, <2>1, <2>2 DEF ChainInv
<1>7. StillApproved(chain, chain')  BY <1>5, <1>6 DEF StillApproved, Approved
<1>8. ChainInv(chain')
  <2>1. \A i \in 1..Len(q) : 1 \in 1..Len(chain.pending) /\ i + 1 \in 1..Len(chain.pending)
                             /\ 1 < i + 1
    BY <1>2
  <2>2. ASSUME NEW i \in 1..Len(q)
        PROVE  m < q[i] /\ q[i] <= chain.issued /\ q[i] \notin chain.cancelled
    BY <2>1, <1>1, <1>2 DEF ChainInv
  <2>3. ASSUME NEW i \in 1..Len(q), NEW j \in 1..Len(q), i < j
        PROVE  q[i] < q[j]
    <3>1. i + 1 < j + 1  BY <2>3, <1>2
    <3> QED  BY <3>1, <2>1, <1>1, <1>2 DEF ChainInv
  <2> QED  BY <1>1, <1>5, <1>6, <2>2, <2>3 DEF ChainInv
<1>9. Approved(chain', m) /\ m \in ModOrZero  BY <1>2, <1>5, <1>6, DriveAssumption DEF Approved
<1>10. EventInv(chain', [type |-> "approve", mod |-> m])  BY <1>9 DEF EventInv
<1> QED  BY <1>3, <1>7, <1>8, <1>9, <1>10, ChainStepKeeps

\* A pending modification is not approved, so its cancellation withdraws none.
LEMMA ChainCancelInv ==
    ASSUME NEW m \in Mods
    PROVE  IInv /\ ChainCancel(m) => IInv'
<1> SUFFICES ASSUME IInv, ChainCancel(m)  PROVE IInv'
  OBVIOUS
<1> DEFINE q == Without(chain.pending, m)
           p == Position(chain.pending, m)
           s == chain.pending
<1>1. chain \in Chains /\ s \in Seq(Mods) /\ ChainInv(chain) /\ m \in ModOrZero
  BY ChainTypes, Numbers DEF IInv
<1>2. \E i \in DOMAIN s : s[i] = m  BY DEF ChainCancel
<1>3. /\ chain' = [chain EXCEPT !.pending = q, !.cancelled = chain.cancelled \cup {m}]
      /\ Post("cancel", m) /\ UNCHANGED replicator
  BY <1>1 DEF ChainCancel, Chains
<1>4. p \in 1..Len(s) /\ s[p] = m /\ Len(s) \in Nat
  <2>1. p \in 0..Len(s) /\ p # 0 /\ s[p] = m  BY <1>1, <1>2, PositionType
  <2>2. Len(s) \in Nat  BY <1>1, LenProperties
  <2> HIDE DEF p, s
  <2> QED  BY <2>1, <2>2
<1>5. /\ q \in Seq(Mods) /\ Len(q) = Len(s) - 1
      /\ \A i \in 1..(Len(s) - 1) : q[i] = IF i < p THEN s[i] ELSE s[i + 1]
  BY <1>1, <1>2, WithoutProperties
<1>6. s = chain.pending  OBVIOUS
<1> HIDE DEF p, q, s
<1>7. /\ chain' \in Chains /\ chain'.issued = chain.issued /\ chain'.pending = q
      /\ chain'.last = chain.last /\ chain'.cancelled = chain.cancelled \cup {m}
  BY <1>1, <1>3, <1>5 DEF Chains
<1>8. /\ chain.last < m /\ m <= chain.issued
      /\ chain.last \in Int /\ m \in Int /\ chain.issued \in Int
  <2>1. chain.last \in Int /\ m \in Int /\ chain.issued \in Int
    BY <1>1, ChainTypes, Numbers
  <2> QED  BY <1>1, <1>4, <1>6, <2>1 DEF ChainInv
<1>9. StillApproved(chain, chain')  BY <1>7, <1>8 DEF StillApproved, Approved
<1>10. ASSUME NEW i \in 1..Len(q)
       PROVE  \E k \in 1..Len(s) : k # p /\ k >= i /\ q[i] = s[k] /\ k <= i + 1
                                   /\ (i >= p => k = i + 1) /\ (i < p => k = i)
  <2>1. CASE i < p
    <3>1. i \in 1..Len(s) /\ i # p /\ q[i] = s[i]  BY <2>1, <1>4, <1>5
    <3> QED  BY <2>1, <3>1, <1>4
  <2>2. CASE ~(i < p)
    <3>1. i + 1 \in 1..Len(s) /\ i + 1 # p /\ q[i] = s[i + 1]  BY <2>2, <1>4, <1>5
    <3> QED  BY <2>2, <3>1, <1>4
  <2> QED  BY <2>1, <2>2
<1>11. ChainInv(chain')
  <2>1. \A i \in 1..Len(s) : s[i] \in Int  BY <1>1, ElementOfSeq, DriveAssumption
  <2>2. ASSUME NEW i \in 1..Len(q)
        PROVE  chain.last < q[i] /\ q[i] <= chain.issued
               /\ q[i] \notin chain.cancelled \cup {m}
    <3>1. PICK k \in 1..Len(s) : k # p /\ q[i] = s[k]  BY <1>10
    <3>2. s[k] # m
      <4>1. k < p \/ p < k  BY <3>1, <1>4
      <4>2. s[k] < s[p] \/ s[p] < s[k]  BY <4>1, <1>1, <1>4, <1>6 DEF ChainInv
      <4> QED  BY <4>2, <1>4, <2>1, <1>8
    <3> QED  BY <3>1, <3>2, <1>1, <1>6 DEF ChainInv
  <2>3. ASSUME NEW i \in 1..Len(q), NEW j \in 1..Len(q), i < j
        PROVE  q[i] < q[j]
    <3>1. PICK k \in 1..Len(s) : q[i] = s[k] /\ (i >= p => k = i + 1) /\ (i < p => k = i)
      BY <1>10
    <3>2. PICK l \in 1..Len(s) : q[j] = s[l] /\ (j >= p => l = j + 1) /\ (j < p => l = j)
      BY <1>10
    <3>3. k < l  BY <2>3, <3>1, <3>2, <1>4, <1>5
    <3> QED  BY <3>1, <3>2, <3>3, <1>1, <1>6 DEF ChainInv
  <2> QED  BY <1>1, <1>7, <1>8, <2>2, <2>3 DEF ChainInv
<1>12. EventInv(chain', [type |-> "cancel", mod |-> m])  BY DEF EventInv
<1> QED  BY <1>1, <1>3, <1>9, <1>11, <1>12, ChainStepKeeps

\* The other steps of the chain approve and cancel nothing.
LEMMA ChainOtherInv == IInv /\ (ChainClose \/ ChainVerify \/ ChainVerified) => IInv'
<1> SUFFICES ASSUME IInv, ChainClose \/ ChainVerify \/ ChainVerified  PROVE IInv'
  OBVIOUS
<1>1. chain \in Chains /\ ChainInv(chain) /\ chain.last \in ModOrZero /\ 0 \in ModOrZero
  BY ChainTypes, Numbers DEF IInv
<1>2. /\ chain' \in Chains /\ chain'.issued = chain.issued /\ chain'.pending = chain.pending
      /\ chain'.last = chain.last /\ chain'.cancelled = chain.cancelled
  <2>1. CASE ChainClose  BY <1>1, <2>1 DEF ChainClose, Chains
  <2>2. CASE ChainVerify
    <3>1. chain.verifies + 1 \in 0..MaxVerify
      BY <1>1, <2>2, BoundAssumption DEF ChainVerify, Chains
    <3> QED  BY <1>1, <2>2, <3>1 DEF ChainVerify, Chains
  <2>3. CASE ChainVerified  BY <1>1, <2>3 DEF ChainVerified, Chains
  <2> QED  BY <2>1, <2>2, <2>3
<1>3. ChainInv(chain') /\ StillApproved(chain, chain')
  BY <1>1, <1>2 DEF ChainInv, StillApproved, Approved
<1> \A m : \A k \in {"close", "verify", "verified"} :
         EventInv(chain', [type |-> k, mod |-> m])
  BY DEF EventInv
<1>4. CASE ChainClose
  BY <1>1, <1>3, <1>4, ChainStepKeeps DEF ChainClose
<1>5. CASE ChainVerify
  BY <1>1, <1>3, <1>5, ChainStepKeeps DEF ChainVerify
<1>6. CASE ChainVerified
  BY <1>1, <1>3, <1>6, ChainStepKeeps DEF ChainVerified
<1> QED  BY <1>4, <1>5, <1>6

------------------------------------------------------------------------------
(* The accounts *)

\* What tasks do to the accounts.
LEMMA AccountKeeps ==
    ASSUME NEW a, AccountShape(a)
    PROVE  /\ \A n : AccountShape(IncreaseExpected(a, n))
           /\ \A n, m : m \in ModOrZero => AccountShape(UpdateUploads(a, m, n))
           /\ AccountShape(ApproveUploads(a))
           /\ AccountShape(DisapproveUploads(a))
           /\ \A d : AccountShape(RunNextAccount(d, a))
<1>1. \A n : AccountShape(IncreaseExpected(a, n))
  BY DEF AccountShape, IncreaseExpected
<1>2. \A n, m : m \in ModOrZero => AccountShape(UpdateUploads(a, m, n))
  BY DEF AccountShape, UpdateUploads
<1>3. AccountShape(ApproveUploads(a))
  <2>1. \A n : AccountShape([a EXCEPT !.approved = a.notApproved, !.expected = n])
    BY DEF AccountShape
  <2> QED  BY <2>1, Zenon DEF ApproveUploads
<1>4. AccountShape(DisapproveUploads(a))
  BY DEF AccountShape, DisapproveUploads
<1> QED  BY <1>1, <1>2, <1>3, <1>4, Zenon DEF RunNextAccount

\* The accounts of a drive that was just added.
LEMMA NewAccountShape == ASSUME NEW n PROVE AccountShape(NewAccount(n))
  BY Numbers DEF AccountShape, NewAccount, NoUploads

\* The state after a step that leaves the chain alone.
LEMMA ThenRunKeeps ==
    ASSUME NEW d, NEW a, DriveInv(chain, d), AccountShape(a), ThenRunIfIdle(d, a)
    PROVE  DriveInv(chain, drive') /\ AccountShape(acct')
  BY RunNextKeeps, AccountKeeps DEF ThenRunIfIdle

------------------------------------------------------------------------------
(* Events *)

\* The rest of the queue when its first event is taken.
LEMMA TakeKeeps ==
    ASSUME IInv, NEW k, up = "up", inbox # <<>>, Head(inbox).type = k, inbox' = Tail(inbox)
    PROVE  InboxInv(chain, inbox')
<1>1. inbox \in Seq(Events)  BY DEF IInv, InboxInv
<1>2. /\ Tail(inbox) \in Seq(Events)
      /\ Len(Tail(inbox)) = Len(inbox) - 1
      /\ \A i \in 1..Len(Tail(inbox)) : Tail(inbox)[i] = inbox[i + 1]
  BY <1>1, HeadTailProperties
<1>3. Len(inbox) \in Nat  BY <1>1, LenProperties
<1>4. \A i \in 1..Len(Tail(inbox)) : i + 1 \in 1..Len(inbox)  BY <1>2, <1>3
<1> QED  BY <1>2, <1>4 DEF IInv, InboxInv

\* The event that is taken.
LEMMA HeadInv ==
    ASSUME IInv, inbox # <<>>
    PROVE  Head(inbox) \in Events /\ EventInv(chain, Head(inbox))
<1>1. inbox \in Seq(Events)  BY DEF IInv, InboxInv
<1>2. Head(inbox) \in Events  BY <1>1, HeadTailProperties
<1>3. Len(inbox) \in Nat \ {0}  BY <1>1, EmptySeq
<1>4. 1 \in 1..Len(inbox) /\ Head(inbox) = inbox[1]  BY <1>1, <1>3
<1> QED  BY <1>2, <1>4 DEF IInv, InboxInv

\* What is left to show of a handler that takes an event.
LEMMA HandlerKeeps ==
    ASSUME IInv, NEW k, Take(k), DriveInv(chain, drive'), AccountShape(acct')
    PROVE  IInv'
<1>1. chain' = chain /\ disk' = disk  BY DEF Take
<1>2. InboxInv(chain, inbox')  BY TakeKeeps DEF Take
<1> QED  BY <1>1, <1>2 DEF IInv

\* startModifyDrive
LEMMA OnModifyInv == IInv /\ OnModify => IInv'
<1> SUFFICES ASSUME IInv, OnModify  PROVE IInv'
  OBVIOUS
<1> DEFINE m == Head(inbox).mod
           d == [drive EXCEPT !.deferred = Append(drive.deferred, m)]
<1>1. Take("modify") /\ ThenRunIfIdle(d, acct)
  <2>1. drive \in Drives  BY DEF IInv, DriveInv, DriveIsApproved
  <2> QED  BY <2>1 DEF OnModify, Drives
<1>2. m \in Mods  BY <1>1, HeadInv DEF Take, EventInv
<1> HIDE DEF m
<1>3. drive.deferred \in Seq(Mods)  BY DEF IInv, DriveInv, DriveIsApproved, Drives
<1>4. Append(drive.deferred, m) \in Seq(Mods)  BY <1>2, <1>3, AppendProperties
<1>5. DriveInv(chain, d)
  BY <1>4 DEF IInv, DriveInv, DriveIsApproved, Drives
<1> QED  BY <1>1, <1>5, ThenRunKeeps, HandlerKeeps DEF IInv

\* startDriveClosing
LEMMA OnCloseInv == IInv /\ OnClose => IInv'
<1> SUFFICES ASSUME IInv, OnClose  PROVE IInv'
  OBVIOUS
<1> DEFINE v == CancelVerification(drive)
           d == [v EXCEPT !.closeReq = TRUE]
<1>1. DriveInv(chain, v)  BY VerificationKeeps DEF IInv
<1> HIDE DEF v
<1>2. DriveInv(chain, d)  BY <1>1 DEF DriveInv, DriveIsApproved, Drives
<1>3. Take("close") /\ (ThenRunIfIdle(d, acct) \/ (drive' = BreakTask(d) /\ acct' = acct))
  BY DEF OnClose, v
<1> HIDE DEF d
<1>4. DriveInv(chain, BreakTask(d))  BY <1>2, BreakKeeps DEF DriveInv
<1> QED  BY <1>2, <1>3, <1>4, ThenRunKeeps, HandlerKeeps DEF IInv

\* startVerification, cancelVerification
LEMMA OnVerifyInv == IInv /\ (OnVerify \/ OnVerified) => IInv'
<1> SUFFICES ASSUME IInv, OnVerify \/ OnVerified  PROVE IInv'
  OBVIOUS
<1>1. CASE OnVerify
  <2> DEFINE d == [drive EXCEPT !.verifyReq = Head(inbox).mod]
  <2>1. Take("verify") /\ acct' = acct /\ drive' \in {RunVerificationTask(d), d}
    BY <1>1 DEF OnVerify
  <2>2. Head(inbox).mod \in ModOrZero  BY <2>1, HeadInv DEF Take, Events
  <2>3. DriveInv(chain, d)  BY <2>2 DEF IInv, DriveInv, DriveIsApproved, Drives
  <2> HIDE DEF d
  <2> QED  BY <2>1, <2>3, VerificationKeeps, HandlerKeeps DEF IInv
<1>2. CASE OnVerified
  BY <1>2, VerificationKeeps, HandlerKeeps DEF OnVerified, IInv
<1> QED  BY <1>1, <1>2

\* An approval of the task's own modification lets it go on, another one
\* interrupts it.
LEMMA TaskOnApprovalKeeps ==
    ASSUME NEW c, NEW d, DriveInv(c, d), NEW tx, Approved(c, tx)
    PROVE  DriveInv(c, TaskOnApproval(d, tx))
<1> DEFINE a == [d EXCEPT !.task.approved = TRUE]
           b == [a EXCEPT !.task.step = "sync"]
<1>1. DriveIsApproved(c, a) /\ a.task.mod = d.task.mod
  BY DEF DriveInv, DriveIsApproved, TaskIsApproved, Drives, Tasks
<1>2. DriveInv(c, BreakTask(a))  BY <1>1, BreakKeeps
<1>3. d.task.mod = tx => DriveInv(c, a) /\ DriveInv(c, b)
  <2>1. ASSUME d.task.mod = tx  PROVE DriveInv(c, a)
    BY <1>1, <2>1 DEF DriveInv, ApprovalIsOwn
  <2>2. ASSUME d.task.mod = tx  PROVE DriveInv(c, b)
    <3>1. b.task = [d.task EXCEPT !.approved = TRUE, !.step = "sync"] /\ b \in Drives
          /\ b.last = d.last /\ b.catchReq = d.catchReq
      BY DEF DriveInv, DriveIsApproved, Drives, Tasks, Steps
    <3>2. b.task.mod = d.task.mod /\ b.task.kind = d.task.kind
      BY <3>1 DEF DriveInv, DriveIsApproved, Drives, Tasks
    <3> HIDE DEF a, b
    <3> QED  BY <2>2, <3>1, <3>2
             DEF DriveInv, DriveIsApproved, TaskIsApproved, ApprovalIsOwn
  <2> QED  BY <2>1, <2>2
<1>4. DriveInv(c, BreakTask(d))  BY BreakKeeps DEF DriveInv
<1>5. \/ TaskOnApproval(d, tx) \in {d, BreakTask(d), BreakTask(a)}
      \/ d.task.mod = tx /\ TaskOnApproval(d, tx) \in {a, b}
  BY DEF TaskOnApproval, ModifyOnApproval, CatchUpOnApproval, ApprovesTask
<1> HIDE DEF a, b
<1> QED  BY <1>2, <1>3, <1>4, <1>5

\* onApprovalTransactionHasBeenPublished
LEMMA OnApprovalInv == IInv /\ OnApproval => IInv'
<1> SUFFICES ASSUME IInv, OnApproval  PROVE IInv'
  OBVIOUS
<1> DEFINE tx == Head(inbox).mod
           v  == CancelVerification(drive)
           d  == IF HasTask(v) THEN TaskOnApproval(v, tx) ELSE v
           a  == IF drive.task.kind = "modify"
                 THEN ModifyOnApprovalAccount(drive, acct, tx) ELSE acct
           r  == [d EXCEPT !.catchReq = tx]
<1>1. Take("approve")  BY DEF OnApproval
<1>2. Approved(chain, tx) /\ tx \in ModOrZero
  BY <1>1, HeadInv DEF Take, EventInv, Events
<1>3. ThenRunIfIdle(r, a) \/ (drive' = d /\ acct' = a)
  BY DEF OnApproval
<1>4. AccountShape(a)
  BY AccountKeeps DEF IInv, ModifyOnApprovalAccount
<1> HIDE DEF tx, a
<1>5. DriveInv(chain, v)  BY VerificationKeeps DEF IInv
<1> HIDE DEF v
<1>6. DriveInv(chain, d)  BY <1>2, <1>5, TaskOnApprovalKeeps
<1> HIDE DEF d
<1>7. DriveInv(chain, r)  BY <1>2, <1>6 DEF DriveInv, DriveIsApproved, Drives
<1> HIDE DEF r
<1>8. DriveInv(chain, drive') /\ AccountShape(acct')
  BY <1>3, <1>4, <1>6, <1>7, ThenRunKeeps
<1> QED  BY <1>1, <1>8, HandlerKeeps

------------------------------------------------------------------------------
(* The process ends and starts *)

\* When the process ends, only the chain and the files are left.
LEMMA DieKeeps ==
    ASSUME IInv, Die, chain' = chain, disk' = disk
    PROVE  IInv'
<1>1. DriveInv(chain, drive')  BY NewDriveInv DEF Die
<1>2. AccountShape(acct')  BY NewAccountShape DEF Die
<1>3. InboxInv(chain, inbox')
  <2>1. inbox' = <<>>  BY DEF Die
  <2>2. <<>> \in Seq(Events) /\ Len(<<>>) = 0  BY EmptySeq
  <2> QED  BY <2>1, <2>2 DEF InboxInv
<1> QED  BY <1>1, <1>2, <1>3 DEF IInv

\* A drive without files.
LEMMA EmptyDiskInv == ASSUME NEW c PROVE DiskInv(c, EmptyDisk)
  BY Numbers DEF DiskInv, EmptyDisk, NoUploads, Roots

\* cancelModifyDrive, with both of its ends.
LEMMA OnCancelInv == IInv /\ OnCancel => IInv'
<1> SUFFICES ASSUME IInv, OnCancel  PROVE IInv'
  OBVIOUS
<1> DEFINE tx == Head(inbox).mod
           t == TaskOnCancel(drive, tx)
<1>1. CASE Die /\ chain' = chain /\ disk' = disk  BY <1>1, DieKeeps
<1>2. CASE Take("cancel") /\ drive' = CancelModifyDrive(drive, acct, tx) /\ acct' = acct
  <2>1. tx \in Mods /\ tx \in ModOrZero  BY <1>2, HeadInv, Numbers DEF Take, EventInv
  <2> HIDE DEF tx
  <2>2. DriveInv(chain, t)
    <3>1. DriveInv(chain, BreakTask(drive))  BY BreakKeeps DEF IInv, DriveInv
    <3> DEFINE e == [drive EXCEPT !.task.cancels = drive.task.cancels \cup {tx}]
    <3>2. DriveInv(chain, e)
      BY <2>1 DEF IInv, DriveInv, DriveIsApproved, TaskIsApproved, ApprovalIsOwn, Drives, Tasks
    <3>3. t \in {BreakTask(drive), e, drive}  BY DEF TaskOnCancel
    <3> HIDE DEF t, e
    <3> QED  BY <3>1, <3>2, <3>3 DEF IInv
  <2>3. drive' \in {[t EXCEPT !.cancelReq = tx],
                    [t EXCEPT !.deferred = Without(t.deferred, tx)]}
    BY <1>2, <2>2 DEF CancelModifyDrive, DriveInv, DriveIsApproved, Drives
  <2> HIDE DEF t
  <2>4. t.deferred \in Seq(Mods)  BY <2>2 DEF DriveInv, DriveIsApproved, Drives
  <2>5. Without(t.deferred, tx) \in Seq(Mods)  BY <2>4, WithoutProperties
  <2>6. DriveInv(chain, drive')
    BY <2>1, <2>2, <2>3, <2>5 DEF DriveInv, DriveIsApproved, Drives
  <2> QED  BY <1>2, <2>6, HandlerKeeps DEF IInv
<1> QED  BY <1>1, <1>2 DEF OnCancel

\* A crash.
LEMMA CrashInv == IInv /\ Crash => IInv'
  BY DieKeeps DEF Crash

\* The data of a drive is removed.
LEMMA RemoveInv == IInv /\ (RemoveUnusedDrives \/ RemoveAllDriveData) => IInv'
<1> SUFFICES ASSUME IInv, RemoveUnusedDrives \/ RemoveAllDriveData  PROVE IInv'
  OBVIOUS
<1>1. CASE RemoveUnusedDrives
  BY <1>1, EmptyDiskInv DEF RemoveUnusedDrives, IInv
<1>2. CASE RemoveAllDriveData
  <2>1. /\ chain' = chain /\ disk' = EmptyDisk /\ drive' = NewDrive({})
        /\ acct' = NewAccount(0) /\ inbox' = <<>>
    BY <1>2 DEF RemoveAllDriveData
  <2>2. DriveInv(chain, drive')  BY <2>1, NewDriveInv
  <2>3. InboxInv(chain, inbox')
    <3>1. <<>> \in Seq(Events) /\ Len(<<>>) = 0  BY EmptySeq
    <3> QED  BY <2>1, <3>1 DEF InboxInv
  <2> QED  BY <2>1, <2>2, <2>3, EmptyDiskInv, NewAccountShape DEF IInv
<1> QED  BY <1>1, <1>2

\* The events of two queues.
LEMMA InboxConcat ==
    ASSUME NEW c, NEW q, NEW r, InboxInv(c, q), InboxInv(c, r)
    PROVE  InboxInv(c, q \o r)
<1>1. q \in Seq(Events) /\ r \in Seq(Events)  BY DEF InboxInv
<1>2. /\ q \o r \in Seq(Events)
      /\ Len(q \o r) = Len(q) + Len(r)
      /\ \A i \in 1..(Len(q) + Len(r)) :
            (q \o r)[i] = IF i <= Len(q) THEN q[i] ELSE r[i - Len(q)]
  BY <1>1, ConcatProperties, Zenon
<1>3. Len(q) \in Nat /\ Len(r) \in Nat  BY <1>1, LenProperties
<1>4. ASSUME NEW i \in 1..Len(q \o r)  PROVE EventInv(c, (q \o r)[i])
  <2>1. CASE i <= Len(q)
    <3>1. i \in 1..Len(q) /\ (q \o r)[i] = q[i]  BY <1>2, <1>3, <2>1
    <3> QED  BY <3>1 DEF InboxInv
  <2>2. CASE ~(i <= Len(q))
    <3>1. i - Len(q) \in 1..Len(r) /\ (q \o r)[i] = r[i - Len(q)]  BY <1>2, <1>3, <2>2
    <3> QED  BY <3>1 DEF InboxInv
  <2> QED  BY <2>1, <2>2
<1> QED  BY <1>2, <1>4 DEF InboxInv

\* No event, and a single one.
LEMMA InboxSmall ==
    ASSUME NEW c
    PROVE  /\ InboxInv(c, <<>>)
           /\ \A e \in Events : EventInv(c, e) => InboxInv(c, <<e>>)
<1>1. InboxInv(c, <<>>)
  <2>1. <<>> \in Seq(Events) /\ Len(<<>>) = 0  BY EmptySeq
  <2> QED  BY <2>1 DEF InboxInv
<1>2. ASSUME NEW e \in Events, EventInv(c, e)  PROVE InboxInv(c, <<e>>)
  <2>1. <<e>> \in Seq(Events) /\ Len(<<e>>) = 1 /\ <<e>>[1] = e  OBVIOUS
  <2> QED  BY <1>2, <2>1 DEF InboxInv
<1> QED  BY <1>1, <1>2

\* What a restarted replicator is told is approved or pending.
LEMMA RestartInv == IInv /\ Restart => IInv'
<1> SUFFICES ASSUME IInv, Restart  PROVE IInv'
  OBVIOUS
<1> DEFINE approval == IF chain.last = 0 THEN <<>>
                       ELSE <<[type |-> "approve", mod |-> chain.last]>>
           verify   == IF chain.verifying = NoVerification THEN <<>>
                       ELSE <<[type |-> "verify", mod |-> chain.verifying]>>
           request(i) == [type |-> "modify", mod |-> chain.pending[i]]
           requests == [i \in DOMAIN chain.pending |-> request(i)]
<1>1. /\ chain' = chain /\ disk' = disk /\ drive' = NewDrive(chain.cancelled)
      /\ acct' = NewAccount(chain.sizeAt[chain.last])
      /\ inbox' = approval \o verify \o requests
  BY DEF Restart
<1>2. /\ ChainInv(chain) /\ chain.last \in ModOrZero /\ chain.pending \in Seq(Mods)
      /\ chain.cancelled \in SUBSET Mods
      /\ chain.verifying \in ModOrZero \cup {NoVerification}
  BY ChainTypes DEF IInv, ChainInv, Chains
<1>3. InboxInv(chain, approval)
  <2> DEFINE e == [type |-> "approve", mod |-> chain.last]
  <2>1. e \in Events  BY <1>2 DEF Events
  <2>2. chain.last # 0 => EventInv(chain, e)
    BY <1>2, Numbers DEF EventInv, Approved, ChainInv
  <2> HIDE DEF e
  <2> QED  BY <2>1, <2>2, InboxSmall DEF e
<1>4. InboxInv(chain, verify)
  <2> DEFINE e == [type |-> "verify", mod |-> chain.verifying]
  <2>1. chain.verifying # NoVerification => e \in Events /\ EventInv(chain, e)
    BY <1>2 DEF Events, EventInv
  <2> HIDE DEF e
  <2> QED  BY <2>1, InboxSmall DEF e
<1>5. InboxInv(chain, requests)
  <2>1. Len(chain.pending) \in Nat /\ DOMAIN chain.pending = 1..Len(chain.pending)
    BY <1>2, LenProperties
  <2>2. \A i \in 1..Len(chain.pending) : chain.pending[i] \in Mods
    BY <1>2, ElementOfSeq
  <2>3. \A i \in 1..Len(chain.pending) :
           request(i) \in Events /\ EventInv(chain, request(i))
    BY <2>2, Numbers DEF Events, EventInv
  <2> HIDE DEF request
  <2>4. requests \in Seq(Events)  BY <2>1, <2>3, IsASeq
  <2>5. Len(requests) = Len(chain.pending)  BY <2>1, <2>4, LenProperties
  <2>6. \A i \in 1..Len(requests) : requests[i] = request(i)  BY <2>1, <2>5
  <2> QED  BY <2>3, <2>4, <2>5, <2>6 DEF InboxInv
<1> HIDE DEF approval, verify, requests
<1>6. InboxInv(chain, inbox')  BY <1>1, <1>3, <1>4, <1>5, InboxConcat
<1>7. DriveInv(chain, drive') /\ AccountShape(acct')
  BY <1>1, <1>2, NewDriveInv, NewAccountShape
<1> QED  BY <1>1, <1>6, <1>7 DEF IInv

------------------------------------------------------------------------------
(* Steps of the tasks *)

\* What is left to show of a step of a task.
LEMMA StepKeeps ==
    ASSUME IInv, chain' = chain, inbox' = inbox, DriveInv(chain, drive'),
           AccountShape(acct'), DiskInv(chain, disk')
    PROVE  IInv'
  BY DEF IInv

\* The next step of a task that does not replace the drive.
LEMMA ToStep ==
    ASSUME NEW c, NEW d, DriveInv(c, d), NEW s \in Steps,
           s \in Synchronizing => Approved(c, d.task.mod)
    PROVE  /\ DriveInv(c, [d EXCEPT !.task.step = s])
           /\ \A b \in BOOLEAN : DriveInv(c, [d EXCEPT !.task.step = s, !.task.listed = b])
           /\ \A b \in BOOLEAN : DriveInv(c, [d EXCEPT !.task.calculated = b, !.task.step = s])
           /\ \A r \in Roots : DriveInv(c, [d EXCEPT !.task.root = r, !.task.step = s])
<1>1. DriveInv(c, [d EXCEPT !.task.step = s])
  BY DEF DriveInv, DriveIsApproved, TaskIsApproved, ApprovalIsOwn, Drives, Tasks
<1>2. ASSUME NEW b \in BOOLEAN  PROVE DriveInv(c, [d EXCEPT !.task.step = s, !.task.listed = b])
  BY DEF DriveInv, DriveIsApproved, TaskIsApproved, ApprovalIsOwn, Drives, Tasks
<1>3. ASSUME NEW b \in BOOLEAN
      PROVE  DriveInv(c, [d EXCEPT !.task.calculated = b, !.task.step = s])
  BY DEF DriveInv, DriveIsApproved, TaskIsApproved, ApprovalIsOwn, Drives, Tasks
<1>4. ASSUME NEW r \in Roots  PROVE DriveInv(c, [d EXCEPT !.task.root = r, !.task.step = s])
  BY DEF DriveInv, DriveIsApproved, TaskIsApproved, ApprovalIsOwn, Drives, Tasks
<1> QED  BY <1>1, <1>2, <1>3, <1>4

\* A task that ends keeps the invariant.
LEMMA FinishInv ==
    ASSUME NEW c, NEW d, DriveInv(c, d)
    PROVE  DriveInv(c, FinishTask(d))
  BY FinishKeeps DEF DriveInv

\* A download ends, or a job that writes nothing a restart reads.
LEMMA PlainStepInv ==
    IInv /\ (ActionListDownloaded \/ PrepareDownloadMissingFiles \/ MissingFilesDownloaded
             \/ FsTreeDownloaded \/ RemoveUnusedFiles \/ CatchUpFilesDownloaded \/ ClearDrive)
    => IInv'
<1> SUFFICES ASSUME IInv, \/ ActionListDownloaded \/ PrepareDownloadMissingFiles
                          \/ MissingFilesDownloaded \/ FsTreeDownloaded \/ RemoveUnusedFiles
                          \/ CatchUpFilesDownloaded \/ ClearDrive
             PROVE  IInv'
  OBVIOUS
<1>1. chain' = chain /\ inbox' = inbox /\ acct' = acct /\ disk' = disk
  BY DEF ActionListDownloaded, PrepareDownloadMissingFiles, MissingFilesDownloaded,
         FsTreeDownloaded, RemoveUnusedFiles, CatchUpFilesDownloaded, ClearDrive, environment
<1>2. DriveInv(chain, drive)  BY DEF IInv
<1>3. \A s \in {"prep", "files", "sandbox", "unused", "copy"} :
         s \in Steps /\ s \notin Synchronizing
  BY DEF Steps, Synchronizing
<1>4. DriveInv(chain, CompletedWithError(drive))
  BY <1>2, <1>3, ToStep DEF CompletedWithError
<1>5. \A s \in {"files", "sandbox", "unused"} : DriveInv(chain, [drive EXCEPT !.task.step = s])
  BY <1>2, <1>3, ToStep
<1>6. DriveInv(chain, [drive EXCEPT !.task.step = "prep", !.task.listed = TRUE])
  BY <1>2, <1>3, ToStep
<1>7. DriveInv(chain, FinishTask(drive))  BY <1>2, FinishInv
<1>8. \/ \E s \in {"files", "sandbox", "unused"} : drive' = [drive EXCEPT !.task.step = s]
      \/ drive' = [drive EXCEPT !.task.step = "prep", !.task.listed = TRUE]
      \/ drive' \in {CompletedWithError(drive), FinishTask(drive)}
  BY DEF ActionListDownloaded, PrepareDownloadMissingFiles, MissingFilesDownloaded,
         FsTreeDownloaded, RemoveUnusedFiles, CatchUpFilesDownloaded, ClearDrive
<1>9. DriveInv(chain, drive')  BY <1>4, <1>5, <1>6, <1>7, <1>8
<1> QED  BY <1>1, <1>9, StepKeeps DEF IInv

\* myRootHashIsCalculated, for any tree of the sandbox.
LEMMA RootHashKeeps ==
    ASSUME IInv, NEW r \in Roots, NEW n, MyRootHashIsCalculated(r, n)
    PROVE  DriveInv(chain, drive') /\ AccountShape(acct')
<1>1. DriveInv(chain, drive) /\ AccountShape(acct) /\ drive.task.mod \in ModOrZero
  BY DEF IInv, DriveInv, DriveIsApproved, Drives, Tasks
<1>2. "saveNot" \in Steps /\ "saveNot" \notin Synchronizing  BY DEF Steps, Synchronizing
<1>3. CASE drive.task.interrupted
  BY <1>1, <1>3, FinishInv DEF MyRootHashIsCalculated
<1>4. CASE ~drive.task.interrupted
  <2>1. /\ drive' = [drive EXCEPT !.task.root = r, !.task.step = "saveNot"]
        /\ acct' = UpdateUploads(acct, drive.task.mod, n)
    BY <1>4 DEF MyRootHashIsCalculated
  <2>2. DriveInv(chain, drive')  BY <2>1, <1>1, <1>2, ToStep
  <2>3. AccountShape(acct')  BY <2>1, <1>1, AccountKeeps
  <2> QED  BY <2>2, <2>3
<1> QED  BY <1>3, <1>4

\* The three ways to a sandbox tree.
LEMMA SandboxInv ==
    IInv /\ (ModifyFsTreeInSandbox \/ CopyFsTreeAfterError \/ ModifyDriveInSandbox) => IInv'
<1> SUFFICES ASSUME IInv, \/ ModifyFsTreeInSandbox \/ CopyFsTreeAfterError
                          \/ ModifyDriveInSandbox
             PROVE  IInv'
  OBVIOUS
<1>1. chain' = chain /\ inbox' = inbox /\ disk' = disk
  BY DEF ModifyFsTreeInSandbox, CopyFsTreeAfterError, ModifyDriveInSandbox, environment
<1>2. DriveInv(chain, drive) /\ AccountShape(acct) /\ drive.task.mod \in ModOrZero
      /\ drive.root \in Roots
  BY DEF IInv, DriveInv, DriveIsApproved, Drives, Tasks
<1>3. CASE ModifyFsTreeInSandbox
  <2>1. CASE Outcome[Modification] = "space"
    <3>1. "copy" \in Steps /\ "copy" \notin Synchronizing  BY DEF Steps, Synchronizing
    <3>2. drive' = CompletedWithError(drive) /\ acct' = acct
      BY <1>3, <2>1 DEF ModifyFsTreeInSandbox
    <3>3. DriveInv(chain, drive')
      BY <1>2, <3>1, <3>2, ToStep DEF CompletedWithError
    <3> QED  BY <1>1, <1>2, <3>2, <3>3, StepKeeps DEF IInv
  <2>2. CASE Outcome[Modification] # "space"
    <3> DEFINE r == drive.root \cup {Modification}
    <3>1. MyRootHashIsCalculated(r, Size[Modification])
      BY <1>3, <2>2 DEF ModifyFsTreeInSandbox
    <3>2. drive.task.mod \in Mods
      BY <1>3 DEF ModifyFsTreeInSandbox, At, IInv, DriveInv, DriveIsApproved, TaskIsApproved
    <3>3. r \in Roots  BY <1>2, <3>2 DEF Roots, Modification
    <3> QED  BY <1>1, <3>1, <3>3, RootHashKeeps, StepKeeps DEF IInv
  <2> QED  BY <2>1, <2>2
<1>4. CASE CopyFsTreeAfterError
  <2>1. MyRootHashIsCalculated(drive.root, Size[Modification])
    BY <1>4 DEF CopyFsTreeAfterError
  <2> QED  BY <1>1, <1>2, <2>1, RootHashKeeps, StepKeeps DEF IInv
<1>5. CASE ModifyDriveInSandbox
  <2>1. MyRootHashIsCalculated(ApprovedRoot, 0)  BY <1>5 DEF ModifyDriveInSandbox
  <2>2. ApprovedRoot \in Roots
    BY <1>2 DEF ApprovedRoot, IInv, ChainInv, Chains
  <2> QED  BY <1>1, <2>1, <2>2, RootHashKeeps, StepKeeps DEF IInv
<1> QED  BY <1>3, <1>4, <1>5

\* A job that saves something a restart reads, other than the last approved
\* modification.
LEMMA SaveStepInv ==
    IInv /\ (SaveNotApproved \/ SaveDisapproved \/ SaveApprovedUploads \/ CatchUpMoveFsTree)
    => IInv'
<1> SUFFICES ASSUME IInv, \/ SaveNotApproved \/ SaveDisapproved \/ SaveApprovedUploads
                          \/ CatchUpMoveFsTree
             PROVE  IInv'
  OBVIOUS
<1>1. chain' = chain /\ inbox' = inbox /\ acct' = acct
  BY DEF SaveNotApproved, SaveDisapproved, SaveApprovedUploads, CatchUpMoveFsTree, environment
<1>2. /\ DriveInv(chain, drive) /\ DiskInv(chain, disk) /\ AccountShape(acct)
      /\ drive.task.root \in Roots
  BY DEF IInv, DriveInv, DriveIsApproved, Drives, Tasks
<1>3. DiskInv(chain, disk')
  <2>1. \/ disk' = [disk EXCEPT !.notApproved = acct.notApproved]
        \/ disk' = [disk EXCEPT !.approved = acct.approved]
        \/ disk' = [disk EXCEPT !.root = drive.task.root]
    BY DEF SaveNotApproved, SaveDisapproved, SaveApprovedUploads, CatchUpMoveFsTree
  <2> QED  BY <1>2, <2>1 DEF DiskInv, AccountShape
<1>4. \/ \E s \in {"saveOpinion", "clear"} : drive' = [drive EXCEPT !.task.step = s]
      \/ drive' = FinishTask(drive)
      \/ /\ drive.task.step \in Synchronizing
         /\ \E s \in {"saveLast", "syncLast"} : drive' = [drive EXCEPT !.task.step = s]
  BY DEF SaveNotApproved, SaveDisapproved, SaveApprovedUploads, CatchUpMoveFsTree,
         At, Synchronizing
<1>5. \A s \in {"saveOpinion", "clear"} : DriveInv(chain, [drive EXCEPT !.task.step = s])
  <2>1. \A s \in {"saveOpinion", "clear"} : s \in Steps /\ s \notin Synchronizing
    BY DEF Steps, Synchronizing
  <2> QED  BY <1>2, <2>1, ToStep
<1>6. ASSUME drive.task.step \in Synchronizing
      PROVE  \A s \in {"saveLast", "syncLast"} : DriveInv(chain, [drive EXCEPT !.task.step = s])
  <2>1. \A s \in {"saveLast", "syncLast"} : s \in Steps  BY DEF Steps
  <2>2. Approved(chain, drive.task.mod)
    BY <1>2, <1>6 DEF DriveInv, DriveIsApproved, TaskIsApproved
  <2> QED  BY <1>2, <2>1, <2>2, ToStep
<1>7. DriveInv(chain, drive')  BY <1>2, <1>4, <1>5, <1>6, FinishInv
<1> QED  BY <1>1, <1>2, <1>3, <1>7, StepKeeps

\* The opinion is saved; the task goes on only after its own approval.
LEMMA OpinionInv == IInv /\ (MyOpinionIsCreated \/ CatchUpOpinionIsCreated) => IInv'
<1> SUFFICES ASSUME IInv, MyOpinionIsCreated \/ CatchUpOpinionIsCreated
             PROVE  IInv'
  OBVIOUS
<1>1. /\ chain' = chain /\ inbox' = inbox /\ acct' = acct
      /\ disk' = [disk EXCEPT !.opinion = acct.notApproved]
  BY DEF MyOpinionIsCreated, CatchUpOpinionIsCreated, environment
<1>2. DriveInv(chain, drive) /\ DiskInv(chain, disk) /\ AccountShape(acct)
  BY DEF IInv
<1>3. DiskInv(chain, disk')  BY <1>1, <1>2 DEF DiskInv
<1>4. \/ drive' = FinishTask(drive)
      \/ drive' = [drive EXCEPT !.task.calculated = TRUE, !.task.step = "wait"]
      \/ /\ Approved(chain, drive.task.mod)
         /\ drive' = [drive EXCEPT !.task.calculated = TRUE, !.task.step = "sync"]
  <2>1. CASE MyOpinionIsCreated
    <3>1. drive.task.kind = "modify"  BY <2>1 DEF MyOpinionIsCreated, At
    <3>2. ~drive.task.interrupted /\ drive.task.approved => Approved(chain, drive.task.mod)
      BY <1>2, <3>1 DEF DriveInv, ApprovalIsOwn
    <3> QED  BY <2>1, <3>2 DEF MyOpinionIsCreated
  <2>2. CASE CatchUpOpinionIsCreated
    <3>1. Approved(chain, drive.task.mod)
      BY <1>2, <2>2 DEF CatchUpOpinionIsCreated, At, DriveInv, DriveIsApproved, TaskIsApproved
    <3> QED  BY <2>2, <3>1 DEF CatchUpOpinionIsCreated
  <2> QED  BY <2>1, <2>2
<1>5. DriveInv(chain, [drive EXCEPT !.task.calculated = TRUE, !.task.step = "wait"])
  <2>1. "wait" \in Steps /\ "wait" \notin Synchronizing  BY DEF Steps, Synchronizing
  <2> QED  BY <1>2, <2>1, ToStep
<1>6. Approved(chain, drive.task.mod) =>
        DriveInv(chain, [drive EXCEPT !.task.calculated = TRUE, !.task.step = "sync"])
  <2>1. "sync" \in Steps  BY DEF Steps
  <2> QED  BY <1>2, <2>1, ToStep
<1>7. DriveInv(chain, drive')  BY <1>2, <1>4, <1>5, <1>6, FinishInv
<1> QED  BY <1>1, <1>2, <1>3, <1>7, StepKeeps

\* The tree of the sandbox replaces that of the drive.
LEMMA SynchronizeInv == IInv /\ (SynchronizeDriveWithSandbox \/ CatchUpSaveLast) => IInv'
<1> SUFFICES ASSUME IInv, SynchronizeDriveWithSandbox \/ CatchUpSaveLast
             PROVE  IInv'
  OBVIOUS
<1>1. /\ chain' = chain /\ inbox' = inbox
      /\ acct' = ApproveUploads(acct)
      /\ drive' = [drive EXCEPT !.task.step = "saveUploads"]
  BY DEF SynchronizeDriveWithSandbox, CatchUpSaveLast, SynchronizationIsCompleted, environment
<1>2. /\ DriveInv(chain, drive) /\ DiskInv(chain, disk) /\ AccountShape(acct)
      /\ drive.task.root \in Roots /\ drive.task.mod \in ModOrZero
  BY DEF IInv, DriveInv, DriveIsApproved, Drives, Tasks
<1>3. Approved(chain, drive.task.mod)
  <2>1. drive.task.step \in Synchronizing
    BY DEF SynchronizeDriveWithSandbox, CatchUpSaveLast, At, Synchronizing
  <2> QED  BY <1>2, <2>1 DEF DriveInv, DriveIsApproved, TaskIsApproved
<1>4. DiskInv(chain, disk')
  <2>1. \/ disk' = [disk EXCEPT !.root = drive.task.root]
        \/ disk' = [disk EXCEPT !.last = drive.task.mod]
    BY DEF SynchronizeDriveWithSandbox, CatchUpSaveLast
  <2> QED  BY <1>2, <1>3, <2>1 DEF DiskInv
<1>5. DriveInv(chain, drive')
  <2>1. "saveUploads" \in Steps  BY DEF Steps
  <2> QED  BY <1>1, <1>2, <1>3, <2>1, ToStep
<1>6. AccountShape(acct')  BY <1>1, <1>2, AccountKeeps
<1> QED  BY <1>1, <1>4, <1>5, <1>6, StepKeeps

\* modifyIsCompleted
LEMMA SaveLastInv == IInv /\ SaveLastApproved => IInv'
<1> SUFFICES ASSUME IInv, SaveLastApproved  PROVE IInv'
  OBVIOUS
<1> DEFINE d == [drive EXCEPT !.root = drive.task.root, !.last = drive.task.mod]
<1>1. /\ chain' = chain /\ inbox' = inbox /\ acct' = acct
      /\ disk' = [disk EXCEPT !.last = drive.task.mod] /\ drive' = FinishTask(d)
  BY DEF SaveLastApproved, environment
<1>2. /\ DriveInv(chain, drive) /\ DiskInv(chain, disk) /\ AccountShape(acct)
      /\ drive.task.root \in Roots /\ drive.task.mod \in ModOrZero
  BY DEF IInv, DriveInv, DriveIsApproved, Drives, Tasks
<1>3. Approved(chain, drive.task.mod)
  BY <1>2 DEF SaveLastApproved, At, Synchronizing, DriveInv, DriveIsApproved, TaskIsApproved
<1>4. DiskInv(chain, disk')  BY <1>1, <1>2, <1>3 DEF DiskInv
<1>5. DriveInv(chain, d)  BY <1>2, <1>3 DEF DriveInv, DriveIsApproved, Drives
<1> HIDE DEF d
<1>6. DriveInv(chain, drive')  BY <1>1, <1>5, FinishInv
<1> QED  BY <1>1, <1>2, <1>4, <1>6, StepKeeps

\* A restart finds only approved modifications in the files.
LEMMA InitializeInv == IInv /\ InitializeDrive => IInv'
<1> SUFFICES ASSUME IInv, InitializeDrive  PROVE IInv'
  OBVIOUS
<1>1. chain' = chain /\ disk' = disk
  BY DEF InitializeDrive, environment
<1>2. CASE Die  BY <1>1, <1>2, DieKeeps
<1>3. CASE /\ acct' = [acct EXCEPT !.approved = disk.approved, !.notApproved = disk.notApproved]
           /\ drive' = Initialized([drive EXCEPT !.root = disk.root, !.last = disk.last], acct')
           /\ UNCHANGED environment
  <2> DEFINE d == [drive EXCEPT !.root = disk.root, !.last = disk.last]
             x == acct'.notApproved.id
             e == [d EXCEPT !.cancelReq = x]
  <2>1. DriveInv(chain, drive) /\ DiskInv(chain, disk) /\ AccountShape(acct)
    BY DEF IInv
  <2>2. AccountShape(acct')  BY <1>3, <2>1 DEF AccountShape, DiskInv
  <2>3. DriveInv(chain, d)  BY <2>1 DEF DriveInv, DriveIsApproved, Drives, DiskInv
  <2>4. x \in ModOrZero  BY <2>2 DEF AccountShape
  <2>5. drive' \in {FinishTask(d), FinishTask(e)}  BY <1>3 DEF Initialized
  <2> HIDE DEF d, x
  <2>6. DriveInv(chain, e)  BY <2>3, <2>4 DEF DriveInv, DriveIsApproved, Drives
  <2> HIDE DEF e
  <2>7. DriveInv(chain, drive')  BY <2>3, <2>5, <2>6, FinishInv
  <2>8. inbox' = inbox  BY <1>3 DEF environment
  <2> QED  BY <1>1, <2>1, <2>2, <2>7, <2>8, StepKeeps
<1> QED  BY <1>2, <1>3 DEF InitializeDrive

\* The sandbox was cleared, the next task runs.
LEMMA RunNextInv == IInv /\ FinishAndRunNextTask => IInv'
<1> SUFFICES ASSUME IInv, FinishAndRunNextTask  PROVE IInv'
  OBVIOUS
<1>1. /\ chain' = chain /\ inbox' = inbox /\ disk' = disk
      /\ drive' = RunNextTask(drive) /\ acct' = RunNextAccount(drive, acct)
  BY DEF FinishAndRunNextTask, environment
<1>2. DriveInv(chain, drive')  BY <1>1, RunNextKeeps DEF IInv
<1>3. AccountShape(acct')  BY <1>1, AccountKeeps DEF IInv
<1> QED  BY <1>1, <1>2, <1>3, StepKeeps DEF IInv

------------------------------------------------------------------------------
(* The theorem *)

\* The invariant holds initially ...
LEMMA InitInv == Init => IInv
<1> SUFFICES ASSUME Init  PROVE IInv
  OBVIOUS
<1>1. ChainInv(chain)
  <2>1. <<>> \in Seq(Mods) /\ Len(<<>>) = 0  BY EmptySeq
  <2>2. /\ [m \in ModOrZero |-> {}] \in [ModOrZero -> Roots]
        /\ [m \in ModOrZero |-> 0] \in [ModOrZero -> Nat]
    BY DEF Roots
  <2>3. chain \in Chains
    BY <2>1, <2>2, Numbers, BoundAssumption DEF Init, NewChain, Chains
  <2> QED  BY <2>1, <2>3 DEF Init, NewChain, ChainInv
<1>2. InboxInv(chain, inbox)  BY InboxSmall DEF Init
<1>3. DiskInv(chain, disk)  BY EmptyDiskInv DEF Init
<1>4. DriveInv(chain, drive)  BY NewDriveInv DEF Init
<1>5. AccountShape(acct)  BY NewAccountShape DEF Init
<1> QED  BY <1>1, <1>2, <1>3, <1>4, <1>5 DEF IInv

\* ... and every step preserves it.
LEMMA NextInv == IInv /\ [Next]_vars => IInv'
<1> SUFFICES ASSUME IInv, [Next]_vars  PROVE IInv'
  OBVIOUS
<1>1. CASE ChainStep
  BY <1>1, ChainModifyInv, ChainApproveInv, ChainCancelInv, ChainOtherInv DEF ChainStep
<1>2. CASE OnEvent
  BY <1>2, OnModifyInv, OnApprovalInv, OnCancelInv, OnCloseInv, OnVerifyInv DEF OnEvent
<1>3. CASE ClientDownload \/ ReplicatorDownload
  BY <1>3, PlainStepInv DEF ClientDownload, ReplicatorDownload
<1>4. CASE TaskStep
  BY <1>4, PlainStepInv, SandboxInv, SaveStepInv, OpinionInv, SynchronizeInv, SaveLastInv,
     InitializeInv, RunNextInv, RemoveInv DEF TaskStep
<1>5. CASE Crash \/ Restart \/ RemoveUnusedDrives
  BY <1>5, CrashInv, RestartInv, RemoveInv
<1>6. CASE UNCHANGED vars
  BY <1>6 DEF vars, IInv
<1> QED  BY <1>1, <1>2, <1>3, <1>4, <1>5, <1>6 DEF Next

\* Only a modification the chain approved ever becomes part of the drive, or
\* is remembered as approved by it: whatever the number of modifications and
\* their results, and whenever approvals, cancellations, verifications, the
\* closure and crashes come (runNextTask, onApprovalTxPublished,
\* shouldCancelModify, myOpinionIsCreated, InitializeDriveTask).
THEOREM AppliedIsApprovedTheorem == Spec => []AppliedIsApproved
<1>1. IInv => AppliedIsApproved
  BY DEF IInv, DriveInv, DriveIsApproved, TaskIsApproved, DiskInv, AppliedIsApproved,
         IsApproved, Approved
<1> QED  BY InitInv, NextInv, <1>1, PTL DEF Spec

------------------------------------------------------------------------------
(* Types.  The invariant has the types of the chain, the events and the     *)
(* drive; what is left are the accounts, the files and the opinions.        *)

Less == {p \in Nat \X Nat : p[1] < p[2]}

\* Induction over numbers: T is the set of those for which a property holds.
LEMMA NumberInduction ==
    ASSUME NEW T \in SUBSET Nat, 0 \in T, \A n \in Nat : n \in T => n + 1 \in T
    PROVE  T = Nat
<1> SUFFICES ASSUME T # Nat  PROVE FALSE
  OBVIOUS
<1>1. IsWellFoundedOn(Less, Nat)  BY NatLessThanWellFounded, Zenon DEF OpToRel, Less
<1>2. PICK B : B = Nat \ T  OBVIOUS
<1>3. B \subseteq Nat /\ B # {}  BY <1>2
<1>4. PICK n \in B : \A m \in B : ~(<<m, n>> \in Less)  BY <1>1, <1>3, WFMin, Zenon
<1>5. n \in Nat /\ n \notin T /\ n # 0  BY <1>2, <1>4
<1>6. n - 1 \in Nat /\ n - 1 < n /\ (n - 1) + 1 = n  BY <1>5
<1>7. <<n - 1, n>> \in Less  BY <1>5, <1>6 DEF Less
<1>8. n - 1 \notin B  BY <1>4, <1>7
<1> QED  BY <1>2, <1>5, <1>6, <1>8

\* Function f has the sizes of the first elements of a queue s of length n.
Totals(s, n, f) ==
    f = [i \in 0..n |-> IF i = 0 THEN 0 ELSE f[i - 1] + Size[s[i]]]

LEMMA TotalsExist ==
    ASSUME NEW n \in Nat, NEW s, \A i \in 1..n : Size[s[i]] \in Nat
    PROVE  \E f \in [0..n -> Nat] : Totals(s, n, f)
<1> DEFINE R(f, i) == IF i = 0 THEN 0 ELSE f[i - 1] + Size[s[i]]
           N == {k \in Nat : \E f \in [0..n -> Nat] :
                                \A i \in 0..n : i <= k => f[i] = R(f, i)}
<1>1. 0 \in N
  <2>1. PICK f : f = [i \in 0..n |-> 0]  OBVIOUS
  <2>2. f \in [0..n -> Nat]  BY <2>1
  <2>3. \A i \in 0..n : i <= 0 => f[i] = R(f, i)  BY <2>1
  <2> HIDE DEF R
  <2> QED  BY <2>2, <2>3
<1>2. ASSUME NEW k \in Nat, k \in N  PROVE k + 1 \in N
  <2>1. PICK f \in [0..n -> Nat] : \A i \in 0..n : i <= k => f[i] = R(f, i)  BY <1>2
  <2>2. PICK h : h = [i \in 0..n |-> R(f, i)]  OBVIOUS
  <2>3. ASSUME NEW i \in 0..n  PROVE R(f, i) \in Nat
    <3>1. CASE i = 0  BY <3>1
    <3>2. CASE i # 0
      <4>1. i - 1 \in 0..n /\ i \in 1..n  BY <3>2
      <4>2. f[i - 1] \in Nat /\ Size[s[i]] \in Nat  BY <4>1
      <4>3. R(f, i) = f[i - 1] + Size[s[i]]  BY <3>2
      <4> HIDE DEF R
      <4> QED  BY <4>2, <4>3
    <3> QED  BY <3>1, <3>2
  <2>4. h \in [0..n -> Nat]
    <3> HIDE DEF R
    <3> QED  BY <2>2, <2>3
  <2>5. ASSUME NEW i \in 0..n, i <= k + 1  PROVE h[i] = R(h, i)
    <3>1. h[i] = R(f, i)
      <4> HIDE DEF R
      <4> QED  BY <2>2
    <3>2. CASE i = 0  BY <3>1, <3>2
    <3>3. CASE i # 0
      <4>1. PICK j : j = i - 1  OBVIOUS
      <4>2. j \in 0..n /\ j <= k  BY <2>5, <3>3, <4>1
      <4>3. f[j] = h[j]
        <5>1. f[j] = R(f, j)  BY <2>1, <4>2
        <5>2. h[j] = R(f, j)
          <6> HIDE DEF R
          <6> QED  BY <2>2, <4>2
        <5> QED  BY <5>1, <5>2
      <4> QED  BY <3>1, <3>3, <4>1, <4>3
    <3> QED  BY <3>2, <3>3
  <2> HIDE DEF R
  <2> QED  BY <2>4, <2>5
<1>3. N = Nat
  <2>1. N \in SUBSET Nat  OBVIOUS
  <2> HIDE DEF N
  <2> QED  BY <1>1, <1>2, <2>1, NumberInduction
<1>4. PICK f \in [0..n -> Nat] : \A i \in 0..n : i <= n => f[i] = R(f, i)
  BY <1>3
<1>5. f = [i \in 0..n |-> R(f, i)]
  <2> HIDE DEF R
  <2>1. \A i \in 0..n : f[i] = R(f, i)  BY <1>4
  <2>2. f = [i \in 0..n |-> f[i]]  OBVIOUS
  <2> QED  BY <2>1, <2>2, Zenon
<1> QED  BY <1>5, Zenon DEF Totals

\* The sizes of a queue add up to a number.
LEMMA TotalSizeType == ASSUME NEW s \in Seq(Mods)  PROVE TotalSize(s) \in Nat
<1>1. PICK n : n = Len(s)  OBVIOUS
<1>2. n \in Nat /\ \A i \in 1..n : s[i] \in Mods  BY <1>1, LenProperties, ElementOfSeq
<1>3. \A i \in 1..n : Size[s[i]] \in Nat  BY <1>2, DriveAssumption
<1>4. \E f : Totals(s, n, f)
  <2>1. \E f \in [0..n -> Nat] : Totals(s, n, f)  BY <1>2, <1>3, TotalsExist
  <2> QED  BY <2>1
<1>5. PICK h : h = CHOOSE f : Totals(s, n, f)  OBVIOUS
<1>6. Totals(s, n, h)  BY <1>4, <1>5, Zenon
<1>7. TotalSize(s) = h[n]  BY <1>1, <1>5, Zenon DEF TotalSize, Totals
<1>8. \A i \in 0..n : h[i] = IF i = 0 THEN 0 ELSE h[i - 1] + Size[s[i]]
  <2>1. PICK g : g = [i \in 0..n |-> IF i = 0 THEN 0 ELSE h[i - 1] + Size[s[i]]]  OBVIOUS
  <2>2. h = g  BY <1>6, <2>1, Zenon DEF Totals
  <2>3. \A i \in 0..n : g[i] = IF i = 0 THEN 0 ELSE h[i - 1] + Size[s[i]]  BY <2>1
  <2> QED  BY <2>2, <2>3, Zenon
<1> DEFINE N == {k \in Nat : k \in 0..n => h[k] \in Nat}
<1>9. 0 \in N  BY <1>8
<1>10. ASSUME NEW k \in Nat, k \in N  PROVE k + 1 \in N
  <2> SUFFICES ASSUME k + 1 \in 0..n  PROVE h[k + 1] \in Nat
    OBVIOUS
  <2>1. k \in 0..n /\ k + 1 \in 1..n /\ k + 1 # 0 /\ (k + 1) - 1 = k  BY <1>2
  <2>2. h[k] \in Nat /\ Size[s[k + 1]] \in Nat  BY <1>3, <1>10, <2>1
  <2>3. h[k + 1] = h[k] + Size[s[k + 1]]  BY <1>8, <2>1
  <2> QED  BY <2>2, <2>3
<1>11. N = Nat
  <2>1. N \in SUBSET Nat  OBVIOUS
  <2> HIDE DEF N
  <2> QED  BY <1>9, <1>10, <2>1, NumberInduction
<1>12. h[n] \in Nat  BY <1>2, <1>11
<1> QED  BY <1>7, <1>12

\* The accounts, the files and the opinions of the drive have their types.
Typed == /\ up \in {"up", "down", "closed"}
         /\ acct \in Accounts
         /\ disk \in Disks
         /\ sent \in SUBSET Uploads
         /\ crashes \in 0..MaxCrashes

\* What tasks do to the accounts.
LEMMA AccountTypes ==
    ASSUME NEW a \in Accounts
    PROVE  /\ \A n \in Nat : IncreaseExpected(a, n) \in Accounts
           /\ \A n \in Nat, m \in ModOrZero : UpdateUploads(a, m, n) \in Accounts
           /\ ApproveUploads(a) \in Accounts
           /\ DisapproveUploads(a) \in Accounts
           /\ \A n \in Nat : NewAccount(n) \in Accounts
           /\ \A d \in Drives : RunNextAccount(d, a) \in Accounts
<1>1. \A n \in Nat : IncreaseExpected(a, n) \in Accounts
  BY DEF Accounts, IncreaseExpected
<1>2. \A n \in Nat, m \in ModOrZero : UpdateUploads(a, m, n) \in Accounts
  <2> SUFFICES ASSUME NEW n \in Nat, NEW m \in ModOrZero
               PROVE  UpdateUploads(a, m, n) \in Accounts
    OBVIOUS
  <2>1. PICK u : u = [id |-> m, sum |-> a.expected + n]  OBVIOUS
  <2>2. a.expected + n \in Nat  BY DEF Accounts
  <2>3. u \in Uploads
    <3> HIDE DEF ModOrZero
    <3> QED  BY <2>1, <2>2 DEF Uploads
  <2> QED  BY <2>1, <2>3 DEF Accounts, UpdateUploads
<1>3. ApproveUploads(a) \in Accounts
  <2>1. PICK u, x : u = a.notApproved /\ x = IF a.expected > u.sum THEN a.expected ELSE u.sum
    OBVIOUS
  <2>2. u \in Uploads /\ u.sum \in Nat /\ a.expected \in Nat  BY <2>1 DEF Accounts, Uploads
  <2>3. x \in Nat  BY <2>1, <2>2
  <2>4. ApproveUploads(a) = [a EXCEPT !.approved = u, !.expected = x]
    BY <2>1 DEF ApproveUploads, Accounts
  <2> QED  BY <2>2, <2>3, <2>4 DEF Accounts
<1>4. DisapproveUploads(a) \in Accounts  BY DEF Accounts, DisapproveUploads
<1>5. \A n \in Nat : NewAccount(n) \in Accounts
  <2>1. NoUploads \in Uploads  BY Numbers DEF NoUploads, Uploads
  <2> QED  BY <2>1 DEF Accounts, NewAccount
<1>6. \A d \in Drives : RunNextAccount(d, a) \in Accounts
  <2> SUFFICES ASSUME NEW d \in Drives  PROVE RunNextAccount(d, a) \in Accounts
    OBVIOUS
  <2>1. PICK s : s = Skipped(d)  OBVIOUS
  <2>2. s \in Seq(Mods)
    <3>1. PICK p, w : p = Position(d.deferred, d.catchReq) /\ w = d.deferred  OBVIOUS
    <3>2. w \in Seq(Mods)  BY <3>1 DEF Drives
    <3>3. p \in 0..Len(w) /\ Len(w) \in Nat  BY <3>1, <3>2, PositionType, LenProperties
    <3>4. PICK o : o = 1  OBVIOUS
    <3>5. o \in Int /\ p \in Int /\ 1 <= o /\ p <= Len(w)  BY <3>3, <3>4
    <3>6. SubSeq(w, o, p) \in Seq(Mods)
      <4> HIDE DEF Mods, ModOrZero
      <4> QED  BY <3>2, <3>5, SubSeqOfSeq, ZenonT(40)
    <3>7. s = SubSeq(w, o, p)  BY <2>1, <3>1, <3>4 DEF Skipped
    <3> QED  BY <3>6, <3>7
  <2>3. TotalSize(s) \in Nat  BY <2>2, TotalSizeType
  <2>4. IncreaseExpected(a, TotalSize(s)) \in Accounts  BY <1>1, <2>3
  <2> QED  BY <1>4, <2>1, <2>4, Zenon DEF RunNextAccount
<1> HIDE DEF Mods, ModOrZero
<1> QED  BY <1>1, <1>2, <1>3, <1>4, <1>5, <1>6

\* The chain leaves the replicator alone.
LEMMA ChainTyped == ASSUME Typed, ChainStep  PROVE Typed'
<1>1. up' = up /\ acct' = acct /\ disk' = disk /\ sent' = sent /\ crashes' = crashes
  BY DEF ChainStep, ChainModify, ChainApprove, ChainCancel, ChainClose, ChainVerify,
         ChainVerified, replicator
<1> QED  BY <1>1 DEF Typed

\* The files, when one of them is written; the fields of the accounts.
LEMMA FileTypes ==
    ASSUME Typed
    PROVE  /\ acct.approved \in Uploads /\ acct.notApproved \in Uploads
           /\ disk.approved \in Uploads /\ disk.notApproved \in Uploads
           /\ disk.opinion \in Uploads
           /\ \A u \in Uploads : /\ [disk EXCEPT !.approved = u] \in Disks
                                 /\ [disk EXCEPT !.notApproved = u] \in Disks
                                 /\ [disk EXCEPT !.opinion = u] \in Disks
           /\ \A m \in ModOrZero : [disk EXCEPT !.last = m] \in Disks
           /\ \A r \in Roots : [disk EXCEPT !.root = r] \in Disks
  BY DEF Typed, Accounts, Disks

\* The process ends.
LEMMA DieTyped ==
    ASSUME Typed, Die, disk' = disk, sent' \in SUBSET Uploads, crashes' \in 0..MaxCrashes
    PROVE  Typed'
<1>1. NewAccount(0) \in Accounts  BY AccountTypes DEF Typed
<1> QED  BY <1>1 DEF Die, Typed

\* The handlers of the drive.
LEMMA EventTyped == ASSUME IInv, Typed, OnEvent  PROVE Typed'
<1>0. drive \in Drives /\ drive.task \in Tasks /\ acct.notApproved \in Uploads
  BY FileTypes DEF IInv, DriveInv, DriveIsApproved, Drives
<1>1. ASSUME NEW s, Take(s), acct' \in Accounts, sent' \in SUBSET Uploads  PROVE Typed'
  BY <1>1 DEF Take, Typed
<1>2. ASSUME NEW d \in Drives, NEW a \in Accounts, ThenRunIfIdle(d, a)
      PROVE  acct' \in Accounts
  BY <1>2, AccountTypes DEF ThenRunIfIdle
<1>3. CASE OnModify
  <2> DEFINE m == Head(inbox).mod
             d == [drive EXCEPT !.deferred = Append(drive.deferred, m)]
  <2>1. Take("modify") /\ ThenRunIfIdle(d, acct) /\ sent' = sent
    BY <1>0, <1>3 DEF OnModify, Drives
  <2>2. m \in Mods  BY <2>1, HeadInv DEF Take, EventInv
  <2>3. Append(drive.deferred, m) \in Seq(Mods)
    BY <1>0, <2>2, AppendProperties DEF Drives
  <2> HIDE DEF m
  <2>4. d \in Drives  BY <1>0, <2>3 DEF Drives
  <2> HIDE DEF d
  <2> QED  BY <1>1, <1>2, <2>1, <2>4 DEF Typed
<1>4. CASE OnApproval
  <2> DEFINE tx == Head(inbox).mod
             v  == CancelVerification(drive)
             d  == IF HasTask(v) THEN TaskOnApproval(v, tx) ELSE v
             a  == IF drive.task.kind = "modify"
                   THEN ModifyOnApprovalAccount(drive, acct, tx) ELSE acct
             r  == [d EXCEPT !.catchReq = tx]
  <2>1. /\ Take("approve") /\ (ThenRunIfIdle(r, a) \/ acct' = a)
        /\ sent' \in {sent, sent \cup {acct.notApproved}}
    BY <1>4 DEF OnApproval
  <2>2. tx \in ModOrZero /\ Approved(chain, tx)
    BY <2>1, HeadInv DEF Take, EventInv, Events
  <2>3. a \in Accounts
    <3>1. drive.task.kind = "modify" => Size[drive.task.mod] \in Nat
      BY DriveAssumption DEF IInv, DriveInv, DriveIsApproved, TaskIsApproved
    <3> QED  BY <3>1, AccountTypes DEF ModifyOnApprovalAccount, Typed
  <2> HIDE DEF a, tx
  <2>4. r \in Drives
    <3>1. DriveInv(chain, v)  BY VerificationKeeps DEF IInv
    <3> HIDE DEF v
    <3>2. DriveInv(chain, d)  BY <2>2, <3>1, TaskOnApprovalKeeps
    <3>3. d \in Drives  BY <3>2 DEF DriveInv, DriveIsApproved
    <3> HIDE DEF d
    <3> QED  BY <2>2, <3>3 DEF Drives
  <2> HIDE DEF r
  <2> QED  BY <1>0, <1>1, <1>2, <2>1, <2>3, <2>4 DEF Typed
<1>5. CASE OnCancel
  <2>1. CASE Take("cancel") /\ acct' = acct /\ sent' = sent  BY <1>1, <2>1 DEF Typed
  <2>2. CASE Die /\ disk' = disk /\ sent' = sent /\ crashes' = crashes
    BY <2>2, DieTyped DEF Typed
  <2> QED  BY <1>5, <2>1, <2>2 DEF OnCancel
<1>6. CASE OnClose
  <2> DEFINE d == [CancelVerification(drive) EXCEPT !.closeReq = TRUE]
  <2>1. Take("close") /\ (ThenRunIfIdle(d, acct) \/ acct' = acct) /\ sent' = sent
    BY <1>6 DEF OnClose
  <2>2. d \in Drives  BY <1>0 DEF CancelVerification, Drives
  <2> HIDE DEF d
  <2> QED  BY <1>1, <1>2, <2>1, <2>2 DEF Typed
<1>7. CASE OnVerify  BY <1>1, <1>7 DEF OnVerify, Typed
<1>8. CASE OnVerified  BY <1>1, <1>8 DEF OnVerified, Typed
<1> QED  BY <1>3, <1>4, <1>5, <1>6, <1>7, <1>8 DEF OnEvent

\* The steps of the tasks.
LEMMA TaskTyped ==
    ASSUME IInv, Typed, ClientDownload \/ ReplicatorDownload \/ TaskStep
    PROVE  Typed'
<1>0. /\ drive \in Drives /\ drive.task \in Tasks
      /\ drive.task.mod \in ModOrZero /\ drive.task.root \in Roots
      /\ acct \in Accounts /\ disk \in Disks /\ sent \in SUBSET Uploads
  BY DEF IInv, DriveInv, DriveIsApproved, Drives, Tasks, Typed
<1>1. /\ acct.approved \in Uploads /\ acct.notApproved \in Uploads
      /\ disk.approved \in Uploads /\ disk.notApproved \in Uploads /\ disk.opinion \in Uploads
  BY FileTypes
<1>2. ASSUME acct' \in Accounts, disk' \in Disks, sent' \in SUBSET Uploads,
             UNCHANGED environment
      PROVE  Typed'
  BY <1>2 DEF environment, Typed
<1>3. CASE ClientDownload \/ ReplicatorDownload
  BY <1>0, <1>2, <1>3 DEF ClientDownload, ReplicatorDownload, ActionListDownloaded,
     MissingFilesDownloaded, FsTreeDownloaded, CatchUpFilesDownloaded
<1>4. CASE PrepareDownloadMissingFiles \/ RemoveUnusedFiles \/ ClearDrive
  BY <1>0, <1>2, <1>4 DEF PrepareDownloadMissingFiles, RemoveUnusedFiles, ClearDrive
<1>5. CASE ModifyFsTreeInSandbox \/ CopyFsTreeAfterError \/ ModifyDriveInSandbox
  <2>1. disk' = disk /\ sent' = sent /\ UNCHANGED environment
    BY <1>5 DEF ModifyFsTreeInSandbox, CopyFsTreeAfterError, ModifyDriveInSandbox
  <2>2. drive.task.kind = "modify" => Size[drive.task.mod] \in Nat
    BY DriveAssumption DEF IInv, DriveInv, DriveIsApproved, TaskIsApproved
  <2>3. \E n \in Nat : acct' \in {acct, UpdateUploads(acct, drive.task.mod, n)}
    <3>1. CASE ModifyFsTreeInSandbox \/ CopyFsTreeAfterError
      BY <2>2, <3>1 DEF ModifyFsTreeInSandbox, CopyFsTreeAfterError, MyRootHashIsCalculated,
                        Modification, At
    <3>2. CASE ModifyDriveInSandbox
      BY <3>2 DEF ModifyDriveInSandbox, MyRootHashIsCalculated
    <3> QED  BY <1>5, <3>1, <3>2
  <2>4. acct' \in Accounts
    <3> HIDE DEF ModOrZero
    <3> QED  BY <1>0, <2>3, AccountTypes
  <2> QED  BY <1>0, <1>2, <2>1, <2>4
<1>6. CASE MyOpinionIsCreated \/ CatchUpOpinionIsCreated
  <2>1. /\ disk' = [disk EXCEPT !.opinion = acct.notApproved] /\ acct' = acct
        /\ sent' \in {sent, sent \cup {acct.notApproved}} /\ UNCHANGED environment
    BY <1>6 DEF MyOpinionIsCreated, CatchUpOpinionIsCreated
  <2>2. disk' \in Disks  BY <1>1, <2>1, FileTypes
  <2>3. sent' \in SUBSET Uploads  BY <1>0, <1>1, <2>1
  <2> QED  BY <1>0, <1>2, <2>1, <2>2, <2>3
<1>7. CASE SaveNotApproved \/ SaveDisapproved
  <2>1. /\ disk' = [disk EXCEPT !.notApproved = acct.notApproved] /\ acct' = acct
        /\ sent' = sent /\ UNCHANGED environment
    BY <1>7 DEF SaveNotApproved, SaveDisapproved
  <2>2. disk' \in Disks  BY <1>1, <2>1, FileTypes
  <2> QED  BY <1>0, <1>2, <2>1, <2>2
<1>8. CASE SynchronizeDriveWithSandbox \/ CatchUpMoveFsTree
  <2>1. /\ disk' = [disk EXCEPT !.root = drive.task.root]
        /\ acct' \in {acct, ApproveUploads(acct)}
        /\ sent' = sent /\ UNCHANGED environment
    BY <1>8 DEF SynchronizeDriveWithSandbox, CatchUpMoveFsTree, SynchronizationIsCompleted
  <2>2. disk' \in Disks  BY <1>0, <2>1, FileTypes
  <2>3. acct' \in Accounts  BY <1>0, <2>1, AccountTypes
  <2> QED  BY <1>0, <1>2, <2>1, <2>2, <2>3
<1>9. CASE CatchUpSaveLast \/ SaveLastApproved
  <2>1. /\ disk' = [disk EXCEPT !.last = drive.task.mod]
        /\ acct' \in {acct, ApproveUploads(acct)}
        /\ sent' = sent /\ UNCHANGED environment
    BY <1>9 DEF CatchUpSaveLast, SaveLastApproved, SynchronizationIsCompleted
  <2>2. disk' \in Disks  BY <1>0, <2>1, FileTypes
  <2>3. acct' \in Accounts  BY <1>0, <2>1, AccountTypes
  <2> QED  BY <1>0, <1>2, <2>1, <2>2, <2>3
<1>10. CASE SaveApprovedUploads
  <2>1. /\ disk' = [disk EXCEPT !.approved = acct.approved] /\ acct' = acct
        /\ sent' = sent /\ UNCHANGED environment
    BY <1>10 DEF SaveApprovedUploads
  <2>2. disk' \in Disks  BY <1>1, <2>1, FileTypes
  <2> QED  BY <1>0, <1>2, <2>1, <2>2
<1>11. CASE FinishAndRunNextTask
  <2>1. /\ acct' = RunNextAccount(drive, acct) /\ disk' = disk
        /\ sent' = sent /\ UNCHANGED environment
    BY <1>11 DEF FinishAndRunNextTask
  <2>2. acct' \in Accounts  BY <1>0, <2>1, AccountTypes
  <2> QED  BY <1>0, <1>2, <2>1, <2>2
<1>12. CASE RemoveAllDriveData
  <2>1. NewAccount(0) \in Accounts  BY <1>0, AccountTypes
  <2>2. EmptyDisk \in Disks  BY Numbers DEF EmptyDisk, Disks, NoUploads, Uploads, Roots
  <2> QED  BY <1>12, <2>1, <2>2 DEF RemoveAllDriveData, Typed
<1>13. CASE InitializeDrive
  <2>1. /\ disk' = disk /\ sent' \in {sent, sent \cup {disk.opinion}}
        /\ \/ Die /\ crashes' = crashes
           \/ /\ acct' = [acct EXCEPT !.approved = disk.approved,
                                      !.notApproved = disk.notApproved]
              /\ UNCHANGED environment
    BY <1>13 DEF InitializeDrive
  <2>2. sent' \in SUBSET Uploads  BY <1>0, <1>1, <2>1
  <2>3. CASE Die /\ crashes' = crashes  BY <2>1, <2>2, <2>3, DieTyped DEF Typed
  <2>4. CASE /\ acct' = [acct EXCEPT !.approved = disk.approved,
                                     !.notApproved = disk.notApproved]
             /\ UNCHANGED environment
    <3>1. acct' \in Accounts  BY <1>0, <1>1, <2>4 DEF Accounts
    <3> QED  BY <1>0, <1>2, <2>1, <2>2, <2>4, <3>1
  <2> QED  BY <2>1, <2>3, <2>4
<1> QED  BY <1>3, <1>4, <1>5, <1>6, <1>7, <1>8, <1>9, <1>10, <1>11, <1>12, <1>13 DEF TaskStep

\* Crashes and restarts.
LEMMA RestartTyped ==
    ASSUME IInv, Typed, Crash \/ Restart \/ RemoveUnusedDrives
    PROVE  Typed'
<1>1. CASE Crash
  <2>1. crashes' \in 0..MaxCrashes  BY <1>1, BoundAssumption DEF Crash, Typed
  <2> QED  BY <1>1, <2>1, DieTyped DEF Crash, Typed
<1>2. CASE Restart
  <2>1. chain.sizeAt[chain.last] \in Nat
    <3> HIDE DEF ModOrZero, Mods
    <3>1. chain.sizeAt \in [ModOrZero -> Nat] /\ chain.last \in ModOrZero
      BY ChainTypes DEF IInv, Chains
    <3> QED  BY <3>1
  <2>2. NewAccount(chain.sizeAt[chain.last]) \in Accounts  BY <2>1, AccountTypes DEF Typed
  <2> QED  BY <1>2, <2>2 DEF Restart, Typed
<1>3. CASE RemoveUnusedDrives
  <2>1. EmptyDisk \in Disks  BY Numbers DEF EmptyDisk, Disks, NoUploads, Uploads, Roots
  <2> QED  BY <1>3, <2>1 DEF RemoveUnusedDrives, Typed
<1> QED  BY <1>1, <1>2, <1>3

\* Every variable keeps its type in every behaviour: the queues hold only
\* modifications, the accounts never become negative (disapproveCumulativeUploads
\* takes nothing back), and what runCatchingUpTask expects of the requests it
\* drops is a sum of their sizes.
THEOREM TypesAreKept == Spec => []TypeOK
<1>1. Init => Typed
  <2> SUFFICES ASSUME Init  PROVE Typed
    OBVIOUS
  <2>1. NoUploads \in Uploads  BY Numbers DEF NoUploads, Uploads
  <2>2. acct \in Accounts  BY <2>1 DEF Init, NewAccount, Accounts
  <2>3. disk \in Disks  BY <2>1, Numbers DEF Init, EmptyDisk, Disks, Roots
  <2> QED  BY <2>2, <2>3, BoundAssumption DEF Init, Typed
<1>2. IInv /\ Typed /\ [Next]_vars => Typed'
  <2> SUFFICES ASSUME IInv, Typed, [Next]_vars  PROVE Typed'
    OBVIOUS
  <2>1. CASE UNCHANGED vars  BY <2>1 DEF vars, Typed
  <2> QED  BY <2>1, ChainTyped, EventTyped, TaskTyped, RestartTyped DEF Next
<1>3. IInv /\ Typed => TypeOK
  <2> SUFFICES ASSUME IInv, Typed  PROVE TypeOK
    OBVIOUS
  <2>1. chain \in Chains  BY ChainTypes DEF IInv
  <2>2. inbox \in Seq(Events) /\ drive \in Drives
    BY DEF IInv, InboxInv, DriveInv, DriveIsApproved
  <2> QED  BY <2>1, <2>2 DEF Typed, TypeOK
<1> QED  BY InitInv, NextInv, <1>1, <1>2, <1>3, PTL DEF Spec

------------------------------------------------------------------------------
(* II. What a drive does rests on the order in which requests and approvals *)
(* come out of the chain, wait in the queues of the drive and are handled.  *)
(* The inductive invariant, over a chain c, the events q on their way, a    *)
(* drive d and its files k.                                                 *)

HIDE DEF ModOrZero, Mods

\* The task makes its modification the last one of the drive, unless it is
\* interrupted: a catch-up, or a modification after its own approval.
Applies(t) == \/ t.kind = "catchup"
              \/ t.step \in Synchronizing
              \/ t.kind = "modify" /\ t.approved /\ ~t.interrupted

\* The drive and its files have nothing newer than modification m ...
NotAhead(d, k, m) == d.last <= m /\ k.last <= m /\ k.approved.id <= m

\* ... and m is newer than everything they have or are working on.
NewRequest(c, d, k, m) ==
    /\ m <= c.issued
    /\ d.last < m /\ k.last < m /\ k.approved.id < m
    /\ d.task.kind \in Updating => d.task.mod < m

\* Modification m is in the queue of the drive, or its request is on the way.
Deferred(d, m) == \E i \in 1..Len(d.deferred) : d.deferred[i] = m

Requested(q, m) == \E i \in 1..Len(q) : q[i].type = "modify" /\ q[i].mod = m

Waits(d, q, m) == Deferred(d, m) \/ Requested(q, m)

\* Requests come in the order of their numbers, and so do approvals; an
\* approval is followed by requests of newer modifications only.
PairOrder(e, f) ==
    /\ e.type \in {"modify", "approve"} /\ f.type = "modify" => e.mod < f.mod
    /\ e.type = "approve" /\ f.type = "approve" => e.mod < f.mod

Ordered(q) == \A i, j \in 1..Len(q) : i < j => PairOrder(q[i], q[j])

Increasing(s) == \A i, j \in 1..Len(s) : i < j => s[i] < s[j]

\* An event on its way is about something newer than what the drive has.
EventOrder(c, d, k, e) ==
    /\ e.type = "modify" =>
          /\ NewRequest(c, d, k, e.mod)
          /\ d.catchReq < e.mod
          /\ \A m \in Mods : Deferred(d, m) => m < e.mod
    /\ e.type = "approve" =>
          /\ NotAhead(d, k, e.mod)
          /\ d.catchReq < e.mod
          /\ Applies(d.task) => d.task.mod < e.mod
    /\ e.type = "cancel" => e.mod \in c.cancelled

InboxOrder(c, q, d, k) ==
    Ordered(q) /\ \A i \in 1..Len(q) : EventOrder(c, d, k, q[i])

QueueOrder(c, d, k) ==
    /\ \A m \in Mods : Deferred(d, m) => NewRequest(c, d, k, m)
    /\ Increasing(d.deferred)

TaskOrder(c, d, k) ==
    /\ d.task.kind \in Updating => d.task.mod <= c.issued
    /\ d.task.kind = "modify" /\ ~d.task.interrupted => d.catchReq = 0
    /\ d.task.kind = "modify" /\ d.task.step # "finish" => d.last < d.task.mod
    /\ Applies(d.task) => /\ NotAhead(d, k, d.task.mod)
                          /\ d.catchReq # 0 => d.task.mod <= d.catchReq
    /\ d.catchReq # 0 => NotAhead(d, k, d.catchReq)

\* Whatever is approved next is among the waiting modifications, or older
\* than all of them: an approval never leaves a request behind it that the
\* drive would execute on a newer tree.
Covered(d, q, m) == Waits(d, q, m) \/ \A w \in Mods : Waits(d, q, w) => m < w

CoverOrder(c, q, d) ==
    /\ \A i \in 1..Len(c.pending) : Covered(d, q, c.pending[i])
    /\ \A i \in 1..Len(q) : q[i].type = "approve" => Covered(d, q, q[i].mod)
    /\ d.catchReq # 0 => Covered(d, q, d.catchReq)

Order(c, q, d, k) ==
    InboxOrder(c, q, d, k) /\ QueueOrder(c, d, k) /\ TaskOrder(c, d, k) /\ CoverOrder(c, q, d)

\* A modification that has its sandbox and no approval waits for it; one that
\* replaces the drive has its approval.
FlagOrder(t) ==
    t.kind = "modify" =>
        /\ t.step \in Synchronizing => t.approved
        /\ t.calculated /\ ~t.approved /\ ~t.interrupted => t.step = "wait"

\* The accounts are those of the task's modification once it was executed.
AccountOrder(t, a) ==
    /\ t.kind \in Updating /\ t.step \in {"saveNot", "saveOpinion", "wait", "sync", "syncLast"}
          => a.notApproved.id = t.mod
    /\ t.kind \in Updating /\ t.step = "saveUploads" => a.approved.id = t.mod

\* A process that does not run has nothing in memory.
DownOrder(u, q, d) == u # "up" => q = <<>> /\ d = NewDrive({})

SavedIsApproved(c, k) == k.approved.id # 0 => Approved(c, k.approved.id)

Safe == /\ IInv
        /\ Order(chain, inbox, drive, disk)
        /\ FlagOrder(drive.task)
        /\ AccountOrder(drive.task, acct)
        /\ DownOrder(up, inbox, drive)
        /\ SavedIsApproved(chain, disk)

------------------------------------------------------------------------------
(* Types *)

\* The first invariant, over a chain, the events, a drive and its files.
Good(c, q, d, k) == /\ ChainInv(c) /\ InboxInv(c, q) /\ DriveInv(c, d) /\ DiskInv(c, k)
                    /\ SavedIsApproved(c, k)

\* Modifications are numbers.
LEMMA ModTypes ==
    /\ 0 \in ModOrZero /\ 0 \notin Mods
    /\ \A m \in ModOrZero : m \in Int /\ 0 <= m /\ (m # 0 => m \in Mods)
    /\ \A m \in Mods : m \in ModOrZero /\ m \in Int /\ 0 < m
  BY DriveAssumption DEF ModOrZero, Mods

\* What is approved is not newer than the last approved modification.
LEMMA ApprovedBound ==
    ASSUME NEW c, ChainInv(c), NEW m, Approved(c, m)
    PROVE  m \in Int /\ 1 <= m /\ m <= c.last
<1>1. c.last \in Int  BY ChainTypes
<1> QED  BY <1>1 DEF Approved

\* The numbers of a drive and its files, and their bounds.
LEMMA DriveNumbers ==
    ASSUME NEW c, NEW q, NEW d, NEW k, Good(c, q, d, k)
    PROVE  /\ d.last \in ModOrZero /\ d.catchReq \in ModOrZero /\ d.task.mod \in ModOrZero
           /\ k.last \in ModOrZero /\ k.approved.id \in ModOrZero
           /\ c.last \in ModOrZero /\ c.issued \in ModOrZero /\ c.last <= c.issued
           /\ d.last <= c.last /\ d.catchReq <= c.last
           /\ k.last <= c.last /\ k.approved.id <= c.last
           /\ Applies(d.task) => d.task.mod <= c.last
<1>1. /\ d.last \in ModOrZero /\ d.catchReq \in ModOrZero /\ d.task.mod \in ModOrZero
      /\ k.last \in ModOrZero /\ k.approved.id \in ModOrZero
  BY DEF Good, DriveInv, DriveIsApproved, DiskInv, Drives, Tasks
<1>2. ChainInv(c) /\ c.last \in ModOrZero /\ c.issued \in ModOrZero /\ c.last <= c.issued
      /\ c.last \in Int /\ 0 <= c.last
  BY ChainTypes, ModTypes DEF Good, ChainInv
<1>3. /\ d.last # 0 => Approved(c, d.last)
      /\ d.catchReq # 0 => Approved(c, d.catchReq)
      /\ k.last # 0 => Approved(c, k.last)
      /\ k.approved.id # 0 => Approved(c, k.approved.id)
  BY DEF Good, DriveInv, DriveIsApproved, DiskInv, SavedIsApproved
<1>4. Applies(d.task) => Approved(c, d.task.mod)
  BY DEF Good, DriveInv, DriveIsApproved, TaskIsApproved, ApprovalIsOwn, Applies
<1>5. /\ d.last <= c.last /\ d.catchReq <= c.last
      /\ k.last <= c.last /\ k.approved.id <= c.last
  BY <1>1, <1>2, <1>3, ApprovedBound
<1>6. Applies(d.task) => d.task.mod <= c.last
  BY <1>2, <1>4, ApprovedBound
<1> QED  BY <1>1, <1>2, <1>5, <1>6

\* The queue of the drive and the events on their way.
LEMMA QueueTypes ==
    ASSUME NEW c, NEW q, NEW d, NEW k, Good(c, q, d, k)
    PROVE  /\ d.deferred \in Seq(Mods) /\ Len(d.deferred) \in Nat
           /\ \A i \in 1..Len(d.deferred) : d.deferred[i] \in Mods
           /\ q \in Seq(Events) /\ Len(q) \in Nat
           /\ \A i \in 1..Len(q) : q[i] \in Events /\ q[i].mod \in ModOrZero
           /\ \A m : Waits(d, q, m) => m \in Mods
<1>1. d.deferred \in Seq(Mods) /\ q \in Seq(Events)
  BY DEF Good, DriveInv, DriveIsApproved, Drives, InboxInv
<1>2. /\ \A i \in 1..Len(d.deferred) : d.deferred[i] \in Mods
      /\ \A i \in 1..Len(q) : q[i] \in Events
  BY <1>1, ElementOfSeq
<1>3. \A i \in 1..Len(q) : q[i].mod \in ModOrZero  BY <1>2 DEF Events
<1>4. \A i \in 1..Len(q) : q[i].type = "modify" => q[i].mod \in Mods
  BY DEF Good, InboxInv, EventInv
<1>5. \A m : Waits(d, q, m) => m \in Mods
  BY <1>2, <1>4 DEF Waits, Deferred, Requested
<1> QED  BY <1>1, <1>2, <1>3, <1>5, LenProperties

------------------------------------------------------------------------------
(* Steps that leave the queues alone *)

\* Drive e differs from d at most in a task that is further from applying its
\* modification, or in that it has read its files.
Calmer(d, e, k) ==
    /\ e.deferred = d.deferred /\ e.catchReq = d.catchReq
    /\ \/ e.last = d.last
       \/ e.last = k.last /\ e.task.kind = "init"
    /\ e.task.kind \in Updating => e.task.kind = d.task.kind /\ e.task.mod = d.task.mod
    /\ Applies(e.task) => Applies(d.task) /\ e.task.mod = d.task.mod
    /\ e.task.kind = "modify" /\ ~e.task.interrupted => ~d.task.interrupted
    /\ e.task.kind = "modify" /\ e.task.step # "finish" => d.task.step # "finish"

\* Such a drive keeps the order.
LEMMA CalmerKeeps ==
    ASSUME NEW c, NEW q, NEW d, NEW e, NEW k, Order(c, q, d, k), Calmer(d, e, k)
    PROVE  Order(c, q, e, k)
<1>1. /\ \A m : Deferred(e, m) <=> Deferred(d, m)
      /\ \A m : Waits(e, q, m) <=> Waits(d, q, m)
      /\ \A m : Covered(e, q, m) <=> Covered(d, q, m)
  BY DEF Calmer, Deferred, Waits, Covered
<1>2. /\ \A m : NewRequest(c, d, k, m) => NewRequest(c, e, k, m)
      /\ \A m : NotAhead(d, k, m) => NotAhead(e, k, m)
  BY DEF Calmer, NewRequest, NotAhead
<1>3. \A x : EventOrder(c, d, k, x) => EventOrder(c, e, k, x)
  BY <1>1, <1>2 DEF EventOrder, Calmer
<1>4. InboxOrder(c, q, e, k)  BY <1>3 DEF Order, InboxOrder
<1>5. QueueOrder(c, e, k)  BY <1>1, <1>2 DEF Order, QueueOrder, Calmer
<1>6. TaskOrder(c, e, k)
  <2>1. TaskOrder(c, d, k)  BY DEF Order
  <2>2. e.task.kind = "modify" /\ e.task.step # "finish" => e.last < e.task.mod
    BY <2>1 DEF TaskOrder, Calmer, Updating
  <2>3. e.task.kind \in Updating => e.task.mod <= c.issued
    BY <2>1 DEF TaskOrder, Calmer
  <2>4. e.task.kind = "modify" /\ ~e.task.interrupted => e.catchReq = 0
    BY <2>1 DEF TaskOrder, Calmer, Updating
  <2>5. e.catchReq # 0 => NotAhead(e, k, e.catchReq)
    BY <2>1, <1>2 DEF TaskOrder, Calmer
  <2>6. Applies(e.task) => /\ NotAhead(e, k, e.task.mod)
                           /\ e.catchReq # 0 => e.task.mod <= e.catchReq
    BY <2>1, <1>2 DEF TaskOrder, Calmer
  <2> QED  BY <2>2, <2>3, <2>4, <2>5, <2>6 DEF TaskOrder
<1>7. CoverOrder(c, q, e)  BY <1>1 DEF Order, CoverOrder, Calmer
<1> QED  BY <1>4, <1>5, <1>6, <1>7 DEF Order

------------------------------------------------------------------------------
(* The scheduler *)

\* The first of the waiting modifications.
LEMMA FirstDeferred ==
    ASSUME NEW d, d.deferred \in Seq(Mods), d.deferred # <<>>, Increasing(d.deferred),
           NEW e, e.deferred = Tail(d.deferred)
    PROVE  /\ Head(d.deferred) \in Mods /\ Deferred(d, Head(d.deferred))
           /\ e.deferred \in Seq(Mods)
           /\ Increasing(e.deferred)
           /\ \A m \in Mods : Deferred(e, m) => Deferred(d, m) /\ Head(d.deferred) < m
           /\ \A m \in Mods : Deferred(d, m) => Deferred(e, m) \/ m = Head(d.deferred)
<1> DEFINE s == d.deferred
           t == e.deferred
<1>1. /\ Head(s) \in Mods /\ t \in Seq(Mods) /\ Len(t) = Len(s) - 1
      /\ \A i \in 1..Len(t) : t[i] = s[i + 1]
  BY HeadTailProperties
<1>2. Len(s) \in Nat \ {0} /\ Head(s) = s[1]
  <2>1. Len(s) \in Nat \ {0}  BY EmptySeq
  <2> QED  BY <2>1
<1>3. s = d.deferred /\ t = e.deferred  OBVIOUS
<1> HIDE DEF s, t
<1>4. \A i \in 1..Len(t) : i + 1 \in 1..Len(s) /\ 1 \in 1..Len(s) /\ 1 < i + 1
  BY <1>1, <1>2
<1>5. Increasing(t)
  <2> SUFFICES ASSUME NEW i \in 1..Len(t), NEW j \in 1..Len(t), i < j  PROVE t[i] < t[j]
    BY DEF Increasing
  <2>1. i + 1 < j + 1  BY <1>1, <1>2
  <2> QED  BY <2>1, <1>1, <1>3, <1>4 DEF Increasing
<1>6. Deferred(d, Head(s))
  <2>1. 1 \in 1..Len(s)  BY <1>2
  <2> QED  BY <2>1, <1>2, <1>3 DEF Deferred
<1>7. ASSUME NEW m \in Mods, Deferred(e, m)  PROVE Deferred(d, m) /\ Head(s) < m
  <2>1. PICK i \in 1..Len(t) : t[i] = m  BY <1>7, <1>3 DEF Deferred
  <2>2. s[i + 1] = m /\ i + 1 \in 1..Len(s) /\ 1 \in 1..Len(s) /\ 1 < i + 1
    BY <2>1, <1>1, <1>4
  <2>3. Head(s) < m  BY <2>2, <1>2, <1>3 DEF Increasing
  <2> QED  BY <2>2, <2>3, <1>3 DEF Deferred
<1>8. ASSUME NEW m \in Mods, Deferred(d, m)  PROVE Deferred(e, m) \/ m = Head(s)
  <2>1. PICK i \in 1..Len(s) : s[i] = m  BY <1>8, <1>3 DEF Deferred
  <2>2. CASE i = 1  BY <2>1, <2>2, <1>2
  <2>3. CASE i # 1
    <3>1. PICK j : j = i - 1  OBVIOUS
    <3>2. j \in 1..Len(t) /\ j + 1 = i  BY <2>3, <3>1, <1>1, <1>2
    <3>3. t[j] = m  BY <3>2, <2>1, <1>1
    <3> QED  BY <3>2, <3>3, <1>3 DEF Deferred
  <2> QED  BY <2>2, <2>3
<1> QED  BY <1>1, <1>3, <1>5, <1>6, <1>7, <1>8

\* The length of the first part of a sequence.
LEMMA PrefixLen ==
    ASSUME NEW S, NEW s \in Seq(S), NEW p \in 0..Len(s)
    PROVE  Len(SubSeq(s, 1, p)) = p
<1>0. Len(s) \in Nat  BY LenProperties
<1>1. PICK o : o = 1  OBVIOUS
<1>2. o \in Int /\ p \in Int /\ 1 <= o /\ p <= Len(s)  BY <1>0, <1>1
<1>3. /\ SubSeq(s, o, p) \in Seq(S)
      /\ Len(SubSeq(s, o, p)) = IF o <= p THEN p - o + 1 ELSE 0
      /\ \A i \in 1..(p - o + 1) : SubSeq(s, o, p)[i] = s[o + i - 1]
  BY <1>2, SubSeqOfSeq, ZenonT(40)
<1> QED  BY <1>0, <1>1, <1>3

\* The part of a queue after the place of x.
LEMMA AfterPosition ==
    ASSUME NEW S, NEW s \in Seq(S), NEW p \in 0..Len(s),
           NEW t, t = SubSeq(s, Len(SubSeq(s, 1, p)) + 1, Len(s))
    PROVE  /\ t \in Seq(S) /\ Len(t) = Len(s) - p
           /\ \A i \in 1..Len(t) : t[i] = s[p + i]
<1>1. Len(s) \in Nat  BY LenProperties
<1>2. Len(SubSeq(s, 1, p)) = p  BY PrefixLen
<1>3. PICK o : o = p + 1  OBVIOUS
<1>4. o \in Int /\ Len(s) \in Int /\ 1 <= o /\ Len(s) <= Len(s)  BY <1>1, <1>3
<1>5. /\ SubSeq(s, o, Len(s)) \in Seq(S)
      /\ Len(SubSeq(s, o, Len(s))) = IF o <= Len(s) THEN Len(s) - o + 1 ELSE 0
      /\ \A i \in 1..(Len(s) - o + 1) : SubSeq(s, o, Len(s))[i] = s[o + i - 1]
  BY <1>4, SubSeqOfSeq, ZenonT(40)
<1>6. t = SubSeq(s, o, Len(s))  BY <1>2, <1>3
<1>7. /\ t \in Seq(S)
      /\ Len(t) = IF o <= Len(s) THEN Len(s) - o + 1 ELSE 0
      /\ \A i \in 1..(Len(s) - o + 1) : t[i] = s[o + i - 1]
  BY <1>5, <1>6, Zenon
<1>8. Len(t) = Len(s) - p  BY <1>7, <1>3, <1>1
<1>9. \A i \in 1..Len(t) : i \in 1..(Len(s) - o + 1) /\ o + i - 1 = p + i
  BY ONLY <1>8, <1>3, <1>1
<1> QED  BY <1>7, <1>8, <1>9

\* The modifications that still wait after a catch-up with x was started: those
\* that are newer than x.
LEMMA RestDeferred ==
    ASSUME NEW d, d.deferred \in Seq(Mods), Increasing(d.deferred), NEW x \in Mods,
           Deferred(d, x) \/ \A m \in Mods : Deferred(d, m) => x < m,
           NEW e, e.deferred = SubSeq(d.deferred,
                                      Len(SubSeq(d.deferred, 1, Position(d.deferred, x))) + 1,
                                      Len(d.deferred))
    PROVE  /\ e.deferred \in Seq(Mods)
           /\ Increasing(e.deferred)
           /\ \A m \in Mods : Deferred(e, m) => Deferred(d, m) /\ x < m
           /\ \A m \in Mods : Deferred(d, m) /\ x < m => Deferred(e, m)
<1>s. PICK s, t : s = d.deferred /\ t = e.deferred  OBVIOUS
<1>t. s \in Seq(Mods)  BY <1>s
<1>0. PICK p : p = Position(s, x)  OBVIOUS
<1>1. /\ p \in 0..Len(s) /\ Len(s) \in Nat /\ DOMAIN s = 1..Len(s)
      /\ (\E i \in DOMAIN s : s[i] = x) => p # 0 /\ s[p] = x
  BY <1>0, <1>t, PositionType, LenProperties
<1>3. t \in Seq(Mods) /\ Len(t) = Len(s) - p /\ \A i \in 1..Len(t) : t[i] = s[p + i]
  <2>1. t = SubSeq(s, Len(SubSeq(s, 1, p)) + 1, Len(s))  BY <1>s, <1>0
  <2>2. p \in 0..Len(s)  BY <1>1
  <2> QED  BY ONLY <2>1, <2>2, <1>t, AfterPosition
<1>4. s = d.deferred /\ t = e.deferred  BY <1>s
<1>5. \A i \in 1..Len(s) : s[i] \in Mods  BY <1>t, ElementOfSeq
<1>6. \A i \in 1..Len(t) : p + i \in 1..Len(s)  BY <1>1, <1>3
<1>7. Increasing(t)
  <2> SUFFICES ASSUME NEW i \in 1..Len(t), NEW j \in 1..Len(t), i < j  PROVE t[i] < t[j]
    BY DEF Increasing
  <2>1. p + i < p + j  BY <1>1, <1>3
  <2> QED  BY <2>1, <1>3, <1>4, <1>6 DEF Increasing
<1>8. ASSUME NEW m \in Mods, Deferred(e, m)  PROVE Deferred(d, m) /\ x < m
  <2>1. PICK i \in 1..Len(t) : t[i] = m  BY <1>8, <1>4 DEF Deferred
  <2>2. s[p + i] = m /\ p + i \in 1..Len(s)  BY <2>1, <1>3, <1>6
  <2>3. Deferred(d, m)  BY <2>2, <1>4 DEF Deferred
  <2>4. CASE Deferred(d, x)
    <3>1. p # 0 /\ s[p] = x  BY <2>4, <1>1, <1>4 DEF Deferred
    <3>2. p \in 1..Len(s) /\ p < p + i  BY <3>1, <1>1, <2>1
    <3> QED  BY <2>2, <2>3, <3>1, <3>2, <1>4 DEF Increasing
  <2> QED  BY <2>3, <2>4
<1>9. ASSUME NEW m \in Mods, Deferred(d, m), x < m  PROVE Deferred(e, m)
  <2>1. PICK i \in 1..Len(s) : s[i] = m  BY <1>9, <1>4 DEF Deferred
  <2>2. p < i
    <3>1. CASE p = 0  BY <3>1
    <3>2. CASE p # 0 /\ ~(p < i)
      <4>1. p \in 1..Len(s)  BY <3>2, <1>1
      <4>2. s[p] = x
        <5>1. Deferred(d, x) => s[p] = x  BY <1>1, <1>4 DEF Deferred
        <5>2. ~Deferred(d, x) => Position(s, x) = 0
          BY <1>1, <1>4 DEF Deferred, Position
        <5> QED  BY <5>1, <5>2, <3>2, <1>0
      <4>3. i < p \/ i = p  BY <3>2, <4>1
      <4>4. m < x \/ m = x  BY <2>1, <4>1, <4>2, <4>3, <1>4 DEF Increasing
      <4> QED  BY <4>4, <1>9, ModTypes
    <3> QED  BY <3>1, <3>2
  <2>3. PICK j : j = i - p  OBVIOUS
  <2>4. j \in 1..Len(t) /\ p + j = i  BY <2>2, <2>3, <1>1, <1>3
  <2>5. t[j] = m  BY <2>4, <2>1, <1>3
  <2> QED  BY <2>4, <2>5, <1>4 DEF Deferred
<1> QED  BY <1>3, <1>4, <1>7, <1>8, <1>9

\* runDeferredModificationTask
LEMMA RunModificationOrder ==
    ASSUME NEW c, NEW q, NEW d, NEW k, Good(c, q, d, k), Order(c, q, d, k),
           d.catchReq = 0, d.deferred # <<>>, NEW e,
           e.deferred = Tail(d.deferred), e.catchReq = 0, e.last = d.last,
           e.task.kind = "modify", e.task.mod = Head(d.deferred), ~Applies(e.task)
    PROVE  Order(c, q, e, k)
<1>1. PICK h : h = Head(d.deferred)  OBVIOUS
<1>2. /\ h \in Mods /\ Deferred(d, h)
      /\ Increasing(e.deferred)
      /\ \A m \in Mods : Deferred(e, m) => Deferred(d, m) /\ h < m
      /\ \A m \in Mods : Deferred(d, m) => Deferred(e, m) \/ m = h
  BY <1>1, QueueTypes, FirstDeferred DEF Order, QueueOrder
<1>3. NewRequest(c, d, k, h)  BY <1>2 DEF Order, QueueOrder
<1>4. ASSUME NEW m \in Mods, NewRequest(c, d, k, m), h < m  PROVE NewRequest(c, e, k, m)
  BY <1>1, <1>4 DEF NewRequest
<1>5. \A m : NotAhead(d, k, m) => NotAhead(e, k, m)  BY DEF NotAhead
<1>6. InboxOrder(c, q, e, k)
  <2>1. ASSUME NEW i \in 1..Len(q)  PROVE EventOrder(c, e, k, q[i])
    <3>1. EventOrder(c, d, k, q[i])  BY DEF Order, InboxOrder
    <3>2. ASSUME q[i].type = "modify"
          PROVE  /\ NewRequest(c, e, k, q[i].mod) /\ e.catchReq < q[i].mod
                 /\ \A m \in Mods : Deferred(e, m) => m < q[i].mod
      <4>1. Requested(q, q[i].mod)  BY <3>2 DEF Requested
      <4>2. q[i].mod \in Mods  BY <4>1, QueueTypes DEF Waits
      <4> QED  BY <3>1, <3>2, <4>2, <1>2, <1>4 DEF EventOrder
    <3> QED  BY <3>1, <3>2, <1>5 DEF EventOrder
  <2> QED  BY <2>1 DEF Order, InboxOrder
<1>7. QueueOrder(c, e, k)  BY <1>2, <1>4 DEF Order, QueueOrder
<1>8. TaskOrder(c, e, k)  BY <1>1, <1>3 DEF TaskOrder, NewRequest
<1>9. CoverOrder(c, q, e)
  <2>1. ASSUME NEW w \in Mods, Waits(e, q, w)  PROVE Waits(d, q, w) /\ h < w
    <3>1. CASE Deferred(e, w)  BY <3>1, <1>2 DEF Waits
    <3>2. CASE Requested(q, w)
      <4>1. PICK i \in 1..Len(q) : q[i].type = "modify" /\ q[i].mod = w  BY <3>2 DEF Requested
      <4>2. EventOrder(c, d, k, q[i])  BY DEF Order, InboxOrder
      <4> QED  BY <4>1, <4>2, <3>2, <1>2 DEF EventOrder, Waits
    <3> QED  BY <2>1, <3>1, <3>2 DEF Waits
  <2>2. ASSUME NEW m, Covered(d, q, m)  PROVE Covered(e, q, m)
    <3>1. CASE Waits(d, q, m)
      <4>1. m \in Mods  BY <3>1, QueueTypes
      <4>2. Waits(e, q, m) \/ m = h  BY <3>1, <4>1, <1>2 DEF Waits
      <4> QED  BY <4>2, <2>1 DEF Covered
    <3>2. CASE \A w \in Mods : Waits(d, q, w) => m < w
      BY <3>2, <2>1 DEF Covered
    <3> QED  BY <2>2, <3>1, <3>2 DEF Covered
  <2> QED  BY <2>2 DEF Order, CoverOrder
<1> QED  BY <1>6, <1>7, <1>8, <1>9 DEF Order

\* runCatchingUpTask
LEMMA RunCatchingUpOrder ==
    ASSUME NEW c, NEW q, NEW d, NEW k, Good(c, q, d, k), Order(c, q, d, k),
           d.catchReq # 0, NEW e,
           e.deferred = SubSeq(d.deferred, Len(Skipped(d)) + 1, Len(d.deferred)),
           e.catchReq = 0, e.last = d.last,
           e.task.kind = "catchup", e.task.mod = d.catchReq
    PROVE  Order(c, q, e, k)
<1>1. PICK x : x = d.catchReq  OBVIOUS
<1>2. x \in Mods /\ x <= c.issued /\ NotAhead(d, k, x)
  <2>1. x \in Mods  BY <1>1, DriveNumbers, ModTypes
  <2>2. x <= c.issued  BY <1>1, DriveNumbers, ModTypes
  <2> QED  BY <1>1, <2>1, <2>2 DEF Order, TaskOrder
<1>3. \A w \in Mods : Requested(q, w) => x < w
  BY <1>1 DEF Requested, Order, InboxOrder, EventOrder
<1>4. Deferred(d, x) \/ \A m \in Mods : Deferred(d, m) => x < m
  <2>1. Covered(d, q, x)  BY <1>1 DEF Order, CoverOrder
  <2> QED  BY <2>1, <1>2, <1>3, ModTypes DEF Covered, Waits
<1>5. /\ Increasing(e.deferred)
      /\ \A m \in Mods : Deferred(e, m) => Deferred(d, m) /\ x < m
      /\ \A m \in Mods : Deferred(d, m) /\ x < m => Deferred(e, m)
  BY <1>1, <1>2, <1>4, QueueTypes, RestDeferred DEF Order, QueueOrder, Skipped
<1>6. ASSUME NEW m \in Mods, NewRequest(c, d, k, m), x < m  PROVE NewRequest(c, e, k, m)
  BY <1>1, <1>6 DEF NewRequest
<1>7. \A m : NotAhead(d, k, m) => NotAhead(e, k, m)  BY DEF NotAhead
<1>8. InboxOrder(c, q, e, k)
  <2>1. ASSUME NEW i \in 1..Len(q)  PROVE EventOrder(c, e, k, q[i])
    <3>1. EventOrder(c, d, k, q[i])  BY DEF Order, InboxOrder
    <3>2. ASSUME q[i].type = "modify"
          PROVE  /\ NewRequest(c, e, k, q[i].mod) /\ e.catchReq < q[i].mod
                 /\ \A m \in Mods : Deferred(e, m) => m < q[i].mod
      <4>1. Requested(q, q[i].mod)  BY <3>2 DEF Requested
      <4>2. q[i].mod \in Mods  BY <4>1, QueueTypes DEF Waits
      <4> QED  BY <3>1, <3>2, <4>2, <1>1, <1>5, <1>6, ModTypes DEF EventOrder
    <3>3. ASSUME q[i].type = "approve"
          PROVE  NotAhead(e, k, q[i].mod) /\ e.catchReq < q[i].mod /\ e.task.mod < q[i].mod
      <4>1. x < q[i].mod /\ q[i].mod \in ModOrZero
        BY <1>1, <3>1, <3>3, QueueTypes DEF EventOrder
      <4>2. 0 < q[i].mod  BY <4>1, <1>2, ModTypes
      <4> QED  BY <3>1, <3>3, <4>1, <4>2, <1>1, <1>7 DEF EventOrder
    <3> QED  BY <3>1, <3>2, <3>3 DEF EventOrder
  <2> QED  BY <2>1 DEF Order, InboxOrder
<1>9. QueueOrder(c, e, k)  BY <1>5, <1>6 DEF Order, QueueOrder
<1>10. TaskOrder(c, e, k)
  BY <1>1, <1>2, <1>7 DEF TaskOrder
<1>11. CoverOrder(c, q, e)
  <2>1. ASSUME NEW w \in Mods, Waits(e, q, w)  PROVE Waits(d, q, w) /\ x < w
    BY <2>1, <1>3, <1>5 DEF Waits
  <2>2. ASSUME NEW m, Covered(d, q, m)  PROVE Covered(e, q, m)
    <3>1. CASE Waits(d, q, m)
      <4>1. m \in Mods  BY <3>1, QueueTypes
      <4>2. Waits(e, q, m) \/ ~(x < m)  BY <3>1, <4>1, <1>3, <1>5 DEF Waits
      <4>3. ~(x < m) => \A w \in Mods : x < w => m < w  BY <4>1, <1>2, ModTypes
      <4> QED  BY <4>2, <4>3, <2>1 DEF Covered
    <3>2. CASE \A w \in Mods : Waits(d, q, w) => m < w
      BY <3>2, <2>1 DEF Covered
    <3> QED  BY <2>2, <3>1, <3>2 DEF Covered
  <2> QED  BY <2>2 DEF Order, CoverOrder
<1> QED  BY <1>8, <1>9, <1>10, <1>11 DEF Order

\* A task that has just been started: its flags are not set and the accounts
\* are not those of its modification yet.
FreshTask(t) ==
    /\ ~t.calculated
    /\ t.step \notin Synchronizing \cup {"saveNot", "saveOpinion", "wait"}

\* Nothing is asked of the flags and the accounts of such a task.
LEMMA FreshOrder ==
    ASSUME NEW t, FreshTask(t)
    PROVE  FlagOrder(t) /\ \A a : AccountOrder(t, a)
  BY DEF FreshTask, FlagOrder, AccountOrder, Synchronizing

\* Whatever runNextTask starts keeps the order.
LEMMA RunNextOrder ==
    ASSUME NEW c, NEW q, NEW d, NEW k, Good(c, q, d, k), Order(c, q, d, k)
    PROVE  Order(c, q, RunNextTask(d), k) /\ FreshTask(RunNextTask(d).task)
<1> DEFINE n == [d EXCEPT !.task = NoTask]
           v == IF n.verifyReq # NoVerification /\ n.last = n.verifyReq
                THEN RunVerificationTask(n) ELSE n
<1>0. d \in Drives /\ DriveInv(c, d)  BY DEF Good, DriveInv, DriveIsApproved
<1>1. NoTask \in Tasks /\ NoTask.kind = "none" /\ NoTask.step = "idle" /\ NoTask.calculated = FALSE
  <2>1. NoTask \in Tasks  BY ModTypes, NewTaskType DEF NoTask, Kinds, Steps
  <2> QED  BY <2>1 DEF NoTask, NewTask
<1>2. /\ n \in Drives /\ n.task = NoTask /\ n.last = d.last /\ n.catchReq = d.catchReq
      /\ n.deferred = d.deferred
  BY <1>0, <1>1 DEF Drives
<1> HIDE DEF n
<1>3. /\ v \in Drives /\ v.task = NoTask /\ v.last = d.last /\ v.catchReq = d.catchReq
      /\ v.deferred = d.deferred
  BY <1>2 DEF Drives, RunVerificationTask
<1> HIDE DEF v
<1>4. ~Applies(NoTask)  BY <1>1 DEF Applies, Synchronizing
<1>5. Calmer(d, n, k) /\ Calmer(d, v, k)
  BY <1>1, <1>2, <1>3, <1>4 DEF Calmer, Updating
<1>6. Order(c, q, n, k) /\ Order(c, q, v, k)  BY <1>5, CalmerKeeps
<1>7. Good(c, q, v, k)
  <2>1. TaskIsApproved(c, NoTask) /\ ApprovalIsOwn(c, NoTask)
    BY <1>1 DEF TaskIsApproved, ApprovalIsOwn, Synchronizing
  <2>2. DriveInv(c, v)  BY <1>0, <1>3, <2>1, StartedKeeps
  <2> QED  BY <2>2 DEF Good
<1>8. FreshTask(NoTask)  BY <1>1 DEF FreshTask, Synchronizing
<1>9. Order(c, q, RunCloseDriveTask(n), k) /\ FreshTask(RunCloseDriveTask(n).task)
  <2> DEFINE t == NewTask("close", 0, "remove")
             r == RunCloseDriveTask(n)
  <2>1. t.kind = "close" /\ t.step = "remove" /\ t.calculated = FALSE  BY DEF NewTask
  <2> HIDE DEF t
  <2>2. r.task = t /\ r.last = n.last /\ r.catchReq = n.catchReq /\ r.deferred = n.deferred
    BY <1>2 DEF t, RunCloseDriveTask, Drives
  <2> HIDE DEF r
  <2>3. Calmer(n, r, k)  BY <2>1, <2>2 DEF Calmer, Updating, Applies, Synchronizing
  <2>4. Order(c, q, r, k)  BY <2>3, <1>6, CalmerKeeps
  <2>5. FreshTask(r.task)  BY <2>1, <2>2 DEF FreshTask, Synchronizing
  <2> QED  BY <2>4, <2>5 DEF r
<1>10. Order(c, q, RunCancelModificationTask(v), k)
       /\ FreshTask(RunCancelModificationTask(v).task)
  <2> DEFINE t == NewTask("cancel", v.cancelReq, "disapprove")
             r == RunCancelModificationTask(v)
  <2>1. t.kind = "cancel" /\ t.step = "disapprove" /\ t.calculated = FALSE  BY DEF NewTask
  <2> HIDE DEF t
  <2>2. r.task = t /\ r.last = v.last /\ r.catchReq = v.catchReq /\ r.deferred = v.deferred
    BY <1>3 DEF t, RunCancelModificationTask, Drives
  <2> HIDE DEF r
  <2>3. Calmer(v, r, k)  BY <2>1, <2>2 DEF Calmer, Updating, Applies, Synchronizing
  <2>4. Order(c, q, r, k)  BY <2>3, <1>6, CalmerKeeps
  <2>5. FreshTask(r.task)  BY <2>1, <2>2 DEF FreshTask, Synchronizing
  <2> QED  BY <2>4, <2>5 DEF r
<1>11. ASSUME v.catchReq = 0, v.deferred # <<>>
       PROVE  Order(c, q, RunModificationTask(v), k) /\ FreshTask(RunModificationTask(v).task)
  <2> DEFINE t == NewTask("modify", Head(v.deferred), "list")
             r == RunModificationTask(v)
  <2>1. t.kind = "modify" /\ t.step = "list" /\ t.calculated = FALSE /\ t.approved = FALSE
        /\ t.mod = Head(v.deferred)
    BY DEF NewTask
  <2> HIDE DEF t
  <2>2. /\ r.task = t /\ r.last = v.last /\ r.catchReq = v.catchReq
        /\ r.deferred = Tail(v.deferred)
    BY <1>3 DEF t, RunModificationTask, Drives
  <2> HIDE DEF r
  <2>3. ~Applies(r.task)  BY <2>1, <2>2 DEF Applies, Synchronizing
  <2>4. Order(c, q, r, k)
    BY <2>1, <2>2, <2>3, <1>6, <1>7, <1>11, RunModificationOrder
  <2>5. FreshTask(r.task)  BY <2>1, <2>2 DEF FreshTask, Synchronizing
  <2> QED  BY <2>4, <2>5 DEF r
<1>12. ASSUME v.catchReq # 0
       PROVE  Order(c, q, RunCatchingUpTask(v), k) /\ FreshTask(RunCatchingUpTask(v).task)
  <2> DEFINE s == CatchUpStep(v, v.catchReq, chain.rootAt[v.catchReq])
             t == NewTask("catchup", v.catchReq, s)
             r == RunCatchingUpTask(v)
  <2>1. t.kind = "catchup" /\ t.step = s /\ t.calculated = FALSE /\ t.mod = v.catchReq
    BY DEF NewTask
  <2>2. s \in {"finish", "sandbox", "tree"}  BY DEF CatchUpStep
  <2> HIDE DEF t, s
  <2>3. /\ r.task = t /\ r.last = v.last /\ r.catchReq = 0
        /\ r.deferred = SubSeq(v.deferred, Len(Skipped(v)) + 1, Len(v.deferred))
    BY <1>3 DEF t, s, RunCatchingUpTask, Drives
  <2> HIDE DEF r
  <2>4. Order(c, q, r, k)
    BY <2>1, <2>3, <1>6, <1>7, <1>12, RunCatchingUpOrder
  <2>5. FreshTask(r.task)  BY <2>1, <2>2, <2>3 DEF FreshTask, Synchronizing
  <2> QED  BY <2>4, <2>5 DEF r
<1>13. \/ RunNextTask(d) \in {RunCloseDriveTask(n), RunCancelModificationTask(v), v}
       \/ n.catchReq # 0 /\ RunNextTask(d) = RunCatchingUpTask(v)
       \/ n.catchReq = 0 /\ n.deferred # <<>> /\ RunNextTask(d) = RunModificationTask(v)
  BY DEF RunNextTask, n, v
<1>14. Order(c, q, v, k) /\ FreshTask(v.task)  BY <1>3, <1>6, <1>8
<1> QED  BY <1>2, <1>3, <1>9, <1>10, <1>11, <1>12, <1>13, <1>14

------------------------------------------------------------------------------
(* Events *)

\* The first event of a queue and the others.
LEMMA FirstEvent ==
    ASSUME NEW q \in Seq(Events), q # <<>>
    PROVE  /\ Head(q) \in Events /\ Tail(q) \in Seq(Events) /\ Len(Tail(q)) \in Nat
           /\ \E j \in 1..Len(q) : q[j] = Head(q)
           /\ \A i \in 1..Len(Tail(q)) : \E j \in 1..Len(q) : q[j] = Tail(q)[i]
           /\ Ordered(q) => /\ Ordered(Tail(q))
                            /\ \A i \in 1..Len(Tail(q)) : PairOrder(Head(q), Tail(q)[i])
           /\ \A m : Requested(q, m) <=>
                       Requested(Tail(q), m) \/ (Head(q).type = "modify" /\ Head(q).mod = m)
<1>h. PICK h, t : h = Head(q) /\ t = Tail(q)  OBVIOUS
<1>1. /\ h \in Events /\ t \in Seq(Events) /\ Len(t) = Len(q) - 1
      /\ \A i \in 1..Len(t) : t[i] = q[i + 1]
  BY <1>h, HeadTailProperties
<1>2. Len(q) \in Nat \ {0} /\ h = q[1]
  <2>1. Len(q) \in Nat \ {0}  BY EmptySeq
  <2> QED  BY <2>1, <1>h
<1>3. 1 \in 1..Len(q) /\ \A i \in 1..Len(t) : i + 1 \in 1..Len(q) /\ 1 < i + 1
  BY <1>1, <1>2
<1>4. \A i \in 1..Len(t) : \E j \in 1..Len(q) : q[j] = t[i]  BY <1>1, <1>3
<1>5. ASSUME Ordered(q)  PROVE Ordered(t)
  <2> SUFFICES ASSUME NEW i \in 1..Len(t), NEW j \in 1..Len(t), i < j
               PROVE  PairOrder(t[i], t[j])
    BY DEF Ordered
  <2>1. i + 1 < j + 1  BY <1>1, <1>2
  <2> QED  BY <2>1, <1>1, <1>3, <1>5 DEF Ordered
<1>6. ASSUME Ordered(q), NEW i \in 1..Len(t)  PROVE PairOrder(h, t[i])
  BY <1>1, <1>2, <1>3, <1>6 DEF Ordered
<1>7. ASSUME NEW m
      PROVE  Requested(q, m) <=> Requested(t, m) \/ (h.type = "modify" /\ h.mod = m)
  <2>1. Requested(t, m) => Requested(q, m)  BY <1>1, <1>3 DEF Requested
  <2>2. h.type = "modify" /\ h.mod = m => Requested(q, m)  BY <1>2, <1>3 DEF Requested
  <2>3. ASSUME Requested(q, m)  PROVE Requested(t, m) \/ (h.type = "modify" /\ h.mod = m)
    <3>1. PICK i \in 1..Len(q) : q[i].type = "modify" /\ q[i].mod = m
      BY <2>3 DEF Requested
    <3>2. CASE i = 1  BY <3>1, <3>2, <1>2
    <3>3. CASE i # 1
      <4>1. PICK j : j = i - 1  OBVIOUS
      <4>2. j \in 1..Len(t) /\ j + 1 = i  BY <3>3, <4>1, <1>1, <1>2
      <4>3. t[j] = q[i]  BY <4>2, <1>1
      <4> QED  BY <4>2, <4>3, <3>1 DEF Requested
    <3> QED  BY <3>2, <3>3
  <2> QED  BY <2>1, <2>2, <2>3
<1>8. Len(t) \in Nat  BY <1>1, <1>2
<1>9. \E j \in 1..Len(q) : q[j] = h  BY <1>2, <1>3
<1> QED  BY <1>h, <1>1, <1>4, <1>5, <1>6, <1>7, <1>8, <1>9, Zenon

\* An event other than a request is taken.
LEMMA TakeOrder ==
    ASSUME NEW c, NEW q, NEW d, NEW k, q \in Seq(Events), Order(c, q, d, k), q # <<>>,
           NEW h, h = Head(q), NEW t, t = Tail(q), h.type # "modify"
    PROVE  /\ Order(c, t, d, k)
           /\ EventOrder(c, d, k, h)
           /\ \A i \in 1..Len(t) : PairOrder(h, t[i])
           /\ h.type = "approve" => Covered(d, t, h.mod)
<1>a. q \in Seq(Events) /\ q # <<>> /\ h = Head(q) /\ t = Tail(q) /\ Ordered(q)
  BY DEF Order, InboxOrder
<1>f. /\ Head(q) \in Events /\ Tail(q) \in Seq(Events) /\ Len(Tail(q)) \in Nat
      /\ \E j \in 1..Len(q) : q[j] = Head(q)
      /\ \A i \in 1..Len(Tail(q)) : \E j \in 1..Len(q) : q[j] = Tail(q)[i]
      /\ Ordered(q) => /\ Ordered(Tail(q))
                       /\ \A i \in 1..Len(Tail(q)) : PairOrder(Head(q), Tail(q)[i])
      /\ \A m : Requested(q, m) <=>
                  Requested(Tail(q), m) \/ (Head(q).type = "modify" /\ Head(q).mod = m)
  BY ONLY <1>a, FirstEvent, Zenon
<1>b. /\ h \in Events /\ t \in Seq(Events) /\ Len(t) \in Nat
      /\ \E j \in 1..Len(q) : q[j] = h
      /\ \A i \in 1..Len(t) : \E j \in 1..Len(q) : q[j] = t[i]
      /\ Ordered(q) => Ordered(t) /\ \A i \in 1..Len(t) : PairOrder(h, t[i])
      /\ \A m : Requested(q, m) <=> Requested(t, m) \/ (h.type = "modify" /\ h.mod = m)
  BY ONLY <1>a, <1>f, Zenon
<1>1. /\ \E j \in 1..Len(q) : q[j] = h
      /\ \A i \in 1..Len(t) : \E j \in 1..Len(q) : q[j] = t[i]
      /\ Ordered(t) /\ \A i \in 1..Len(t) : PairOrder(h, t[i])
      /\ \A m : Requested(q, m) <=> Requested(t, m)
  BY <1>a, <1>b
<1>2. \A m : Covered(d, q, m) => Covered(d, t, m)  BY <1>1 DEF Covered, Waits
<1>3. InboxOrder(c, t, d, k)  BY <1>1 DEF Order, InboxOrder
<1>4. CoverOrder(c, t, d)
  <2>1. \A i \in 1..Len(t) : t[i].type = "approve" => Covered(d, t, t[i].mod)
    BY <1>1, <1>2 DEF Order, CoverOrder
  <2> QED  BY <2>1, <1>2 DEF Order, CoverOrder
<1>5. EventOrder(c, d, k, h)  BY <1>1 DEF Order, InboxOrder
<1>6. h.type = "approve" => Covered(d, t, h.mod)  BY <1>1, <1>2 DEF Order, CoverOrder
<1> QED  BY <1>1, <1>3, <1>4, <1>5, <1>6 DEF Order

\* A request that is taken goes to the end of the queue of the drive.
LEMMA RequestOrder ==
    ASSUME NEW c, NEW q, NEW d, NEW k, Good(c, q, d, k), Order(c, q, d, k), q # <<>>,
           NEW h, h = Head(q), NEW t, t = Tail(q), h.type = "modify",
           NEW e, e.deferred = Append(d.deferred, h.mod), e.catchReq = d.catchReq,
           e.last = d.last, e.task = d.task
    PROVE  Order(c, t, e, k)
<1>0. q \in Seq(Events) /\ d.deferred \in Seq(Mods) /\ Len(d.deferred) \in Nat
      /\ \A i \in 1..Len(d.deferred) : d.deferred[i] \in Mods
  BY QueueTypes
<1>a. q \in Seq(Events) /\ q # <<>> /\ h = Head(q) /\ t = Tail(q) /\ Ordered(q)
  BY <1>0 DEF Order, InboxOrder
<1>f. /\ Head(q) \in Events /\ Tail(q) \in Seq(Events) /\ Len(Tail(q)) \in Nat
      /\ \E j \in 1..Len(q) : q[j] = Head(q)
      /\ \A i \in 1..Len(Tail(q)) : \E j \in 1..Len(q) : q[j] = Tail(q)[i]
      /\ Ordered(q) => /\ Ordered(Tail(q))
                       /\ \A i \in 1..Len(Tail(q)) : PairOrder(Head(q), Tail(q)[i])
      /\ \A m : Requested(q, m) <=>
                  Requested(Tail(q), m) \/ (Head(q).type = "modify" /\ Head(q).mod = m)
  BY ONLY <1>a, FirstEvent, Zenon
<1>b. /\ h \in Events /\ t \in Seq(Events) /\ Len(t) \in Nat
      /\ \E j \in 1..Len(q) : q[j] = h
      /\ \A i \in 1..Len(t) : \E j \in 1..Len(q) : q[j] = t[i]
      /\ Ordered(q) => Ordered(t) /\ \A i \in 1..Len(t) : PairOrder(h, t[i])
      /\ \A m : Requested(q, m) <=> Requested(t, m) \/ (h.type = "modify" /\ h.mod = m)
  BY ONLY <1>a, <1>f, Zenon
<1>1. /\ \E j \in 1..Len(q) : q[j] = h
      /\ \A i \in 1..Len(t) : \E j \in 1..Len(q) : q[j] = t[i]
      /\ Ordered(t) /\ \A i \in 1..Len(t) : PairOrder(h, t[i])
      /\ \A m : Requested(q, m) <=> Requested(t, m) \/ h.mod = m
  BY <1>a, <1>b
<1>2. PICK x : x = h.mod  OBVIOUS
<1>3. x \in Mods
  <2>1. Waits(d, q, x)  BY <1>1, <1>2 DEF Waits
  <2> QED  BY <2>1, QueueTypes
<1>4. /\ NewRequest(c, d, k, x) /\ d.catchReq < x
      /\ \A m \in Mods : Deferred(d, m) => m < x
  BY <1>1, <1>2 DEF Order, InboxOrder, EventOrder
<1>5. /\ Len(e.deferred) = Len(d.deferred) + 1
      /\ \A i \in 1..Len(d.deferred) : e.deferred[i] = d.deferred[i]
      /\ e.deferred[Len(d.deferred) + 1] = x
  BY <1>0, <1>2, <1>3, AppendProperties
<1>6. \A m \in Mods : Deferred(e, m) <=> Deferred(d, m) \/ m = x
  BY <1>0, <1>5 DEF Deferred
<1>7. Increasing(e.deferred)
  <2> SUFFICES ASSUME NEW i \in 1..Len(e.deferred), NEW j \in 1..Len(e.deferred), i < j
               PROVE  e.deferred[i] < e.deferred[j]
    BY DEF Increasing
  <2>1. i \in 1..Len(d.deferred)  BY <1>0, <1>5
  <2>2. CASE j \in 1..Len(d.deferred)
    BY <2>1, <2>2, <1>5 DEF Order, QueueOrder, Increasing
  <2>3. CASE j = Len(d.deferred) + 1
    <3>1. d.deferred[i] \in Mods /\ Deferred(d, d.deferred[i])
      BY <2>1, <1>0 DEF Deferred
    <3> QED  BY <3>1, <2>1, <2>3, <1>4, <1>5
  <2> QED  BY <2>2, <2>3, <1>0, <1>5
<1>8. /\ \A m : NewRequest(c, d, k, m) => NewRequest(c, e, k, m)
      /\ \A m : NotAhead(d, k, m) => NotAhead(e, k, m)
  BY DEF NewRequest, NotAhead
<1>9. InboxOrder(c, t, e, k)
  <2>1. ASSUME NEW i \in 1..Len(t)  PROVE EventOrder(c, e, k, t[i])
    <3>1. EventOrder(c, d, k, t[i])  BY <1>1 DEF Order, InboxOrder
    <3>2. t[i].type = "modify" => x < t[i].mod  BY <1>1, <1>2 DEF PairOrder
    <3> QED  BY <3>1, <3>2, <1>6, <1>8 DEF EventOrder
  <2> QED  BY <2>1, <1>1 DEF InboxOrder
<1>10. QueueOrder(c, e, k)
  BY <1>4, <1>6, <1>7, <1>8 DEF Order, QueueOrder
<1>11. TaskOrder(c, e, k)  BY <1>8 DEF Order, TaskOrder
<1>12. CoverOrder(c, t, e)
  <2>1. \A m \in Mods : Waits(e, t, m) <=> Waits(d, q, m)
    BY <1>1, <1>2, <1>6 DEF Waits
  <2>2. ASSUME NEW m, Covered(d, q, m)  PROVE Covered(e, t, m)
    <3>1. Waits(d, q, m) => m \in Mods  BY QueueTypes
    <3> QED  BY <2>1, <2>2, <3>1 DEF Covered
  <2>3. \A i \in 1..Len(t) : t[i].type = "approve" => Covered(e, t, t[i].mod)
    BY <1>1, <2>2 DEF Order, CoverOrder
  <2> QED  BY <2>2, <2>3 DEF Order, CoverOrder
<1> QED  BY <1>9, <1>10, <1>11, <1>12 DEF Order

\* An event x is posted.
LEMMA PostOrder ==
    ASSUME NEW c, NEW b, NEW q, NEW d, NEW k, q \in Seq(Events), Order(c, q, d, k),
           NEW x \in Events, NEW r, r = Append(q, x),
           c.issued <= b.issued, c.issued \in Int, b.issued \in Int,
           d.task.mod \in Int, \A m \in Mods : m \in Int,
           \A i \in 1..Len(q) : q[i].type = "modify" => q[i].mod \in Mods,
           c.cancelled \subseteq b.cancelled,
           EventOrder(b, d, k, x), \A i \in 1..Len(q) : PairOrder(q[i], x),
           \A i \in 1..Len(b.pending) : Covered(d, r, b.pending[i]),
           x.type = "approve" => Covered(d, r, x.mod),
           x.type = "modify" => /\ d.catchReq # 0 => d.catchReq < x.mod
                                /\ \A i \in 1..Len(q) : q[i].type = "approve" => q[i].mod < x.mod
    PROVE  Order(b, r, d, k)
<1>1. /\ Len(r) = Len(q) + 1 /\ Len(q) \in Nat
      /\ \A i \in 1..Len(q) : r[i] = q[i]
      /\ r[Len(q) + 1] = x
  BY AppendProperties, LenProperties
<1>2. \A i \in 1..Len(r) : i \in 1..Len(q) \/ i = Len(q) + 1  BY <1>1
<1>3. \A i \in 1..Len(q) : i \in 1..Len(r)  BY <1>1
<1>4. \A m \in Mods : NewRequest(c, d, k, m) => NewRequest(b, d, k, m)
  BY DEF NewRequest
<1>5. InboxOrder(b, r, d, k)
  <2>1. Ordered(r)
    <3> SUFFICES ASSUME NEW i \in 1..Len(r), NEW j \in 1..Len(r), i < j
                 PROVE  PairOrder(r[i], r[j])
      BY DEF Ordered
    <3>1. i \in 1..Len(q)  BY <1>1
    <3>2. CASE j \in 1..Len(q)  BY <3>1, <3>2, <1>1 DEF Order, InboxOrder, Ordered
    <3>3. CASE j = Len(q) + 1  BY <3>1, <3>3, <1>1
    <3> QED  BY <3>2, <3>3, <1>2
  <2>2. ASSUME NEW i \in 1..Len(r)  PROVE EventOrder(b, d, k, r[i])
    <3>1. CASE i \in 1..Len(q)
      <4>1. EventOrder(c, d, k, q[i])  BY <3>1 DEF Order, InboxOrder
      <4>2. EventOrder(b, d, k, q[i])  BY <4>1, <3>1, <1>4 DEF EventOrder
      <4> QED  BY <4>2, <3>1, <1>1
    <3>2. CASE i = Len(q) + 1  BY <3>2, <1>1
    <3> QED  BY <3>1, <3>2, <1>2
  <2> QED  BY <2>1, <2>2 DEF InboxOrder
<1>6. QueueOrder(b, d, k)  BY <1>4 DEF Order, QueueOrder
<1>7. TaskOrder(b, d, k)  BY DEF Order, TaskOrder
<1>8. CoverOrder(b, r, d)
  <2>1. \A m : Requested(r, m) <=> Requested(q, m) \/ (x.type = "modify" /\ x.mod = m)
    <3>1. 1..Len(r) = 1..Len(q) \cup {Len(q) + 1}  BY <1>1
    <3> QED  BY <3>1, <1>1 DEF Requested
  <2>2. ASSUME NEW m, Covered(d, q, m), x.type = "modify" => m < x.mod
        PROVE  Covered(d, r, m)
    BY <2>1, <2>2 DEF Covered, Waits
  <2>3. ASSUME NEW i \in 1..Len(r), r[i].type = "approve"  PROVE Covered(d, r, r[i].mod)
    <3>1. CASE i \in 1..Len(q)
      <4>1. Covered(d, q, q[i].mod)  BY <3>1, <2>3, <1>1 DEF Order, CoverOrder
      <4> QED  BY <4>1, <3>1, <2>2, <2>3, <1>1
    <3>2. CASE i = Len(q) + 1  BY <3>2, <2>3, <1>1
    <3> QED  BY <3>1, <3>2, <1>2
  <2>4. d.catchReq # 0 => Covered(d, r, d.catchReq)  BY <2>2 DEF Order, CoverOrder
  <2> QED  BY <2>3, <2>4 DEF CoverOrder
<1> QED  BY <1>5, <1>6, <1>7, <1>8 DEF Order

------------------------------------------------------------------------------
(* Steps of the tasks *)

\* The second half of this invariant.
Tidy == /\ Order(chain, inbox, drive, disk)
        /\ FlagOrder(drive.task)
        /\ AccountOrder(drive.task, acct)
        /\ DownOrder(up, inbox, drive)
        /\ SavedIsApproved(chain, disk)

\* What the invariant says of the current state.
LEMMA SafeGood ==
    ASSUME Safe
    PROVE  /\ Good(chain, inbox, drive, disk)
           /\ drive \in Drives /\ drive.task \in Tasks
           /\ Tidy
  BY DEF Safe, Tidy, IInv, Good, DriveInv, DriveIsApproved, Drives

\* The order is about two of the files only.
LEMMA SameFiles ==
    ASSUME NEW c, NEW q, NEW d, NEW k, NEW l, Order(c, q, d, k),
           l.last = k.last, l.approved.id = k.approved.id
    PROVE  Order(c, q, d, l)
  BY DEF Order, InboxOrder, QueueOrder, TaskOrder, EventOrder, NewRequest, NotAhead

\* Drive e is drive d with its task at another step.
SameTask(d, e) ==
    /\ e.deferred = d.deferred /\ e.catchReq = d.catchReq /\ e.last = d.last
    /\ e.task.kind = d.task.kind /\ e.task.mod = d.task.mod
    /\ e.task.interrupted = d.task.interrupted /\ e.task.approved = d.task.approved

\* Such a drive is not ahead of d, unless the step starts to replace files.
LEMMA SameTaskCalmer ==
    ASSUME NEW d, NEW e, SameTask(d, e), d.task.step # "finish",
           e.task.step \in Synchronizing => Applies(d.task)
    PROVE  \A k : Calmer(d, e, k)
  BY DEF SameTask, Calmer, Applies

\* What is left to show of a step of a task.
LEMMA StepOrder ==
    ASSUME Safe, chain' = chain, inbox' = inbox, up = "up", up' = up,
           Order(chain, inbox, drive', disk'), FlagOrder(drive'.task),
           AccountOrder(drive'.task, acct'), SavedIsApproved(chain, disk')
    PROVE  Tidy'
  BY DEF Tidy, DownOrder

\* A step far from replacing the drive, or the end of a task.
LEMMA PlainOrder ==
    ASSUME Safe, chain' = chain, inbox' = inbox, up = "up", up' = up,
           SameTask(drive, drive'), drive'.task.calculated = drive.task.calculated,
           drive.task.step \notin {"finish", "wait"},
           drive'.task.step \notin Synchronizing \cup {"saveNot", "saveOpinion", "wait"},
           disk'.last = disk.last, disk'.approved = disk.approved
    PROVE  Tidy'
<1>1. Order(chain, inbox, drive', disk')
  BY SafeGood, SameTaskCalmer, CalmerKeeps, SameFiles DEF Tidy
<1>2. FlagOrder(drive'.task)  BY SafeGood DEF Tidy, FlagOrder, SameTask
<1>3. AccountOrder(drive'.task, acct')  BY DEF AccountOrder, Synchronizing
<1>4. SavedIsApproved(chain, disk')  BY SafeGood DEF Tidy, SavedIsApproved
<1> QED  BY <1>1, <1>2, <1>3, <1>4, StepOrder

\* How the helpers change a task.
LEMMA TaskChanges ==
    ASSUME NEW d \in Drives, NEW s
    PROVE  /\ SameTask(d, FinishTask(d)) /\ FinishTask(d).task.step = "finish"
           /\ FinishTask(d).task.calculated = d.task.calculated
           /\ SameTask(d, CompletedWithError(d)) /\ CompletedWithError(d).task.step = "copy"
           /\ CompletedWithError(d).task.calculated = d.task.calculated
           /\ SameTask(d, [d EXCEPT !.task.step = s])
           /\ [d EXCEPT !.task.step = s].task.step = s
           /\ [d EXCEPT !.task.step = s].task.calculated = d.task.calculated
<1>1. /\ SameTask(d, FinishTask(d)) /\ FinishTask(d).task.step = "finish"
      /\ FinishTask(d).task.calculated = d.task.calculated
  BY DEF SameTask, FinishTask, Drives, Tasks
<1>2. /\ SameTask(d, CompletedWithError(d)) /\ CompletedWithError(d).task.step = "copy"
      /\ CompletedWithError(d).task.calculated = d.task.calculated
  BY DEF SameTask, CompletedWithError, Drives, Tasks
<1>3. /\ SameTask(d, [d EXCEPT !.task.step = s])
      /\ [d EXCEPT !.task.step = s].task.step = s
      /\ [d EXCEPT !.task.step = s].task.calculated = d.task.calculated
  BY DEF SameTask, Drives, Tasks
<1> QED  BY <1>1, <1>2, <1>3

\* A download ends, or a job that writes nothing a restart reads.
LEMMA PlainStepOrder ==
    Safe /\ (ActionListDownloaded \/ PrepareDownloadMissingFiles \/ MissingFilesDownloaded
             \/ FsTreeDownloaded \/ RemoveUnusedFiles \/ CatchUpFilesDownloaded \/ ClearDrive)
    => Tidy'
<1> SUFFICES ASSUME Safe, \/ ActionListDownloaded \/ PrepareDownloadMissingFiles
                          \/ MissingFilesDownloaded \/ FsTreeDownloaded \/ RemoveUnusedFiles
                          \/ CatchUpFilesDownloaded \/ ClearDrive
             PROVE  Tidy'
  OBVIOUS
<1>1. /\ chain' = chain /\ inbox' = inbox /\ acct' = acct /\ disk' = disk
      /\ up = "up" /\ up' = up
  BY DEF ActionListDownloaded, PrepareDownloadMissingFiles, MissingFilesDownloaded, At,
         FsTreeDownloaded, RemoveUnusedFiles, CatchUpFilesDownloaded, ClearDrive, environment
<1>2. drive.task.step \in {"list", "prep", "files", "tree", "unused", "clear"}
  BY DEF ActionListDownloaded, PrepareDownloadMissingFiles, MissingFilesDownloaded, At,
         FsTreeDownloaded, RemoveUnusedFiles, CatchUpFilesDownloaded, ClearDrive
<1>3. \/ \E s \in {"files", "sandbox", "unused"} : drive' = [drive EXCEPT !.task.step = s]
      \/ drive' = [drive EXCEPT !.task.step = "prep", !.task.listed = TRUE]
      \/ drive' \in {CompletedWithError(drive), FinishTask(drive)}
  BY DEF ActionListDownloaded, PrepareDownloadMissingFiles, MissingFilesDownloaded,
         FsTreeDownloaded, RemoveUnusedFiles, CatchUpFilesDownloaded, ClearDrive
<1>4. drive \in Drives  BY SafeGood
<1>5. /\ SameTask(drive, drive') /\ drive'.task.calculated = drive.task.calculated
      /\ drive'.task.step \in {"files", "sandbox", "unused", "prep", "copy", "finish"}
  <2>1. CASE \E s \in {"files", "sandbox", "unused"} : drive' = [drive EXCEPT !.task.step = s]
    BY <2>1, <1>4, TaskChanges
  <2>2. CASE drive' = [drive EXCEPT !.task.step = "prep", !.task.listed = TRUE]
    BY <2>2, <1>4 DEF SameTask, Drives, Tasks
  <2>3. CASE drive' \in {CompletedWithError(drive), FinishTask(drive)}
    BY <2>3, <1>4, TaskChanges
  <2> QED  BY <1>3, <2>1, <2>2, <2>3
<1> QED  BY <1>1, <1>2, <1>5, PlainOrder DEF Synchronizing

\* myRootHashIsCalculated: from now on the accounts are those of the task.
LEMMA RootHashOrder ==
    ASSUME Safe, NEW r, NEW n, MyRootHashIsCalculated(r, n), chain' = chain, inbox' = inbox,
           up = "up", up' = up, disk' = disk, drive.task.step \in {"sandbox", "copy"}
    PROVE  Tidy'
<1>1. drive \in Drives /\ AccountShape(acct)  BY SafeGood DEF Safe, IInv
<1>2. CASE drive.task.interrupted
  <2>1. drive' = FinishTask(drive)  BY <1>2 DEF MyRootHashIsCalculated
  <2>2. /\ SameTask(drive, drive') /\ drive'.task.calculated = drive.task.calculated
        /\ drive'.task.step = "finish"
    BY <2>1, <1>1, TaskChanges
  <2> QED  BY <2>2, PlainOrder DEF Synchronizing
<1>3. CASE ~drive.task.interrupted
  <2>1. /\ drive' = [drive EXCEPT !.task.root = r, !.task.step = "saveNot"]
        /\ acct' = UpdateUploads(acct, drive.task.mod, n)
    BY <1>3 DEF MyRootHashIsCalculated
  <2>2. /\ SameTask(drive, drive') /\ drive'.task.calculated = drive.task.calculated
        /\ drive'.task.step = "saveNot"
    BY <2>1, <1>1 DEF SameTask, Drives, Tasks
  <2>3. acct'.notApproved.id = drive.task.mod
    BY <2>1, <1>1 DEF UpdateUploads, AccountShape
  <2>4. Order(chain, inbox, drive', disk')
    BY <2>2, SafeGood, SameTaskCalmer, CalmerKeeps DEF Tidy, Synchronizing
  <2>5. FlagOrder(drive'.task)
    BY <2>2, SafeGood DEF Tidy, FlagOrder, SameTask, Synchronizing
  <2>6. AccountOrder(drive'.task, acct')  BY <2>2, <2>3 DEF AccountOrder, SameTask
  <2>7. SavedIsApproved(chain, disk')  BY SafeGood DEF Tidy
  <2> QED  BY <2>4, <2>5, <2>6, <2>7, StepOrder
<1> QED  BY <1>2, <1>3

\* The three ways to a sandbox tree.
LEMMA SandboxOrder ==
    Safe /\ (ModifyFsTreeInSandbox \/ CopyFsTreeAfterError \/ ModifyDriveInSandbox) => Tidy'
<1> SUFFICES ASSUME Safe, \/ ModifyFsTreeInSandbox \/ CopyFsTreeAfterError
                          \/ ModifyDriveInSandbox
             PROVE  Tidy'
  OBVIOUS
<1>1. /\ chain' = chain /\ inbox' = inbox /\ disk' = disk /\ up = "up" /\ up' = up
      /\ drive.task.step \in {"sandbox", "copy"}
  BY DEF ModifyFsTreeInSandbox, CopyFsTreeAfterError, ModifyDriveInSandbox, environment, At
<1>2. \/ \E r, n : MyRootHashIsCalculated(r, n)
      \/ drive' = CompletedWithError(drive)
  BY DEF ModifyFsTreeInSandbox, CopyFsTreeAfterError, ModifyDriveInSandbox
<1>3. CASE \E r, n : MyRootHashIsCalculated(r, n)  BY <1>1, <1>3, RootHashOrder
<1>4. CASE drive' = CompletedWithError(drive)
  <2>1. /\ SameTask(drive, drive') /\ drive'.task.calculated = drive.task.calculated
        /\ drive'.task.step = "copy"
    BY <1>4, SafeGood, TaskChanges
  <2> QED  BY <1>1, <2>1, PlainOrder DEF Synchronizing
<1> QED  BY <1>2, <1>3, <1>4

\* A task that applies its modification brings the drive and its files nearer
\* to it, never further.
LEMMA ApplyOrder ==
    ASSUME NEW c, NEW q, NEW d, NEW e, NEW k, NEW l, Good(c, q, d, k), Order(c, q, d, k),
           Applies(d.task), d.task.kind \in Updating,
           e.deferred = d.deferred, e.catchReq = d.catchReq,
           e.task.kind = d.task.kind, e.task.mod = d.task.mod,
           e.task.interrupted = d.task.interrupted,
           e.last \in {d.last, d.task.mod}, l.last \in {k.last, d.task.mod},
           l.approved.id \in {k.approved.id, d.task.mod},
           d.task.step # "finish", e.task.step # "finish" => e.last = d.last
    PROVE  Order(c, q, e, l)
<1>0. /\ NotAhead(d, k, d.task.mod)
      /\ d.catchReq # 0 => d.task.mod <= d.catchReq
      /\ d.catchReq # 0 => NotAhead(d, k, d.catchReq)
      /\ d.task.mod <= c.issued
  BY DEF Order, TaskOrder
<1>1. /\ \A m : Deferred(e, m) <=> Deferred(d, m)
      /\ \A m : Waits(e, q, m) <=> Waits(d, q, m)
      /\ \A m : Covered(e, q, m) <=> Covered(d, q, m)
  BY DEF Deferred, Waits, Covered
<1>2. \A m : NewRequest(c, d, k, m) => NewRequest(c, e, l, m)
  BY DEF NewRequest
<1>3. /\ \A m : NotAhead(d, k, m) /\ d.task.mod <= m => NotAhead(e, l, m)
      /\ \A m : NotAhead(d, k, m) /\ d.task.mod < m /\ m \in ModOrZero => NotAhead(e, l, m)
  <2>1. \A m : NotAhead(d, k, m) /\ d.task.mod <= m => NotAhead(e, l, m)
    BY DEF NotAhead
  <2>2. \A m \in ModOrZero : d.task.mod < m => d.task.mod <= m
    BY DriveNumbers, ModTypes
  <2> QED  BY <2>1, <2>2
<1>4. InboxOrder(c, q, e, l)
  <2>1. ASSUME NEW i \in 1..Len(q)  PROVE EventOrder(c, e, l, q[i])
    <3>1. EventOrder(c, d, k, q[i])  BY DEF Order, InboxOrder
    <3>2. q[i].mod \in ModOrZero  BY QueueTypes
    <3> QED  BY <3>1, <3>2, <1>1, <1>2, <1>3 DEF EventOrder
  <2> QED  BY <2>1 DEF Order, InboxOrder
<1>5. QueueOrder(c, e, l)  BY <1>1, <1>2 DEF Order, QueueOrder
<1>6. TaskOrder(c, e, l)
  <2>1. d.task.mod <= d.task.mod  BY DriveNumbers, ModTypes
  <2>2. NotAhead(e, l, e.task.mod)  BY <1>0, <1>3, <2>1
  <2>3. e.catchReq # 0 => NotAhead(e, l, e.catchReq)  BY <1>0, <1>3
  <2>4. e.task.kind = "modify" /\ ~e.task.interrupted => e.catchReq = 0
    BY DEF Order, TaskOrder
  <2>5. e.task.kind = "modify" /\ e.task.step # "finish" => e.last < e.task.mod
    BY DEF Order, TaskOrder
  <2> QED  BY <1>0, <2>2, <2>3, <2>4, <2>5 DEF TaskOrder
<1>7. CoverOrder(c, q, e)  BY <1>1 DEF Order, CoverOrder
<1> QED  BY <1>4, <1>5, <1>6, <1>7 DEF Order

\* The uploads are saved, those of the task or those of a disapproved one.
LEMMA SaveStepOrder == Safe /\ (SaveNotApproved \/ SaveDisapproved) => Tidy'
<1> SUFFICES ASSUME Safe, SaveNotApproved \/ SaveDisapproved  PROVE Tidy'
  OBVIOUS
<1>1. /\ chain' = chain /\ inbox' = inbox /\ acct' = acct /\ up = "up" /\ up' = up
      /\ disk' = [disk EXCEPT !.notApproved = acct.notApproved]
  BY DEF SaveNotApproved, SaveDisapproved, environment, At
<1>2. drive \in Drives /\ DiskInv(chain, disk)  BY SafeGood DEF Good
<1>3. disk'.last = disk.last /\ disk'.approved = disk.approved
  BY <1>1, <1>2 DEF DiskInv
<1>4. CASE SaveDisapproved \/ (SaveNotApproved /\ drive.task.interrupted)
  <2>1. drive.task.step \in {"disapprove", "saveNot"}
        /\ \/ drive' = FinishTask(drive)
           \/ drive' = [drive EXCEPT !.task.step = "clear"]
    BY <1>4 DEF SaveNotApproved, SaveDisapproved, At
  <2>2. /\ SameTask(drive, drive') /\ drive'.task.calculated = drive.task.calculated
        /\ drive'.task.step \in {"finish", "clear"}
    <3>1. CASE drive' = FinishTask(drive)  BY <3>1, <1>2, TaskChanges
    <3>2. CASE drive' = [drive EXCEPT !.task.step = "clear"]
      BY <3>2, <1>2 DEF SameTask, Drives, Tasks
    <3> QED  BY <2>1, <3>1, <3>2
  <2> QED  BY <1>1, <1>3, <2>1, <2>2, PlainOrder DEF Synchronizing
<1>5. CASE SaveNotApproved /\ ~drive.task.interrupted
  <2>1. drive' = [drive EXCEPT !.task.step = "saveOpinion"] /\ drive.task.step = "saveNot"
        /\ drive.task.kind \in Updating
    BY <1>5 DEF SaveNotApproved, At
  <2>2. /\ SameTask(drive, drive') /\ drive'.task.calculated = drive.task.calculated
        /\ drive'.task.step = "saveOpinion"
    BY <2>1, <1>2 DEF SameTask, Drives, Tasks
  <2>3. Order(chain, inbox, drive', disk')
    <3>1. Calmer(drive, drive', disk)
      BY <2>1, <2>2, SameTaskCalmer DEF Synchronizing
    <3>2. Order(chain, inbox, drive', disk)  BY <3>1, SafeGood, CalmerKeeps DEF Tidy
    <3> QED  BY <3>2, <1>3, SameFiles
  <2>4. FlagOrder(drive'.task)
    BY <2>1, <2>2, SafeGood DEF Tidy, FlagOrder, SameTask, Synchronizing
  <2>5. AccountOrder(drive'.task, acct')
    BY <1>1, <2>1, <2>2, SafeGood DEF Tidy, AccountOrder, SameTask
  <2>6. SavedIsApproved(chain, disk')  BY <1>3, SafeGood DEF Tidy, SavedIsApproved
  <2> QED  BY <1>1, <2>3, <2>4, <2>5, <2>6, StepOrder
<1> QED  BY <1>4, <1>5

\* The opinion is saved; only after its own approval does the task go on.
LEMMA OpinionOrder == Safe /\ (MyOpinionIsCreated \/ CatchUpOpinionIsCreated) => Tidy'
<1> SUFFICES ASSUME Safe, MyOpinionIsCreated \/ CatchUpOpinionIsCreated  PROVE Tidy'
  OBVIOUS
<1>1. /\ chain' = chain /\ inbox' = inbox /\ acct' = acct /\ up = "up" /\ up' = up
      /\ disk' = [disk EXCEPT !.opinion = acct.notApproved]
      /\ drive.task.step = "saveOpinion" /\ drive.task.kind \in Updating
  BY DEF MyOpinionIsCreated, CatchUpOpinionIsCreated, environment, At, Updating
<1>2. drive \in Drives /\ DiskInv(chain, disk)  BY SafeGood DEF Good
<1>3. disk'.last = disk.last /\ disk'.approved = disk.approved
  BY <1>1, <1>2 DEF DiskInv
<1>4. CASE drive' = FinishTask(drive)
  <2>2. /\ SameTask(drive, drive') /\ drive'.task.calculated = drive.task.calculated
        /\ drive'.task.step = "finish"
    BY <1>4, <1>2, TaskChanges
  <2> QED  BY <1>1, <1>3, <2>2, PlainOrder DEF Synchronizing
<1>5. CASE drive' # FinishTask(drive)
  <2>1. \/ drive' = [drive EXCEPT !.task.calculated = TRUE, !.task.step = "wait"]
        \/ drive' = [drive EXCEPT !.task.calculated = TRUE, !.task.step = "sync"]
    BY <1>5 DEF MyOpinionIsCreated, CatchUpOpinionIsCreated
  <2>2. drive' = [drive EXCEPT !.task.calculated = TRUE, !.task.step = "sync"]
           => \/ drive.task.kind = "catchup"
              \/ drive.task.kind = "modify" /\ drive.task.approved /\ ~drive.task.interrupted
    <3>1. CASE CatchUpOpinionIsCreated  BY <3>1 DEF CatchUpOpinionIsCreated, At
    <3>2. CASE MyOpinionIsCreated
      <4> DEFINE w == [drive EXCEPT !.task.calculated = TRUE, !.task.step = "wait"]
                 y == [drive EXCEPT !.task.calculated = TRUE, !.task.step = "sync"]
      <4>1. w.task.step = "wait" /\ y.task.step = "sync"  BY <1>2 DEF Drives, Tasks
      <4>2. drive.task.kind = "modify" /\ ~drive.task.interrupted
            /\ (~drive.task.approved => drive' = w)
        BY <3>2, <1>5 DEF MyOpinionIsCreated, At
      <4> HIDE DEF w, y
      <4> QED  BY <4>1, <4>2 DEF y
    <3> QED  BY <3>1, <3>2
  <2>3. SameTask(drive, drive') /\ drive'.task.step \in {"wait", "sync"}
    <3>1. CASE drive' = [drive EXCEPT !.task.calculated = TRUE, !.task.step = "wait"]
      BY <3>1, <1>2 DEF SameTask, Drives, Tasks
    <3>2. CASE drive' = [drive EXCEPT !.task.calculated = TRUE, !.task.step = "sync"]
      BY <3>2, <1>2 DEF SameTask, Drives, Tasks
    <3> QED  BY <2>1, <3>1, <3>2
  <2>4. drive'.task.step = "sync" =>
           drive' = [drive EXCEPT !.task.calculated = TRUE, !.task.step = "sync"]
    <3>1. CASE drive' = [drive EXCEPT !.task.calculated = TRUE, !.task.step = "wait"]
      BY <3>1, <1>2 DEF Drives, Tasks
    <3> QED  BY <2>1, <3>1
  <2>5. drive'.task.step \in Synchronizing => Applies(drive.task)
    BY <2>2, <2>3, <2>4 DEF Applies, Synchronizing
  <2>6. Order(chain, inbox, drive', disk')
    BY <2>3, <2>5, <1>1, <1>3, SafeGood, SameTaskCalmer, CalmerKeeps, SameFiles DEF Tidy
  <2>7. FlagOrder(drive'.task)
    BY <2>2, <2>3, <2>4 DEF FlagOrder, SameTask, Synchronizing
  <2>8. AccountOrder(drive'.task, acct')
    BY <1>1, <2>3, SafeGood DEF Tidy, AccountOrder, SameTask
  <2>9. SavedIsApproved(chain, disk')  BY <1>3, SafeGood DEF Tidy, SavedIsApproved
  <2> QED  BY <1>1, <2>6, <2>7, <2>8, <2>9, StepOrder
<1> QED  BY <1>4, <1>5

\* The sandbox replaces the drive and the restart values are saved, one by one.
LEMMA ReplaceOrder ==
    Safe /\ (SynchronizeDriveWithSandbox \/ CatchUpMoveFsTree \/ CatchUpSaveLast
             \/ SaveApprovedUploads \/ SaveLastApproved) => Tidy'
<1> SUFFICES ASSUME Safe, \/ SynchronizeDriveWithSandbox \/ CatchUpMoveFsTree
                          \/ CatchUpSaveLast \/ SaveApprovedUploads \/ SaveLastApproved
             PROVE  Tidy'
  OBVIOUS
<1> DEFINE m == drive.task.mod
<1>1. /\ chain' = chain /\ inbox' = inbox /\ up = "up" /\ up' = up
      /\ drive.task.step \in Synchronizing /\ drive.task.kind \in Updating
  BY DEF SynchronizeDriveWithSandbox, CatchUpMoveFsTree, CatchUpSaveLast, At, Updating,
         SaveApprovedUploads, SaveLastApproved, environment, Synchronizing
<1>2. /\ drive \in Drives /\ Good(chain, inbox, drive, disk) /\ DiskInv(chain, disk)
      /\ AccountShape(acct) /\ Tidy
  BY SafeGood DEF Good, Safe, IInv
<1>3. Applies(drive.task) /\ Approved(chain, m) /\ drive.task.step # "finish"
  BY <1>1, <1>2 DEF Applies, Good, DriveInv, DriveIsApproved, TaskIsApproved, Synchronizing
<1>4. drive.task.kind = "modify" => drive.task.approved
  BY <1>1, <1>2 DEF Tidy, FlagOrder
<1>5. /\ disk'.last \in {disk.last, m} /\ disk'.approved.id \in {disk.approved.id, m}
  <2>1. CASE SynchronizeDriveWithSandbox \/ CatchUpMoveFsTree
    BY <2>1, <1>2 DEF SynchronizeDriveWithSandbox, CatchUpMoveFsTree, DiskInv
  <2>2. CASE CatchUpSaveLast \/ SaveLastApproved
    BY <2>2, <1>2 DEF CatchUpSaveLast, SaveLastApproved, DiskInv
  <2>3. CASE SaveApprovedUploads
    <3>1. acct.approved.id = m
      BY <2>3, <1>2 DEF SaveApprovedUploads, At, Tidy, AccountOrder
    <3> QED  BY <2>3, <3>1, <1>2 DEF SaveApprovedUploads, DiskInv
  <2> QED  BY <2>1, <2>2, <2>3
<1>6. /\ drive'.deferred = drive.deferred /\ drive'.catchReq = drive.catchReq
      /\ drive'.task.kind = drive.task.kind /\ drive'.task.mod = m
      /\ drive'.task.interrupted = drive.task.interrupted
      /\ drive'.task.approved = drive.task.approved
      /\ drive'.last \in {drive.last, m}
      /\ drive'.task.step # "finish" => drive'.last = drive.last
      /\ drive'.task.step \in Synchronizing \cup {"finish"}
  <2>1. CASE SaveLastApproved
    <3>1. /\ drive'.task = [drive.task EXCEPT !.step = "finish"]
          /\ drive'.deferred = drive.deferred /\ drive'.catchReq = drive.catchReq
          /\ drive'.last = m
      BY <2>1, <1>2 DEF SaveLastApproved, FinishTask, Drives
    <3> QED  BY <3>1, <1>2 DEF Drives, Tasks
  <2>2. CASE ~SaveLastApproved
    <3>1. \E s \in {"saveUploads", "syncLast", "saveLast"} :
             drive' = [drive EXCEPT !.task.step = s]
      BY <2>2 DEF SynchronizeDriveWithSandbox, CatchUpMoveFsTree, CatchUpSaveLast,
                  SaveApprovedUploads, SynchronizationIsCompleted
    <3>2. SameTask(drive, drive') /\ drive'.task.step \in {"saveUploads", "syncLast", "saveLast"}
      BY <3>1, <1>2 DEF SameTask, Drives, Tasks
    <3> QED  BY <3>2 DEF SameTask, Synchronizing
  <2> QED  BY <2>1, <2>2
<1>7. Order(chain, inbox, drive', disk')
  BY <1>1, <1>2, <1>3, <1>5, <1>6, ApplyOrder DEF Tidy
<1>8. FlagOrder(drive'.task)
  BY <1>4, <1>6 DEF FlagOrder
<1>9. SavedIsApproved(chain, disk')
  BY <1>2, <1>3, <1>5 DEF Tidy, SavedIsApproved
<1>10. AccountOrder(drive'.task, acct')
  <2>1. CASE CatchUpMoveFsTree
    <3>1. drive'.task.step = "syncLast" /\ acct' = acct /\ drive.task.step = "sync"
      BY <2>1, <1>2 DEF CatchUpMoveFsTree, At, Drives, Tasks
    <3> QED  BY <3>1, <1>1, <1>2, <1>6 DEF Tidy, AccountOrder
  <2>2. CASE SynchronizeDriveWithSandbox \/ CatchUpSaveLast
    <3>1. /\ acct' = ApproveUploads(acct) /\ drive.task.step \in {"sync", "syncLast"}
          /\ drive'.task.step = "saveUploads"
      BY <2>2, <1>2 DEF Drives, Tasks, SynchronizeDriveWithSandbox, CatchUpSaveLast, SynchronizationIsCompleted, At
    <3>2. acct.notApproved.id = m  BY <3>1, <1>1, <1>2 DEF Tidy, AccountOrder
    <3>3. acct'.approved = acct.notApproved
      BY <3>1, <1>2 DEF ApproveUploads, AccountShape
    <3> QED  BY <3>1, <3>2, <3>3, <1>6 DEF AccountOrder
  <2>3. CASE SaveApprovedUploads
    <3>1. drive'.task.step = "saveLast"
      BY <2>3, <1>2 DEF SaveApprovedUploads, Drives, Tasks
    <3> QED  BY <3>1 DEF AccountOrder
  <2>4. CASE SaveLastApproved
    <3>1. drive'.task.step = "finish"
      BY <2>4, <1>2 DEF SaveLastApproved, FinishTask, Drives, Tasks
    <3> QED  BY <3>1 DEF AccountOrder
  <2> QED  BY <2>1, <2>2, <2>3, <2>4
<1> QED  BY <1>1, <1>7, <1>8, <1>9, <1>10, StepOrder

\* The sandbox was cleared, the next task runs.
LEMMA FinishOrder == Safe /\ FinishAndRunNextTask => Tidy'
<1> SUFFICES ASSUME Safe, FinishAndRunNextTask  PROVE Tidy'
  OBVIOUS
<1>1. /\ chain' = chain /\ inbox' = inbox /\ disk' = disk /\ up = "up" /\ up' = up
      /\ drive' = RunNextTask(drive)
  BY DEF FinishAndRunNextTask, environment, At
<1>2. Order(chain, inbox, drive', disk) /\ FreshTask(drive'.task)
  BY <1>1, SafeGood, RunNextOrder DEF Tidy
<1>3. FlagOrder(drive'.task) /\ AccountOrder(drive'.task, acct')  BY <1>2, FreshOrder
<1>4. SavedIsApproved(chain, disk')  BY <1>1, SafeGood DEF Tidy
<1> QED  BY <1>1, <1>2, <1>3, <1>4, StepOrder

------------------------------------------------------------------------------
(* The process ends and starts *)

\* The fields of a drive that was just added.
LEMMA NewDriveFields ==
    ASSUME NEW x
    PROVE  /\ NewDrive(x).deferred = <<>> /\ NewDrive(x).catchReq = 0 /\ NewDrive(x).last = 0
           /\ NewDrive(x).task.kind = "init" /\ NewDrive(x).task.step = "load"
<1> DEFINE n == NewTask("init", 0, "load")
           t == [n EXCEPT !.cancels = x]
<1>1. /\ n.kind = "init" /\ n.step = "load"
      /\ DOMAIN n = {"kind", "mod", "step", "root", "interrupted", "approved", "calculated",
                     "listed", "cancels"}
  BY DEF NewTask
<1> HIDE DEF n
<1>2. t.kind = "init" /\ t.step = "load"  BY <1>1
<1>3. /\ NewDrive(x).deferred = <<>> /\ NewDrive(x).catchReq = 0 /\ NewDrive(x).last = 0
      /\ NewDrive(x).task = t
  BY DEF NewDrive, n
<1> QED  BY <1>2, <1>3

\* Such a drive has everything to come.
LEMMA NewDriveOrder ==
    ASSUME NEW c, NEW q, NEW k, NEW x, Ordered(q),
           \A i \in 1..Len(q) :
              /\ q[i].type # "cancel"
              /\ q[i].type = "modify" =>
                    /\ q[i].mod <= c.issued
                    /\ 0 < q[i].mod /\ k.last < q[i].mod /\ k.approved.id < q[i].mod
              /\ q[i].type = "approve" =>
                    /\ 0 < q[i].mod /\ 0 <= q[i].mod
                    /\ k.last <= q[i].mod /\ k.approved.id <= q[i].mod
                    /\ Covered(NewDrive(x), q, q[i].mod),
           \A i \in 1..Len(c.pending) : Covered(NewDrive(x), q, c.pending[i])
    PROVE  /\ Order(c, q, NewDrive(x), k)
           /\ FlagOrder(NewDrive(x).task)
           /\ \A a : AccountOrder(NewDrive(x).task, a)
<1> DEFINE d == NewDrive(x)
<1>1. /\ d.deferred = <<>> /\ d.catchReq = 0 /\ d.last = 0
      /\ d.task.kind = "init" /\ d.task.step = "load"
  BY NewDriveFields
<1>2. Len(d.deferred) = 0  BY <1>1
<1>3. d.task.kind \notin Updating /\ ~Applies(d.task)
  BY <1>1 DEF Updating, Applies, Synchronizing
<1> HIDE DEF d
<1>4. \A m : ~Deferred(d, m)  BY <1>2 DEF Deferred
<1>5. InboxOrder(c, q, d, k)
  <2>1. ASSUME NEW i \in 1..Len(q)  PROVE EventOrder(c, d, k, q[i])
    BY <1>1, <1>3, <1>4 DEF EventOrder, NewRequest, NotAhead
  <2> QED  BY <2>1 DEF InboxOrder
<1>6. QueueOrder(c, d, k)  BY <1>2, <1>4 DEF QueueOrder, Increasing
<1>7. TaskOrder(c, d, k)  BY <1>1, <1>3 DEF TaskOrder, Updating
<1>8. CoverOrder(c, q, d)  BY <1>1 DEF CoverOrder, d
<1>9. FlagOrder(d.task) /\ \A a : AccountOrder(d.task, a)
  BY <1>1, <1>3 DEF FlagOrder, AccountOrder
<1> QED  BY <1>5, <1>6, <1>7, <1>8, <1>9 DEF Order, d

\* Nothing is left in memory when the process ends.
LEMMA EndOrder ==
    ASSUME inbox' = <<>>, drive' = NewDrive({}), SavedIsApproved(chain', disk')
    PROVE  Tidy'
<1>1. Len(inbox') = 0  BY DEF Die
<1>2. Ordered(inbox')  BY <1>1 DEF Ordered
<1>3. \A m : ~Waits(NewDrive({}), inbox', m)
  <2>1. Len(NewDrive({}).deferred) = 0  BY NewDriveFields
  <2> QED  BY <1>1, <2>1 DEF Waits, Deferred, Requested
<1>4. \A m : Covered(NewDrive({}), inbox', m)  BY <1>3 DEF Covered
<1>5. /\ Order(chain', inbox', NewDrive({}), disk')
      /\ FlagOrder(NewDrive({}).task)
      /\ \A a : AccountOrder(NewDrive({}).task, a)
  BY <1>1, <1>2, <1>4, NewDriveOrder
<1> QED  BY <1>5 DEF Tidy, DownOrder

\* A crash, a null dereference.
LEMMA DieOrder == ASSUME Safe, Die, chain' = chain, disk' = disk  PROVE Tidy'
  BY EndOrder DEF Die, Safe

\* The data of the drive is removed.
LEMMA RemoveOrder == Safe /\ (RemoveUnusedDrives \/ RemoveAllDriveData) => Tidy'
<1> SUFFICES ASSUME Safe, RemoveUnusedDrives \/ RemoveAllDriveData  PROVE Tidy'
  OBVIOUS
<1>1. inbox' = <<>> /\ drive' = NewDrive({}) /\ disk' = EmptyDisk
  BY DEF RemoveUnusedDrives, RemoveAllDriveData, Safe, DownOrder
<1>2. SavedIsApproved(chain', disk')  BY <1>1 DEF SavedIsApproved, EmptyDisk, NoUploads
<1> QED  BY <1>1, <1>2, EndOrder

\* InitializeDriveTask
LEMMA InitializeOrder == Safe /\ InitializeDrive => Tidy'
<1> SUFFICES ASSUME Safe, InitializeDrive  PROVE Tidy'
  OBVIOUS
<1>1. chain' = chain /\ disk' = disk  BY DEF InitializeDrive, environment
<1>2. CASE Die  BY <1>1, <1>2, DieOrder
<1>3. CASE /\ acct' = [acct EXCEPT !.approved = disk.approved, !.notApproved = disk.notApproved]
           /\ drive' = Initialized([drive EXCEPT !.root = disk.root, !.last = disk.last], acct')
           /\ UNCHANGED environment
  <2> DEFINE d == [drive EXCEPT !.root = disk.root, !.last = disk.last]
             x == acct'.notApproved.id
             e == [d EXCEPT !.cancelReq = x]
  <2>1. drive \in Drives /\ DiskInv(chain, disk) /\ x = x  BY SafeGood DEF Good
  <2>2. d \in Drives /\ d.last = disk.last /\ d.task = drive.task
        /\ d.deferred = drive.deferred /\ d.catchReq = drive.catchReq
    BY <2>1 DEF Drives, DiskInv
  <2>3. drive' \in {FinishTask(d), FinishTask(e)}  BY <1>3 DEF Initialized
  <2> HIDE DEF d, x
  <2>4. /\ drive'.last = disk.last /\ drive'.task = [drive.task EXCEPT !.step = "finish"]
        /\ drive'.deferred = drive.deferred /\ drive'.catchReq = drive.catchReq
    <3>1. CASE drive' = FinishTask(d)  BY <3>1, <2>2 DEF FinishTask, Drives
    <3>2. CASE drive' = FinishTask(e)  BY <3>2, <2>2 DEF FinishTask, Drives
    <3> QED  BY <2>3, <3>1, <3>2
  <2>5. drive.task.kind = "init" /\ up = "up"  BY DEF InitializeDrive, At
  <2>6. drive'.task.kind = "init" /\ drive'.task.step = "finish"
    BY <2>1, <2>4, <2>5 DEF Drives, Tasks
  <2>7. Calmer(drive, drive', disk)
    BY <2>4, <2>6 DEF Calmer, Updating, Applies, Synchronizing
  <2>8. Order(chain, inbox, drive', disk')  BY <1>1, <2>7, SafeGood, CalmerKeeps DEF Tidy
  <2>9. FlagOrder(drive'.task) /\ AccountOrder(drive'.task, acct')
    BY <2>6 DEF FlagOrder, AccountOrder, Updating
  <2>10. inbox' = inbox /\ up' = up  BY <1>3 DEF environment
  <2>11. SavedIsApproved(chain, disk')  BY <1>1, SafeGood DEF Tidy
  <2> QED  BY <1>1, <2>5, <2>8, <2>9, <2>10, <2>11, StepOrder
<1> QED  BY <1>2, <1>3 DEF InitializeDrive

\* Two queues of events, one after the other.
LEMMA ConcatOrder ==
    ASSUME NEW q \in Seq(Events), NEW r \in Seq(Events)
    PROVE  /\ q \o r \in Seq(Events)
           /\ \A i \in 1..Len(q \o r) : \/ \E j \in 1..Len(q) : (q \o r)[i] = q[j]
                                        \/ \E j \in 1..Len(r) : (q \o r)[i] = r[j]
           /\ \A j \in 1..Len(r) : \E i \in 1..Len(q \o r) : (q \o r)[i] = r[j]
           /\ /\ Ordered(q) /\ Ordered(r)
              /\ \A i \in 1..Len(q), j \in 1..Len(r) : PairOrder(q[i], r[j])
              => Ordered(q \o r)
<1>1. /\ q \o r \in Seq(Events)
      /\ Len(q \o r) = Len(q) + Len(r)
      /\ \A i \in 1..(Len(q) + Len(r)) :
            (q \o r)[i] = IF i <= Len(q) THEN q[i] ELSE r[i - Len(q)]
  BY ConcatProperties, Zenon
<1>2. Len(q) \in Nat /\ Len(r) \in Nat  BY LenProperties
<1>3. PICK w : w = q \o r  OBVIOUS
<1>4. /\ w \in Seq(Events) /\ Len(w) = Len(q) + Len(r)
      /\ \A i \in 1..Len(w) : w[i] = IF i <= Len(q) THEN q[i] ELSE r[i - Len(q)]
  BY <1>1, <1>3
<1>5. ASSUME NEW i \in 1..Len(w)
      PROVE  \/ i \in 1..Len(q) /\ w[i] = q[i]
             \/ i - Len(q) \in 1..Len(r) /\ w[i] = r[i - Len(q)] /\ i \notin 1..Len(q)
  BY <1>2, <1>4, SMTT(30)
<1>6. ASSUME NEW j \in 1..Len(r)  PROVE \E i \in 1..Len(w) : w[i] = r[j]
  <2>1. PICK i : i = j + Len(q)  OBVIOUS
  <2>2. i \in 1..Len(w) /\ ~(i <= Len(q)) /\ i - Len(q) = j  BY <2>1, <1>2, <1>4
  <2>3. w[i] = r[i - Len(q)]  BY <2>2, <1>4
  <2> QED  BY <2>2, <2>3
<1>7. ASSUME Ordered(q), Ordered(r),
             \A i \in 1..Len(q), j \in 1..Len(r) : PairOrder(q[i], r[j])
      PROVE  Ordered(w)
  <2> SUFFICES ASSUME NEW i \in 1..Len(w), NEW j \in 1..Len(w), i < j
               PROVE  PairOrder(w[i], w[j])
    BY DEF Ordered
  <2>1. CASE i \in 1..Len(q) /\ j \in 1..Len(q)
    <3>1. w[i] = q[i] /\ w[j] = q[j]  BY <2>1, <1>5
    <3> QED  BY <2>1, <3>1, <1>7 DEF Ordered
  <2>2. CASE i \in 1..Len(q) /\ j \notin 1..Len(q)
    <3>1. w[i] = q[i] /\ w[j] = r[j - Len(q)] /\ j - Len(q) \in 1..Len(r)  BY <2>2, <1>5
    <3> QED  BY <2>2, <3>1, <1>7
  <2>3. CASE i \notin 1..Len(q)
    <3>1. j \notin 1..Len(q)  BY <2>3, <1>2, <1>4
    <3>2. /\ w[i] = r[i - Len(q)] /\ i - Len(q) \in 1..Len(r)
          /\ w[j] = r[j - Len(q)] /\ j - Len(q) \in 1..Len(r)
      BY <2>3, <3>1, <1>5
    <3>3. i - Len(q) < j - Len(q)  BY <1>2, <1>4
    <3> QED  BY <3>2, <3>3, <1>7 DEF Ordered
  <2> QED  BY <2>1, <2>2, <2>3
<1>8. \A i \in 1..Len(w) : \/ \E j \in 1..Len(q) : w[i] = q[j]
                           \/ \E j \in 1..Len(r) : w[i] = r[j]
  BY <1>5
<1> QED  BY <1>3, <1>4, <1>6, <1>7, <1>8, Zenon

\* What a restarted replicator is told: the last approval, then the requests
\* of the modifications that are still pending, in order.
LEMMA RestartInbox ==
    ASSUME Safe, Restart
    PROVE  /\ inbox' \in Seq(Events) /\ Ordered(inbox')
           /\ \A i \in 1..Len(inbox') :
                 \/ inbox'[i].type = "verify"
                 \/ /\ inbox'[i].type = "approve"
                    /\ inbox'[i].mod = chain.last /\ chain.last # 0
                 \/ /\ inbox'[i].type = "modify"
                    /\ \E j \in 1..Len(chain.pending) : inbox'[i].mod = chain.pending[j]
           /\ \A j \in 1..Len(chain.pending) : Requested(inbox', chain.pending[j])
           /\ chain.last # 0 => /\ inbox' # <<>> /\ Head(inbox').type = "approve"
                               /\ Head(inbox').mod = chain.last
<1> DEFINE ea == [type |-> "approve", mod |-> chain.last]
           ev == [type |-> "verify", mod |-> chain.verifying]
           request(i) == [type |-> "modify", mod |-> chain.pending[i]]
           a == IF chain.last = 0 THEN <<>> ELSE <<ea>>
           v == IF chain.verifying = NoVerification THEN <<>> ELSE <<ev>>
           r == [i \in DOMAIN chain.pending |-> request(i)]
<1>1. /\ chain' = chain /\ disk' = disk /\ drive' = NewDrive(chain.cancelled) /\ up' = "up"
      /\ inbox' = (a \o v) \o r
  BY DEF Restart
<1>2. /\ ChainInv(chain) /\ chain.pending \in Seq(Mods) /\ chain.last \in ModOrZero
      /\ chain.verifying \in ModOrZero \cup {NoVerification}
      /\ Good(chain, inbox, drive, disk)
  BY SafeGood, ChainTypes DEF Good, ChainInv, Chains
<1>3. /\ a \in Seq(Events) /\ Len(a) \in 0..1
      /\ \A i \in 1..Len(a) : a[i].type = "approve" /\ a[i].mod = chain.last /\ chain.last # 0
  <2>1. ea \in Events  BY <1>2 DEF Events
  <2>2. ea.type = "approve" /\ ea.mod = chain.last  OBVIOUS
  <2> HIDE DEF ea
  <2>3. CASE chain.last = 0  BY <2>3
  <2>4. CASE chain.last # 0
    <3>1. a = <<ea>>  BY <2>4
    <3>2. a \in Seq(Events) /\ Len(a) = 1 /\ a[1] = ea  BY <3>1, <2>1
    <3> QED  BY <3>2, <2>2, <2>4
  <2> QED  BY <2>3, <2>4
<1>4. /\ v \in Seq(Events) /\ Len(v) \in 0..1
      /\ \A i \in 1..Len(v) : v[i].type = "verify"
  <2>1. chain.verifying # NoVerification => ev \in Events  BY <1>2 DEF Events
  <2>2. ev.type = "verify"  OBVIOUS
  <2> HIDE DEF ev
  <2>3. CASE chain.verifying = NoVerification  BY <2>3
  <2>4. CASE chain.verifying # NoVerification
    <3>1. v = <<ev>>  BY <2>4
    <3>2. v \in Seq(Events) /\ Len(v) = 1 /\ v[1] = ev  BY <3>1, <2>1, <2>4
    <3> QED  BY <3>2, <2>2
  <2> QED  BY <2>3, <2>4
<1>5. /\ r \in Seq(Events) /\ Len(r) = Len(chain.pending) /\ Len(r) \in Nat
      /\ \A i \in 1..Len(r) : r[i].type = "modify" /\ r[i].mod = chain.pending[i]
  <2>1. Len(chain.pending) \in Nat /\ DOMAIN chain.pending = 1..Len(chain.pending)
    BY <1>2, LenProperties
  <2>2. \A i \in 1..Len(chain.pending) : chain.pending[i] \in Mods
    BY <1>2, ElementOfSeq
  <2>3. \A i \in 1..Len(chain.pending) :
           request(i) \in Events /\ request(i).type = "modify"
           /\ request(i).mod = chain.pending[i]
    BY <2>2, ModTypes DEF Events
  <2> HIDE DEF request
  <2>4. r \in Seq(Events)  BY <2>1, <2>3, IsASeq
  <2>5. Len(r) = Len(chain.pending)  BY <2>1, <2>4, LenProperties
  <2>6. \A i \in 1..Len(r) : r[i] = request(i)  BY <2>1, <2>5
  <2> QED  BY <2>1, <2>3, <2>4, <2>5, <2>6
<1> HIDE DEF a, v, r
<1>6. /\ \A i \in 1..Len(chain.pending) :
            /\ chain.pending[i] \in Mods
            /\ chain.last < chain.pending[i] /\ chain.pending[i] <= chain.issued
      /\ \A i, j \in 1..Len(chain.pending) : i < j => chain.pending[i] < chain.pending[j]
  BY <1>2, ElementOfSeq DEF ChainInv
<1>7. Ordered(a) /\ Ordered(v) /\ Ordered(r)
  <2>1. Ordered(a) /\ Ordered(v)  BY <1>3, <1>4 DEF Ordered
  <2>2. Ordered(r)  BY <1>5, <1>6 DEF Ordered, PairOrder
  <2> QED  BY <2>1, <2>2
<1>8. PICK w : w = a \o v  OBVIOUS
<1>9. /\ w \in Seq(Events) /\ Ordered(w)
      /\ \A i \in 1..Len(w) : \/ \E j \in 1..Len(a) : w[i] = a[j]
                              \/ \E j \in 1..Len(v) : w[i] = v[j]
  <2>1. \A i \in 1..Len(a), j \in 1..Len(v) : PairOrder(a[i], v[j])
    BY <1>3, <1>4 DEF PairOrder
  <2>2. a \in Seq(Events) /\ v \in Seq(Events) /\ Ordered(a) /\ Ordered(v)  BY <1>3, <1>4, <1>7
  <2>3. /\ a \o v \in Seq(Events) /\ Ordered(a \o v)
        /\ \A i \in 1..Len(a \o v) : \/ \E j \in 1..Len(a) : (a \o v)[i] = a[j]
                                     \/ \E j \in 1..Len(v) : (a \o v)[i] = v[j]
    BY ONLY <2>1, <2>2, ConcatOrder, Zenon
  <2> QED  BY ONLY <1>8, <2>3, Zenon
<1>10. \A i \in 1..Len(w) : \/ w[i].type = "verify"
                            \/ w[i].type = "approve" /\ w[i].mod = chain.last /\ chain.last # 0
  BY <1>3, <1>4, <1>9
<1>11. /\ inbox' \in Seq(Events) /\ Ordered(inbox')
       /\ \A i \in 1..Len(inbox') : \/ \E j \in 1..Len(w) : inbox'[i] = w[j]
                                    \/ \E j \in 1..Len(r) : inbox'[i] = r[j]
       /\ \A j \in 1..Len(r) : \E i \in 1..Len(inbox') : inbox'[i] = r[j]
  <2>1. \A i \in 1..Len(w), j \in 1..Len(r) : PairOrder(w[i], r[j])
    BY <1>5, <1>6, <1>10 DEF PairOrder
  <2>2. inbox' = w \o r  BY <1>1, <1>8
  <2>3. w \in Seq(Events) /\ r \in Seq(Events) /\ Ordered(w) /\ Ordered(r)  BY <1>5, <1>7, <1>9
  <2>4. /\ w \o r \in Seq(Events) /\ Ordered(w \o r)
        /\ \A i \in 1..Len(w \o r) : \/ \E j \in 1..Len(w) : (w \o r)[i] = w[j]
                                     \/ \E j \in 1..Len(r) : (w \o r)[i] = r[j]
        /\ \A j \in 1..Len(r) : \E i \in 1..Len(w \o r) : (w \o r)[i] = r[j]
    BY ONLY <2>1, <2>3, ConcatOrder, Zenon
  <2> QED  BY ONLY <2>2, <2>4, Zenon
<1>12. ASSUME NEW i \in 1..Len(inbox')
       PROVE  \/ inbox'[i].type = "verify"
              \/ inbox'[i].type = "approve" /\ inbox'[i].mod = chain.last /\ chain.last # 0
              \/ /\ inbox'[i].type = "modify"
                 /\ \E j \in 1..Len(chain.pending) : inbox'[i].mod = chain.pending[j]
  <2>1. CASE \E j \in 1..Len(w) : inbox'[i] = w[j]
    BY ONLY <2>1, <1>10
  <2>2. CASE \E j \in 1..Len(r) : inbox'[i] = r[j]
    <3>1. PICK j \in 1..Len(r) : inbox'[i] = r[j]  BY <2>2
    <3>2. /\ r[j].type = "modify" /\ r[j].mod = chain.pending[j]
          /\ j \in 1..Len(chain.pending)
      BY ONLY <1>5
    <3> QED  BY ONLY <3>1, <3>2, Zenon
  <2> QED  BY <1>11, <2>1, <2>2
<1>13. \A j \in 1..Len(chain.pending) : Requested(inbox', chain.pending[j])
  BY <1>5, <1>11, SMTT(30) DEF Requested
<1>14. chain.last # 0 => /\ inbox' # <<>> /\ Head(inbox').type = "approve"
                        /\ Head(inbox').mod = chain.last
  <2> SUFFICES ASSUME chain.last # 0
               PROVE  /\ inbox' # <<>> /\ Head(inbox').type = "approve"
                      /\ Head(inbox').mod = chain.last
    OBVIOUS
  <2>1. Len(a) = 1
    <3>1. a = <<ea>>  BY DEF a
    <3> QED  BY <3>1
  <2>2. a[1].type = "approve" /\ a[1].mod = chain.last  BY <1>3, <2>1
  <2>3. /\ Len(a \o v) = Len(a) + Len(v)
        /\ \A i \in 1..(Len(a) + Len(v)) :
              (a \o v)[i] = IF i <= Len(a) THEN a[i] ELSE v[i - Len(a)]
    <3>1. a \in Seq(Events) /\ v \in Seq(Events)  BY <1>3, <1>4
    <3> QED  BY ONLY <3>1, ConcatProperties, Zenon
  <2>4. Len(v) \in Nat  BY <1>4
  <2>5. w[1] = a[1] /\ Len(w) \in Nat \ {0}  BY <1>8, <2>1, <2>3, <2>4
  <2>6. /\ Len(w \o r) = Len(w) + Len(r)
        /\ \A i \in 1..(Len(w) + Len(r)) :
              (w \o r)[i] = IF i <= Len(w) THEN w[i] ELSE r[i - Len(w)]
    <3>1. w \in Seq(Events) /\ r \in Seq(Events)  BY <1>5, <1>9
    <3> QED  BY ONLY <3>1, ConcatProperties, Zenon
  <2>7. (w \o r)[1] = w[1] /\ Len(w \o r) \in Nat \ {0}  BY <1>5, <2>5, <2>6
  <2>8. inbox' = w \o r  BY <1>1, <1>8
  <2>9. inbox'[1] = a[1] /\ Len(inbox') # 0  BY <2>5, <2>7, <2>8
  <2>10. inbox' # <<>>  BY <1>11, <2>9, EmptySeq
  <2> QED  BY <2>2, <2>9, <2>10, <1>11
<1> QED  BY <1>11, <1>12, <1>13, <1>14

LEMMA RestartOrder == Safe /\ Restart => Tidy'
<1> SUFFICES ASSUME Safe, Restart  PROVE Tidy'
  OBVIOUS
<1>1. /\ chain' = chain /\ disk' = disk /\ drive' = NewDrive(chain.cancelled) /\ up' = "up"
  BY DEF Restart
<1>2. /\ ChainInv(chain) /\ chain.pending \in Seq(Mods) /\ chain.last \in ModOrZero
      /\ Good(chain, inbox, drive, disk)
  BY SafeGood, ChainTypes DEF Good, ChainInv, Chains
<1>3. \A i \in 1..Len(chain.pending) :
         /\ chain.pending[i] \in Mods
         /\ chain.last < chain.pending[i] /\ chain.pending[i] <= chain.issued
  BY <1>2, ElementOfSeq DEF ChainInv
<1>4. Ordered(inbox')  BY RestartInbox
<1>5. \A i \in 1..Len(inbox') :
          \/ inbox'[i].type = "verify"
          \/ inbox'[i].type = "approve" /\ inbox'[i].mod = chain.last /\ chain.last # 0
          \/ /\ inbox'[i].type = "modify"
             /\ \E j \in 1..Len(chain.pending) : inbox'[i].mod = chain.pending[j]
  BY RestartInbox
<1>6. \A j \in 1..Len(chain.pending) : Requested(inbox', chain.pending[j])
  BY RestartInbox
<1>7. \A m : Waits(drive', inbox', m) => chain.last < m
  <2>1. Len(drive'.deferred) = 0  BY <1>1, NewDriveFields
  <2>2. \A m : ~Deferred(drive', m)  BY <2>1 DEF Deferred
  <2>3. \A m : Requested(inbox', m) => chain.last < m  BY <1>3, <1>5 DEF Requested
  <2> QED  BY <2>2, <2>3 DEF Waits
<1>8. /\ disk.last \in ModOrZero /\ disk.approved.id \in ModOrZero
       /\ disk.last <= chain.last /\ disk.approved.id <= chain.last
  BY <1>2, DriveNumbers
<1>9. ASSUME NEW i \in 1..Len(inbox')
       PROVE  /\ inbox'[i].type # "cancel"
              /\ inbox'[i].type = "modify" =>
                    /\ inbox'[i].mod <= chain.issued
                    /\ 0 < inbox'[i].mod /\ disk.last < inbox'[i].mod
                    /\ disk.approved.id < inbox'[i].mod
              /\ inbox'[i].type = "approve" =>
                    /\ 0 < inbox'[i].mod /\ 0 <= inbox'[i].mod
                    /\ disk.last <= inbox'[i].mod /\ disk.approved.id <= inbox'[i].mod
                    /\ Covered(drive', inbox', inbox'[i].mod)
  <2>1. CASE inbox'[i].type = "verify"  BY <2>1
  <2>2. CASE inbox'[i].type = "approve" /\ inbox'[i].mod = chain.last /\ chain.last # 0
    BY <2>2, <1>2, <1>7, <1>8, ModTypes DEF Covered
  <2>3. CASE /\ inbox'[i].type = "modify"
             /\ \E j \in 1..Len(chain.pending) : inbox'[i].mod = chain.pending[j]
    BY <2>3, <1>2, <1>3, <1>8, ModTypes, SMTT(30)
  <2> QED  BY <1>5, <2>1, <2>2, <2>3
<1>10. \A i \in 1..Len(chain.pending) : Covered(drive', inbox', chain.pending[i])
  BY <1>6 DEF Covered, Waits
<1>11. /\ Order(chain, inbox', drive', disk)
       /\ FlagOrder(drive'.task) /\ AccountOrder(drive'.task, acct')
  BY <1>1, <1>4, <1>9, <1>10, NewDriveOrder
<1>12. SavedIsApproved(chain, disk)  BY <1>2 DEF Good
<1> QED  BY <1>1, <1>11, <1>12 DEF Tidy, DownOrder

------------------------------------------------------------------------------
(* The chain *)

\* What was approved stays so.
LEMMA ChainSaved ==
    ASSUME NEW c, NEW b, StillApproved(c, b), NEW k, SavedIsApproved(c, k), NEW x,
           DiskInv(x, k)
    PROVE  SavedIsApproved(b, k)
  BY DEF SavedIsApproved, StillApproved, DiskInv

\* A step of the chain while the process does not run.
LEMMA ChainDown ==
    ASSUME Safe, up # "up", UNCHANGED replicator, NEW x, NEW m, Post(x, m),
           SavedIsApproved(chain', disk)
    PROVE  Tidy'
<1>1. inbox' = <<>> /\ drive' = NewDrive({}) /\ disk' = disk
  BY DEF Safe, DownOrder, Post, replicator
<1> QED  BY <1>1, EndOrder

\* The client requests a modification.
LEMMA ChainModifyOrder == Safe /\ ChainModify => Tidy'
<1> SUFFICES ASSUME Safe, ChainModify  PROVE Tidy'
  OBVIOUS
<1> DEFINE m == chain.issued + 1
           p == Append(chain.pending, m)
           x == [type |-> "modify", mod |-> m]
<1>1. /\ Good(chain, inbox, drive, disk) /\ Tidy
      /\ chain \in Chains /\ chain.pending \in Seq(Mods) /\ ChainInv(chain)
  BY SafeGood, ChainTypes DEF Good
<1>2. /\ drive.last \in ModOrZero /\ drive.catchReq \in ModOrZero
      /\ drive.task.mod \in ModOrZero /\ disk.last \in ModOrZero
      /\ disk.approved.id \in ModOrZero /\ chain.last \in ModOrZero
      /\ chain.issued \in ModOrZero /\ chain.last <= chain.issued
      /\ drive.last <= chain.last /\ drive.catchReq <= chain.last
      /\ disk.last <= chain.last /\ disk.approved.id <= chain.last
  BY <1>1, DriveNumbers
<1>3. m \in Mods /\ chain.issued < m /\ m \in Int
  <2>1. chain.issued \in Nat /\ chain.issued < MaxMods
    BY <1>2, ModTypes DEF ChainModify
  <2> QED  BY <2>1, DriveAssumption DEF Mods
<1>4. /\ chain' = [chain EXCEPT !.issued = m, !.pending = p] /\ Post("modify", m)
      /\ UNCHANGED replicator
  BY DEF ChainModify
<1> HIDE DEF m
<1>5. /\ Len(p) = Len(chain.pending) + 1 /\ Len(chain.pending) \in Nat
      /\ \A i \in 1..Len(chain.pending) : p[i] = chain.pending[i]
      /\ p[Len(chain.pending) + 1] = m
  BY <1>1, <1>3, AppendProperties, LenProperties
<1> HIDE DEF p
<1>6. /\ chain'.issued = m /\ chain'.pending = p /\ chain'.cancelled = chain.cancelled
      /\ chain'.last = chain.last
  BY <1>1, <1>4 DEF Chains
<1>7. StillApproved(chain, chain')  BY <1>6 DEF StillApproved, Approved
<1>8. SavedIsApproved(chain', disk)  BY <1>1, <1>7, ChainSaved DEF Good
<1>9. CASE up # "up"  BY <1>4, <1>8, <1>9, ChainDown
<1>10. CASE up = "up"
  <2>1. x \in Events /\ x.type = "modify" /\ x.mod = m  BY <1>3, ModTypes DEF Events
  <2>2. inbox' = Append(inbox, x) /\ drive' = drive /\ disk' = disk /\ acct' = acct /\ up' = up
    BY <1>4, <1>10 DEF Post, replicator
  <2> HIDE DEF x
  <2>3. /\ inbox \in Seq(Events) /\ Len(inbox) \in Nat
        /\ \A i \in 1..Len(inbox) : inbox[i].mod \in ModOrZero
        /\ \A i \in 1..Len(inbox) : inbox[i].type = "modify" => inbox[i].mod \in Mods
    BY <1>1, QueueTypes DEF Good, InboxInv, EventInv
  <2>4. /\ \A i \in 1..Len(inbox) : inbox[i].type = "modify" => inbox[i].mod <= chain.issued
        /\ \A i \in 1..Len(inbox) : inbox[i].type = "approve" => inbox[i].mod <= chain.last
        /\ \A y \in Mods : Deferred(drive, y) => y <= chain.issued
    <3>1. \A i \in 1..Len(inbox) : inbox[i].type = "approve" => inbox[i].mod <= chain.last
      BY <1>1, ApprovedBound DEF Good, InboxInv, EventInv
    <3> QED  BY <1>1, <3>1 DEF Tidy, Order, InboxOrder, EventOrder, QueueOrder, NewRequest
  <2>5. \A y \in ModOrZero : y <= chain.issued => y < m  BY <1>2, <1>3, ModTypes
  <2>6. \A y \in ModOrZero : y <= chain.last => y < m  BY <1>2, <1>3, ModTypes
  <2>7. EventOrder(chain', drive, disk, x)
    <3>1. drive.task.kind \in Updating => drive.task.mod < m
      BY <1>1, <1>2, <2>5 DEF Tidy, Order, TaskOrder
    <3>2. NewRequest(chain', drive, disk, m)
      BY <3>1, <1>2, <1>3, <1>6, <2>6 DEF NewRequest
    <3>3. \A y \in Mods : Deferred(drive, y) => y < m  BY <2>4, <2>5, ModTypes
    <3> QED  BY <2>1, <3>2, <3>3, <1>2, <2>6 DEF EventOrder
  <2>8. \A i \in 1..Len(inbox) : PairOrder(inbox[i], x)
    BY <2>1, <2>3, <2>4, <2>5, <2>6 DEF PairOrder
  <2>9. /\ Len(inbox') = Len(inbox) + 1 /\ inbox'[Len(inbox) + 1] = x
        /\ \A i \in 1..Len(inbox) : inbox'[i] = inbox[i]
    BY <2>1, <2>2, <2>3, AppendProperties
  <2>10. \A y : Requested(inbox', y) <=> Requested(inbox, y) \/ y = m
    <3>1. 1..Len(inbox') = 1..Len(inbox) \cup {Len(inbox) + 1}  BY <2>3, <2>9
    <3> QED  BY <3>1, <2>1, <2>9 DEF Requested
  <2>11. ASSUME NEW i \in 1..Len(p)  PROVE Covered(drive, inbox', p[i])
    <3>1. CASE i \in 1..Len(chain.pending)
      <4>1. Covered(drive, inbox, chain.pending[i])  BY <1>1, <3>1 DEF Tidy, Order, CoverOrder
      <4>2. chain.pending[i] < m
        <5>1. chain.pending[i] \in Mods /\ chain.pending[i] <= chain.issued
          BY <1>1, <3>1, ElementOfSeq DEF ChainInv
        <5> QED  BY <5>1, <2>5, ModTypes
      <4> QED  BY <4>1, <4>2, <3>1, <1>5, <2>10 DEF Covered, Waits
    <3>2. CASE i = Len(chain.pending) + 1
      BY <3>2, <1>5, <2>10 DEF Covered, Waits
    <3> QED  BY <1>5, <3>1, <3>2
  <2>12. /\ drive.catchReq # 0 => drive.catchReq < m
         /\ \A i \in 1..Len(inbox) : inbox[i].type = "approve" => inbox[i].mod < m
    BY <1>2, <2>3, <2>4, <2>6
  <2>13. /\ chain.issued <= chain'.issued /\ chain.issued \in Int /\ chain'.issued \in Int
         /\ drive.task.mod \in Int /\ \A y \in Mods : y \in Int
         /\ chain.cancelled \subseteq chain'.cancelled
    BY <1>2, <1>3, <1>6, ModTypes
  <2>14. Order(chain', inbox', drive, disk)
    BY <1>1, <1>6, <2>1, <2>2, <2>3, <2>7, <2>8, <2>11, <2>12, <2>13, PostOrder DEF Tidy
  <2> QED  BY <1>1, <1>8, <1>10, <2>2, <2>14 DEF Tidy, DownOrder
<1> QED  BY <1>9, <1>10

\* Any other step of the chain: it posts an event, and leaves only modifications
\* pending that were pending before.
LEMMA ChainPostOrder ==
    ASSUME Safe, UNCHANGED replicator, StillApproved(chain, chain'),
           chain'.issued = chain.issued, chain.cancelled \subseteq chain'.cancelled,
           \A i \in 1..Len(chain'.pending) :
              \E j \in 1..Len(chain.pending) : chain.pending[j] = chain'.pending[i],
           NEW s \in {"approve", "cancel", "close", "verify", "verified"},
           NEW m \in ModOrZero, Post(s, m),
           s = "approve" => /\ Covered(drive, inbox, m)
                            /\ chain.last < m,
           s = "cancel" => m \in chain'.cancelled
    PROVE  Tidy'
<1> DEFINE x == [type |-> s, mod |-> m]
<1>1. Good(chain, inbox, drive, disk) /\ Tidy /\ ChainInv(chain)
  BY SafeGood DEF Good
<1>2. /\ drive.last \in ModOrZero /\ drive.catchReq \in ModOrZero
      /\ drive.task.mod \in ModOrZero /\ disk.last \in ModOrZero
      /\ disk.approved.id \in ModOrZero /\ chain.last \in ModOrZero
      /\ chain.issued \in ModOrZero
      /\ drive.last <= chain.last /\ drive.catchReq <= chain.last
      /\ disk.last <= chain.last /\ disk.approved.id <= chain.last
      /\ Applies(drive.task) => drive.task.mod <= chain.last
  BY <1>1, DriveNumbers
<1>3. SavedIsApproved(chain', disk)  BY <1>1, ChainSaved DEF Good
<1>4. CASE up # "up"  BY <1>3, <1>4, ChainDown
<1>5. CASE up = "up"
  <2>1. x \in Events /\ x.type = s /\ x.mod = m  BY DEF Events
  <2>2. inbox' = Append(inbox, x) /\ drive' = drive /\ disk' = disk /\ acct' = acct /\ up' = up
    BY <1>5 DEF Post, replicator
  <2> HIDE DEF x
  <2>3. /\ inbox \in Seq(Events) /\ Len(inbox) \in Nat
        /\ \A i \in 1..Len(inbox) : inbox[i].mod \in ModOrZero
        /\ \A i \in 1..Len(inbox) : inbox[i].type = "modify" => inbox[i].mod \in Mods
    BY <1>1, QueueTypes DEF Good, InboxInv, EventInv
  <2>4. \A i \in 1..Len(inbox) : inbox[i].type = "approve" => inbox[i].mod <= chain.last
    BY <1>1, ApprovedBound DEF Good, InboxInv, EventInv
  <2>5. s = "approve" => \A y \in ModOrZero : y <= chain.last => y < m /\ y <= m
    BY <1>2, ModTypes
  <2>6. EventOrder(chain', drive, disk, x)
    <3>1. s = "approve" => NotAhead(drive, disk, m)  BY <1>2, <2>5 DEF NotAhead
    <3>2. s = "approve" => drive.catchReq < m /\ (Applies(drive.task) => drive.task.mod < m)
      BY <1>2, <2>5
    <3> QED  BY <2>1, <3>1, <3>2 DEF EventOrder
  <2>7. \A i \in 1..Len(inbox) : PairOrder(inbox[i], x)
    BY <2>1, <2>3, <2>4, <2>5 DEF PairOrder
  <2>8. /\ Len(inbox') = Len(inbox) + 1 /\ inbox'[Len(inbox) + 1] = x
        /\ \A i \in 1..Len(inbox) : inbox'[i] = inbox[i]
    BY <2>1, <2>2, <2>3, AppendProperties
  <2>9. \A y : Requested(inbox', y) <=> Requested(inbox, y)
    <3>1. 1..Len(inbox') = 1..Len(inbox) \cup {Len(inbox) + 1}  BY <2>3, <2>8
    <3> QED  BY <3>1, <2>1, <2>8 DEF Requested
  <2>10. \A y : Covered(drive, inbox, y) => Covered(drive, inbox', y)
    BY <2>9 DEF Covered, Waits
  <2>11. \A i \in 1..Len(chain'.pending) : Covered(drive, inbox', chain'.pending[i])
    BY <1>1, <2>10 DEF Tidy, Order, CoverOrder
  <2>12. /\ chain.issued <= chain'.issued /\ chain.issued \in Int /\ chain'.issued \in Int
         /\ drive.task.mod \in Int /\ \A y \in Mods : y \in Int
    BY <1>2, ModTypes
  <2>13. x.type = "approve" => Covered(drive, inbox', x.mod)  BY <2>1, <2>10
  <2>14. x.type # "modify"  BY <2>1
  <2>15. Order(chain', inbox', drive, disk)
    BY <1>1, <2>1, <2>2, <2>3, <2>6, <2>7, <2>11, <2>12, <2>13, <2>14, PostOrder DEF Tidy
  <2> QED  BY <1>1, <1>3, <1>5, <2>2, <2>15 DEF Tidy, DownOrder
<1> QED  BY <1>4, <1>5

\* The oldest pending modification is newer than everything the drive has.
LEMMA ChainApproveOrder == Safe /\ ChainApprove => Tidy'
<1> SUFFICES ASSUME Safe, ChainApprove  PROVE Tidy'
  OBVIOUS
<1> DEFINE m == Head(chain.pending)
           q == Tail(chain.pending)
<1>1. /\ chain \in Chains /\ chain.pending \in Seq(Mods) /\ chain.pending # <<>>
      /\ ChainInv(chain) /\ chain.last \in ModOrZero /\ chain.last \in Int
  BY ChainTypes, SafeGood DEF Good, ChainApprove
<1>2. /\ m = chain.pending[1] /\ m \in Mods /\ q \in Seq(Mods)
      /\ Len(q) = Len(chain.pending) - 1 /\ Len(chain.pending) \in Nat \ {0}
      /\ \A i \in 1..Len(q) : q[i] = chain.pending[i + 1]
  <2>1. m \in Mods /\ q \in Seq(Mods) /\ Len(q) = Len(chain.pending) - 1
        /\ \A i \in 1..Len(q) : q[i] = chain.pending[i + 1]
    BY <1>1, HeadTailProperties
  <2>2. Len(chain.pending) \in Nat \ {0}  BY <1>1, EmptySeq
  <2>3. m = chain.pending[1]  BY <1>1
  <2> QED  BY <2>1, <2>2, <2>3
<1>3. /\ Post("approve", m) /\ UNCHANGED replicator
      /\ \E ra, sa : chain' = [chain EXCEPT !.pending = q, !.last = m,
                                            !.rootAt = ra, !.sizeAt = sa]
  BY <1>1 DEF ChainApprove, Chains
<1> HIDE DEF m, q
<1>4. /\ chain'.issued = chain.issued /\ chain'.pending = q
      /\ chain'.last = m /\ chain'.cancelled = chain.cancelled
  BY <1>1, <1>3 DEF Chains
<1>5. 1 \in 1..Len(chain.pending) /\ \A i \in 1..Len(q) : i + 1 \in 1..Len(chain.pending)
  BY <1>2
<1>6. chain.last < m /\ m \in Int /\ m \in ModOrZero
  BY <1>1, <1>2, <1>5, ModTypes DEF ChainInv
<1>7. StillApproved(chain, chain')
  BY <1>1, <1>4, <1>6 DEF StillApproved, Approved
<1>8. \A i \in 1..Len(chain'.pending) :
         \E j \in 1..Len(chain.pending) : chain.pending[j] = chain'.pending[i]
  BY <1>2, <1>4, <1>5
<1>9. Covered(drive, inbox, m)  BY <1>2, <1>5, SafeGood DEF Tidy, Order, CoverOrder
<1> QED  BY <1>3, <1>4, <1>6, <1>7, <1>8, <1>9, ChainPostOrder

\* A cancellation is announced, and its modification is no longer pending.
LEMMA ChainCancelOrder ==
    ASSUME NEW m \in Mods
    PROVE  Safe /\ ChainCancel(m) => Tidy'
<1> SUFFICES ASSUME Safe, ChainCancel(m)  PROVE Tidy'
  OBVIOUS
<1> DEFINE q == Without(chain.pending, m)
           s == chain.pending
<1>1. /\ chain \in Chains /\ s \in Seq(Mods) /\ ChainInv(chain) /\ m \in ModOrZero
      /\ chain.last \in Int /\ Len(s) \in Nat /\ DOMAIN s = 1..Len(s)
  BY ChainTypes, SafeGood, ModTypes, LenProperties DEF Good
<1>2. \E i \in DOMAIN s : s[i] = m  BY DEF ChainCancel
<1>3. /\ chain' = [chain EXCEPT !.pending = q, !.cancelled = chain.cancelled \cup {m}]
      /\ Post("cancel", m) /\ UNCHANGED replicator
  BY <1>1 DEF ChainCancel, Chains
<1>4. /\ Len(q) = Len(s) - 1
      /\ \A i \in 1..(Len(s) - 1) : q[i] = IF i < Position(s, m) THEN s[i] ELSE s[i + 1]
  BY <1>1, <1>2, WithoutProperties
<1>5. chain.last < m /\ m \in Int
  BY <1>1, <1>2, ModTypes DEF ChainInv
<1>6. \A i \in 1..Len(q) : i \in 1..Len(s) /\ i + 1 \in 1..Len(s)  BY <1>1, <1>4
<1>7. \A i \in 1..Len(q) : \E j \in 1..Len(s) : s[j] = q[i]
  BY <1>1, <1>4, <1>6
<1> HIDE DEF q
<1>8. /\ chain'.issued = chain.issued /\ chain'.pending = q
      /\ chain'.last = chain.last /\ chain'.cancelled = chain.cancelled \cup {m}
  BY <1>1, <1>3 DEF Chains
<1>9. StillApproved(chain, chain')  BY <1>1, <1>5, <1>8 DEF StillApproved, Approved
<1> QED  BY <1>1, <1>3, <1>7, <1>8, <1>9, ChainPostOrder

\* The closure and the verifications.
LEMMA ChainOtherOrder == Safe /\ (ChainClose \/ ChainVerify \/ ChainVerified) => Tidy'
<1> SUFFICES ASSUME Safe, ChainClose \/ ChainVerify \/ ChainVerified  PROVE Tidy'
  OBVIOUS
<1>1. chain \in Chains /\ chain.last \in ModOrZero /\ 0 \in ModOrZero
  BY ChainTypes, SafeGood, ModTypes DEF Good
<1>2. /\ chain'.issued = chain.issued /\ chain'.pending = chain.pending
      /\ chain'.last = chain.last /\ chain'.cancelled = chain.cancelled
  BY <1>1 DEF ChainClose, ChainVerify, ChainVerified, Chains
<1>3. StillApproved(chain, chain')  BY <1>2 DEF StillApproved, Approved
<1>4. CASE ChainClose  BY <1>1, <1>2, <1>3, <1>4, ChainPostOrder DEF ChainClose
<1>5. CASE ChainVerify  BY <1>1, <1>2, <1>3, <1>5, ChainPostOrder DEF ChainVerify
<1>6. CASE ChainVerified  BY <1>1, <1>2, <1>3, <1>6, ChainPostOrder DEF ChainVerified
<1> QED  BY <1>4, <1>5, <1>6

------------------------------------------------------------------------------
(* The handlers of the drive *)

\* The first part of the invariant, when an event was taken.
LEMMA HandlerGood ==
    ASSUME Safe, NEW s, Take(s), NEW d, DriveInv(chain, d)
    PROVE  Good(chain, inbox', d, disk)
<1>1. InboxInv(chain, inbox')  BY TakeKeeps DEF Take, Safe
<1> QED  BY <1>1 DEF Good, Safe, IInv

\* What is left to show of a handler.
LEMMA HandlerOrder ==
    ASSUME Safe, NEW s, Take(s), Order(chain, inbox', drive', disk),
           FlagOrder(drive'.task), AccountOrder(drive'.task, acct')
    PROVE  Tidy'
<1>1. chain' = chain /\ disk' = disk /\ up = "up" /\ up' = up  BY DEF Take
<1> QED  BY <1>1 DEF Tidy, DownOrder, Safe

\* A handler ends with runNextTask, if no task is running.
LEMMA ThenRunOrder ==
    ASSUME NEW q, NEW d, NEW a, Good(chain, q, d, disk), Order(chain, q, d, disk),
           FlagOrder(d.task), AccountOrder(d.task, a), ThenRunIfIdle(d, a)
    PROVE  /\ Order(chain, q, drive', disk)
           /\ FlagOrder(drive'.task) /\ AccountOrder(drive'.task, acct')
<1>1. CASE HasTask(d)  BY <1>1 DEF ThenRunIfIdle
<1>2. CASE ~HasTask(d)
  <2>1. drive' = RunNextTask(d)  BY <1>2 DEF ThenRunIfIdle
  <2>2. Order(chain, q, drive', disk) /\ FreshTask(drive'.task)  BY <2>1, RunNextOrder
  <2> QED  BY <2>2, FreshOrder
<1> QED  BY <1>1, <1>2

\* An event other than a request leaves the drive as it is until it is handled.
LEMMA TakenOrder ==
    ASSUME Safe, NEW s, Take(s), s # "modify"
    PROVE  /\ Order(chain, inbox', drive, disk)
           /\ EventOrder(chain, drive, disk, Head(inbox))
           /\ \A i \in 1..Len(inbox') : PairOrder(Head(inbox), inbox'[i])
           /\ s = "approve" => Covered(drive, inbox', Head(inbox).mod)
<1>1. PICK h, t : h = Head(inbox) /\ t = Tail(inbox)  OBVIOUS
<1>2. inbox # <<>> /\ h.type = s /\ inbox' = t  BY <1>1 DEF Take
<1>3. inbox \in Seq(Events) /\ Order(chain, inbox, drive, disk)
  BY SafeGood, QueueTypes DEF Tidy
<1>4. /\ Order(chain, t, drive, disk)
      /\ EventOrder(chain, drive, disk, h)
      /\ \A i \in 1..Len(t) : PairOrder(h, t[i])
      /\ h.type = "approve" => Covered(drive, t, h.mod)
  <2>1. h.type # "modify"  BY <1>2
  <2> QED  BY <1>1, <1>2, <1>3, <2>1, TakeOrder
<1> QED  BY <1>1, <1>2, <1>4

\* startModifyDrive
LEMMA OnModifyOrder == Safe /\ OnModify => Tidy'
<1> SUFFICES ASSUME Safe, OnModify  PROVE Tidy'
  OBVIOUS
<1> DEFINE m == Head(inbox).mod
           d == [drive EXCEPT !.deferred = Append(drive.deferred, m)]
<1>0. Good(chain, inbox, drive, disk) /\ Tidy /\ drive \in Drives  BY SafeGood
<1>1. Take("modify") /\ ThenRunIfIdle(d, acct)
  BY <1>0 DEF OnModify, Drives
<1>2. m \in Mods  BY <1>1, HeadInv DEF Take, EventInv, Safe
<1>3. drive.deferred \in Seq(Mods)  BY <1>0 DEF Drives
<1>4. Append(drive.deferred, m) \in Seq(Mods)  BY <1>2, <1>3, AppendProperties
<1>5. DriveInv(chain, d)
  <2> HIDE DEF m
  <2> QED  BY <1>4 DEF Safe, IInv, DriveInv, DriveIsApproved, Drives
<1>6. /\ d.deferred = Append(drive.deferred, m) /\ d.catchReq = drive.catchReq
      /\ d.last = drive.last /\ d.task = drive.task
  BY <1>0 DEF Drives
<1>7. inbox # <<>> /\ Head(inbox).type = "modify" /\ inbox' = Tail(inbox)
  BY <1>1 DEF Take
<1> HIDE DEF d
<1>8. PICK h, t : h = Head(inbox) /\ t = Tail(inbox)  OBVIOUS
<1>9. h.type = "modify" /\ d.deferred = Append(drive.deferred, h.mod) /\ inbox' = t
  BY <1>6, <1>7, <1>8
<1>10. Order(chain, t, d, disk)
  BY <1>0, <1>6, <1>7, <1>8, <1>9, RequestOrder DEF Tidy
<1>11. Good(chain, inbox', d, disk)  BY <1>1, <1>5, HandlerGood
<1>12. FlagOrder(d.task) /\ AccountOrder(d.task, acct)  BY <1>0, <1>6 DEF Tidy
<1>13. /\ Order(chain, inbox', drive', disk)
       /\ FlagOrder(drive'.task) /\ AccountOrder(drive'.task, acct')
  BY <1>1, <1>9, <1>10, <1>11, <1>12, ThenRunOrder
<1> QED  BY <1>1, <1>13, HandlerOrder

\* An interrupted task is no nearer to its end.
LEMMA BreakOrder ==
    ASSUME NEW d \in Drives, NEW a, FlagOrder(d.task), AccountOrder(d.task, a)
    PROVE  /\ \A k : Calmer(d, BreakTask(d), k)
           /\ BreakTask(d).task.interrupted
           /\ BreakTask(d).task.step \in {d.task.step, "finish"}
           /\ FlagOrder(BreakTask(d).task) /\ AccountOrder(BreakTask(d).task, a)
<1> DEFINE i == [d EXCEPT !.task.interrupted = TRUE]
           f == FinishTask(i)
<1>1. /\ i \in Drives /\ i.task.interrupted /\ i.task.step = d.task.step
      /\ i.deferred = d.deferred /\ i.catchReq = d.catchReq /\ i.last = d.last
      /\ i.task.kind = d.task.kind /\ i.task.mod = d.task.mod
      /\ i.task.approved = d.task.approved
  BY DEF Drives, Tasks
<1> HIDE DEF i
<1>2. SameTask(i, f) /\ f.task.step = "finish"  BY <1>1, TaskChanges
<1>3. BreakTask(d) \in {i, f}  BY DEF BreakTask, TryBreakTask, i
<1> HIDE DEF f
<1>4. /\ \A k : Calmer(d, i, k)
      /\ i.task.interrupted /\ FlagOrder(i.task) /\ AccountOrder(i.task, a)
  BY <1>1 DEF Calmer, Applies, FlagOrder, AccountOrder
<1>5. /\ \A k : Calmer(d, f, k)
      /\ f.task.interrupted /\ FlagOrder(f.task) /\ AccountOrder(f.task, a)
  BY <1>1, <1>2 DEF SameTask, Calmer, Applies, FlagOrder, AccountOrder, Synchronizing
<1> QED  BY <1>1, <1>2, <1>3, <1>4, <1>5

\* Drive e is drive d, apart from verifications and the closing request.
SameWork(d, e) ==
    /\ e.deferred = d.deferred /\ e.catchReq = d.catchReq /\ e.last = d.last
    /\ e.task = d.task

\* Such a drive keeps the order.
LEMMA SameWorkCalmer ==
    ASSUME NEW d, NEW e, SameWork(d, e)
    PROVE  \A k : Calmer(d, e, k)
  BY DEF SameWork, Calmer

\* startDriveClosing
LEMMA OnCloseOrder == Safe /\ OnClose => Tidy'
<1> SUFFICES ASSUME Safe, OnClose  PROVE Tidy'
  OBVIOUS
<1> DEFINE v == CancelVerification(drive)
           d == [v EXCEPT !.closeReq = TRUE]
<1>0. drive \in Drives /\ Tidy  BY SafeGood
<1>1. DriveInv(chain, v)  BY VerificationKeeps DEF Safe, IInv
<1>2. v \in Drives /\ SameWork(drive, v)
  BY <1>0 DEF CancelVerification, SameWork, Drives
<1>3. Take("close") /\ (ThenRunIfIdle(d, acct) \/ (drive' = BreakTask(d) /\ acct' = acct))
  BY DEF OnClose
<1> HIDE DEF v
<1>4. DriveInv(chain, d) /\ d \in Drives /\ SameWork(drive, d)
  BY <1>1, <1>2 DEF DriveInv, DriveIsApproved, Drives, SameWork
<1> HIDE DEF d
<1>5. Order(chain, inbox', d, disk)
  BY <1>3, <1>4, TakenOrder, SameWorkCalmer, CalmerKeeps
<1>6. FlagOrder(d.task) /\ AccountOrder(d.task, acct)  BY <1>0, <1>4 DEF SameWork, Tidy
<1>7. CASE ThenRunIfIdle(d, acct)
  <2>1. Good(chain, inbox', d, disk)  BY <1>3, <1>4, HandlerGood
  <2> QED  BY <1>3, <1>5, <1>6, <1>7, <2>1, ThenRunOrder, HandlerOrder
<1>8. CASE drive' = BreakTask(d) /\ acct' = acct
  <2>1. Calmer(d, drive', disk) /\ FlagOrder(drive'.task) /\ AccountOrder(drive'.task, acct')
    BY <1>4, <1>6, <1>8, BreakOrder
  <2>2. Order(chain, inbox', drive', disk)  BY <1>5, <2>1, CalmerKeeps
  <2> QED  BY <1>3, <2>1, <2>2, HandlerOrder
<1> QED  BY <1>3, <1>7, <1>8

\* startVerification, cancelVerification
LEMMA OnVerifyOrder == Safe /\ (OnVerify \/ OnVerified) => Tidy'
<1> SUFFICES ASSUME Safe, OnVerify \/ OnVerified  PROVE Tidy'
  OBVIOUS
<1>0. drive \in Drives /\ Tidy  BY SafeGood
<1>1. /\ \E s \in {"verify", "verified"} : Take(s)
      /\ acct' = acct /\ SameWork(drive, drive')
  BY <1>0 DEF OnVerify, OnVerified, SameWork, RunVerificationTask, CancelVerification, Drives
<1>2. PICK s \in {"verify", "verified"} : Take(s)  BY <1>1
<1>3. Order(chain, inbox', drive', disk)
  BY <1>1, <1>2, TakenOrder, SameWorkCalmer, CalmerKeeps
<1>4. FlagOrder(drive'.task) /\ AccountOrder(drive'.task, acct')
  BY <1>0, <1>1 DEF SameWork, Tidy
<1> QED  BY <1>2, <1>3, <1>4, HandlerOrder

\* The queue without m has the same other elements in the same order.
LEMMA WithoutOrder ==
    ASSUME NEW s \in Seq(Mods), NEW m, Increasing(s), NEW w, w = Without(s, m)
    PROVE  /\ w \in Seq(Mods) /\ Increasing(w)
           /\ \A i \in 1..Len(w) : \E j \in 1..Len(s) : s[j] = w[i]
           /\ \A j \in 1..Len(s) : s[j] # m => \E i \in 1..Len(w) : w[i] = s[j]
<1>1. PICK p : p = Position(s, m)  OBVIOUS
<1>2. /\ p \in 0..Len(s) /\ Len(s) \in Nat /\ DOMAIN s = 1..Len(s)
      /\ (\E i \in DOMAIN s : s[i] = m) => p # 0 /\ s[p] = m
  BY <1>1, PositionType, LenProperties
<1>3. CASE ~\E i \in DOMAIN s : s[i] = m
  <2>1. w = s  BY <1>3 DEF Without, Position
  <2> QED  BY <2>1
<1>4. CASE \E i \in DOMAIN s : s[i] = m
  <2>1. /\ w \in Seq(Mods) /\ Len(w) = Len(s) - 1
        /\ \A i \in 1..(Len(s) - 1) : w[i] = IF i < p THEN s[i] ELSE s[i + 1]
    BY <1>1, <1>4, WithoutProperties
  <2>2. p \in 1..Len(s) /\ s[p] = m  BY <1>2, <1>4
  <2>3. \A i \in 1..Len(w) : i \in 1..Len(s) /\ i + 1 \in 1..Len(s)  BY <1>2, <2>1
  <2>4. \A i \in 1..Len(w) : \E j \in 1..Len(s) : s[j] = w[i]  BY <2>1, <2>3
  <2>5. ASSUME NEW j \in 1..Len(s), s[j] # m  PROVE \E i \in 1..Len(w) : w[i] = s[j]
    <3>1. CASE j < p
      <4>1. j \in 1..Len(w) /\ w[j] = s[j]  BY <3>1, <2>1, <2>2, <1>2
      <4> QED  BY <4>1
    <3>2. CASE p < j
      <4>1. PICK i : i = j - 1  OBVIOUS
      <4>2. i \in 1..Len(w) /\ ~(i < p) /\ i + 1 = j  BY <3>2, <4>1, <2>1, <2>2, <1>2
      <4>3. w[i] = s[j]  BY <4>2, <2>1
      <4> QED  BY <4>2, <4>3
    <3> QED  BY <3>1, <3>2, <2>2, <2>5, <1>2
  <2>6. ASSUME NEW i \in 1..Len(w), NEW j \in 1..Len(w), i < j  PROVE w[i] < w[j]
    <3>1. i < j /\ i + 1 < j + 1 /\ i < j + 1  BY <2>6, <2>1, <1>2
    <3>2. CASE i < p /\ j < p
      BY <3>1, <3>2, <2>1, <2>3 DEF Increasing
    <3>3. CASE i < p /\ ~(j < p)
      BY <3>1, <3>3, <2>1, <2>3 DEF Increasing
    <3>4. CASE ~(i < p) /\ ~(j < p)
      BY <3>1, <3>4, <2>1, <2>3 DEF Increasing
    <3>5. i < p \/ ~(j < p)  BY <2>6, <2>1, <1>2
    <3> QED  BY <3>2, <3>3, <3>4, <3>5
  <2>7. Increasing(w)  BY <2>6 DEF Increasing
  <2> QED  BY <2>1, <2>4, <2>5, <2>7
<1> QED  BY <1>3, <1>4

\* A cancelled modification leaves the queue of the drive: nobody will approve it.
LEMMA WithdrawOrder ==
    ASSUME NEW c, NEW q, NEW d, NEW k, Good(c, q, d, k), Order(c, q, d, k),
           NEW m \in c.cancelled,
           NEW e, e.deferred = Without(d.deferred, m), e.catchReq = d.catchReq,
           e.last = d.last, e.task = d.task
    PROVE  Order(c, q, e, k)
<1>0. /\ d.deferred \in Seq(Mods) /\ Increasing(d.deferred)
      /\ \A x : Waits(d, q, x) => x \in Mods
  BY QueueTypes DEF Order, QueueOrder
<1>1. PICK s, w : s = d.deferred /\ w = e.deferred  OBVIOUS
<1>2. /\ w \in Seq(Mods) /\ Increasing(w)
      /\ \A i \in 1..Len(w) : \E j \in 1..Len(s) : s[j] = w[i]
      /\ \A j \in 1..Len(s) : s[j] # m => \E i \in 1..Len(w) : w[i] = s[j]
  <2>1. s \in Seq(Mods) /\ Increasing(s) /\ w = Without(s, m)  BY <1>0, <1>1
  <2> QED  BY ONLY <2>1, WithoutOrder, SMTT(60)
<1>3. /\ \A x : Deferred(e, x) => Deferred(d, x)
      /\ \A x : Deferred(d, x) /\ x # m => Deferred(e, x)
  <2>1. /\ \A x : Deferred(d, x) <=> \E j \in 1..Len(s) : s[j] = x
        /\ \A x : Deferred(e, x) <=> \E j \in 1..Len(w) : w[j] = x
    BY ONLY <1>1 DEF Deferred
  <2> QED  BY ONLY <1>2, <2>1, Zenon
<1>4. \A x : x # m /\ Covered(d, q, x) => Covered(e, q, x)
  BY <1>3 DEF Covered, Waits
<1>5. /\ \A i \in 1..Len(c.pending) : c.pending[i] # m
      /\ \A i \in 1..Len(q) : q[i].type = "approve" => q[i].mod # m
      /\ d.catchReq # 0 => d.catchReq # m
  BY DEF Good, ChainInv, InboxInv, EventInv, DriveInv, DriveIsApproved, Approved
<1>6. /\ \A x : NewRequest(c, d, k, x) => NewRequest(c, e, k, x)
      /\ \A x : NotAhead(d, k, x) => NotAhead(e, k, x)
  BY DEF NewRequest, NotAhead
<1>7. InboxOrder(c, q, e, k)
  <2>1. \A x : EventOrder(c, d, k, x) => EventOrder(c, e, k, x)
    BY <1>3, <1>6 DEF EventOrder
  <2> QED  BY <2>1 DEF Order, InboxOrder
<1>8. QueueOrder(c, e, k)
  <2>1. Increasing(e.deferred)  BY <1>1, <1>2
  <2> QED  BY <2>1, <1>3, <1>6 DEF Order, QueueOrder
<1>9. TaskOrder(c, e, k)  BY <1>6 DEF Order, TaskOrder
<1>10. CoverOrder(c, q, e)  BY <1>4, <1>5 DEF Order, CoverOrder
<1> QED  BY <1>7, <1>8, <1>9, <1>10 DEF Order

\* cancelModifyDrive
LEMMA OnCancelOrder == Safe /\ OnCancel => Tidy'
<1> SUFFICES ASSUME Safe, OnCancel  PROVE Tidy'
  OBVIOUS
<1> DEFINE tx == Head(inbox).mod
           t == TaskOnCancel(drive, tx)
           e == [drive EXCEPT !.task.cancels = drive.task.cancels \cup {tx}]
<1>1. CASE Die /\ chain' = chain /\ disk' = disk  BY <1>1, DieOrder
<1>2. CASE Take("cancel") /\ drive' = CancelModifyDrive(drive, acct, tx) /\ acct' = acct
  <2>0. drive \in Drives /\ Tidy /\ DriveInv(chain, drive)  BY SafeGood DEF Good
  <2>1. tx \in Mods /\ tx \in chain.cancelled
    <3>1. Head(inbox).type = "cancel"  BY <1>2 DEF Take
    <3> QED  BY <1>2, <3>1, HeadInv, TakenOrder DEF Take, EventInv, EventOrder, Safe
  <2> HIDE DEF tx
  <2>2. Order(chain, inbox', drive, disk)  BY <1>2, TakenOrder
  <2>3. t \in {BreakTask(drive), e, drive}  BY DEF TaskOnCancel
  <2>4. DriveInv(chain, t) /\ t \in Drives
    <3>1. DriveInv(chain, BreakTask(drive))  BY <2>0, BreakKeeps DEF DriveInv
    <3>2. DriveInv(chain, e)
      BY <2>0, <2>1 DEF DriveInv, DriveIsApproved, TaskIsApproved, ApprovalIsOwn, Drives, Tasks
    <3> HIDE DEF t, e
    <3> QED  BY <2>0, <2>3, <3>1, <3>2 DEF DriveInv, DriveIsApproved
  <2>5. Calmer(drive, t, disk) /\ FlagOrder(t.task) /\ AccountOrder(t.task, acct)
    <3>1. /\ Calmer(drive, BreakTask(drive), disk)
          /\ FlagOrder(BreakTask(drive).task) /\ AccountOrder(BreakTask(drive).task, acct)
      BY <2>0, BreakOrder DEF Tidy
    <3>2. SameTask(drive, e) /\ e.task.step = drive.task.step
          /\ e.task.calculated = drive.task.calculated
      BY <2>0 DEF SameTask, Drives, Tasks
    <3> HIDE DEF t, e
    <3>3. Calmer(drive, e, disk) /\ FlagOrder(e.task) /\ AccountOrder(e.task, acct)
      BY <2>0, <3>2 DEF Calmer, SameTask, Applies, FlagOrder, AccountOrder, Tidy
    <3>4. Calmer(drive, drive, disk)  BY DEF Calmer
    <3> QED  BY <2>0, <2>3, <3>1, <3>3, <3>4 DEF Tidy
  <2>6. drive' \in {[t EXCEPT !.cancelReq = tx],
                    [t EXCEPT !.deferred = Without(t.deferred, tx)]}
    BY <1>2, <2>4 DEF CancelModifyDrive, Drives
  <2> HIDE DEF t
  <2>7. Order(chain, inbox', t, disk)  BY <2>2, <2>5, CalmerKeeps
  <2>8. drive'.task = t.task
    BY <2>4, <2>6 DEF Drives
  <2>9. CASE drive' = [t EXCEPT !.cancelReq = tx]
    <3>1. SameWork(t, drive')  BY <2>4, <2>9 DEF Drives, SameWork
    <3>2. Order(chain, inbox', drive', disk)  BY <2>7, <3>1, SameWorkCalmer, CalmerKeeps
    <3> QED  BY <1>2, <2>5, <2>8, <3>2, HandlerOrder
  <2>10. CASE drive' = [t EXCEPT !.deferred = Without(t.deferred, tx)]
    <3>1. /\ drive'.deferred = Without(t.deferred, tx) /\ drive'.catchReq = t.catchReq
          /\ drive'.last = t.last
      BY <2>4, <2>10 DEF Drives
    <3>2. Good(chain, inbox', t, disk)  BY <1>2, <2>4, HandlerGood
    <3>3. Order(chain, inbox', drive', disk)
      BY <2>1, <2>7, <2>8, <3>1, <3>2, WithdrawOrder
    <3> QED  BY <1>2, <2>5, <2>8, <3>3, HandlerOrder
  <2> QED  BY <2>6, <2>9, <2>10
<1> QED  BY <1>1, <1>2 DEF OnCancel

\* An approval becomes the modification to catch up with: it is newer than what
\* the drive has and has asked for, and older than everything still to come.
LEMMA CatchReqOrder ==
    ASSUME NEW c, NEW q, NEW d, NEW k, Order(c, q, d, k),
           NEW x, x.type = "approve", EventOrder(c, d, k, x),
           \A i \in 1..Len(q) : PairOrder(x, q[i]), Covered(d, q, x.mod),
           d.task.mod \in Int, x.mod \in Int,
           d.task.kind = "modify" => d.task.interrupted,
           NEW e, e.catchReq = x.mod, e.deferred = d.deferred, e.last = d.last, e.task = d.task
    PROVE  Order(c, q, e, k)
<1>1. /\ \A m : Deferred(e, m) <=> Deferred(d, m)
      /\ \A m : Covered(e, q, m) <=> Covered(d, q, m)
  BY DEF Deferred, Waits, Covered
<1>2. /\ \A m : NewRequest(c, d, k, m) => NewRequest(c, e, k, m)
      /\ \A m : NotAhead(d, k, m) => NotAhead(e, k, m)
  BY DEF NewRequest, NotAhead
<1>3. NotAhead(d, k, x.mod) /\ (Applies(d.task) => d.task.mod < x.mod)
  BY DEF EventOrder
<1>4. InboxOrder(c, q, e, k)
  <2>1. ASSUME NEW i \in 1..Len(q)  PROVE EventOrder(c, e, k, q[i])
    <3>1. EventOrder(c, d, k, q[i])  BY DEF Order, InboxOrder
    <3>2. q[i].type \in {"modify", "approve"} => x.mod < q[i].mod  BY DEF PairOrder
    <3> QED  BY <3>1, <3>2, <1>1, <1>2 DEF EventOrder
  <2> QED  BY <2>1 DEF Order, InboxOrder
<1>5. QueueOrder(c, e, k)  BY <1>1, <1>2 DEF Order, QueueOrder
<1>6. TaskOrder(c, e, k)
  <2>1. NotAhead(e, k, e.catchReq)  BY <1>2, <1>3
  <2>2. Applies(e.task) => e.task.mod <= e.catchReq  BY <1>3
  <2>3. Applies(e.task) => NotAhead(e, k, e.task.mod)  BY <1>2 DEF Order, TaskOrder
  <2> QED  BY <2>1, <2>2, <2>3 DEF Order, TaskOrder
<1>7. CoverOrder(c, q, e)  BY <1>1 DEF Order, CoverOrder
<1> QED  BY <1>4, <1>5, <1>6, <1>7 DEF Order

\* The approval of the task's own modification.
LEMMA OwnApprovalOrder ==
    ASSUME NEW c, NEW q, NEW d, NEW k, Order(c, q, d, k),
           NEW x, x.type = "approve", EventOrder(c, d, k, x),
           \A i \in 1..Len(q) : PairOrder(x, q[i]),
           d.task.kind = "modify", ~d.task.interrupted, d.task.mod = x.mod,
           NEW e, e.catchReq = d.catchReq, e.deferred = d.deferred, e.last = d.last,
           e.task.kind = d.task.kind, e.task.mod = d.task.mod,
           e.task.step # "finish" => d.task.step # "finish"
    PROVE  Order(c, q, e, k)
<1>1. /\ \A m : Deferred(e, m) <=> Deferred(d, m)
      /\ \A m : Covered(e, q, m) <=> Covered(d, q, m)
  BY DEF Deferred, Waits, Covered
<1>2. /\ \A m : NewRequest(c, d, k, m) => NewRequest(c, e, k, m)
      /\ \A m : NotAhead(d, k, m) => NotAhead(e, k, m)
  BY DEF NewRequest, NotAhead
<1>3. NotAhead(d, k, x.mod) /\ d.catchReq = 0
  BY DEF EventOrder, Order, TaskOrder
<1>4. InboxOrder(c, q, e, k)
  <2>1. ASSUME NEW i \in 1..Len(q)  PROVE EventOrder(c, e, k, q[i])
    <3>1. EventOrder(c, d, k, q[i])  BY DEF Order, InboxOrder
    <3>2. q[i].type = "approve" => x.mod < q[i].mod  BY DEF PairOrder
    <3> QED  BY <3>1, <3>2, <1>1, <1>2 DEF EventOrder
  <2> QED  BY <2>1 DEF Order, InboxOrder
<1>5. QueueOrder(c, e, k)  BY <1>1, <1>2 DEF Order, QueueOrder
<1>6. TaskOrder(c, e, k)
  <2>1. NotAhead(e, k, e.task.mod)  BY <1>2, <1>3
  <2>2. e.task.step # "finish" => e.last < e.task.mod  BY DEF Order, TaskOrder
  <2>3. e.catchReq = 0  BY <1>3
  <2> QED  BY <2>1, <2>2, <2>3 DEF Order, TaskOrder
<1>7. CoverOrder(c, q, e)  BY <1>1 DEF Order, CoverOrder
<1> QED  BY <1>4, <1>5, <1>6, <1>7 DEF Order

\* What an approval does to a task that the drive will follow by a catch-up.
LEMMA TaskGivesWay ==
    ASSUME NEW d \in Drives, NEW a, NEW tx, FlagOrder(d.task), AccountOrder(d.task, a),
           TaskStartsCatchUp(d, tx) \/ d.task.kind # "modify"
    PROVE  LET e == TaskOnApproval(d, tx)
           IN  /\ \A k : Calmer(d, e, k)
               /\ e.task.kind = "modify" => e.task.interrupted
               /\ FlagOrder(e.task) /\ AccountOrder(e.task, a)
<1> DEFINE n == [d EXCEPT !.task.approved = TRUE]
           e == TaskOnApproval(d, tx)
<1>1. /\ n \in Drives /\ n.task.approved /\ n.task.step = d.task.step
      /\ n.deferred = d.deferred /\ n.catchReq = d.catchReq /\ n.last = d.last
      /\ n.task.kind = d.task.kind /\ n.task.mod = d.task.mod
  BY DEF Drives, Tasks
<1>2. \/ e = d /\ (d.task.kind = "modify" => d.task.interrupted)
      \/ e = BreakTask(d)
      \/ e = BreakTask(n) /\ d.task.kind = "modify"
  BY DEF TaskOnApproval, TaskStartsCatchUp, ModifyOnApproval, ModifyStartsCatchUp,
         CatchUpOnApproval, ApprovesTask
<1> HIDE DEF n, e
<1>3. CASE e = d /\ (d.task.kind = "modify" => d.task.interrupted)
  BY <1>3 DEF Calmer, e
<1>4. CASE e = BreakTask(d)  BY <1>4, BreakOrder DEF e
<1>5. CASE e = BreakTask(n) /\ d.task.kind = "modify"
  <2>1. FlagOrder(n.task) /\ AccountOrder(n.task, a)
    BY <1>1 DEF FlagOrder, AccountOrder
  <2>2. /\ \A k : Calmer(n, e, k)
        /\ e.task.interrupted /\ e.task.step \in {n.task.step, "finish"}
        /\ FlagOrder(e.task) /\ AccountOrder(e.task, a)
    BY <1>1, <1>5, <2>1, BreakOrder
  <2>3. \A k : Calmer(d, e, k)
    <3> SUFFICES ASSUME NEW k  PROVE Calmer(d, e, k)
      OBVIOUS
    <3>1. Calmer(n, e, k)  BY <2>2
    <3>2. Applies(e.task) => Applies(d.task)
      BY <3>1, <2>2, <1>1, <1>5 DEF Calmer, Applies, Updating, Synchronizing
    <3> QED  BY <3>1, <3>2, <2>2, <1>1 DEF Calmer
  <2> QED  BY <2>2, <2>3 DEF e
<1> QED  BY <1>2, <1>3, <1>4, <1>5

\* What is said of an event on its way stays true of a calmer drive.
LEMMA CalmerEvent ==
    ASSUME NEW c, NEW q, NEW d, NEW e, NEW k, Calmer(d, e, k)
    PROVE  /\ \A x : EventOrder(c, d, k, x) => EventOrder(c, e, k, x)
           /\ \A m : Covered(d, q, m) => Covered(e, q, m)
<1>1. /\ \A m : Deferred(e, m) <=> Deferred(d, m)
      /\ \A m : Waits(e, q, m) <=> Waits(d, q, m)
      /\ \A m : Covered(e, q, m) <=> Covered(d, q, m)
  BY DEF Calmer, Deferred, Waits, Covered
<1>2. /\ \A m : NewRequest(c, d, k, m) => NewRequest(c, e, k, m)
      /\ \A m : NotAhead(d, k, m) => NotAhead(e, k, m)
  BY DEF Calmer, NewRequest, NotAhead
<1> QED  BY <1>1, <1>2 DEF EventOrder, Calmer

\* onApprovalTransactionHasBeenPublished
LEMMA OnApprovalOrder == Safe /\ OnApproval => Tidy'
<1> SUFFICES ASSUME Safe, OnApproval  PROVE Tidy'
  OBVIOUS
<1> DEFINE tx == Head(inbox).mod
           v  == CancelVerification(drive)
           d  == IF HasTask(v) THEN TaskOnApproval(v, tx) ELSE v
           a  == IF drive.task.kind = "modify"
                 THEN ModifyOnApprovalAccount(drive, acct, tx) ELSE acct
           r  == [d EXCEPT !.catchReq = tx]
<1>0. drive \in Drives /\ drive.task \in Tasks /\ Tidy  BY SafeGood
<1>1. Take("approve")  BY DEF OnApproval
<1>2. /\ Approved(chain, tx) /\ tx \in ModOrZero /\ tx \in Int
      /\ Head(inbox).type = "approve" /\ drive.task.mod \in Int
  <2>1. Approved(chain, tx) /\ tx \in ModOrZero /\ Head(inbox).type = "approve"
    BY <1>1, HeadInv DEF Take, EventInv, Events, Safe
  <2> QED  BY <1>0, <2>1, ModTypes DEF Tasks
<1>3. /\ Order(chain, inbox', drive, disk)
      /\ EventOrder(chain, drive, disk, Head(inbox))
      /\ \A i \in 1..Len(inbox') : PairOrder(Head(inbox), inbox'[i])
      /\ Covered(drive, inbox', tx)
  BY <1>1, TakenOrder
<1>4. IF HasTask(drive) => TaskStartsCatchUp(drive, tx)
      THEN ThenRunIfIdle(r, a) ELSE drive' = d /\ acct' = a
  BY DEF OnApproval
<1>5. a.approved = acct.approved /\ a.notApproved = acct.notApproved
  BY DEF Safe, IInv, AccountShape, ModifyOnApprovalAccount, IncreaseExpected
<1>6. ~TaskStartsCatchUp(drive, tx) => a = acct
  BY DEF TaskStartsCatchUp, ModifyStartsCatchUp, ModifyOnApprovalAccount
<1> HIDE DEF a
<1>7. DriveInv(chain, v) /\ v \in Drives /\ SameWork(drive, v)
  <2>1. DriveInv(chain, v)  BY VerificationKeeps DEF Safe, IInv
  <2>2. v \in Drives /\ SameWork(drive, v)
    BY <1>0 DEF CancelVerification, SameWork, Drives
  <2> QED  BY <2>1, <2>2
<1>8. FlagOrder(v.task) /\ AccountOrder(v.task, a)
  BY <1>0, <1>5, <1>7 DEF SameWork, Tidy, AccountOrder
<1>9. HasTask(v) = HasTask(drive) /\ TaskStartsCatchUp(v, tx) = TaskStartsCatchUp(drive, tx)
  BY <1>7 DEF SameWork, HasTask, TaskStartsCatchUp, ModifyStartsCatchUp
<1> HIDE DEF v, tx
<1>10. DriveInv(chain, d)  BY <1>2, <1>7, TaskOnApprovalKeeps
<1>11. CASE HasTask(drive) => TaskStartsCatchUp(drive, tx)
  <2>1. /\ Calmer(v, d, disk) /\ (d.task.kind = "modify" => d.task.interrupted)
        /\ FlagOrder(d.task) /\ AccountOrder(d.task, a)
    <3>1. CASE HasTask(v)
      <4>1. TaskStartsCatchUp(v, tx)  BY <1>9, <1>11, <3>1
      <4> QED  BY <1>7, <1>8, <3>1, <4>1, TaskGivesWay
    <3>2. CASE ~HasTask(v)
      <4>1. d = v /\ v.task.kind # "modify"  BY <3>2 DEF HasTask
      <4> QED  BY <1>8, <4>1 DEF Calmer
    <3> QED  BY <3>1, <3>2
  <2> HIDE DEF d
  <2>2. Calmer(drive, d, disk)  BY <1>7, <2>1 DEF Calmer, SameWork
  <2>3. Order(chain, inbox', d, disk)  BY <1>3, <2>2, CalmerKeeps
  <2>4. EventOrder(chain, d, disk, Head(inbox)) /\ Covered(d, inbox', tx)
    BY <1>3, <2>2, CalmerEvent
  <2>5. d \in Drives /\ d.task.mod \in Int
    BY <1>10, ModTypes DEF DriveInv, DriveIsApproved, Drives, Tasks
  <2>6. /\ r.catchReq = tx /\ r.deferred = d.deferred /\ r.last = d.last /\ r.task = d.task
        /\ DriveInv(chain, r)
    BY <1>2, <1>10, <2>5 DEF DriveInv, DriveIsApproved, Drives
  <2>7. ThenRunIfIdle(r, a)  BY <1>4, <1>11
  <2> HIDE DEF r
  <2>8. Order(chain, inbox', r, disk)
    <3>1. PICK h : h = Head(inbox)  OBVIOUS
    <3>2. /\ h.type = "approve" /\ h.mod = tx /\ EventOrder(chain, d, disk, h)
          /\ \A i \in 1..Len(inbox') : PairOrder(h, inbox'[i])
      BY <1>2, <1>3, <2>4, <3>1 DEF tx
    <3> QED  BY <1>2, <2>1, <2>3, <2>4, <2>5, <2>6, <3>2, CatchReqOrder
  <2>9. Good(chain, inbox', r, disk)  BY <1>1, <2>6, HandlerGood
  <2>10. FlagOrder(r.task) /\ AccountOrder(r.task, a)  BY <2>1, <2>6
  <2> QED  BY <1>1, <2>7, <2>8, <2>9, <2>10, ThenRunOrder, HandlerOrder
<1>12. CASE ~(HasTask(drive) => TaskStartsCatchUp(drive, tx))
  <2>1. drive' = d /\ acct' = acct /\ HasTask(v) /\ ~TaskStartsCatchUp(v, tx) /\ a = acct
    BY <1>4, <1>6, <1>9, <1>12
  <2>2. CASE drive.task.kind = "modify"
    <3> DEFINE n == [v EXCEPT !.task.approved = TRUE]
               s == [n EXCEPT !.task.step = "sync"]
    <3>1. ~v.task.interrupted /\ v.task.mod = tx /\ v.task.kind = "modify"
      BY <1>7, <2>1, <2>2
         DEF TaskStartsCatchUp, ModifyStartsCatchUp, ApprovesTask, SameWork
    <3>2. drive' = IF v.task.calculated THEN s ELSE n
      BY <2>1, <3>1
         DEF TaskOnApproval, TaskStartsCatchUp, ModifyStartsCatchUp, ModifyOnApproval
    <3>3. /\ n.task.approved /\ n.task.step = v.task.step /\ n.deferred = v.deferred
          /\ n.catchReq = v.catchReq /\ n.last = v.last /\ n.task.kind = v.task.kind
          /\ n.task.mod = v.task.mod /\ n.task.calculated = v.task.calculated
          /\ n \in Drives
      BY <1>7 DEF Drives, Tasks
    <3> HIDE DEF n
    <3>4. /\ s.task.approved /\ s.task.step = "sync" /\ s.deferred = v.deferred
          /\ s.catchReq = v.catchReq /\ s.last = v.last /\ s.task.kind = v.task.kind
          /\ s.task.mod = v.task.mod
      BY <3>3 DEF Drives, Tasks
    <3> HIDE DEF s, d
    <3>5. ~Applies(v.task)
      BY <1>2, <1>3, <1>7, <3>1 DEF EventOrder, SameWork, tx
    <3>6. ~v.task.approved /\ v.task.step \notin Synchronizing
      BY <3>1, <3>5 DEF Applies
    <3>7. v.task.calculated => v.task.step = "wait"
      BY <1>8, <3>1, <3>6 DEF FlagOrder
    <3>8. /\ drive'.catchReq = v.catchReq /\ drive'.deferred = v.deferred
          /\ drive'.last = v.last /\ drive'.task.kind = v.task.kind
          /\ drive'.task.mod = v.task.mod /\ drive'.task.approved
          /\ drive'.task.step # "finish" => v.task.step # "finish"
      BY <3>2, <3>3, <3>4, <3>7
    <3>9. Order(chain, inbox', drive', disk)
      <4>1. PICK h : h = Head(inbox)  OBVIOUS
      <4>2. /\ h.type = "approve" /\ h.mod = tx /\ EventOrder(chain, drive, disk, h)
            /\ \A i \in 1..Len(inbox') : PairOrder(h, inbox'[i])
        BY <1>2, <1>3, <4>1 DEF tx
      <4>3. Calmer(drive, v, disk)  BY <1>7, SameWorkCalmer
      <4>4. Order(chain, inbox', v, disk) /\ EventOrder(chain, v, disk, h)
        BY <1>3, <4>2, <4>3, CalmerKeeps, CalmerEvent
      <4> QED  BY <3>1, <3>8, <4>2, <4>4, OwnApprovalOrder
    <3>10. FlagOrder(drive'.task)  BY <3>8 DEF FlagOrder
    <3>11. AccountOrder(drive'.task, acct')
      <4>1. CASE v.task.calculated
        <5>1. acct.notApproved.id = v.task.mod
          BY <1>8, <2>1, <3>1, <3>7, <4>1 DEF AccountOrder, Updating
        <5> QED  BY <2>1, <3>2, <3>4, <4>1, <5>1 DEF AccountOrder
      <4>2. CASE ~v.task.calculated
        BY <1>8, <2>1, <3>2, <3>3, <4>2 DEF AccountOrder
      <4> QED  BY <4>1, <4>2
    <3> QED  BY <1>1, <3>9, <3>10, <3>11, HandlerOrder
  <2>3. CASE drive.task.kind # "modify"
    <3>1. drive' = v
      BY <1>7, <2>1, <2>3 DEF TaskStartsCatchUp, TaskOnApproval, SameWork
    <3>2. Order(chain, inbox', drive', disk)
      BY <1>3, <1>7, <3>1, SameWorkCalmer, CalmerKeeps
    <3> QED  BY <1>1, <1>8, <2>1, <3>1, <3>2, HandlerOrder
  <2> QED  BY <2>2, <2>3
<1> QED  BY <1>11, <1>12

------------------------------------------------------------------------------
(* The theorems *)

\* The invariant holds initially ...
LEMMA InitSafe == Init => Safe
<1> SUFFICES ASSUME Init  PROVE Safe
  OBVIOUS
<1>1. IInv  BY InitInv
<1>2. inbox = <<>> /\ drive = NewDrive({}) /\ disk = EmptyDisk /\ up = "up" /\ chain = NewChain
  BY DEF Init
<1>3. Len(inbox) = 0 /\ Len(chain.pending) = 0  BY <1>2 DEF NewChain
<1>4. Ordered(inbox)  BY <1>3 DEF Ordered
<1>5. /\ Order(chain, inbox, drive, disk)
      /\ FlagOrder(drive.task) /\ AccountOrder(drive.task, acct)
  <2>1. \A i \in 1..Len(inbox) : FALSE  BY <1>3
  <2>2. \A i \in 1..Len(chain.pending) : FALSE  BY <1>3
  <2>3. PICK c, q : c = chain /\ q = inbox  OBVIOUS
  <2>4. /\ Order(c, q, NewDrive({}), disk)
        /\ FlagOrder(NewDrive({}).task)
        /\ \A a : AccountOrder(NewDrive({}).task, a)
    BY ONLY <1>4, <2>1, <2>2, <2>3, NewDriveOrder
  <2> QED  BY <1>2, <2>3, <2>4
<1>6. SavedIsApproved(chain, disk)  BY <1>2 DEF SavedIsApproved, EmptyDisk, NoUploads
<1> QED  BY <1>1, <1>2, <1>5, <1>6 DEF Safe, DownOrder

\* ... and every step preserves it.
LEMMA NextSafe == Safe /\ [Next]_vars => Safe'
<1> SUFFICES ASSUME Safe, [Next]_vars  PROVE Safe'
  OBVIOUS
<1>1. IInv'  BY NextInv DEF Safe
<1>2. Tidy'
  <2>1. CASE ChainStep
    BY <2>1, ChainModifyOrder, ChainApproveOrder, ChainCancelOrder, ChainOtherOrder
       DEF ChainStep
  <2>2. CASE OnEvent
    BY <2>2, OnModifyOrder, OnApprovalOrder, OnCancelOrder, OnCloseOrder, OnVerifyOrder
       DEF OnEvent
  <2>3. CASE ClientDownload \/ ReplicatorDownload
    BY <2>3, PlainStepOrder DEF ClientDownload, ReplicatorDownload
  <2>4. CASE TaskStep
    BY <2>4, PlainStepOrder, SandboxOrder, SaveStepOrder, OpinionOrder, ReplaceOrder,
       InitializeOrder, FinishOrder, RemoveOrder DEF TaskStep
  <2>5. CASE Crash  BY <2>5, DieOrder DEF Crash
  <2>6. CASE Restart \/ RemoveUnusedDrives  BY <2>6, RestartOrder, RemoveOrder
  <2>7. CASE UNCHANGED vars  BY <2>7, SafeGood DEF vars, Tidy
  <2> QED  BY <2>1, <2>2, <2>3, <2>4, <2>5, <2>6, <2>7 DEF Next
<1> QED  BY <1>1, <1>2 DEF Safe, Tidy

\* No work is repeated: a modification that the drive executes is newer than
\* the last one it has, whatever catch-ups, cancellations, crashes and restarts
\* came in between (runDeferredModificationTask, runCatchingUpTask and the order
\* in which onApprovalTransactionHasBeenPublished sees the approvals).
THEOREM NoWorkIsRepeatedTheorem == Spec => []NoWorkIsRepeated
<1>1. Safe => NoWorkIsRepeated
  <2> SUFFICES ASSUME Safe, drive.task.kind = "modify", drive.task.step # "finish"
               PROVE  drive.task.mod > drive.last
    BY DEF NoWorkIsRepeated
  <2>1. drive.last < drive.task.mod  BY DEF Safe, Order, TaskOrder
  <2>2. drive.last \in Int /\ drive.task.mod \in Int
    BY SafeGood, DriveNumbers, ModTypes
  <2> QED  BY <2>1, <2>2
<1> QED  BY InitSafe, NextSafe, <1>1, PTL DEF Spec

\* A step that writes one of the two files writes a newer modification.
LEMMA SaveForward ==
    ASSUME Safe, [Next]_vars, up' # "closed"
    PROVE  disk.last' >= disk.last /\ disk.approved.id' >= disk.approved.id
<1>1. /\ disk.last \in Int /\ disk.approved.id \in Int /\ drive.task.mod \in Int
  BY SafeGood, DriveNumbers, ModTypes
<1>2. \/ disk'.last = disk.last /\ disk'.approved = disk.approved
      \/ /\ drive.task.step \in Synchronizing
         /\ \/ disk' = [disk EXCEPT !.last = drive.task.mod]
            \/ /\ At(Updating, "saveUploads")
               /\ disk' = [disk EXCEPT !.approved = acct.approved]
  <2>1. DOMAIN disk = {"root", "last", "approved", "notApproved", "opinion"}
    BY DEF Safe, IInv, DiskInv
  <2>2. CASE ChainStep
    BY <2>2 DEF ChainStep, ChainModify, ChainApprove, ChainCancel, ChainClose, ChainVerify,
                ChainVerified, replicator
  <2>3. CASE OnEvent
    BY <2>3 DEF OnEvent, OnModify, OnApproval, OnCancel, OnClose, OnVerify, OnVerified, Take
  <2>4. CASE ClientDownload \/ ReplicatorDownload
    BY <2>4 DEF ClientDownload, ReplicatorDownload, ActionListDownloaded,
                MissingFilesDownloaded, FsTreeDownloaded, CatchUpFilesDownloaded
  <2>5. CASE TaskStep
    <3>1. CASE InitializeDrive \/ PrepareDownloadMissingFiles \/ ModifyFsTreeInSandbox
               \/ CopyFsTreeAfterError \/ RemoveUnusedFiles \/ ModifyDriveInSandbox
               \/ ClearDrive \/ FinishAndRunNextTask
      BY <3>1 DEF InitializeDrive, PrepareDownloadMissingFiles, ModifyFsTreeInSandbox,
                  CopyFsTreeAfterError, RemoveUnusedFiles, ModifyDriveInSandbox, ClearDrive,
                  FinishAndRunNextTask
    <3>2. CASE MyOpinionIsCreated \/ CatchUpOpinionIsCreated \/ SaveNotApproved
               \/ SaveDisapproved \/ SynchronizeDriveWithSandbox \/ CatchUpMoveFsTree
      BY <2>1, <3>2 DEF MyOpinionIsCreated, CatchUpOpinionIsCreated, SaveNotApproved,
                        SaveDisapproved, SynchronizeDriveWithSandbox, CatchUpMoveFsTree
    <3>3. CASE CatchUpSaveLast \/ SaveLastApproved \/ SaveApprovedUploads
      BY <3>3 DEF CatchUpSaveLast, SaveLastApproved, SaveApprovedUploads, At, Synchronizing
    <3>4. CASE RemoveAllDriveData  BY <3>4 DEF RemoveAllDriveData
    <3> QED  BY <2>5, <3>1, <3>2, <3>3, <3>4 DEF TaskStep
  <2>6. CASE Crash \/ Restart \/ RemoveUnusedDrives
    BY <2>6 DEF Crash, Restart, RemoveUnusedDrives
  <2>7. CASE UNCHANGED vars  BY <2>7 DEF vars
  <2> QED  BY <2>2, <2>3, <2>4, <2>5, <2>6, <2>7 DEF Next
<1>3. CASE disk'.last = disk.last /\ disk'.approved = disk.approved
  BY <1>1, <1>3
<1>4. CASE drive.task.step \in Synchronizing
  <2>1. NotAhead(drive, disk, drive.task.mod)
    BY <1>4 DEF Safe, Order, TaskOrder, Applies
  <2>2. DOMAIN disk = {"root", "last", "approved", "notApproved", "opinion"}
    BY DEF Safe, IInv, DiskInv
  <2>3. CASE disk' = [disk EXCEPT !.last = drive.task.mod]
    <3>1. disk'.last = drive.task.mod /\ disk'.approved = disk.approved  BY <2>2, <2>3
    <3> QED  BY <1>1, <2>1, <3>1 DEF NotAhead
  <2>4. CASE At(Updating, "saveUploads") /\ disk' = [disk EXCEPT !.approved = acct.approved]
    <3>1. acct.approved.id = drive.task.mod  BY <2>4 DEF Safe, AccountOrder, At
    <3>2. disk'.last = disk.last /\ disk'.approved = acct.approved  BY <2>2, <2>4
    <3> QED  BY <1>1, <2>1, <3>1, <3>2 DEF NotAhead
  <2> QED  BY <1>2, <1>3, <2>3, <2>4
<1> QED  BY <1>2, <1>3, <1>4

\* The restart values never go back: neither "approvedModification" nor the
\* modification of "approvedCumulativeUploads" is ever overwritten by an older
\* one, by the task of a modification or by a catch-up, before or after any
\* number of restarts (approveCumulativeUploads, saveRestartValue); only the
\* closure of the drive removes them.  It is about the order of the saves, each
\* of which is one step here: the process dies between two of them.  That a save
\* may be taken for one step is SavesAreAtomic (AccountProofs), which also names
\* the pair of crashes inside two saves of the same value for which it may not.
THEOREM NeverForgetsApprovedTheorem == Spec => NeverForgetsApproved
<1>1. Safe /\ [Next]_vars =>
        [up' # "closed" => disk.last' >= disk.last /\ disk.approved.id' >= disk.approved.id]_vars
  BY SaveForward
<1> QED  BY InitSafe, NextSafe, <1>1, PTL DEF Spec, NeverForgetsApproved

------------------------------------------------------------------------------
(* Verifications.  Until the first restart a verification is about what the *)
(* drive has, or about something newer.                                     *)

\* Modification m is not older than anything drive d has, or was told to have.
NotBefore(d, m) ==
    d.last <= m /\ d.catchReq <= m /\ (Applies(d.task) => d.task.mod <= m)

\* A verification on its way, requested or running; and a catch-up that is at
\* work has something to do (a modification has by NoWorkIsRepeated).
VerifyEvents(q, d) ==
    /\ \A i \in 1..Len(q) : q[i].type = "verify" => NotBefore(d, q[i].mod)
    /\ \A i, j \in 1..Len(q) :
          i < j /\ q[i].type = "approve" /\ q[j].type = "verify" => q[i].mod <= q[j].mod

VerifyOrder(d) ==
    /\ d.verifyReq # NoVerification => NotBefore(d, d.verifyReq)
    /\ d.verifyTask # NoVerification => d.verifyTask = d.last /\ NotBefore(d, d.last)
    /\ d.task.kind # "modify" /\ Applies(d.task) /\ d.task.step # "finish" =>
          d.last < d.task.mod

\* A drive in its first initialisation: its files are as new as it is.
FirstLoad(d, k) ==
    /\ d.task.cancels = {}
    /\ d.task.kind = "init" /\ d.task.step = "load" => k.last = d.last

Settled == /\ up # "down"
           /\ VerifyEvents(inbox, drive) /\ VerifyOrder(drive) /\ FirstLoad(drive, disk)

Stable == crashes \in Nat /\ (NeverRestarted => Settled)

\* Drive e differs from d at most in a task that is further from applying its
\* modification, and in verifications that were cancelled.
Quieter(d, e) ==
    /\ e.last = d.last /\ e.catchReq = d.catchReq
    /\ Applies(e.task) => Applies(d.task) /\ e.task.mod = d.task.mod
    /\ e.verifyReq \in {d.verifyReq, NoVerification}
    /\ e.verifyTask \in {d.verifyTask, NoVerification}
    /\ e.task.kind # "modify" /\ Applies(e.task) /\ e.task.step # "finish" =>
          d.task.kind # "modify" /\ d.task.step # "finish"

\* Such a drive keeps what is said of verifications.
LEMMA QuieterKeeps ==
    ASSUME NEW d, NEW e, Quieter(d, e), VerifyOrder(d)
    PROVE  VerifyOrder(e) /\ \A q : VerifyEvents(q, d) => VerifyEvents(q, e)
<1>1. \A m : NotBefore(d, m) => NotBefore(e, m)  BY DEF Quieter, NotBefore
<1>2. VerifyOrder(e)  BY <1>1 DEF Quieter, VerifyOrder
<1>3. \A q : VerifyEvents(q, d) => VerifyEvents(q, e)  BY <1>1 DEF VerifyEvents
<1> QED  BY <1>2, <1>3

\* The numbers that verifications are compared with.
LEMMA VerifyNumbers ==
    ASSUME NEW q \in Seq(Events), NEW d \in Drives
    PROVE  /\ d.last \in Int /\ 0 <= d.last /\ d.catchReq \in Int /\ d.task.mod \in Int
           /\ d.verifyReq # NoVerification => d.verifyReq \in Int /\ 0 <= d.verifyReq
           /\ \A i \in 1..Len(q) : q[i].mod \in Int /\ 0 <= q[i].mod
<1>1. /\ d.last \in ModOrZero /\ d.catchReq \in ModOrZero /\ d.task.mod \in ModOrZero
      /\ d.verifyReq # NoVerification => d.verifyReq \in ModOrZero
  BY DEF Drives, Tasks
<1>2. \A i \in 1..Len(q) : q[i].mod \in ModOrZero
  <2>1. \A i \in 1..Len(q) : q[i] \in Events  BY ElementOfSeq
  <2> QED  BY <2>1 DEF Events
<1> QED  BY <1>1, <1>2, ModTypes

\* Whatever runNextTask starts: a verification only if the drive has what it is
\* about, and then a catch-up that is still requested finds nothing to do.
LEMMA RunNextVerify ==
    ASSUME NEW q \in Seq(Events), NEW d \in Drives, VerifyEvents(q, d), VerifyOrder(d),
           d.catchReq # 0 => d.last <= d.catchReq
    PROVE  /\ VerifyEvents(q, RunNextTask(d)) /\ VerifyOrder(RunNextTask(d))
           /\ RunNextTask(d).task.cancels = {} /\ RunNextTask(d).task.kind # "init"
<1> DEFINE n == [d EXCEPT !.task = NoTask]
           v == IF n.verifyReq # NoVerification /\ n.last = n.verifyReq
                THEN RunVerificationTask(n) ELSE n
<1>1. NoTask \in Tasks /\ NoTask.kind = "none" /\ NoTask.step = "idle" /\ NoTask.cancels = {}
  <2>1. NoTask \in Tasks  BY ModTypes, NewTaskType DEF NoTask, Kinds, Steps
  <2> QED  BY <2>1 DEF NoTask, NewTask
<1>2. /\ n \in Drives /\ n.task = NoTask /\ n.last = d.last /\ n.catchReq = d.catchReq
      /\ n.verifyReq = d.verifyReq /\ n.verifyTask = d.verifyTask
  BY <1>1 DEF Drives
<1> HIDE DEF n
<1>3. /\ v \in Drives /\ v.task = NoTask /\ v.last = d.last /\ v.catchReq = d.catchReq
      /\ \/ v.verifyReq = d.verifyReq /\ v.verifyTask = d.verifyTask
         \/ /\ v.verifyReq = NoVerification /\ v.verifyTask = d.verifyReq
            /\ d.verifyReq # NoVerification /\ d.last = d.verifyReq
  BY <1>2 DEF Drives, RunVerificationTask
<1> HIDE DEF v
<1>4. ~Applies(NoTask)  BY <1>1 DEF Applies, Synchronizing
<1>5. /\ VerifyOrder(n) /\ VerifyEvents(q, n)
  <2>1. Quieter(d, n)  BY <1>1, <1>2, <1>4 DEF Quieter
  <2> QED  BY <2>1, QuieterKeeps
<1>6. VerifyOrder(v) /\ VerifyEvents(q, v)
  <2>1. \A m : NotBefore(n, m) => NotBefore(v, m)  BY <1>2, <1>3, <1>4 DEF NotBefore
  <2>2. VerifyEvents(q, v)  BY <1>5, <2>1 DEF VerifyEvents
  <2>3. VerifyOrder(v)  BY <1>1, <1>2, <1>3, <1>5, <2>1 DEF VerifyOrder
  <2> QED  BY <2>2, <2>3
<1>7. ASSUME NEW r, NEW t, r.task = t, t.kind \in {"close", "cancel", "modify"},
             t.step \notin Synchronizing, t.approved = FALSE,
             r.last = d.last, r.catchReq = d.catchReq,
             \E e \in {n, v} : r.verifyReq = e.verifyReq /\ r.verifyTask = e.verifyTask
      PROVE  VerifyOrder(r) /\ VerifyEvents(q, r)
  <2>1. PICK e \in {n, v} : r.verifyReq = e.verifyReq /\ r.verifyTask = e.verifyTask
    BY <1>7
  <2>2. ~Applies(r.task)  BY <1>7 DEF Applies
  <2>3. VerifyOrder(e) /\ VerifyEvents(q, e) /\ e.last = d.last /\ e.catchReq = d.catchReq
    BY <1>2, <1>3, <1>5, <1>6
  <2>4. Quieter(e, r)  BY <1>7, <2>1, <2>2, <2>3 DEF Quieter
  <2> QED  BY <2>3, <2>4, QuieterKeeps
<1>8. CASE RunNextTask(d) = RunCloseDriveTask(n)
  <2> DEFINE t == NewTask("close", 0, "remove")
             r == RunCloseDriveTask(n)
  <2>1. t.kind = "close" /\ t.step = "remove" /\ t.approved = FALSE /\ t.cancels = {}
    BY DEF NewTask
  <2> HIDE DEF t
  <2>2. /\ r.task = t /\ r.last = n.last /\ r.catchReq = n.catchReq
        /\ r.verifyReq = n.verifyReq /\ r.verifyTask = n.verifyTask
    BY <1>2 DEF t, RunCloseDriveTask, Drives
  <2> HIDE DEF r
  <2>3. VerifyOrder(r) /\ VerifyEvents(q, r)  BY <1>2, <1>7, <2>1, <2>2 DEF Synchronizing
  <2> QED  BY <1>8, <2>1, <2>2, <2>3 DEF r
<1>9. CASE RunNextTask(d) = RunCancelModificationTask(v)
  <2> DEFINE t == NewTask("cancel", v.cancelReq, "disapprove")
             r == RunCancelModificationTask(v)
  <2>1. t.kind = "cancel" /\ t.step = "disapprove" /\ t.approved = FALSE /\ t.cancels = {}
    BY DEF NewTask
  <2> HIDE DEF t
  <2>2. /\ r.task = t /\ r.last = v.last /\ r.catchReq = v.catchReq
        /\ r.verifyReq = v.verifyReq /\ r.verifyTask = v.verifyTask
    BY <1>3 DEF t, RunCancelModificationTask, Drives
  <2> HIDE DEF r
  <2>3. VerifyOrder(r) /\ VerifyEvents(q, r)  BY <1>3, <1>7, <2>1, <2>2 DEF Synchronizing
  <2> QED  BY <1>9, <2>1, <2>2, <2>3 DEF r
<1>10. CASE RunNextTask(d) = RunModificationTask(v)
  <2> DEFINE t == NewTask("modify", Head(v.deferred), "list")
             r == RunModificationTask(v)
  <2>1. t.kind = "modify" /\ t.step = "list" /\ t.approved = FALSE /\ t.cancels = {}
    BY DEF NewTask
  <2> HIDE DEF t
  <2>2. /\ r.task = t /\ r.last = v.last /\ r.catchReq = v.catchReq
        /\ r.verifyReq = v.verifyReq /\ r.verifyTask = v.verifyTask
    BY <1>3 DEF t, RunModificationTask, Drives
  <2> HIDE DEF r
  <2>3. VerifyOrder(r) /\ VerifyEvents(q, r)  BY <1>3, <1>7, <2>1, <2>2 DEF Synchronizing
  <2> QED  BY <1>10, <2>1, <2>2, <2>3 DEF r
<1>11. CASE RunNextTask(d) = RunCatchingUpTask(v) /\ v.catchReq # 0
  <2> DEFINE s == CatchUpStep(v, v.catchReq, chain.rootAt[v.catchReq])
             t == NewTask("catchup", v.catchReq, s)
             r == RunCatchingUpTask(v)
  <2>1. t.kind = "catchup" /\ t.step = s /\ t.mod = v.catchReq /\ t.cancels = {}
    BY DEF NewTask
  <2>2. s # "finish" => v.last # v.catchReq  BY DEF CatchUpStep
  <2> HIDE DEF t, s
  <2>3. /\ r.task = t /\ r.last = v.last /\ r.catchReq = 0
        /\ r.verifyReq = v.verifyReq /\ r.verifyTask = v.verifyTask
    BY <1>3 DEF t, s, RunCatchingUpTask, Drives
  <2> HIDE DEF r
  <2>4. /\ d.last \in Int /\ 0 <= d.last /\ d.catchReq \in Int
        /\ d.verifyReq # NoVerification => d.verifyReq \in Int /\ 0 <= d.verifyReq
        /\ \A i \in 1..Len(q) : q[i].mod \in Int /\ 0 <= q[i].mod
    BY VerifyNumbers
  <2>5. \A m : 0 <= m /\ NotBefore(v, m) => NotBefore(r, m)
    BY <2>1, <2>3 DEF NotBefore
  <2>6. VerifyEvents(q, r)  BY <1>6, <2>4, <2>5 DEF VerifyEvents
  <2>7. r.task.step # "finish" => r.last < r.task.mod
    <3>1. d.last <= d.catchReq  BY <1>3, <1>11
    <3> QED  BY <1>3, <2>1, <2>2, <2>3, <2>4, <3>1
  <2>8. r.verifyReq # NoVerification => NotBefore(r, r.verifyReq)
    BY <1>3, <1>6, <2>3, <2>4, <2>5 DEF VerifyOrder
  <2>9. r.verifyTask # NoVerification => r.verifyTask = r.last /\ NotBefore(r, r.last)
    BY <1>3, <1>6, <2>3, <2>4, <2>5 DEF VerifyOrder
  <2>10. VerifyOrder(r)  BY <2>7, <2>8, <2>9 DEF VerifyOrder
  <2> QED  BY <1>11, <2>1, <2>3, <2>6, <2>10 DEF r
<1>12. CASE RunNextTask(d) = v  BY <1>1, <1>3, <1>6, <1>12
<1>13. \/ RunNextTask(d) \in {RunCloseDriveTask(n), RunCancelModificationTask(v), v}
       \/ n.catchReq # 0 /\ RunNextTask(d) = RunCatchingUpTask(v)
       \/ n.catchReq = 0 /\ n.deferred # <<>> /\ RunNextTask(d) = RunModificationTask(v)
  BY DEF RunNextTask, n, v
<1> QED  BY <1>2, <1>3, <1>8, <1>9, <1>10, <1>11, <1>12, <1>13

\* Drive e is drive d after a step of its task, which is not the initialisation.
Worked(d, e) ==
    /\ SameTask(d, e) /\ e.task.cancels = d.task.cancels
    /\ e.verifyReq = d.verifyReq /\ e.verifyTask = d.verifyTask
    /\ d.task.kind # "init" /\ d.task.step # "finish"

\* What is left to show of a step of a task.
LEMMA WorkedSettled ==
    ASSUME Settled, inbox' = inbox, up' = up, Worked(drive, drive'),
           drive'.task.step \in Synchronizing => Applies(drive.task)
    PROVE  Settled'
<1>1. Quieter(drive, drive')  BY DEF Worked, SameTask, Quieter, Applies
<1>2. FirstLoad(drive', disk')  BY DEF Settled, FirstLoad, Worked, SameTask
<1> QED  BY <1>1, <1>2, QuieterKeeps DEF Settled

\* Drive e is drive d with its task at step t: the step may also set the root of
\* the sandbox and two flags of the task.
Stepped(d, e, t) ==
    \/ e = [d EXCEPT !.task.step = t]
    \/ e = [d EXCEPT !.task.step = t, !.task.listed = TRUE]
    \/ \E r : e = [d EXCEPT !.task.root = r, !.task.step = t]
    \/ e = [d EXCEPT !.task.calculated = TRUE, !.task.step = t]

LEMMA TaskWorked ==
    ASSUME NEW d \in Drives, d.task.kind # "init", d.task.step # "finish",
           NEW t, NEW e, Stepped(d, e, t)
    PROVE  Worked(d, e) /\ e.task.step = t
<1>1. CASE e = [d EXCEPT !.task.step = t]  BY <1>1 DEF Worked, SameTask, Drives, Tasks
<1>2. CASE e = [d EXCEPT !.task.step = t, !.task.listed = TRUE]
  BY <1>2 DEF Worked, SameTask, Drives, Tasks
<1>3. CASE \E r : e = [d EXCEPT !.task.root = r, !.task.step = t]
  <2>1. PICK r : e = [d EXCEPT !.task.root = r, !.task.step = t]  BY <1>3
  <2> QED  BY <2>1 DEF Worked, SameTask, Drives, Tasks
<1>4. CASE e = [d EXCEPT !.task.calculated = TRUE, !.task.step = t]
  BY <1>4 DEF Worked, SameTask, Drives, Tasks
<1> QED  BY <1>1, <1>2, <1>3, <1>4 DEF Stepped

\* The steps of a task up to its sandbox tree, and the end of a cancellation.
LEMMA EarlyStepSettled ==
    ASSUME Safe, Settled,
           \/ ActionListDownloaded \/ PrepareDownloadMissingFiles \/ MissingFilesDownloaded
           \/ FsTreeDownloaded \/ RemoveUnusedFiles \/ CatchUpFilesDownloaded
           \/ ModifyFsTreeInSandbox \/ CopyFsTreeAfterError \/ ModifyDriveInSandbox
           \/ SaveNotApproved \/ SaveDisapproved \/ ClearDrive
    PROVE  Settled'
<1> USE DEF ActionListDownloaded, PrepareDownloadMissingFiles, MissingFilesDownloaded,
            FsTreeDownloaded, RemoveUnusedFiles, CatchUpFilesDownloaded,
            ModifyFsTreeInSandbox, CopyFsTreeAfterError, ModifyDriveInSandbox,
            SaveNotApproved, SaveDisapproved, ClearDrive
<1>1. inbox' = inbox /\ up' = up  BY DEF environment
<1>2. drive.task.kind # "init" /\ drive.task.step # "finish"  BY DEF At, Updating
<1>3. \E s \in Steps \ Synchronizing : Stepped(drive, drive', s)
  BY DEF CompletedWithError, FinishTask, MyRootHashIsCalculated, Steps, Synchronizing, Stepped
<1>4. PICK s \in Steps \ Synchronizing : Stepped(drive, drive', s)
  BY <1>3
<1>5. Worked(drive, drive') /\ drive'.task.step = s  BY <1>2, <1>4, SafeGood, TaskWorked
<1> QED  BY <1>1, <1>5, WorkedSettled

\* The steps from the opinion to the saved uploads.
LEMMA LateStepSettled ==
    ASSUME Safe, Settled,
           \/ MyOpinionIsCreated \/ CatchUpOpinionIsCreated \/ SynchronizeDriveWithSandbox
           \/ CatchUpMoveFsTree \/ CatchUpSaveLast \/ SaveApprovedUploads
    PROVE  Settled'
<1> USE DEF MyOpinionIsCreated, CatchUpOpinionIsCreated, SynchronizeDriveWithSandbox,
            CatchUpMoveFsTree, CatchUpSaveLast, SaveApprovedUploads
<1>1. inbox' = inbox /\ up' = up  BY DEF environment
<1>2. drive.task.kind # "init" /\ drive.task.step # "finish"  BY DEF At, Updating
<1>3. \E s \in Steps :
         Stepped(drive, drive', s) /\ (s \in Synchronizing => Applies(drive.task))
  BY DEF FinishTask, SynchronizationIsCompleted, At, Applies, Steps, Synchronizing, Stepped
<1>4. PICK s \in Steps :
         Stepped(drive, drive', s) /\ (s \in Synchronizing => Applies(drive.task))
  BY <1>3
<1>5. Worked(drive, drive') /\ drive'.task.step = s  BY <1>2, <1>4, SafeGood, TaskWorked
<1> QED  BY <1>1, <1>4, <1>5, WorkedSettled

\* The drive gets its new tree: no verification of the old one is running, and
\* none is requested.
LEMMA SaveLastSettled == ASSUME Safe, Settled, SaveLastApproved  PROVE Settled'
<1>0. drive \in Drives /\ drive.task \in Tasks  BY SafeGood
<1>1. /\ inbox' = inbox /\ up' = up /\ drive.task.kind \in Updating
      /\ drive.task.step = "saveLast"
  BY DEF SaveLastApproved, environment, At
<1>2. /\ drive'.last = drive.task.mod /\ drive'.catchReq = drive.catchReq
      /\ drive'.task.kind = drive.task.kind /\ drive'.task.mod = drive.task.mod
      /\ drive'.task.step = "finish" /\ drive'.task.cancels = drive.task.cancels
      /\ drive'.verifyReq = drive.verifyReq /\ drive'.verifyTask = drive.verifyTask
  BY <1>0 DEF SaveLastApproved, FinishTask, Drives, Tasks
<1>3. Applies(drive.task)  BY <1>1 DEF Applies, Synchronizing
<1>4. drive.last < drive.task.mod
  BY <1>1, <1>3 DEF Safe, Order, TaskOrder, Settled, VerifyOrder
<1>5. drive.last \in Int /\ drive.task.mod \in Int  BY SafeGood, DriveNumbers, ModTypes
<1>6. \A m : NotBefore(drive, m) => NotBefore(drive', m)  BY <1>2, <1>3 DEF NotBefore
<1>7. VerifyEvents(inbox', drive')  BY <1>1, <1>6 DEF Settled, VerifyEvents
<1>8. drive'.verifyTask = NoVerification
  <2>1. ~NotBefore(drive, drive.last)  BY <1>3, <1>4, <1>5 DEF NotBefore
  <2> QED  BY <1>2, <2>1 DEF Settled, VerifyOrder
<1>9. VerifyOrder(drive')  BY <1>2, <1>6, <1>8 DEF Settled, VerifyOrder
<1>10. FirstLoad(drive', disk')  BY <1>1, <1>2 DEF Settled, FirstLoad, Updating
<1> QED  BY <1>1, <1>7, <1>9, <1>10 DEF Settled

\* The drive reads its files for the first time: there is nothing in them.
LEMMA InitializeSettled == ASSUME Safe, Settled, InitializeDrive  PROVE Settled'
<1>0. drive \in Drives /\ drive.task \in Tasks  BY SafeGood
<1>1. drive.task.kind = "init" /\ drive.task.step = "load"  BY DEF InitializeDrive, At
<1>2. drive.task.cancels = {} /\ disk.last = drive.last  BY <1>1 DEF Settled, FirstLoad
<1>3. inbox' = inbox /\ up' = up  BY <1>2 DEF InitializeDrive, environment
<1> DEFINE d == [drive EXCEPT !.root = disk.root, !.last = disk.last]
<1>4. drive' = Initialized(d, acct')
  BY <1>2 DEF InitializeDrive
<1>5. /\ d.task = drive.task /\ d.last = drive.last /\ d.catchReq = drive.catchReq
      /\ d.verifyReq = drive.verifyReq /\ d.verifyTask = drive.verifyTask
      /\ DOMAIN d = DOMAIN drive
  BY <1>0, <1>2 DEF Drives
<1> HIDE DEF d
<1>6. drive' = FinishTask(d)  BY <1>2, <1>4, <1>5 DEF Initialized
<1>7. /\ drive'.task.step = "finish" /\ drive'.task.kind = "init"
      /\ drive'.task.cancels = {} /\ drive'.last = drive.last
      /\ drive'.catchReq = drive.catchReq
      /\ drive'.verifyReq = drive.verifyReq /\ drive'.verifyTask = drive.verifyTask
  BY <1>0, <1>1, <1>2, <1>5, <1>6 DEF FinishTask, Drives, Tasks
<1>8. Quieter(drive, drive')  BY <1>7 DEF Quieter, Applies, Synchronizing
<1>9. FirstLoad(drive', disk')  BY <1>7 DEF FirstLoad
<1> QED  BY <1>3, <1>8, <1>9, QuieterKeeps DEF Settled

\* A drive that starts or ends has no verification.
LEMMA RemoveSettled == ASSUME Safe, Settled, RemoveAllDriveData  PROVE Settled'
<1>1. /\ up' = "closed" /\ inbox' = <<>> /\ drive' = NewDrive({}) /\ disk' = EmptyDisk
  BY DEF RemoveAllDriveData
<1>2. Len(inbox') = 0  BY <1>1
<1>3. VerifyEvents(inbox', drive')  BY <1>2 DEF VerifyEvents
<1>4. VerifyOrder(drive')
  BY <1>1 DEF VerifyOrder, NewDrive, NewTask, Applies, Synchronizing
<1>5. FirstLoad(drive', disk')  BY <1>1 DEF FirstLoad, NewDrive, NewTask, EmptyDisk
<1> QED  BY <1>1, <1>3, <1>4, <1>5 DEF Settled

\* The next task runs.
LEMMA FinishSettled == ASSUME Safe, Settled, FinishAndRunNextTask  PROVE Settled'
<1>1. inbox' = inbox /\ up' = up /\ drive' = RunNextTask(drive)
  BY DEF FinishAndRunNextTask, environment
<1>2. /\ inbox \in Seq(Events) /\ drive \in Drives
      /\ drive.catchReq # 0 => drive.last <= drive.catchReq
  BY SafeGood, QueueTypes DEF Tidy, Order, TaskOrder, NotAhead
<1>3. /\ VerifyEvents(inbox, drive') /\ VerifyOrder(drive')
      /\ drive'.task.cancels = {} /\ drive'.task.kind # "init"
  BY <1>1, <1>2, RunNextVerify DEF Settled
<1> QED  BY <1>1, <1>3 DEF Settled, FirstLoad

\* An event is posted: a verification is about the last approved modification,
\* and every approval on its way is of an older one.
LEMMA PostVerify ==
    ASSUME NEW q \in Seq(Events), NEW d, VerifyEvents(q, d), NEW x \in Events,
           NEW r, r = Append(q, x),
           x.type = "verify" =>
               /\ NotBefore(d, x.mod)
               /\ \A i \in 1..Len(q) : q[i].type = "approve" => q[i].mod <= x.mod
    PROVE  VerifyEvents(r, d)
<1>1. /\ Len(r) = Len(q) + 1 /\ Len(q) \in Nat
      /\ \A i \in 1..Len(q) : r[i] = q[i]
      /\ r[Len(q) + 1] = x
  BY AppendProperties, LenProperties
<1>2. \A i \in 1..Len(r) : i \in 1..Len(q) \/ i = Len(q) + 1  BY <1>1
<1>3. ASSUME NEW i \in 1..Len(r), r[i].type = "verify"  PROVE NotBefore(d, r[i].mod)
  <2>1. CASE i \in 1..Len(q)  BY <1>1, <1>3, <2>1 DEF VerifyEvents
  <2>2. CASE i = Len(q) + 1  BY <1>1, <1>3, <2>2
  <2> QED  BY <1>2, <2>1, <2>2
<1>4. ASSUME NEW i \in 1..Len(r), NEW j \in 1..Len(r), i < j,
             r[i].type = "approve", r[j].type = "verify"
      PROVE  r[i].mod <= r[j].mod
  <2>1. i \in 1..Len(q)  BY <1>1, <1>4
  <2>2. CASE j \in 1..Len(q)  BY <1>1, <1>4, <2>1, <2>2 DEF VerifyEvents
  <2>3. CASE j = Len(q) + 1  BY <1>1, <1>4, <2>1, <2>3
  <2> QED  BY <1>2, <2>2, <2>3
<1> QED  BY <1>3, <1>4 DEF VerifyEvents

\* What the chain does; a cancellation ends what is said here.
LEMMA ChainSettled ==
    ASSUME Safe, Settled, ChainStep, NeverRestarted'
    PROVE  Settled'
<1>0. /\ inbox \in Seq(Events) /\ Good(chain, inbox, drive, disk)
  BY SafeGood, QueueTypes
<1>1. ASSUME NEW m \in Mods, ChainCancel(m)  PROVE FALSE
  <2>1. m \in chain'.cancelled  BY <1>1, ChainTypes DEF ChainCancel, Safe, IInv, Chains
  <2> QED  BY <2>1 DEF NeverRestarted, NothingCancelled
<1>2. /\ up' = up /\ drive' = drive /\ disk' = disk
      /\ \E s \in {"modify", "approve", "close", "verify", "verified"}, m \in ModOrZero :
            Post(s, m) /\ (s = "verify" => m = chain.last)
  <2>1. chain.last \in ModOrZero /\ chain.issued \in Int /\ chain.pending \in Seq(Mods)
    BY ChainTypes DEF Safe, IInv
  <2>2. CASE ChainModify
    <3>1. chain.issued + 1 \in ModOrZero
      BY <2>1, <2>2, DriveAssumption DEF ChainModify, Safe, IInv, ChainInv, ModOrZero, Chains
    <3> QED  BY <2>2, <3>1 DEF ChainModify, replicator
  <2>3. CASE ChainApprove
    <3>1. Head(chain.pending) \in ModOrZero
      BY <2>1, <2>3, HeadTailProperties, ModTypes DEF ChainApprove
    <3> QED  BY <2>3, <3>1 DEF ChainApprove, replicator
  <2>4. CASE ChainClose  BY <2>4, ModTypes DEF ChainClose, replicator
  <2>5. CASE ChainVerify  BY <2>1, <2>5 DEF ChainVerify, replicator
  <2>6. CASE ChainVerified  BY <2>6, ModTypes DEF ChainVerified, replicator
  <2> QED  BY <1>1, <2>2, <2>3, <2>4, <2>5, <2>6 DEF ChainStep
<1>3. PICK s \in {"modify", "approve", "close", "verify", "verified"}, m \in ModOrZero :
         Post(s, m) /\ (s = "verify" => m = chain.last)
  BY <1>2
<1>4. NotBefore(drive, chain.last)
  <2>1. drive.last <= chain.last /\ drive.catchReq <= chain.last
        /\ (Applies(drive.task) => drive.task.mod <= chain.last)
    BY <1>0, DriveNumbers
  <2> QED  BY <2>1 DEF NotBefore
<1>5. \A i \in 1..Len(inbox) : inbox[i].type = "approve" => inbox[i].mod <= chain.last
  <2>1. \A x : Approved(chain, x) => x <= chain.last  BY ApprovedBound DEF Safe, IInv
  <2> QED  BY <2>1 DEF Safe, IInv, InboxInv, EventInv
<1>6. VerifyEvents(inbox', drive)
  <2> DEFINE x == [type |-> s, mod |-> m]
  <2>1. x \in Events /\ x.type = s /\ x.mod = m  BY DEF Events
  <2>2. inbox' = Append(inbox, x) \/ inbox' = inbox  BY <1>3 DEF Post
  <2> HIDE DEF x
  <2>3. CASE inbox' = Append(inbox, x)
    <3>1. x.type = "verify" => x.mod = chain.last  BY <1>3, <2>1
    <3> QED  BY <1>0, <1>4, <1>5, <2>1, <2>3, <3>1, PostVerify DEF Settled
  <2> QED  BY <2>2, <2>3 DEF Settled
<1> QED  BY <1>2, <1>6 DEF Settled

\* An event is taken.
LEMMA TakenVerify ==
    ASSUME Safe, Settled, NEW s, Take(s)
    PROVE  /\ inbox' \in Seq(Events) /\ VerifyEvents(inbox', drive)
           /\ s = "verify" => NotBefore(drive, Head(inbox).mod)
           /\ s = "approve" => \A i \in 1..Len(inbox') :
                  inbox'[i].type = "verify" => Head(inbox).mod <= inbox'[i].mod
<1>0. inbox \in Seq(Events) /\ inbox # <<>> /\ Head(inbox).type = s /\ inbox' = Tail(inbox)
  BY SafeGood, QueueTypes DEF Take
<1>h. PICK h, t : h = Head(inbox) /\ t = Tail(inbox)  OBVIOUS
<1>1. /\ t \in Seq(Events) /\ Len(t) = Len(inbox) - 1
      /\ \A i \in 1..Len(t) : t[i] = inbox[i + 1]
  BY <1>0, <1>h, HeadTailProperties
<1>2. Len(inbox) \in Nat \ {0} /\ h = inbox[1]
  <2>1. Len(inbox) \in Nat \ {0}  BY <1>0, EmptySeq
  <2> QED  BY <2>1, <1>0, <1>h
<1>3. 1 \in 1..Len(inbox) /\ \A i \in 1..Len(t) : i + 1 \in 1..Len(inbox) /\ 1 < i + 1
  BY <1>1, <1>2
<1>4. VerifyEvents(t, drive)
  <2>1. \A i \in 1..Len(t) : t[i].type = "verify" => NotBefore(drive, t[i].mod)
    BY <1>1, <1>3 DEF Settled, VerifyEvents
  <2>2. ASSUME NEW i \in 1..Len(t), NEW j \in 1..Len(t), i < j,
               t[i].type = "approve", t[j].type = "verify"
        PROVE  t[i].mod <= t[j].mod
    <3>1. i + 1 < j + 1  BY <1>1, <1>2, <2>2
    <3> QED  BY <1>1, <1>3, <2>2, <3>1 DEF Settled, VerifyEvents
  <2> QED  BY <2>1, <2>2 DEF VerifyEvents
<1>5. h.type = "verify" => NotBefore(drive, h.mod)
  BY <1>2, <1>3 DEF Settled, VerifyEvents
<1>6. ASSUME h.type = "approve", NEW i \in 1..Len(t), t[i].type = "verify"
      PROVE  h.mod <= t[i].mod
  BY <1>1, <1>2, <1>3, <1>6 DEF Settled, VerifyEvents
<1> QED  BY <1>0, <1>h, <1>1, <1>4, <1>5, <1>6

\* What is left to show of a handler that ends with runNextTask.
LEMMA ThenRunSettled ==
    ASSUME Settled, NEW s, Take(s), inbox' \in Seq(Events), NEW d \in Drives, NEW a,
           ThenRunIfIdle(d, a), VerifyEvents(inbox', d), VerifyOrder(d), FirstLoad(d, disk),
           d.catchReq # 0 => d.last <= d.catchReq
    PROVE  Settled'
<1>1. disk' = disk /\ up' = up  BY DEF Take
<1>2. CASE HasTask(d)  BY <1>1, <1>2 DEF ThenRunIfIdle, Settled
<1>3. CASE ~HasTask(d)
  <2>1. drive' = RunNextTask(d)  BY <1>3 DEF ThenRunIfIdle
  <2>2. /\ VerifyEvents(inbox', drive') /\ VerifyOrder(drive')
        /\ drive'.task.cancels = {} /\ drive'.task.kind # "init"
    BY <2>1, RunNextVerify
  <2> QED  BY <1>1, <2>2 DEF Settled, FirstLoad
<1> QED  BY <1>2, <1>3

\* startModifyDrive
LEMMA OnModifySettled == ASSUME Safe, Settled, OnModify  PROVE Settled'
<1> DEFINE m == Head(inbox).mod
           d == [drive EXCEPT !.deferred = Append(drive.deferred, m)]
<1>0. drive \in Drives /\ Tidy  BY SafeGood
<1>1. Take("modify") /\ ThenRunIfIdle(d, acct)  BY <1>0 DEF OnModify, Drives
<1>2. m \in Mods  BY <1>1, HeadInv DEF Take, EventInv, Safe
<1>3. Append(drive.deferred, m) \in Seq(Mods)
  BY <1>0, <1>2, AppendProperties DEF Drives
<1>4. /\ d \in Drives /\ d.last = drive.last /\ d.catchReq = drive.catchReq
      /\ d.task = drive.task /\ d.verifyReq = drive.verifyReq
      /\ d.verifyTask = drive.verifyTask
  <2> HIDE DEF m
  <2> QED  BY <1>0, <1>3 DEF Drives
<1> HIDE DEF d
<1>5. Quieter(drive, d) /\ FirstLoad(d, disk)  BY <1>4 DEF Quieter, Settled, FirstLoad
<1>6. inbox' \in Seq(Events) /\ VerifyEvents(inbox', d) /\ VerifyOrder(d)
  BY <1>1, <1>5, TakenVerify, QuieterKeeps DEF Settled
<1>7. d.catchReq # 0 => d.last <= d.catchReq
  BY <1>0, <1>4 DEF Tidy, Order, TaskOrder, NotAhead
<1> QED  BY <1>1, <1>4, <1>5, <1>6, <1>7, ThenRunSettled

\* An interrupted task.
LEMMA BreakFields ==
    ASSUME NEW d \in Drives, NEW e, e = BreakTask(d)
    PROVE  /\ e \in Drives /\ e.last = d.last /\ e.catchReq = d.catchReq
           /\ e.verifyReq = d.verifyReq /\ e.verifyTask = d.verifyTask
           /\ e.task.kind = d.task.kind /\ e.task.mod = d.task.mod
           /\ e.task.cancels = d.task.cancels
           /\ e.task.interrupted /\ e.task.step \in {d.task.step, "finish"}
<1> DEFINE i == [d EXCEPT !.task.interrupted = TRUE]
           f == FinishTask(i)
<1>1. /\ i \in Drives /\ i.last = d.last /\ i.catchReq = d.catchReq
      /\ i.verifyReq = d.verifyReq /\ i.verifyTask = d.verifyTask
      /\ i.task.kind = d.task.kind /\ i.task.mod = d.task.mod
      /\ i.task.cancels = d.task.cancels
      /\ i.task.interrupted /\ i.task.step = d.task.step
  BY DEF Drives, Tasks
<1>2. BreakTask(d) \in {i, f}  BY DEF BreakTask, TryBreakTask, i
<1> HIDE DEF i
<1>3. /\ f \in Drives /\ f.last = i.last /\ f.catchReq = i.catchReq
      /\ f.verifyReq = i.verifyReq /\ f.verifyTask = i.verifyTask
      /\ f.task.kind = i.task.kind /\ f.task.mod = i.task.mod
      /\ f.task.cancels = i.task.cancels
      /\ f.task.interrupted = i.task.interrupted /\ f.task.step = "finish"
  BY <1>1 DEF FinishTask, Drives, Tasks, Steps
<1> HIDE DEF f
<1>4. CASE e = i  BY <1>1, <1>4
<1>5. CASE e = f  BY <1>1, <1>3, <1>5
<1> QED  BY <1>2, <1>4, <1>5

\* An interrupted task is further from applying its modification.
LEMMA BreakQuieter ==
    ASSUME NEW d \in Drives
    PROVE  /\ BreakTask(d) \in Drives /\ Quieter(d, BreakTask(d))
           /\ \A k : FirstLoad(d, k) => FirstLoad(BreakTask(d), k)
<1>1. PICK e : e = BreakTask(d)  OBVIOUS
<1>2. /\ e \in Drives /\ e.last = d.last /\ e.catchReq = d.catchReq
      /\ e.verifyReq = d.verifyReq /\ e.verifyTask = d.verifyTask
      /\ e.task.kind = d.task.kind /\ e.task.mod = d.task.mod
      /\ e.task.cancels = d.task.cancels
      /\ e.task.interrupted /\ e.task.step \in {d.task.step, "finish"}
  BY <1>1, BreakFields
<1>3. Applies(e.task) => Applies(d.task)  BY <1>2 DEF Applies, Synchronizing
<1>4. Quieter(d, e)  BY <1>2, <1>3 DEF Quieter
<1>5. \A k : FirstLoad(d, k) => FirstLoad(e, k)  BY <1>2 DEF FirstLoad
<1> QED  BY <1>1, <1>2, <1>4, <1>5

\* startDriveClosing
LEMMA OnCloseSettled == ASSUME Safe, Settled, OnClose  PROVE Settled'
<1> DEFINE v == CancelVerification(drive)
           d == [v EXCEPT !.closeReq = TRUE]
<1>0. drive \in Drives /\ Tidy  BY SafeGood
<1>1. Take("close") /\ (ThenRunIfIdle(d, acct) \/ (drive' = BreakTask(d) /\ acct' = acct))
  BY DEF OnClose
<1>2. /\ d \in Drives /\ d.last = drive.last /\ d.catchReq = drive.catchReq
      /\ d.task = drive.task /\ d.verifyReq = NoVerification
      /\ d.verifyTask = NoVerification
  BY <1>0 DEF CancelVerification, Drives
<1> HIDE DEF d
<1>3. Quieter(drive, d) /\ FirstLoad(d, disk)  BY <1>2 DEF Quieter, Settled, FirstLoad
<1>4. inbox' \in Seq(Events) /\ VerifyEvents(inbox', d) /\ VerifyOrder(d)
  BY <1>1, <1>3, TakenVerify, QuieterKeeps DEF Settled
<1>5. CASE ThenRunIfIdle(d, acct)
  <2>1. d.catchReq # 0 => d.last <= d.catchReq
    BY <1>0, <1>2 DEF Tidy, Order, TaskOrder, NotAhead
  <2> QED  BY <1>1, <1>2, <1>3, <1>4, <1>5, <2>1, ThenRunSettled
<1>6. CASE drive' = BreakTask(d)
  <2>1. Quieter(d, drive') /\ FirstLoad(drive', disk)  BY <1>2, <1>3, <1>6, BreakQuieter
  <2>2. VerifyEvents(inbox', drive') /\ VerifyOrder(drive')  BY <1>4, <2>1, QuieterKeeps
  <2> QED  BY <1>1, <2>1, <2>2 DEF Settled, Take
<1> QED  BY <1>1, <1>5, <1>6

\* startVerification: a verification starts at once if the drive has what it is
\* about; then no task is about to replace it.
LEMMA OnVerifySettled == ASSUME Safe, Settled, OnVerify  PROVE Settled'
<1> DEFINE m == Head(inbox).mod
           d == [drive EXCEPT !.verifyReq = m]
<1>0. drive \in Drives  BY SafeGood
<1>1. Take("verify") /\ drive' = IF d.task.kind # "init" /\ d.last = d.verifyReq
                                 THEN RunVerificationTask(d) ELSE d
  BY DEF OnVerify
<1>2. /\ inbox' \in Seq(Events) /\ VerifyEvents(inbox', drive) /\ NotBefore(drive, m)
  BY <1>1, TakenVerify
<1> HIDE DEF m
<1>3. /\ drive'.last = drive.last /\ drive'.catchReq = drive.catchReq
      /\ drive'.task = drive.task
      /\ \/ drive'.verifyReq = m /\ drive'.verifyTask = drive.verifyTask
         \/ drive'.verifyReq = NoVerification /\ drive'.verifyTask = m /\ drive.last = m
  BY <1>0, <1>1 DEF RunVerificationTask, Drives
<1>4. \A x : NotBefore(drive, x) => NotBefore(drive', x)  BY <1>3 DEF NotBefore
<1>5. VerifyEvents(inbox', drive')  BY <1>2, <1>4 DEF VerifyEvents
<1>6. VerifyOrder(drive')  BY <1>2, <1>3, <1>4 DEF Settled, VerifyOrder
<1>7. FirstLoad(drive', disk')  BY <1>1, <1>3 DEF Settled, FirstLoad, Take
<1> QED  BY <1>1, <1>5, <1>6, <1>7 DEF Settled, Take

\* cancelVerification
LEMMA OnVerifiedSettled == ASSUME Safe, Settled, OnVerified  PROVE Settled'
<1>0. drive \in Drives  BY SafeGood
<1>1. Take("verified") /\ drive' = CancelVerification(drive)  BY DEF OnVerified
<1>2. /\ drive'.last = drive.last /\ drive'.catchReq = drive.catchReq
      /\ drive'.task = drive.task /\ drive'.verifyReq = NoVerification
      /\ drive'.verifyTask = NoVerification
  BY <1>0, <1>1 DEF CancelVerification, Drives
<1>3. Quieter(drive, drive')  BY <1>2 DEF Quieter
<1>4. VerifyEvents(inbox', drive') /\ VerifyOrder(drive')
  BY <1>1, <1>3, TakenVerify, QuieterKeeps DEF Settled
<1>5. FirstLoad(drive', disk')  BY <1>1, <1>2 DEF Settled, FirstLoad, Take
<1> QED  BY <1>1, <1>4, <1>5 DEF Settled, Take

\* A cancellation that arrives was made.
LEMMA OnCancelSettled == ASSUME Safe, OnCancel, NeverRestarted'  PROVE FALSE
<1>1. chain' = chain /\ inbox # <<>> /\ Head(inbox).type = "cancel"
  BY DEF OnCancel, Take
<1>2. inbox \in Seq(Events) /\ Order(chain, inbox, drive, disk)
  BY SafeGood, QueueTypes DEF Tidy
<1>3. Len(inbox) \in Nat \ {0} /\ Head(inbox) = inbox[1]
  <2>1. Len(inbox) \in Nat \ {0}  BY <1>1, <1>2, EmptySeq
  <2> QED  BY <1>1, <1>2, <2>1
<1>4. 1 \in 1..Len(inbox)  BY <1>3
<1>5. Head(inbox).mod \in chain.cancelled
  BY <1>1, <1>2, <1>3, <1>4 DEF Order, InboxOrder, EventOrder
<1> QED  BY <1>1, <1>5 DEF NeverRestarted, NothingCancelled

\* What an approval of tx does to a task: if the task applies its modification
\* from now on, then it did so before, or its modification is tx.
LEMMA ApprovalFields ==
    ASSUME NEW d \in Drives, NEW tx, NEW e, e = TaskOnApproval(d, tx)
    PROVE  /\ e \in Drives /\ e.last = d.last /\ e.catchReq = d.catchReq
           /\ e.verifyReq = d.verifyReq /\ e.verifyTask = d.verifyTask
           /\ e.task.kind = d.task.kind /\ e.task.mod = d.task.mod
           /\ e.task.cancels = d.task.cancels
           /\ e.task.kind # "modify" => e.task.step \in {d.task.step, "finish"}
           /\ Applies(e.task) => Applies(d.task) \/ e.task.mod = tx
<1> DEFINE n == [d EXCEPT !.task.approved = TRUE]
           s == [n EXCEPT !.task.step = "sync"]
<1>1. /\ n \in Drives /\ n.last = d.last /\ n.catchReq = d.catchReq
      /\ n.verifyReq = d.verifyReq /\ n.verifyTask = d.verifyTask
      /\ n.task.kind = d.task.kind /\ n.task.mod = d.task.mod
      /\ n.task.cancels = d.task.cancels /\ n.task.step = d.task.step
  BY DEF Drives, Tasks
<1>2. \/ e \in {d, BreakTask(d)}
      \/ e = BreakTask(n) /\ d.task.kind = "modify"
      \/ e \in {n, s} /\ d.task.kind = "modify" /\ d.task.mod = tx
  BY DEF TaskOnApproval, ModifyOnApproval, CatchUpOnApproval, ApprovesTask
<1> HIDE DEF n
<1>3. /\ s \in Drives /\ s.last = n.last /\ s.catchReq = n.catchReq
      /\ s.verifyReq = n.verifyReq /\ s.verifyTask = n.verifyTask
      /\ s.task.kind = n.task.kind /\ s.task.mod = n.task.mod
      /\ s.task.cancels = n.task.cancels
  BY <1>1 DEF Drives, Tasks, Steps
<1> HIDE DEF s
<1>4. CASE e = d  BY <1>4
<1>5. CASE e = BreakTask(d)
  <2>1. /\ e \in Drives /\ e.last = d.last /\ e.catchReq = d.catchReq
        /\ e.verifyReq = d.verifyReq /\ e.verifyTask = d.verifyTask
        /\ e.task.kind = d.task.kind /\ e.task.mod = d.task.mod
        /\ e.task.cancels = d.task.cancels
        /\ e.task.interrupted /\ e.task.step \in {d.task.step, "finish"}
    BY <1>5, BreakFields
  <2>2. Applies(e.task) => Applies(d.task)  BY <2>1 DEF Applies, Synchronizing
  <2> QED  BY <2>1, <2>2
<1>6. CASE e = BreakTask(n) /\ d.task.kind = "modify"
  <2>1. /\ e \in Drives /\ e.last = n.last /\ e.catchReq = n.catchReq
        /\ e.verifyReq = n.verifyReq /\ e.verifyTask = n.verifyTask
        /\ e.task.kind = n.task.kind /\ e.task.mod = n.task.mod
        /\ e.task.cancels = n.task.cancels
        /\ e.task.interrupted /\ e.task.step \in {n.task.step, "finish"}
    BY <1>1, <1>6, BreakFields
  <2>2. Applies(e.task) => Applies(d.task)  BY <1>1, <1>6, <2>1 DEF Applies, Synchronizing
  <2> QED  BY <1>1, <2>1, <2>2, <1>6
<1>7. CASE e \in {n, s} /\ d.task.kind = "modify" /\ d.task.mod = tx
  <2>1. CASE e = n  BY <1>1, <1>7, <2>1
  <2>2. CASE e = s  BY <1>1, <1>3, <1>7, <2>2
  <2> QED  BY <1>7, <2>1, <2>2
<1> QED  BY <1>2, <1>4, <1>5, <1>6, <1>7

\* onApprovalTransactionHasBeenPublished: the verification ends before a task
\* begins to replace what it is about, and those still to come are not older.
LEMMA OnApprovalSettled == ASSUME Safe, Settled, OnApproval  PROVE Settled'
<1> DEFINE tx == Head(inbox).mod
           v  == CancelVerification(drive)
           d  == IF HasTask(v) THEN TaskOnApproval(v, tx) ELSE v
           a  == IF drive.task.kind = "modify"
                 THEN ModifyOnApprovalAccount(drive, acct, tx) ELSE acct
           r  == [d EXCEPT !.catchReq = tx]
<1>0. drive \in Drives  BY SafeGood
<1>1. Take("approve")  BY DEF OnApproval
<1>2. ThenRunIfIdle(r, a) \/ drive' = d  BY DEF OnApproval
<1>3. /\ inbox' \in Seq(Events) /\ VerifyEvents(inbox', drive)
      /\ \A i \in 1..Len(inbox') : inbox'[i].type = "verify" => tx <= inbox'[i].mod
  BY <1>1, TakenVerify
<1>4. drive.last <= tx /\ tx \in ModOrZero
  <2>1. EventOrder(chain, drive, disk, Head(inbox)) /\ Head(inbox).type = "approve"
    BY <1>1, TakenOrder DEF Take
  <2>2. Head(inbox) \in Events  BY <1>1, HeadInv DEF Take, Safe
  <2> QED  BY <2>1, <2>2 DEF EventOrder, NotAhead, Events
<1>5. /\ v \in Drives /\ v.last = drive.last /\ v.catchReq = drive.catchReq
      /\ v.task = drive.task /\ v.verifyReq = NoVerification
      /\ v.verifyTask = NoVerification
  BY <1>0 DEF CancelVerification, Drives
<1> HIDE DEF v, tx, a
<1>6. /\ d \in Drives /\ d.last = v.last /\ d.catchReq = v.catchReq
      /\ d.verifyReq = v.verifyReq /\ d.verifyTask = v.verifyTask
      /\ d.task.kind = v.task.kind /\ d.task.mod = v.task.mod
      /\ d.task.cancels = v.task.cancels
      /\ d.task.kind # "modify" => d.task.step \in {v.task.step, "finish"}
      /\ Applies(d.task) => Applies(v.task) \/ d.task.mod = tx
  <2>1. CASE HasTask(v)
    <3>1. d = TaskOnApproval(v, tx)  BY <2>1
    <3> HIDE DEF d
    <3> QED  BY <1>5, <3>1, ApprovalFields
  <2>2. CASE ~HasTask(v)
    <3>1. d = v  BY <2>2
    <3> QED  BY <1>5, <3>1
  <2> QED  BY <2>1, <2>2
<1> HIDE DEF d
<1>7. /\ r \in Drives /\ r.last = d.last /\ r.catchReq = tx /\ r.task = d.task
      /\ r.verifyReq = d.verifyReq /\ r.verifyTask = d.verifyTask
  BY <1>4, <1>6 DEF Drives
<1> HIDE DEF r
<1>8. \A m : NotBefore(drive, m) /\ tx <= m => NotBefore(d, m) /\ NotBefore(r, m)
  BY <1>5, <1>6, <1>7 DEF NotBefore
<1>9. VerifyEvents(inbox', d) /\ VerifyEvents(inbox', r)  BY <1>3, <1>8 DEF VerifyEvents
<1>10. VerifyOrder(d) /\ FirstLoad(d, disk)
  <2>1. d.task.kind # "modify" /\ Applies(d.task) /\ d.task.step # "finish" =>
           drive.task.kind # "modify" /\ Applies(drive.task) /\ drive.task.step # "finish"
    BY <1>5, <1>6 DEF Applies
  <2>2. VerifyOrder(d)  BY <1>5, <1>6, <2>1 DEF Settled, VerifyOrder
  <2>3. FirstLoad(d, disk)  BY <1>5, <1>6 DEF Settled, FirstLoad
  <2> QED  BY <2>2, <2>3
<1>11. VerifyOrder(r) /\ FirstLoad(r, disk)
  BY <1>5, <1>6, <1>7, <1>10 DEF VerifyOrder, FirstLoad
<1>12. CASE ThenRunIfIdle(r, a)
  <2>1. r.catchReq # 0 => r.last <= r.catchReq  BY <1>4, <1>5, <1>6, <1>7
  <2> QED  BY <1>1, <1>3, <1>7, <1>9, <1>11, <1>12, <2>1, ThenRunSettled
<1>13. CASE drive' = d  BY <1>1, <1>9, <1>10, <1>13 DEF Settled, Take
<1> QED  BY <1>2, <1>12, <1>13

\* The invariant holds initially ...
LEMMA InitStable == Init => Stable
<1> SUFFICES ASSUME Init  PROVE Stable
  OBVIOUS
<1>1. /\ up = "up" /\ inbox = <<>> /\ drive = NewDrive({}) /\ disk = EmptyDisk
      /\ crashes = 0
  BY DEF Init
<1>2. Len(inbox) = 0  BY <1>1
<1>3. VerifyEvents(inbox, drive)  BY <1>2 DEF VerifyEvents
<1>4. VerifyOrder(drive)
  BY <1>1 DEF VerifyOrder, NewDrive, NewTask, Applies, Synchronizing
<1>5. FirstLoad(drive, disk)  BY <1>1 DEF FirstLoad, NewDrive, NewTask, EmptyDisk
<1> QED  BY <1>1, <1>3, <1>4, <1>5 DEF Settled, Stable

\* A cancellation and a crash are never taken back.
LEMMA RestartsStay ==
    ASSUME Safe, [Next]_vars, crashes \in Nat
    PROVE  crashes' \in Nat /\ (NeverRestarted' => NeverRestarted)
<1>1. chain \in Chains  BY ChainTypes DEF Safe, IInv
<1>2. CASE ChainStep
  <2>1. crashes' = crashes
    BY <1>2 DEF ChainStep, ChainModify, ChainApprove, ChainCancel, ChainClose, ChainVerify,
                ChainVerified, replicator
  <2>2. chain.cancelled \subseteq chain'.cancelled
    BY <1>1, <1>2 DEF ChainStep, ChainModify, ChainApprove, ChainCancel, ChainClose,
                      ChainVerify, ChainVerified, Chains
  <2> QED  BY <2>1, <2>2 DEF NeverRestarted, NothingCancelled
<1>3. CASE ~ChainStep
  <2>1. chain' = chain /\ crashes' \in {crashes, crashes + 1}
    <3>1. CASE OnEvent
      BY <3>1 DEF OnEvent, OnModify, OnApproval, OnCancel, OnClose, OnVerify, OnVerified, Take
    <3>2. CASE ClientDownload \/ ReplicatorDownload
      BY <3>2 DEF ClientDownload, ReplicatorDownload, ActionListDownloaded, environment,
                  MissingFilesDownloaded, FsTreeDownloaded, CatchUpFilesDownloaded
    <3>3. CASE TaskStep
      BY <3>3 DEF TaskStep, InitializeDrive, PrepareDownloadMissingFiles,
                  ModifyFsTreeInSandbox, CopyFsTreeAfterError, MyOpinionIsCreated,
                  SynchronizeDriveWithSandbox, RemoveUnusedFiles, ModifyDriveInSandbox,
                  CatchUpOpinionIsCreated, CatchUpMoveFsTree, CatchUpSaveLast,
                  SaveNotApproved, SaveApprovedUploads, SaveLastApproved, SaveDisapproved,
                  ClearDrive, RemoveAllDriveData, FinishAndRunNextTask, environment
    <3>4. CASE Crash \/ Restart \/ RemoveUnusedDrives
      BY <3>4 DEF Crash, Restart, RemoveUnusedDrives
    <3>5. CASE UNCHANGED vars  BY <3>5 DEF vars
    <3> QED  BY <1>3, <3>1, <3>2, <3>3, <3>4, <3>5 DEF Next
  <2> QED  BY <2>1 DEF NeverRestarted, NothingCancelled
<1> QED  BY <1>2, <1>3

\* ... and every step preserves it.
LEMMA NextStable == Safe /\ Stable /\ [Next]_vars => Stable'
<1> SUFFICES ASSUME Safe, Stable, [Next]_vars  PROVE Stable'
  OBVIOUS
<1>1. crashes \in Nat /\ crashes' \in Nat /\ (NeverRestarted' => NeverRestarted)
  BY RestartsStay DEF Stable
<1>2. ASSUME NeverRestarted'  PROVE Settled'
  <2>1. NeverRestarted /\ Settled /\ crashes = 0 /\ crashes' = 0
    BY <1>1, <1>2 DEF Stable, NeverRestarted
  <2>2. CASE ChainStep  BY <1>2, <2>1, <2>2, ChainSettled
  <2>3. CASE OnEvent
    BY <1>2, <2>1, <2>3, OnModifySettled, OnApprovalSettled, OnCancelSettled, OnCloseSettled,
       OnVerifySettled, OnVerifiedSettled DEF OnEvent
  <2>4. CASE ClientDownload \/ ReplicatorDownload
    BY <2>1, <2>4, EarlyStepSettled DEF ClientDownload, ReplicatorDownload
  <2>5. CASE TaskStep
    BY <2>1, <2>5, EarlyStepSettled, LateStepSettled, SaveLastSettled, InitializeSettled,
       RemoveSettled, FinishSettled DEF TaskStep
  <2>6. CASE Crash  BY <2>1, <2>6 DEF Crash
  <2>7. CASE Restart \/ RemoveUnusedDrives
    BY <2>1, <2>7 DEF Restart, RemoveUnusedDrives, Settled
  <2>8. CASE UNCHANGED vars  BY <2>1, <2>8 DEF vars, Settled
  <2> QED  BY <2>2, <2>3, <2>4, <2>5, <2>6, <2>7, <2>8 DEF Next
<1> QED  BY <1>1, <1>2 DEF Stable

\* A running verification is about exactly the modification the drive has, and
\* no task is replacing its files, however approvals, verifications and their
\* ends overtake the tasks, until the first crash or cancellation
\* (startVerification, runNextTask, cancelVerification).
THEOREM VerificationOnStableDriveTheorem == Spec => []VerificationOnStableDrive
<1>1. Safe /\ Stable => VerificationOnStableDrive
  <2> SUFFICES ASSUME Safe, Settled, drive.verifyTask # NoVerification
               PROVE  drive.verifyTask = drive.last /\ drive.task.step \notin Synchronizing
    BY DEF Stable, VerificationOnStableDrive
  <2>1. drive.verifyTask = drive.last /\ NotBefore(drive, drive.last)
    BY DEF Settled, VerifyOrder
  <2>2. ASSUME drive.task.step \in Synchronizing  PROVE FALSE
    <3>1. Applies(drive.task) /\ drive.task.step # "finish"
      BY <2>2 DEF Applies, Synchronizing
    <3>2. drive.task.mod <= drive.last  BY <2>1, <3>1 DEF NotBefore
    <3>3. drive.last < drive.task.mod
      BY <3>1 DEF Safe, Order, TaskOrder, Settled, VerifyOrder
    <3>4. drive.last \in Int /\ drive.task.mod \in Int  BY SafeGood, DriveNumbers, ModTypes
    <3> QED  BY <3>2, <3>3, <3>4
  <2> QED  BY <2>1, <2>2
<1>2. Init => Safe /\ Stable  BY InitSafe, InitStable
<1>3. Safe /\ Stable /\ [Next]_vars => Safe' /\ Stable'  BY NextSafe, NextStable
<1> QED  BY <1>1, <1>2, <1>3, PTL DEF Spec

------------------------------------------------------------------------------
(* III. The trees: one needs to know where the drive is going.  Every       *)
(* modification that is newer than the drive will be when it is done waits, *)
(* so that the next one it takes is the next one of the chain.              *)

\* Every approved tree is the one before it, modified; the pending modifications
\* are all those that are not approved yet.
ChainTrees(c) ==
    /\ c.rootAt[0] = {}
    /\ \A m \in Mods : m <= c.last => c.rootAt[m] = Execute(c.rootAt[m - 1], m)
    /\ Len(c.pending) = c.issued - c.last
    /\ \A i \in 1..Len(c.pending) : c.pending[i] = c.last + i

\* Tree r is the approved tree of a modification between two others.
Within(c, r, lo, hi) ==
    \E x \in ModOrZero : lo <= x /\ x <= hi /\ x <= c.last /\ r = c.rootAt[x]

\* The sandbox has its tree.
Built == {"saveNot", "saveOpinion", "wait"} \cup Synchronizing

\* A modification is executed on the tree of the one before it, and a catch-up
\* ends with the approved tree.
TaskTrees(c, d) ==
    /\ d.task.step \in Built => d.task.kind \in Updating
    /\ d.task.kind = "modify" /\ d.task.step # "finish" =>
          d.last = d.task.mod - 1 /\ d.root = c.rootAt[d.task.mod - 1]
    /\ d.task.kind = "modify" /\ d.task.step \in Built =>
          d.task.root = Execute(d.root, d.task.mod)
    /\ d.task.kind = "catchup" /\ d.task.step \in Built =>
          d.task.root = c.rootAt[d.task.mod]
    /\ d.task.kind = "catchup" /\ d.last = d.task.mod => d.root = c.rootAt[d.task.mod]

\* How far a modification can get, by its result.
OutcomeOrder(t) ==
    t.kind = "modify" =>
        /\ t.step \in {"prep", "files"} => Outcome[t.mod] # "list"
        /\ t.step = "sandbox" => Outcome[t.mod] \notin {"list", "files"}
        /\ t.step = "copy" => Outcome[t.mod] # "ok"

\* The tree is moved before anything else is saved.
MovedFirst(t, k) ==
    t.kind \in Updating /\ t.step \in {"syncLast", "saveUploads", "saveLast"} =>
        k.root = t.root

NothingToCancel(d) ==
    /\ d.cancelReq = 0 /\ d.task.kind # "cancel" /\ d.task.cancels = {}
    /\ d.task.kind = "close" => d.task.step = "remove"

Loading(t) == t.kind = "init" /\ t.step = "load"

Closing(d) == d.closeReq \/ d.task.kind = "close"

\* The modification the drive will have when it is done with its task and with
\* the catch-up that waits.
Goal(d) ==
    IF d.catchReq # 0 THEN d.catchReq
    ELSE IF d.task.kind \in Updating /\ d.task.step # "finish" THEN d.task.mod
    ELSE d.last

\* All newer modifications are waiting, and the tree is not newer than m.
Reaches(c, q, d, k, m) ==
    /\ \A w \in Mods : m < w /\ w <= c.issued => Waits(d, q, w)
    /\ Within(c, d.root, d.last, m)
    /\ Loading(d.task) => d.last = 0 /\ Within(c, k.root, k.last, m)

\* The drive knows where it is going ...
Informed(c, q, d, k) ==
    /\ Reaches(c, q, d, k, Goal(d))
    /\ \A i \in 1..Len(q) : q[i].type = "approve" => d.last < q[i].mod
    /\ d.task.kind \in Updating /\ d.task.interrupted => d.catchReq # 0

\* ... or was just started, and is about to be told.
Started(c, q, d, k) ==
    /\ q # <<>> /\ Head(q).type = "approve"
    /\ d.deferred = <<>> /\ d.catchReq = 0 /\ d.task.kind \in {"init", "none"}
    /\ Reaches(c, q, d, k, Head(q).mod)

Trees(c, q, d, k, u) ==
    /\ ChainTrees(c)
    /\ Within(c, k.root, k.last, c.last)
    /\ Within(c, d.root, d.last, c.last)
    /\ TaskTrees(c, d) /\ OutcomeOrder(d.task) /\ MovedFirst(d.task, k)
    /\ NothingToCancel(d)
    /\ u = "up" /\ ~Closing(d) => Informed(c, q, d, k) \/ Started(c, q, d, k)

Sound == NothingCancelled => Trees(chain, inbox, drive, disk, up)

------------------------------------------------------------------------------
(* A task that goes on *)

\* A tree between two modifications is also between wider ones.
LEMMA WithinMore ==
    ASSUME NEW c, NEW r, NEW lo, NEW hi \in Int, NEW top \in Int, hi <= top,
           Within(c, r, lo, hi)
    PROVE  Within(c, r, lo, top)
  BY ModTypes DEF Within

\* What a step of a task leaves alone.
Kept(d, e) ==
    /\ e.deferred = d.deferred /\ e.catchReq = d.catchReq
    /\ e.cancelReq = d.cancelReq /\ e.closeReq = d.closeReq
    /\ e.root = d.root /\ e.last = d.last
    /\ e.task.kind = d.task.kind /\ e.task.mod = d.task.mod
    /\ e.task.interrupted = d.task.interrupted /\ e.task.cancels = d.task.cancels

\* A task that goes on keeps what is said of the trees, if it says so itself.
LEMMA MoveTrees ==
    ASSUME NEW c, NEW q, NEW d, NEW e, NEW k, NEW l, Trees(c, q, d, k, "up"), Kept(d, e),
           d.task.kind \in Updating, d.task.step # "finish",
           e.task.step = "finish" => d.task.interrupted,
           TaskTrees(c, e), OutcomeOrder(e.task), MovedFirst(e.task, l),
           Within(c, l.root, l.last, c.last)
    PROVE  Trees(c, q, e, l, "up")
<1>1. d.task.kind \in {"modify", "catchup"} /\ e.task.kind \in {"modify", "catchup"}
  BY DEF Updating, Kept
<1>2. ~Closing(e) => Informed(c, q, e, l)
  <2> SUFFICES ASSUME ~Closing(e) PROVE Informed(c, q, e, l)
    OBVIOUS
  <2>1. Informed(c, q, d, k)
    BY <1>1 DEF Trees, Closing, Kept, Started
  <2>2. Goal(e) = Goal(d)
    BY <2>1 DEF Goal, Informed, Kept
  <2>3. Reaches(c, q, e, l, Goal(e))
    BY <2>1, <2>2, <1>1 DEF Informed, Reaches, Kept, Loading, Waits, Deferred
  <2> QED BY <2>1, <2>3 DEF Informed, Kept
<1>3. NothingToCancel(e)
  BY <1>1 DEF Trees, NothingToCancel, Kept
<1>4. Within(c, e.root, e.last, c.last) /\ ChainTrees(c)
  BY DEF Trees, Kept
<1> QED BY <1>2, <1>3, <1>4 DEF Trees

\* A step that does not make the tree of the sandbox.
LEMMA GoesOn ==
    ASSUME NEW c, NEW d, NEW e, TaskTrees(c, d), Kept(d, e), d.task.step # "finish",
           e.task.step \in Built => d.task.step \in Built /\ e.task.root = d.task.root
    PROVE  TaskTrees(c, e)
  BY DEF TaskTrees, Kept

\* A step of a task only changes the drive and its files.
LEMMA MoveSound ==
    ASSUME Safe, Sound, chain' = chain, inbox' = inbox, up = "up", up' = up,
           NothingCancelled => Trees(chain, inbox, drive', disk', "up")
    PROVE  Sound'
  BY DEF Sound, NothingCancelled

\* The fields of a drive and of its task.
LEMMA TaskShape ==
    ASSUME NEW d \in Drives
    PROVE  /\ DOMAIN d = {"task", "deferred", "catchReq", "cancelReq", "closeReq",
                          "verifyReq", "verifyTask", "root", "last"}
           /\ d.task \in Tasks
           /\ DOMAIN d.task = {"kind", "mod", "step", "root", "interrupted",
                               "approved", "calculated", "listed", "cancels"}
  BY DEF Drives, Tasks

\* finishTask and modifyIsCompletedWithError only change the step.
LEMMA KeptChanges ==
    ASSUME NEW d \in Drives
    PROVE  /\ Kept(d, FinishTask(d)) /\ FinishTask(d).task.step = "finish"
           /\ Kept(d, CompletedWithError(d)) /\ CompletedWithError(d).task.step = "copy"
  BY TaskShape DEF Kept, FinishTask, CompletedWithError

\* So does going on to another step.
LEMMA KeptStep ==
    ASSUME NEW d \in Drives, NEW s, NEW e, e = [d EXCEPT !.task.step = s]
    PROVE  Kept(d, e) /\ e.task.step = s /\ e.task.root = d.task.root
  BY TaskShape DEF Kept

\* The files a step does not touch.
LEMMA PlainTrees ==
    ASSUME NEW c, NEW q, NEW d, NEW e, NEW k, NEW l, Trees(c, q, d, k, "up"), Kept(d, e),
           d.task.kind \in Updating, d.task.step # "finish",
           e.task.step = "finish" => d.task.interrupted,
           e.task.step \in Built => d.task.step \in Built /\ e.task.root = d.task.root,
           OutcomeOrder(e.task),
           e.task.step \notin {"syncLast", "saveUploads", "saveLast"},
           l.root = k.root, l.last = k.last
    PROVE  Trees(c, q, e, l, "up")
<1>1. TaskTrees(c, e)
  BY GoesOn DEF Trees
<1>2. MovedFirst(e.task, l) /\ Within(c, l.root, l.last, c.last)
  BY DEF MovedFirst, Trees
<1> QED BY <1>1, <1>2, MoveTrees

\* The downloads and the removal of unused files.
LEMMA PlainStepSound ==
    Safe /\ Sound /\ (ActionListDownloaded \/ PrepareDownloadMissingFiles
                      \/ MissingFilesDownloaded \/ FsTreeDownloaded \/ RemoveUnusedFiles
                      \/ CatchUpFilesDownloaded) => Sound'
<1> SUFFICES ASSUME Safe, Sound,
                    \/ ActionListDownloaded \/ PrepareDownloadMissingFiles
                    \/ MissingFilesDownloaded \/ FsTreeDownloaded \/ RemoveUnusedFiles
                    \/ CatchUpFilesDownloaded
             PROVE  Sound'
  OBVIOUS
<1>1. drive \in Drives
  BY SafeGood
<1>2. /\ up = "up" /\ UNCHANGED <<environment, disk>>
      /\ drive.task.kind \in {"modify", "catchup"}
      /\ drive.task.step \in {"list", "prep", "files", "tree", "unused"}
  BY DEF ActionListDownloaded, PrepareDownloadMissingFiles, MissingFilesDownloaded,
         FsTreeDownloaded, RemoveUnusedFiles, CatchUpFilesDownloaded, At
<1>3. \/ /\ drive' = [drive EXCEPT !.task.step = "prep", !.task.listed = TRUE]
         /\ Outcome[drive.task.mod] # "list"
      \/ /\ drive' = CompletedWithError(drive)
         /\ Outcome[drive.task.mod] \in {"list", "files"}
      \/ /\ drive' = FinishTask(drive)
         /\ drive.task.interrupted
      \/ \E s \in {"files", "sandbox", "unused"} :
            /\ drive' = [drive EXCEPT !.task.step = s]
            /\ drive.task.kind = "modify" =>
                  /\ drive.task.step \in {"prep", "files"}
                  /\ s = "sandbox" => Outcome[drive.task.mod] # "files"
  BY <1>2 DEF ActionListDownloaded, PrepareDownloadMissingFiles, MissingFilesDownloaded,
         FsTreeDownloaded, RemoveUnusedFiles, CatchUpFilesDownloaded, At, Modification
<1>4. /\ Kept(drive, drive')
      /\ drive'.task.step \in {"finish", "copy", "prep", "files", "sandbox", "unused"}
      /\ drive'.task.step = "finish" => drive.task.interrupted
      /\ OutcomeOrder(drive.task) => OutcomeOrder(drive'.task)
  <2>1. CASE /\ drive' = [drive EXCEPT !.task.step = "prep", !.task.listed = TRUE]
             /\ Outcome[drive.task.mod] # "list"
    BY <2>1, <1>1, TaskShape DEF Kept, OutcomeOrder
  <2>2. CASE /\ drive' = CompletedWithError(drive)
             /\ Outcome[drive.task.mod] \in {"list", "files"}
    BY <2>2, <1>1, KeptChanges DEF Kept, OutcomeOrder
  <2>3. CASE drive' = FinishTask(drive) /\ drive.task.interrupted
    BY <2>3, <1>1, KeptChanges DEF Kept, OutcomeOrder
  <2>4. ASSUME NEW s \in {"files", "sandbox", "unused"},
               drive' = [drive EXCEPT !.task.step = s],
               drive.task.kind = "modify" =>
                  /\ drive.task.step \in {"prep", "files"}
                  /\ s = "sandbox" => Outcome[drive.task.mod] # "files"
        PROVE  /\ Kept(drive, drive') /\ drive'.task.step = s
               /\ OutcomeOrder(drive.task) => OutcomeOrder(drive'.task)
    <3>1. Kept(drive, drive') /\ drive'.task.step = s
      BY <2>4, <1>1, KeptStep
    <3> QED BY <3>1, <2>4 DEF Kept, OutcomeOrder
  <2> QED BY <1>3, <2>1, <2>2, <2>3, <2>4
<1>5. NothingCancelled => Trees(chain, inbox, drive', disk', "up")
  <2> SUFFICES ASSUME NothingCancelled PROVE Trees(chain, inbox, drive', disk', "up")
    OBVIOUS
  <2>1. Trees(chain, inbox, drive, disk, "up") /\ OutcomeOrder(drive.task)
    BY <1>2 DEF Sound, Trees
  <2>2. /\ drive'.task.step \notin Built
        /\ drive'.task.step \notin {"syncLast", "saveUploads", "saveLast"}
        /\ drive.task.kind \in Updating /\ drive.task.step # "finish"
        /\ disk'.root = disk.root /\ disk'.last = disk.last
    BY <1>2, <1>4 DEF Built, Synchronizing, Updating
  <2> QED BY <2>1, <2>2, <1>4, PlainTrees
<1> QED BY <1>2, <1>5, MoveSound DEF environment

\* Nothing is disapproved.
LEMMA CancelSound ==
    Safe /\ Sound /\ (SaveDisapproved \/ ClearDrive) => Sound'
<1> SUFFICES ASSUME Safe, Sound, SaveDisapproved \/ ClearDrive
             PROVE  Sound'
  OBVIOUS
<1>1. /\ up = "up" /\ UNCHANGED environment /\ drive.task.kind = "cancel"
  BY DEF SaveDisapproved, ClearDrive, At
<1>2. ~NothingCancelled
  BY <1>1 DEF Sound, Trees, NothingToCancel
<1> QED BY <1>1, <1>2, MoveSound DEF environment

\* myRootHashIsCalculated: the sandbox gets its tree.
LEMMA SandboxTrees ==
    ASSUME Safe, Sound, NEW r, NEW n, MyRootHashIsCalculated(r, n),
           chain' = chain, inbox' = inbox, up = "up", up' = up, disk' = disk,
           drive.task.kind \in Updating, drive.task.step \in {"sandbox", "copy"},
           NothingCancelled => /\ drive.task.kind = "modify" =>
                                     r = Execute(drive.root, drive.task.mod)
                               /\ drive.task.kind = "catchup" =>
                                     r = chain.rootAt[drive.task.mod]
    PROVE  Sound'
<1>1. drive \in Drives /\ drive.task \in Tasks
  BY SafeGood
<1>2. NothingCancelled => Trees(chain, inbox, drive', disk', "up")
  <2> SUFFICES ASSUME NothingCancelled PROVE Trees(chain, inbox, drive', disk', "up")
    OBVIOUS
  <2>1. Trees(chain, inbox, drive, disk, "up") /\ TaskTrees(chain, drive)
    BY DEF Sound, Trees
  <2>2. CASE drive.task.interrupted
    <3>1. Kept(drive, drive') /\ drive'.task.step = "finish"
      BY <2>2, <1>1, KeptChanges DEF MyRootHashIsCalculated
    <3>2. /\ drive'.task.step \notin Built /\ drive.task.step # "finish"
          /\ OutcomeOrder(drive'.task)
          /\ drive'.task.step \notin {"syncLast", "saveUploads", "saveLast"}
      BY <3>1 DEF Built, Synchronizing, OutcomeOrder
    <3> QED BY <2>1, <2>2, <3>1, <3>2, PlainTrees
  <2>3. CASE ~drive.task.interrupted
    <3>1. /\ Kept(drive, drive') /\ drive'.task.step = "saveNot" /\ drive'.task.root = r
      <4>1. drive' = [drive EXCEPT !.task.root = r, !.task.step = "saveNot"]
        BY <2>3 DEF MyRootHashIsCalculated
      <4> QED BY <4>1, <1>1, TaskShape DEF Kept
    <3>2. TaskTrees(chain, drive')
      BY <2>1, <3>1 DEF TaskTrees, Kept, Built, Updating
    <3>3. /\ OutcomeOrder(drive'.task) /\ MovedFirst(drive'.task, disk')
          /\ drive.task.step # "finish" /\ drive'.task.step # "finish"
          /\ Within(chain, disk'.root, disk'.last, chain.last)
      BY <2>1, <3>1 DEF OutcomeOrder, MovedFirst, Trees
    <3> QED BY <2>1, <3>1, <3>2, <3>3, MoveTrees
  <2> QED BY <2>2, <2>3
<1> QED BY <1>2, MoveSound

\* The jobs that make the tree of the sandbox.
LEMMA SandboxSound ==
    Safe /\ Sound /\ (ModifyFsTreeInSandbox \/ CopyFsTreeAfterError \/ ModifyDriveInSandbox)
    => Sound'
<1> SUFFICES ASSUME Safe, Sound,
                    ModifyFsTreeInSandbox \/ CopyFsTreeAfterError \/ ModifyDriveInSandbox
             PROVE  Sound'
  OBVIOUS
<1>1. drive \in Drives /\ drive.task \in Tasks
  BY SafeGood
<1>2. /\ up = "up" /\ UNCHANGED <<environment, disk>>
      /\ drive.task.kind \in Updating /\ drive.task.step \in {"sandbox", "copy"}
      /\ drive.task.kind = "modify" => drive.task.mod \in Mods
  BY DEF ModifyFsTreeInSandbox, CopyFsTreeAfterError, ModifyDriveInSandbox, At, Updating,
         Safe, IInv, DriveInv, DriveIsApproved, TaskIsApproved
<1>3. NothingCancelled => OutcomeOrder(drive.task)
  BY DEF Sound, Trees
<1>4. CASE ModifyFsTreeInSandbox
  <2>1. drive.task.kind = "modify" /\ drive.task.step = "sandbox"
    BY <1>4 DEF ModifyFsTreeInSandbox, At
  <2>2. CASE Outcome[drive.task.mod] = "space"
    <3>1. Kept(drive, drive') /\ drive'.task.step = "copy"
      BY <1>4, <2>2, <1>1, KeptChanges DEF ModifyFsTreeInSandbox, Modification
    <3>2. /\ OutcomeOrder(drive'.task)
      BY <2>1, <2>2, <3>1 DEF OutcomeOrder, Kept
    <3>3. /\ drive'.task.step \notin Built /\ drive.task.step # "finish"
          /\ drive'.task.step \notin {"finish", "syncLast", "saveUploads", "saveLast"}
          /\ disk'.root = disk.root /\ disk'.last = disk.last
      BY <3>1, <1>2 DEF Built, Synchronizing
    <3>4. NothingCancelled => Trees(chain, inbox, drive', disk', "up")
      <4> SUFFICES ASSUME NothingCancelled PROVE Trees(chain, inbox, drive', disk', "up")
        OBVIOUS
      <4>1. Trees(chain, inbox, drive, disk, "up")
        BY <1>2 DEF Sound
      <4> QED BY <4>1, <1>2, <3>1, <3>2, <3>3, PlainTrees
    <3> QED BY <3>4, <1>2, MoveSound DEF environment
  <2>3. CASE Outcome[drive.task.mod] # "space"
    <3>1. MyRootHashIsCalculated(drive.root \cup {drive.task.mod}, Size[drive.task.mod])
      BY <1>4, <2>3 DEF ModifyFsTreeInSandbox, Modification
    <3>2. NothingCancelled =>
             drive.root \cup {drive.task.mod} = Execute(drive.root, drive.task.mod)
      BY <1>2, <1>3, <2>1, <2>3, DriveAssumption DEF OutcomeOrder, Outcomes, Execute
    <3> QED BY <1>2, <2>1, <3>1, <3>2, SandboxTrees DEF environment
  <2> QED BY <2>2, <2>3
<1>5. CASE CopyFsTreeAfterError
  <2>1. /\ drive.task.kind = "modify" /\ drive.task.step = "copy"
        /\ MyRootHashIsCalculated(drive.root, Size[drive.task.mod])
    BY <1>5 DEF CopyFsTreeAfterError, At, Modification
  <2>2. NothingCancelled => drive.root = Execute(drive.root, drive.task.mod)
    BY <1>3, <2>1 DEF OutcomeOrder, Execute
  <2> QED BY <1>2, <2>1, <2>2, SandboxTrees DEF environment
<1>6. CASE ModifyDriveInSandbox
  <2>1. /\ drive.task.kind = "catchup"
        /\ MyRootHashIsCalculated(chain.rootAt[drive.task.mod], 0)
    BY <1>6 DEF ModifyDriveInSandbox, At, ApprovedRoot
  <2> QED BY <1>2, <2>1, SandboxTrees DEF environment
<1> QED BY <1>4, <1>5, <1>6

\* The uploads and the opinion are saved, the tree of the sandbox stays.
LEMMA SaveStepSound ==
    Safe /\ Sound /\ (SaveNotApproved \/ MyOpinionIsCreated \/ CatchUpOpinionIsCreated)
    => Sound'
<1> SUFFICES ASSUME Safe, Sound,
                    SaveNotApproved \/ MyOpinionIsCreated \/ CatchUpOpinionIsCreated
             PROVE  Sound'
  OBVIOUS
<1>1. drive \in Drives
  BY SafeGood
<1>2. /\ up = "up" /\ UNCHANGED environment
      /\ drive.task.kind \in Updating /\ drive.task.step \in {"saveNot", "saveOpinion"}
  BY DEF SaveNotApproved, MyOpinionIsCreated, CatchUpOpinionIsCreated, At, Updating
<1>3. disk'.root = disk.root /\ disk'.last = disk.last
  <2>1. DOMAIN disk = {"root", "last", "approved", "notApproved", "opinion"}
    BY DEF Safe, IInv, DiskInv
  <2>2. \/ disk' = [disk EXCEPT !.notApproved = acct.notApproved]
        \/ disk' = [disk EXCEPT !.opinion = acct.notApproved]
    BY DEF SaveNotApproved, MyOpinionIsCreated, CatchUpOpinionIsCreated
  <2> QED BY <2>1, <2>2
<1>4. \/ drive' = FinishTask(drive) /\ drive.task.interrupted
      \/ drive' = [drive EXCEPT !.task.step = "saveOpinion"]
      \/ \E s \in {"sync", "wait"} :
            drive' = [drive EXCEPT !.task.calculated = TRUE, !.task.step = s]
  BY DEF SaveNotApproved, MyOpinionIsCreated, CatchUpOpinionIsCreated
<1>5. /\ Kept(drive, drive')
      /\ \/ drive'.task.step = "finish" /\ drive.task.interrupted
         \/ /\ drive'.task.step \in {"saveOpinion", "sync", "wait"}
            /\ drive'.task.root = drive.task.root
  <2>1. CASE drive' = FinishTask(drive) /\ drive.task.interrupted
    BY <2>1, <1>1, KeptChanges
  <2>2. CASE drive' = [drive EXCEPT !.task.step = "saveOpinion"]
    BY <2>2, <1>1, TaskShape DEF Kept
  <2>3. ASSUME NEW s \in {"sync", "wait"},
               drive' = [drive EXCEPT !.task.calculated = TRUE, !.task.step = s]
        PROVE  /\ Kept(drive, drive') /\ drive'.task.step = s
               /\ drive'.task.root = drive.task.root
    BY <2>3, <1>1, TaskShape DEF Kept
  <2> QED BY <1>4, <2>1, <2>2, <2>3
<1>6. /\ drive.task.step \in Built /\ drive.task.step # "finish"
      /\ OutcomeOrder(drive'.task)
      /\ drive'.task.step \notin {"syncLast", "saveUploads", "saveLast"}
      /\ drive'.task.step = "finish" => drive.task.interrupted
      /\ drive'.task.step \in Built => drive'.task.root = drive.task.root
  BY <1>2, <1>5 DEF Built, Synchronizing, OutcomeOrder
<1>7. NothingCancelled => Trees(chain, inbox, drive', disk', "up")
  <2> SUFFICES ASSUME NothingCancelled PROVE Trees(chain, inbox, drive', disk', "up")
    OBVIOUS
  <2>1. Trees(chain, inbox, drive, disk, "up")
    BY <1>2 DEF Sound
  <2> QED BY <2>1, <1>2, <1>3, <1>5, <1>6, PlainTrees
<1> QED BY <1>2, <1>7, MoveSound DEF environment

------------------------------------------------------------------------------
(* A task that replaces the files of the drive *)

\* What is in the sandbox is the approved tree.
LEMMA ApprovedTree ==
    ASSUME NEW c, NEW q, NEW d, NEW k, Good(c, q, d, k), ChainTrees(c), TaskTrees(c, d),
           d.task.step \in Synchronizing
    PROVE  /\ d.task.kind \in Updating /\ d.task.mod \in Mods /\ d.task.mod <= c.last
           /\ d.task.root = c.rootAt[d.task.mod]
<1>1. Approved(c, d.task.mod) /\ d.task.mod \in ModOrZero
  BY DEF Good, DriveInv, DriveIsApproved, TaskIsApproved, Drives, Tasks
<1>2. d.task.mod \in Mods /\ d.task.mod <= c.last
  BY <1>1, ApprovedBound, ModTypes DEF Good
<1>3. d.task.step \in Built /\ d.task.step # "finish"
  BY DEF Built, Synchronizing
<1>4. d.task.kind \in {"modify", "catchup"}
  BY <1>3 DEF TaskTrees, Updating
<1>5. CASE d.task.kind = "modify"
  BY <1>5, <1>2, <1>3 DEF TaskTrees, ChainTrees, Updating
<1>6. CASE d.task.kind = "catchup"
  BY <1>6, <1>2, <1>3 DEF TaskTrees, Updating
<1> QED BY <1>4, <1>5, <1>6

\* A task that replaces the tree of the drive puts an approved tree there.
LEMMA ReplaceTrees ==
    ASSUME Safe, Sound, chain' = chain, inbox' = inbox, up = "up", up' = up,
           drive.task.step \in Synchronizing, Kept(drive, drive'),
           drive'.task.root = drive.task.root,
           drive'.task.step \in {"syncLast", "saveUploads", "saveLast"},
           NothingCancelled => disk'.root = drive.task.root,
           disk'.last \in {disk.last, drive.task.mod}
    PROVE  Sound'
<1>1. NothingCancelled => Trees(chain, inbox, drive', disk', "up")
  <2> SUFFICES ASSUME NothingCancelled PROVE Trees(chain, inbox, drive', disk', "up")
    OBVIOUS
  <2>1. Trees(chain, inbox, drive, disk, "up") /\ TaskTrees(chain, drive) /\ ChainTrees(chain)
    BY DEF Sound, Trees
  <2>2. /\ drive.task.kind \in Updating /\ drive.task.mod \in Mods
        /\ drive.task.mod <= chain.last /\ drive.task.root = chain.rootAt[drive.task.mod]
    BY <2>1, SafeGood, ApprovedTree
  <2>3. disk.last <= drive.task.mod
    BY DEF Safe, Order, TaskOrder, Applies, NotAhead
  <2>4. Within(chain, disk'.root, disk'.last, chain.last)
    BY <2>2, <2>3, ModTypes DEF Within
  <2>5. /\ drive.task.step \in Built /\ drive.task.step # "finish"
        /\ OutcomeOrder(drive'.task) /\ MovedFirst(drive'.task, disk')
        /\ drive'.task.step # "finish"
    BY DEF Built, Synchronizing, OutcomeOrder, MovedFirst
  <2>6. TaskTrees(chain, drive')
    BY <2>1, <2>5, GoesOn
  <2> QED BY <2>1, <2>2, <2>4, <2>5, <2>6, MoveTrees
<1> QED BY <1>1, MoveSound

\* The steps that replace the tree of the drive and save what belongs to it.
LEMMA ReplaceSound ==
    Safe /\ Sound /\ (SynchronizeDriveWithSandbox \/ CatchUpMoveFsTree \/ CatchUpSaveLast
                      \/ SaveApprovedUploads) => Sound'
<1> SUFFICES ASSUME Safe, Sound,
                    \/ SynchronizeDriveWithSandbox \/ CatchUpMoveFsTree \/ CatchUpSaveLast
                    \/ SaveApprovedUploads
             PROVE  Sound'
  OBVIOUS
<1>1. drive \in Drives
  BY SafeGood
<1>2. /\ up = "up" /\ UNCHANGED environment
      /\ drive.task.kind \in Updating
      /\ drive.task.step \in {"sync", "syncLast", "saveUploads"}
  BY DEF SynchronizeDriveWithSandbox, CatchUpMoveFsTree, CatchUpSaveLast,
         SaveApprovedUploads, At, Updating
<1>3. \/ drive' = [drive EXCEPT !.task.step = "syncLast"]
      \/ drive' = [drive EXCEPT !.task.step = "saveUploads"]
      \/ drive' = [drive EXCEPT !.task.step = "saveLast"]
  BY DEF SynchronizeDriveWithSandbox, CatchUpMoveFsTree, CatchUpSaveLast,
         SaveApprovedUploads, SynchronizationIsCompleted
<1>4. /\ Kept(drive, drive') /\ drive'.task.root = drive.task.root
      /\ drive'.task.step \in {"syncLast", "saveUploads", "saveLast"}
  BY <1>1, <1>3, TaskShape DEF Kept
<1>5. DOMAIN disk = {"root", "last", "approved", "notApproved", "opinion"}
  BY DEF Safe, IInv, DiskInv
<1>6. NothingCancelled => MovedFirst(drive.task, disk)
  BY DEF Sound, Trees
<1>7. /\ NothingCancelled => disk'.root = drive.task.root
      /\ disk'.last \in {disk.last, drive.task.mod}
  <2>1. CASE disk' = [disk EXCEPT !.root = drive.task.root]
    BY <2>1, <1>5
  <2>2. CASE drive.task.step = "syncLast" /\ disk' = [disk EXCEPT !.last = drive.task.mod]
    BY <2>2, <1>5, <1>6, <1>2 DEF MovedFirst
  <2>3. CASE drive.task.step = "saveUploads" /\ disk' = [disk EXCEPT !.approved = acct.approved]
    BY <2>3, <1>5, <1>6, <1>2 DEF MovedFirst
  <2> QED BY <2>1, <2>2, <2>3 DEF SynchronizeDriveWithSandbox, CatchUpMoveFsTree,
             CatchUpSaveLast, SaveApprovedUploads, At
<1>8. drive.task.step \in Synchronizing
  BY <1>2 DEF Synchronizing
<1> QED BY <1>2, <1>4, <1>7, <1>8, ReplaceTrees DEF environment

\* The sandbox becomes the drive, and the drive has reached the modification.
LEMMA SaveLastSound == Safe /\ Sound /\ SaveLastApproved => Sound'
<1> SUFFICES ASSUME Safe, Sound, SaveLastApproved
             PROVE  Sound'
  OBVIOUS
<1>1. drive \in Drives
  BY SafeGood
<1>2. /\ up = "up" /\ UNCHANGED environment
      /\ drive.task.kind \in {"modify", "catchup"} /\ drive.task.step = "saveLast"
      /\ drive.task.step \in Synchronizing
  BY DEF SaveLastApproved, At, Updating, Synchronizing
<1>3. /\ drive'.deferred = drive.deferred /\ drive'.catchReq = drive.catchReq
      /\ drive'.cancelReq = drive.cancelReq /\ drive'.closeReq = drive.closeReq
      /\ drive'.root = drive.task.root /\ drive'.last = drive.task.mod
      /\ drive'.task.kind = drive.task.kind /\ drive'.task.mod = drive.task.mod
      /\ drive'.task.interrupted = drive.task.interrupted
      /\ drive'.task.cancels = drive.task.cancels /\ drive'.task.step = "finish"
  BY <1>1, TaskShape DEF SaveLastApproved, FinishTask
<1>4. disk'.last = drive.task.mod /\ disk'.root = disk.root
  <2>1. DOMAIN disk = {"root", "last", "approved", "notApproved", "opinion"}
    BY DEF Safe, IInv, DiskInv
  <2> QED BY <2>1 DEF SaveLastApproved
<1>5. NothingCancelled => Trees(chain, inbox, drive', disk', "up")
  <2> SUFFICES ASSUME NothingCancelled PROVE Trees(chain, inbox, drive', disk', "up")
    OBVIOUS
  <2>1. /\ Trees(chain, inbox, drive, disk, "up")
        /\ TaskTrees(chain, drive) /\ ChainTrees(chain) /\ MovedFirst(drive.task, disk)
        /\ NothingToCancel(drive)
    BY <1>2 DEF Sound, Trees
  <2>2. /\ drive.task.mod \in Mods /\ drive.task.mod <= chain.last
        /\ drive.task.root = chain.rootAt[drive.task.mod]
    BY <2>1, <1>2, SafeGood, ApprovedTree
  <2>3. /\ Within(chain, drive'.root, drive'.last, chain.last)
        /\ Within(chain, disk'.root, disk'.last, chain.last)
    BY <2>1, <2>2, <1>2, <1>3, <1>4, ModTypes DEF Within, MovedFirst, Updating
  <2>4. TaskTrees(chain, drive')
    BY <2>2, <1>2, <1>3 DEF TaskTrees, Built, Synchronizing
  <2>5. /\ OutcomeOrder(drive'.task) /\ MovedFirst(drive'.task, disk')
        /\ NothingToCancel(drive')
    BY <2>1, <1>2, <1>3 DEF OutcomeOrder, MovedFirst, NothingToCancel
  <2>6. ASSUME ~Closing(drive') PROVE Informed(chain, inbox, drive', disk')
    <3>1. Informed(chain, inbox, drive, disk)
      BY <2>6, <2>1, <1>2, <1>3 DEF Trees, Closing, Started
    <3>2. Goal(drive') = Goal(drive)
      BY <1>2, <1>3 DEF Goal, Updating
    <3>3. drive.task.mod <= Goal(drive) /\ Goal(drive) \in ModOrZero
      <4>1. drive.catchReq # 0 => drive.task.mod <= drive.catchReq
        BY <1>2 DEF Safe, Order, TaskOrder, Applies
      <4>2. drive.catchReq \in ModOrZero
        BY <1>1 DEF Drives
      <4> QED BY <4>1, <4>2, <2>2, <1>2, ModTypes DEF Goal, Updating
    <3>4. Within(chain, drive'.root, drive'.last, Goal(drive))
      BY <3>3, <2>2, <1>3, ModTypes DEF Within
    <3>5. Reaches(chain, inbox, drive', disk', Goal(drive'))
      BY <3>1, <3>2, <3>4, <1>2, <1>3 DEF Informed, Reaches, Loading, Waits, Deferred
    <3>6. \A i \in 1..Len(inbox) : inbox[i].type = "approve" => drive'.last < inbox[i].mod
      BY <1>2, <1>3 DEF Safe, Order, InboxOrder, EventOrder, Applies
    <3> QED BY <3>1, <3>5, <3>6, <1>3 DEF Informed
  <2> QED BY <2>1, <2>3, <2>4, <2>5, <2>6 DEF Trees
<1> QED BY <1>2, <1>5, MoveSound DEF environment

------------------------------------------------------------------------------
(* The next task *)

\* What runNextTask starts when nothing is to be cancelled.
RunsClose(d, e) == d.closeReq /\ e.task.kind = "close" /\ e.task.step = "remove"

RunsCatchUp(d, e) ==
    /\ ~e.closeReq /\ d.catchReq # 0 /\ e.catchReq = 0
    /\ e.deferred = SubSeq(d.deferred, Len(Skipped(d)) + 1, Len(d.deferred))
    /\ e.task.kind = "catchup" /\ e.task.mod = d.catchReq
    /\ e.task.step \in {"finish", "sandbox", "tree"}
    /\ e.task.step = "finish" <=> d.last = d.catchReq

RunsModify(d, e) ==
    /\ ~e.closeReq /\ d.catchReq = 0 /\ e.catchReq = 0
    /\ d.deferred # <<>> /\ e.deferred = Tail(d.deferred)
    /\ e.task.kind = "modify" /\ e.task.mod = Head(d.deferred) /\ e.task.step = "list"

RunsNothing(d, e) ==
    /\ ~e.closeReq /\ d.catchReq = 0 /\ e.catchReq = 0
    /\ d.deferred = <<>> /\ e.deferred = <<>>
    /\ e.task.kind = "none" /\ e.task.step = "idle"

\* What runNextTask can start.
LEMMA RunNextCases ==
    ASSUME NEW d \in Drives, d.cancelReq = 0, NEW e, e = RunNextTask(d)
    PROVE  /\ e.root = d.root /\ e.last = d.last /\ e.cancelReq = 0
           /\ e.task.cancels = {} /\ e.task.interrupted = FALSE
           /\ d.closeReq \/ ~e.closeReq
           /\ \/ RunsClose(d, e)
              \/ ~d.closeReq /\ (RunsCatchUp(d, e) \/ RunsModify(d, e) \/ RunsNothing(d, e))
<1> DEFINE n == [d EXCEPT !.task = NoTask]
           v == IF n.verifyReq # NoVerification /\ n.last = n.verifyReq
                THEN RunVerificationTask(n) ELSE n
           Same(x) ==
              /\ DOMAIN x = {"task", "deferred", "catchReq", "cancelReq", "closeReq",
                             "verifyReq", "verifyTask", "root", "last"}
              /\ x.task = NoTask /\ x.deferred = d.deferred /\ x.catchReq = d.catchReq
              /\ x.cancelReq = d.cancelReq /\ x.closeReq = d.closeReq
              /\ x.root = d.root /\ x.last = d.last
<1>1. Same(n)
  BY TaskShape
<1> HIDE DEF n
<1>2. Same(v)
  BY <1>1 DEF RunVerificationTask
<1> HIDE DEF v
<1>3. /\ NoTask.kind = "none" /\ NoTask.step = "idle" /\ NoTask.cancels = {}
      /\ NoTask.interrupted = FALSE
  BY DEF NoTask, NewTask
<1>4. d.closeReq \in BOOLEAN
  BY DEF Drives
<1>5. CASE d.closeReq
  <2>1. e = RunCloseDriveTask(n)
    BY <1>1, <1>5 DEF RunNextTask, n
  <2>2. /\ e.task = NewTask("close", 0, "remove") /\ e.root = n.root /\ e.last = n.last
        /\ e.cancelReq = n.cancelReq
    BY <2>1, <1>1 DEF RunCloseDriveTask
  <2>3. /\ e.task.kind = "close" /\ e.task.step = "remove"
        /\ e.task.cancels = {} /\ e.task.interrupted = FALSE
    BY <2>2 DEF NewTask
  <2> QED BY <2>2, <2>3, <1>1, <1>5 DEF RunsClose
<1>6. CASE ~d.closeReq /\ d.catchReq # 0
  <2>1. e = RunCatchingUpTask(v)
    BY <1>1, <1>6 DEF RunNextTask, n, v
  <2>2. PICK s : s = CatchUpStep(v, v.catchReq, chain.rootAt[v.catchReq])
    OBVIOUS
  <2>3. /\ s \in {"finish", "sandbox", "tree"}
        /\ s = "finish" <=> d.last = d.catchReq
    BY <2>2, <1>2 DEF CatchUpStep
  <2>4. /\ e.task = NewTask("catchup", v.catchReq, s)
        /\ e.deferred = SubSeq(v.deferred, Len(Skipped(v)) + 1, Len(v.deferred))
        /\ e.root = v.root /\ e.last = v.last /\ e.cancelReq = v.cancelReq
        /\ e.closeReq = v.closeReq /\ e.catchReq = 0
    BY <2>1, <2>2, <1>2 DEF RunCatchingUpTask
  <2>5. Skipped(v) = Skipped(d)
    BY <1>2 DEF Skipped
  <2>6. /\ e.task.kind = "catchup" /\ e.task.mod = v.catchReq /\ e.task.step = s
        /\ e.task.cancels = {} /\ e.task.interrupted = FALSE
    BY <2>4 DEF NewTask
  <2> QED BY <2>3, <2>4, <2>5, <2>6, <1>2, <1>6 DEF RunsCatchUp
<1>7. CASE ~d.closeReq /\ d.catchReq = 0 /\ d.deferred # <<>>
  <2>1. e = RunModificationTask(v)
    BY <1>1, <1>7 DEF RunNextTask, n, v
  <2>2. /\ e.task = NewTask("modify", Head(v.deferred), "list")
        /\ e.deferred = Tail(v.deferred)
        /\ e.root = v.root /\ e.last = v.last /\ e.cancelReq = v.cancelReq
        /\ e.closeReq = v.closeReq /\ e.catchReq = v.catchReq
    BY <2>1, <1>2 DEF RunModificationTask
  <2>3. /\ e.task.kind = "modify" /\ e.task.mod = Head(v.deferred) /\ e.task.step = "list"
        /\ e.task.cancels = {} /\ e.task.interrupted = FALSE
    BY <2>2 DEF NewTask
  <2> QED BY <2>2, <2>3, <1>2, <1>7 DEF RunsModify
<1>8. CASE ~d.closeReq /\ d.catchReq = 0 /\ d.deferred = <<>>
  <2>1. e = v
    BY <1>1, <1>8 DEF RunNextTask, n, v
  <2>2. /\ e.task = NoTask /\ e.deferred = d.deferred /\ e.catchReq = d.catchReq
        /\ e.cancelReq = d.cancelReq /\ e.closeReq = d.closeReq
        /\ e.root = d.root /\ e.last = d.last
    BY ONLY <2>1, <1>2
  <2>3. ~e.closeReq /\ e.task.interrupted = FALSE
    BY <2>2, <1>3, <1>8, Zenon
  <2>4. RunsNothing(d, e)
    BY <2>2, <2>3, <1>3, <1>8 DEF RunsNothing
  <2> QED BY <2>2, <2>3, <2>4, <1>3, <1>8
<1> QED BY <1>4, <1>5, <1>6, <1>7, <1>8

\* Two modifications are one apart if nothing is between them.
LEMMA NextNumber ==
    ASSUME NEW l \in ModOrZero, NEW h \in Mods, l < h, ~(l + 1 < h)
    PROVE  h = l + 1
  BY ModTypes

\* What is older than some modification has a next one.
LEMMA NextExists ==
    ASSUME NEW l \in ModOrZero, NEW h \in Mods, l < h
    PROVE  l + 1 \in Mods /\ l < l + 1
  BY DriveAssumption DEF ModOrZero, Mods

\* A catch-up ends where the drive was going.
LEMMA CatchUpCourse ==
    ASSUME NEW c, NEW q, NEW d, NEW k, Good(c, q, d, k), Order(c, q, d, k),
           Informed(c, q, d, k), NEW e, RunsCatchUp(d, e),
           e.root = d.root, e.last = d.last, e.task.interrupted = FALSE
    PROVE  Informed(c, q, e, k) /\ TaskTrees(c, e)
<1>1. PICK x : x = d.catchReq
  OBVIOUS
<1>2. x \in Mods
  BY <1>1, DriveNumbers, ModTypes DEF RunsCatchUp
<1>3. \A w \in Mods : Requested(q, w) => x < w
  BY <1>1 DEF Requested, Order, InboxOrder, EventOrder
<1>4. Deferred(d, x) \/ \A m \in Mods : Deferred(d, m) => x < m
  <2>1. Covered(d, q, x)
    BY <1>1 DEF Order, CoverOrder, RunsCatchUp
  <2> QED BY <2>1, <1>2, <1>3, ModTypes DEF Covered, Waits
<1>5. \A m \in Mods : Deferred(d, m) /\ x < m => Deferred(e, m)
  BY <1>1, <1>2, <1>4, QueueTypes, RestDeferred DEF Order, QueueOrder, Skipped, RunsCatchUp
<1>6. Goal(d) = x /\ Goal(e) = x
  BY <1>1 DEF Goal, RunsCatchUp, Updating
<1>7. Within(c, d.root, d.last, x)
  BY <1>6 DEF Informed, Reaches
<1>8. Reaches(c, q, e, k, x)
  BY <1>5, <1>6, <1>7 DEF Informed, Reaches, Waits, Loading, RunsCatchUp
<1>9. Informed(c, q, e, k)
  BY <1>6, <1>8 DEF Informed
<1>10. d.last = x => d.root = c.rootAt[x]
  BY <1>2, <1>7, ModTypes DEF Within
<1>11. TaskTrees(c, e)
  BY <1>1, <1>10 DEF TaskTrees, RunsCatchUp, Built, Synchronizing
<1> QED BY <1>9, <1>11

\* The next modification of the queue is the next one of the chain.
LEMMA ModifyCourse ==
    ASSUME NEW c, NEW q, NEW d, NEW k, Good(c, q, d, k), Order(c, q, d, k),
           Informed(c, q, d, k), NEW e, RunsModify(d, e), Goal(d) = d.last,
           e.root = d.root, e.last = d.last, e.task.interrupted = FALSE
    PROVE  Informed(c, q, e, k) /\ TaskTrees(c, e)
<1>1. PICK h, l : h = Head(d.deferred) /\ l = d.last
  OBVIOUS
<1>2. /\ h \in Mods /\ Deferred(d, h)
      /\ \A m \in Mods : Deferred(e, m) => Deferred(d, m) /\ h < m
      /\ \A m \in Mods : Deferred(d, m) => Deferred(e, m) \/ m = h
  BY <1>1, QueueTypes, FirstDeferred DEF Order, QueueOrder, RunsModify
<1>3. l \in ModOrZero /\ l < h /\ h <= c.issued /\ c.issued \in ModOrZero
  BY <1>1, <1>2, DriveNumbers DEF Order, QueueOrder, NewRequest
<1>4. \A w \in Mods : Requested(q, w) => h < w
  BY <1>2 DEF Requested, Order, InboxOrder, EventOrder
<1>5. \A w \in Mods : Waits(d, q, w) => h <= w
  BY <1>2, <1>4, ModTypes DEF Waits
<1>6. l + 1 \in Mods /\ l < l + 1
  BY <1>2, <1>3, NextExists
<1>7. h = l + 1
  <2>1. ASSUME l + 1 < h PROVE FALSE
    <3>1. l + 1 <= c.issued
      BY <2>1, <1>2, <1>3, <1>6, ModTypes
    <3>2. Waits(d, q, l + 1)
      BY <3>1, <1>1, <1>6 DEF Informed, Reaches
    <3> QED BY <3>2, <2>1, <1>2, <1>5, <1>6, ModTypes
  <2> QED BY <2>1, <1>2, <1>3, NextNumber
<1>8. d.root = c.rootAt[l]
  <2>1. Within(c, d.root, l, l)
    BY <1>1 DEF Informed, Reaches
  <2> QED BY <2>1, <1>3, ModTypes DEF Within
<1>9. Within(c, e.root, e.last, h)
  <2>1. Within(c, d.root, l, l) /\ l \in Int /\ h \in Int /\ l <= h
    BY <1>1, <1>2, <1>3, ModTypes DEF Informed, Reaches
  <2> QED BY <2>1, <1>1, WithinMore
<1>10. Goal(e) = h
  BY <1>1 DEF Goal, RunsModify, Updating
<1>11. \A w \in Mods : h < w /\ w <= c.issued => Waits(e, q, w)
  <2> SUFFICES ASSUME NEW w \in Mods, h < w, w <= c.issued PROVE Waits(e, q, w)
    OBVIOUS
  <2>1. l < w
    BY <1>2, <1>3, ModTypes
  <2>2. Waits(d, q, w)
    BY <2>1, <1>1 DEF Informed, Reaches
  <2>3. w # h
    BY <1>2, ModTypes
  <2> QED BY <2>2, <2>3, <1>2 DEF Waits
<1>12. Informed(c, q, e, k)
  BY <1>9, <1>10, <1>11 DEF Informed, Reaches, Loading, RunsModify
<1>13. e.task.mod = l + 1 /\ e.task.mod - 1 = l
  BY <1>1, <1>3, <1>7, ModTypes DEF RunsModify
<1>14. TaskTrees(c, e)
  BY <1>1, <1>8, <1>13 DEF TaskTrees, RunsModify, Built, Synchronizing
<1> QED BY <1>12, <1>14

\* The task that runNextTask starts goes on from the tree of the drive.
LEMMA RunNextTrees ==
    ASSUME NEW c, NEW q, NEW d, NEW k, Good(c, q, d, k), Order(c, q, d, k),
           Trees(c, q, d, k, "up"), d.task.kind = "none" \/ d.task.step = "finish",
           NEW e, e = RunNextTask(d)
    PROVE  Trees(c, q, e, k, "up")
<1>1. d \in Drives
  BY DEF Good, DriveInv, DriveIsApproved
<1>2. /\ d.cancelReq = 0 /\ d.task.kind # "close"
      /\ ChainTrees(c) /\ Within(c, k.root, k.last, c.last)
      /\ Within(c, d.root, d.last, c.last)
      /\ ~d.closeReq => Informed(c, q, d, k) \/ Started(c, q, d, k)
  BY DEF Trees, NothingToCancel, Closing
<1>3. /\ e.root = d.root /\ e.last = d.last /\ e.cancelReq = 0
      /\ e.task.cancels = {} /\ e.task.interrupted = FALSE
      /\ \/ RunsClose(d, e)
         \/ ~d.closeReq /\ (RunsCatchUp(d, e) \/ RunsModify(d, e) \/ RunsNothing(d, e))
  BY <1>1, <1>2, RunNextCases
<1>4. /\ e.task.kind \in {"close", "catchup", "modify", "none"}
      /\ e.task.step \in {"remove", "finish", "sandbox", "tree", "list", "idle"}
      /\ e.task.kind = "modify" => e.task.step = "list"
      /\ e.task.kind = "close" => e.task.step = "remove"
  BY <1>3 DEF RunsClose, RunsCatchUp, RunsModify, RunsNothing
<1>5. OutcomeOrder(e.task) /\ MovedFirst(e.task, k) /\ NothingToCancel(e)
  BY <1>3, <1>4 DEF OutcomeOrder, MovedFirst, NothingToCancel
<1>6. ASSUME Closing(e) \/ Informed(c, q, e, k) \/ Started(c, q, e, k), TaskTrees(c, e)
      PROVE  Trees(c, q, e, k, "up")
  BY <1>2, <1>3, <1>5, <1>6 DEF Trees
<1>7. CASE RunsClose(d, e)
  BY <1>4, <1>6, <1>7 DEF RunsClose, Closing, TaskTrees, Built, Synchronizing
<1>8. CASE ~d.closeReq /\ RunsCatchUp(d, e)
  <2>1. Informed(c, q, d, k)
    BY <1>2, <1>8 DEF Started, RunsCatchUp
  <2> QED BY <2>1, <1>3, <1>6, <1>8, CatchUpCourse
<1>9. CASE ~d.closeReq /\ RunsModify(d, e)
  <2>1. Informed(c, q, d, k)
    BY <1>2, <1>9 DEF Started, RunsModify
  <2>2. Goal(d) = d.last
    BY <1>9 DEF Goal, RunsModify, Updating
  <2> QED BY <2>1, <2>2, <1>3, <1>6, <1>9, ModifyCourse
<1>10. CASE ~d.closeReq /\ RunsNothing(d, e)
  <2>1. TaskTrees(c, e)
    BY <1>10 DEF RunsNothing, TaskTrees, Built, Synchronizing
  <2>2. /\ e.deferred = d.deferred /\ e.catchReq = d.catchReq /\ ~Loading(e.task)
        /\ e.task.kind = "none"
    BY <1>10 DEF RunsNothing, Loading
  <2>3. \A m : Reaches(c, q, d, k, m) => Reaches(c, q, e, k, m)
    BY <2>2, <1>3 DEF Reaches, Waits, Deferred
  <2>4. Goal(e) = d.last /\ Goal(d) = d.last
    BY <1>3, <1>10 DEF Goal, RunsNothing, Updating
  <2>5. Informed(c, q, d, k) => Informed(c, q, e, k)
    BY <2>2, <2>3, <2>4, <1>3 DEF Informed, Updating
  <2>6. Started(c, q, d, k) => Started(c, q, e, k)
    BY <2>2, <2>3 DEF Started
  <2> QED BY <2>1, <2>5, <2>6, <1>2, <1>6, <1>10
<1> QED BY <1>3, <1>7, <1>8, <1>9, <1>10

\* The sandbox was cleared, and the next task runs.
LEMMA FinishSound == Safe /\ Sound /\ FinishAndRunNextTask => Sound'
<1> SUFFICES ASSUME Safe, Sound, FinishAndRunNextTask
             PROVE  Sound'
  OBVIOUS
<1>1. /\ up = "up" /\ UNCHANGED <<environment, disk>> /\ drive.task.step = "finish"
      /\ drive' = RunNextTask(drive)
  BY DEF FinishAndRunNextTask, At
<1>2. NothingCancelled => Trees(chain, inbox, drive', disk', "up")
  <2> SUFFICES ASSUME NothingCancelled PROVE Trees(chain, inbox, drive', disk', "up")
    OBVIOUS
  <2>1. Trees(chain, inbox, drive, disk, "up")
    BY <1>1 DEF Sound
  <2>2. Good(chain, inbox, drive, disk) /\ Order(chain, inbox, drive, disk)
    BY SafeGood DEF Safe
  <2>3. PICK e : e = RunNextTask(drive)
    OBVIOUS
  <2>4. Trees(chain, inbox, e, disk, "up")
    BY <2>1, <2>2, <2>3, <1>1, RunNextTrees
  <2> QED BY <2>3, <2>4, <1>1
<1> QED BY <1>1, <1>2, MoveSound DEF environment

------------------------------------------------------------------------------
(* Events *)

\* A handler leaves the chain and the files alone.
LEMMA HandlerSound ==
    ASSUME Safe, Sound, NEW s, Take(s),
           NothingCancelled => Trees(chain, inbox', drive', disk, "up")
    PROVE  Sound'
  BY DEF Sound, NothingCancelled, Take

\* An event that has no effect on modifications is taken.
LEMMA TakeTrees ==
    ASSUME NEW c, NEW q \in Seq(Events), NEW d, NEW k, Trees(c, q, d, k, "up"), q # <<>>,
           NEW h, h = Head(q), NEW t, t = Tail(q), h.type # "modify",
           h.type # "approve" \/ d.task.kind \notin {"init", "none"}
    PROVE  Trees(c, t, d, k, "up")
<1>1. \A m : Requested(q, m) <=> Requested(t, m)
  BY FirstEvent
<1>2. \A i \in 1..Len(t) : \E j \in 1..Len(q) : q[j] = t[i]
  BY FirstEvent
<1>3. \A m : Reaches(c, q, d, k, m) => Reaches(c, t, d, k, m)
  BY <1>1 DEF Reaches, Waits
<1>4. Informed(c, q, d, k) => Informed(c, t, d, k)
  BY <1>2, <1>3 DEF Informed
<1>5. ~Started(c, q, d, k)
  BY DEF Started
<1> QED BY <1>4, <1>5 DEF Trees

\* Verifications and flags of a task change nothing else.
SameRest(d, e) == Kept(d, e) /\ e.task.step = d.task.step /\ e.task.root = d.task.root

\* The trees do not depend on verifications and on the flags of a task.
LEMMA SameRestTrees ==
    ASSUME NEW c, NEW q, NEW d, NEW e, NEW k, Trees(c, q, d, k, "up"), SameRest(d, e)
    PROVE  Trees(c, q, e, k, "up")
<1>1. Goal(e) = Goal(d) /\ (Closing(e) <=> Closing(d))
  BY DEF Goal, SameRest, Kept, Closing
<1>2. \A m : Reaches(c, q, d, k, m) => Reaches(c, q, e, k, m)
  BY DEF Reaches, Waits, Deferred, SameRest, Kept, Loading
<1>3. Informed(c, q, d, k) => Informed(c, q, e, k)
  BY <1>1, <1>2 DEF Informed, SameRest, Kept
<1>4. Started(c, q, d, k) => Started(c, q, e, k)
  BY <1>2 DEF Started, SameRest, Kept
<1>5. TaskTrees(c, d) => TaskTrees(c, e)
  BY DEF TaskTrees, SameRest, Kept
<1>6. NothingToCancel(d) => NothingToCancel(e)
  BY DEF NothingToCancel, SameRest, Kept
<1>7. /\ ~Closing(e) => Informed(c, q, e, k) \/ Started(c, q, e, k)
      /\ TaskTrees(c, e) /\ NothingToCancel(e)
  BY <1>1, <1>3, <1>4, <1>5, <1>6 DEF Trees
<1>8. /\ OutcomeOrder(d.task) => OutcomeOrder(e.task)
      /\ MovedFirst(d.task, k) => MovedFirst(e.task, k)
  BY DEF OutcomeOrder, MovedFirst, SameRest, Kept
<1> QED BY <1>7, <1>8 DEF Trees, SameRest, Kept

\* startVerification and the end of a verification.
LEMMA OnVerifySound == Safe /\ Sound /\ (OnVerify \/ OnVerified) => Sound'
<1> SUFFICES ASSUME Safe, Sound, OnVerify \/ OnVerified
             PROVE  Sound'
  OBVIOUS
<1>1. drive \in Drives /\ inbox \in Seq(Events)
  BY SafeGood DEF Safe, IInv, InboxInv
<1>2. /\ \E s \in {"verify", "verified"} : Take(s)
      /\ SameRest(drive, drive')
  BY <1>1, TaskShape
     DEF OnVerify, OnVerified, SameRest, Kept, RunVerificationTask, CancelVerification
<1>3. PICK s \in {"verify", "verified"} : Take(s)
  BY <1>2
<1>4. NothingCancelled => Trees(chain, inbox', drive', disk, "up")
  <2> SUFFICES ASSUME NothingCancelled PROVE Trees(chain, inbox', drive', disk, "up")
    OBVIOUS
  <2>1. PICK h, t : h = Head(inbox) /\ t = Tail(inbox)
    OBVIOUS
  <2>2. /\ inbox # <<>> /\ h.type \notin {"modify", "approve"} /\ inbox' = t
        /\ Trees(chain, inbox, drive, disk, "up")
    BY <2>1, <1>3 DEF Take, Sound
  <2>3. Trees(chain, t, drive, disk, "up")
    BY <2>1, <2>2, <1>1, TakeTrees
  <2> QED BY <2>2, <2>3, <1>2, SameRestTrees
<1> QED BY <1>3, <1>4, HandlerSound

\* A cancellation would have to be of a cancelled modification.
LEMMA OnCancelSound == Safe /\ Sound /\ OnCancel => Sound'
<1> SUFFICES ASSUME Safe, Sound, OnCancel
             PROVE  Sound'
  OBVIOUS
<1>1. /\ up = "up" /\ inbox # <<>> /\ Head(inbox).type = "cancel" /\ chain' = chain
  BY DEF OnCancel, Take
<1>2. PICK h : h = Head(inbox)
  OBVIOUS
<1>3. \E j \in 1..Len(inbox) : inbox[j] = h
  BY <1>1, <1>2, FirstEvent DEF Safe, IInv, InboxInv
<1>4. EventOrder(chain, drive, disk, h)
  BY <1>3 DEF Safe, Order, InboxOrder
<1>5. ~NothingCancelled
  BY <1>1, <1>2, <1>4 DEF EventOrder, NothingCancelled
<1> QED BY <1>1, <1>5 DEF Sound, NothingCancelled

\* A task that gives way to another one.
GaveWay(d, e) ==
    /\ e.deferred = d.deferred /\ e.cancelReq = d.cancelReq
    /\ e.root = d.root /\ e.last = d.last
    /\ e.task.kind = d.task.kind /\ e.task.mod = d.task.mod
    /\ e.task.root = d.task.root /\ e.task.cancels = d.task.cancels
    /\ \/ e.task.step = d.task.step
       \/ e.task.step = "finish" /\ d.task.kind \in Updating

\* A task that gave way left the trees alone.
LEMMA GaveWayTrees ==
    ASSUME NEW c, NEW d, NEW e, NEW k, GaveWay(d, e), TaskTrees(c, d),
           OutcomeOrder(d.task), MovedFirst(d.task, k), NothingToCancel(d)
    PROVE  /\ TaskTrees(c, e) /\ OutcomeOrder(e.task) /\ MovedFirst(e.task, k)
           /\ NothingToCancel(e)
<1>1. TaskTrees(c, e)
  BY DEF GaveWay, TaskTrees, Built, Synchronizing
<1>2. OutcomeOrder(e.task)
  BY DEF GaveWay, OutcomeOrder
<1>3. MovedFirst(e.task, k)
  BY DEF GaveWay, MovedFirst
<1>4. NothingToCancel(e)
  BY DEF GaveWay, NothingToCancel, Updating
<1> QED BY <1>1, <1>2, <1>3, <1>4

\* breakTorrentDownloadAndRunNextTask only interrupts or ends the task.
LEMMA BreakGivesWay ==
    ASSUME NEW d \in Drives, d.task.kind \in Updating, NEW e, e = BreakTask(d)
    PROVE  GaveWay(d, e) /\ e.catchReq = d.catchReq /\ e.closeReq = d.closeReq
<1> DEFINE i == [d EXCEPT !.task.interrupted = TRUE]
<1>1. /\ DOMAIN i = DOMAIN d /\ DOMAIN i.task = DOMAIN d.task
      /\ GaveWay(d, i) /\ i.catchReq = d.catchReq /\ i.closeReq = d.closeReq
  BY TaskShape DEF GaveWay
<1>2. e = i \/ e = FinishTask(i)
  BY DEF BreakTask, TryBreakTask
<1> HIDE DEF i
<1>3. /\ GaveWay(d, FinishTask(i)) /\ FinishTask(i).catchReq = d.catchReq
      /\ FinishTask(i).closeReq = d.closeReq
  BY <1>1, TaskShape DEF GaveWay, FinishTask
<1> QED BY <1>1, <1>2, <1>3

\* A handler runs the next task if there is none.
LEMMA ThenRunTrees ==
    ASSUME NEW q, NEW d, NEW a, Good(chain, q, d, disk), Order(chain, q, d, disk),
           Trees(chain, q, d, disk, "up"), ThenRunIfIdle(d, a)
    PROVE  Trees(chain, q, drive', disk, "up")
<1>1. CASE HasTask(d)
  BY <1>1 DEF ThenRunIfIdle
<1>2. CASE ~HasTask(d)
  <2>1. drive' = RunNextTask(d) /\ d.task.kind = "none"
    BY <1>2 DEF ThenRunIfIdle, HasTask
  <2>2. PICK e : e = RunNextTask(d)
    OBVIOUS
  <2>3. Trees(chain, q, e, disk, "up")
    BY <2>1, <2>2, RunNextTrees
  <2> QED BY <2>1, <2>2, <2>3
<1> QED BY <1>1, <1>2

\* A drive that is closed no longer has to get anywhere.
LEMMA CloseTrees ==
    ASSUME NEW c, NEW q, NEW t, NEW d, NEW e, NEW k, Trees(c, q, d, k, "up"),
           GaveWay(d, e), e.closeReq
    PROVE  Trees(c, t, e, k, "up")
<1>1. /\ TaskTrees(c, e) /\ OutcomeOrder(e.task) /\ MovedFirst(e.task, k)
      /\ NothingToCancel(e)
  BY GaveWayTrees DEF Trees
<1>2. Closing(e) /\ e.root = d.root /\ e.last = d.last
  BY DEF Closing, GaveWay
<1> QED BY <1>1, <1>2 DEF Trees

\* startDriveClosing
LEMMA OnCloseSound == Safe /\ Sound /\ OnClose => Sound'
<1> SUFFICES ASSUME Safe, Sound, OnClose
             PROVE  Sound'
  OBVIOUS
<1> DEFINE v == CancelVerification(drive)
           d == [v EXCEPT !.closeReq = TRUE]
<1>1. drive \in Drives
  BY SafeGood
<1>2. DriveInv(chain, v) /\ v \in Drives /\ SameRest(drive, v) /\ v.task = drive.task
  <2>1. DriveInv(chain, v)
    BY VerificationKeeps DEF Safe, IInv
  <2> QED BY <2>1, <1>1, TaskShape DEF CancelVerification, SameRest, Kept, DriveInv, DriveIsApproved
<1>3. Take("close") /\ \/ ThenRunIfIdle(d, acct)
                       \/ drive' = BreakTask(d) /\ d.task.kind \in Updating
  BY DEF OnClose
<1> HIDE DEF v
<1>4. /\ DriveInv(chain, d) /\ d \in Drives /\ SameWork(drive, d) /\ d.closeReq
      /\ GaveWay(drive, d)
  BY <1>2 DEF DriveInv, DriveIsApproved, Drives, SameWork, SameRest, Kept, GaveWay
<1> HIDE DEF d
<1>5. Order(chain, inbox', d, disk)
  BY <1>3, <1>4, TakenOrder, SameWorkCalmer, CalmerKeeps
<1>6. Good(chain, inbox', d, disk)
  BY <1>3, <1>4, HandlerGood
<1>7. NothingCancelled => Trees(chain, inbox', drive', disk, "up")
  <2> SUFFICES ASSUME NothingCancelled PROVE Trees(chain, inbox', drive', disk, "up")
    OBVIOUS
  <2>1. Trees(chain, inbox, drive, disk, "up")
    BY <1>3 DEF Take, Sound
  <2>2. Trees(chain, inbox', d, disk, "up")
    BY <2>1, <1>4, CloseTrees
  <2>3. CASE ThenRunIfIdle(d, acct)
    BY <2>2, <2>3, <1>5, <1>6, ThenRunTrees
  <2>4. CASE drive' = BreakTask(d) /\ d.task.kind \in Updating
    <3>1. PICK e : e = BreakTask(d)
      OBVIOUS
    <3>2. GaveWay(d, e) /\ e.closeReq
      BY <3>1, <2>4, <1>4, BreakGivesWay
    <3>3. Trees(chain, inbox', e, disk, "up")
      BY <3>2, <2>2, CloseTrees
    <3> QED BY <3>1, <3>3, <2>4
  <2> QED BY <2>3, <2>4, <1>3
<1> QED BY <1>3, <1>7, HandlerSound

\* A request goes from the inbox into the queue of the drive.
LEMMA RequestTrees ==
    ASSUME NEW c, NEW q, NEW d, NEW k, Good(c, q, d, k), Trees(c, q, d, k, "up"), q # <<>>,
           NEW h, h = Head(q), NEW t, t = Tail(q), h.type = "modify",
           NEW e, e.deferred = Append(d.deferred, h.mod), e.catchReq = d.catchReq,
           e.cancelReq = d.cancelReq, e.closeReq = d.closeReq,
           e.root = d.root, e.last = d.last, e.task = d.task
    PROVE  Trees(c, t, e, k, "up")
<1>1. q \in Seq(Events) /\ d.deferred \in Seq(Mods) /\ Len(d.deferred) \in Nat
  BY QueueTypes
<1>2. \A m : Requested(q, m) => Requested(t, m) \/ m = h.mod
  BY <1>1, FirstEvent
<1>3. \A i \in 1..Len(t) : \E j \in 1..Len(q) : q[j] = t[i]
  BY <1>1, FirstEvent
<1>4. /\ \A m : Deferred(d, m) => Deferred(e, m)
      /\ Deferred(e, h.mod)
  <2>1. PICK s, w, x : s = d.deferred /\ w = e.deferred /\ x = h.mod
    OBVIOUS
  <2>2. s \in Seq(Mods) /\ w = Append(s, x) /\ Len(s) \in Nat
    BY <2>1, <1>1
  <2>3. Len(w) = Len(s) + 1 /\ w[Len(s) + 1] = x /\ \A i \in 1..Len(s) : w[i] = s[i]
    BY ONLY <2>2
  <2>4. Len(s) + 1 \in 1..Len(w) /\ \A i \in 1..Len(s) : i \in 1..Len(w)
    BY ONLY <2>2, <2>3
  <2>5. ASSUME NEW m, Deferred(d, m) PROVE Deferred(e, m)
    <3>1. PICK i \in 1..Len(s) : s[i] = m
      BY ONLY <2>1, <2>5 DEF Deferred
    <3>2. i \in 1..Len(w) /\ w[i] = m
      BY ONLY <2>3, <2>4, <3>1
    <3> QED BY ONLY <2>1, <3>2 DEF Deferred
  <2>6. Deferred(e, h.mod)
    BY ONLY <2>1, <2>3, <2>4 DEF Deferred
  <2> QED BY ONLY <2>5, <2>6
<1>5. \A m : Reaches(c, q, d, k, m) => Reaches(c, t, e, k, m)
  <2>1. \A m : Waits(d, q, m) => Waits(e, t, m)
    BY <1>2, <1>4 DEF Waits
  <2> QED BY <2>1 DEF Reaches
<1>6. Goal(e) = Goal(d) /\ (Closing(e) <=> Closing(d))
  BY DEF Goal, Closing
<1>7. Informed(c, q, d, k) => Informed(c, t, e, k)
  BY <1>3, <1>5, <1>6 DEF Informed
<1>8. ~Started(c, q, d, k)
  BY DEF Started
<1>9. /\ TaskTrees(c, d) => TaskTrees(c, e)
      /\ NothingToCancel(d) => NothingToCancel(e)
  BY DEF TaskTrees, NothingToCancel
<1> QED BY <1>6, <1>7, <1>8, <1>9 DEF Trees

\* startModifyDrive
LEMMA OnModifySound == Safe /\ Sound /\ OnModify => Sound'
<1> SUFFICES ASSUME Safe, Sound, OnModify
             PROVE  Sound'
  OBVIOUS
<1> DEFINE m == Head(inbox).mod
           d == [drive EXCEPT !.deferred = Append(drive.deferred, m)]
<1>0. Good(chain, inbox, drive, disk) /\ Tidy /\ drive \in Drives
  BY SafeGood
<1>1. Take("modify") /\ ThenRunIfIdle(d, acct)
  BY <1>0, TaskShape DEF OnModify
<1>2. m \in Mods
  BY <1>1, HeadInv DEF Take, EventInv, Safe
<1>3. Append(drive.deferred, m) \in Seq(Mods)
  <2>1. drive.deferred \in Seq(Mods)
    BY <1>0 DEF Drives
  <2> QED BY <2>1, <1>2, AppendProperties
<1>4. DriveInv(chain, d)
  <2> HIDE DEF m
  <2> QED BY <1>3 DEF Safe, IInv, DriveInv, DriveIsApproved, Drives
<1>5. /\ d.deferred = Append(drive.deferred, m) /\ d.catchReq = drive.catchReq
      /\ d.cancelReq = drive.cancelReq /\ d.closeReq = drive.closeReq
      /\ d.root = drive.root /\ d.last = drive.last /\ d.task = drive.task
  BY <1>0, TaskShape
<1> HIDE DEF d
<1>6. PICK h, t : h = Head(inbox) /\ t = Tail(inbox)
  OBVIOUS
<1>7. /\ inbox # <<>> /\ h.type = "modify" /\ inbox' = t
      /\ d.deferred = Append(drive.deferred, h.mod)
  BY <1>1, <1>5, <1>6 DEF Take
<1>8. Order(chain, t, d, disk)
  BY <1>0, <1>5, <1>6, <1>7, RequestOrder DEF Tidy
<1>9. Good(chain, t, d, disk)
  BY <1>1, <1>4, <1>7, HandlerGood
<1>10. NothingCancelled => Trees(chain, inbox', drive', disk, "up")
  <2> SUFFICES ASSUME NothingCancelled PROVE Trees(chain, inbox', drive', disk, "up")
    OBVIOUS
  <2>1. Trees(chain, inbox, drive, disk, "up")
    BY <1>1 DEF Take, Sound
  <2>2. Trees(chain, t, d, disk, "up")
    BY <2>1, <1>0, <1>5, <1>6, <1>7, RequestTrees
  <2>3. Trees(chain, t, drive', disk, "up")
    BY <2>2, <1>1, <1>8, <1>9, ThenRunTrees
  <2> QED BY <2>3, <1>7
<1> QED BY <1>1, <1>10, HandlerSound

\* An approval is not older than what the drive will have.
LEMMA GoalGrows ==
    ASSUME NEW c, NEW q, NEW d, NEW k, Good(c, q, d, k), TaskTrees(c, d), NEW x,
           x.mod \in ModOrZero, x.type = "approve", EventOrder(c, d, k, x), d.last < x.mod
    PROVE  Goal(d) \in ModOrZero /\ Goal(d) <= x.mod
<1>1. d.catchReq \in ModOrZero /\ d.task.mod \in ModOrZero /\ d.last \in ModOrZero
  BY DriveNumbers
<1>2. d.catchReq < x.mod
  BY DEF EventOrder
<1>3. d.task.kind = "catchup" => d.task.mod < x.mod
  BY DEF EventOrder, Applies
<1>4. d.task.kind = "modify" /\ d.task.step # "finish" => d.task.mod <= x.mod
  BY <1>1, ModTypes DEF TaskTrees
<1> QED BY <1>1, <1>2, <1>3, <1>4, ModTypes DEF Goal, Updating

\* The drive is told of an approval and is going to catch up with it.
LEMMA CatchReqTrees ==
    ASSUME NEW c, NEW q, NEW d, NEW k, Good(c, q, d, k), Order(c, q, d, k),
           Trees(c, q, d, k, "up"), q # <<>>,
           NEW h, h = Head(q), NEW t, t = Tail(q), h.type = "approve",
           NEW e, GaveWay(d, e), e.catchReq = h.mod, e.closeReq = d.closeReq
    PROVE  Trees(c, t, e, k, "up")
<1>1. q \in Seq(Events)
  BY QueueTypes
<1>2. PICK j \in 1..Len(q) : q[j] = h
  BY <1>1, FirstEvent
<1>3. EventOrder(c, d, k, h) /\ Approved(c, h.mod) /\ h.mod \in ModOrZero
  BY <1>1, <1>2, QueueTypes DEF Order, InboxOrder, Good, InboxInv, EventInv
<1>4. h.mod \in Mods
  BY <1>3, ApprovedBound, ModTypes DEF Good
<1>5. /\ \A m : Requested(q, m) => Requested(t, m)
      /\ \A i \in 1..Len(t) : \E n \in 1..Len(q) : q[n] = t[i]
      /\ \A i \in 1..Len(t) : PairOrder(h, t[i])
  BY <1>1, FirstEvent DEF Order, InboxOrder
<1>6. d.last \in ModOrZero
  BY DriveNumbers
<1>7. \A i \in 1..Len(t) : t[i].mod \in ModOrZero
  BY <1>5, QueueTypes
<1>8. /\ TaskTrees(c, e) /\ OutcomeOrder(e.task) /\ MovedFirst(e.task, k)
      /\ NothingToCancel(e)
  BY GaveWayTrees DEF Trees
<1>9. ASSUME ~Closing(e) PROVE Informed(c, t, e, k)
  <2>1. ~Closing(d)
    BY <1>9 DEF Closing, GaveWay
  <2>2. /\ Reaches(c, q, d, k, h.mod)
        /\ \A i \in 1..Len(t) : t[i].type = "approve" => d.last < t[i].mod
    <3>1. CASE Informed(c, q, d, k)
      <4>1. d.last < h.mod
        BY <3>1, <1>2 DEF Informed
      <4>2. PICK g : g = Goal(d)
        OBVIOUS
      <4>3. g \in ModOrZero /\ g <= h.mod
        BY <4>1, <4>2, <1>3, GoalGrows DEF Trees
      <4>4. g \in Int /\ h.mod \in Int /\ \A w \in Mods : h.mod < w => g < w
        BY <4>3, <1>3, ModTypes
      <4>5. Reaches(c, q, d, k, g)
        BY <3>1, <4>2 DEF Informed
      <4>6. Reaches(c, q, d, k, h.mod)
        BY <4>3, <4>4, <4>5, WithinMore DEF Reaches
      <4> QED BY <3>1, <4>6, <1>5 DEF Informed
    <3>2. CASE Started(c, q, d, k)
      <4>1. Reaches(c, q, d, k, h.mod)
        BY <3>2 DEF Started
      <4>2. d.last <= h.mod
        BY <4>1, <1>3, <1>6, ModTypes DEF Reaches, Within
      <4> QED BY <4>1, <4>2, <1>3, <1>5, <1>6, <1>7, ModTypes DEF PairOrder
    <3> QED BY <2>1, <3>1, <3>2 DEF Trees
  <2>3. \A m : Waits(d, q, m) => Waits(e, t, m)
    BY <1>5 DEF Waits, Deferred, GaveWay
  <2>4. Loading(e.task) => Loading(d.task)
    BY DEF Loading, GaveWay
  <2>5. Reaches(c, t, e, k, h.mod)
    BY <2>2, <2>3, <2>4 DEF Reaches, GaveWay
  <2>6. Goal(e) = h.mod /\ e.catchReq # 0
    BY <1>4, ModTypes DEF Goal
  <2> QED BY <2>2, <2>5, <2>6 DEF Informed, GaveWay
<1> QED BY <1>8, <1>9 DEF Trees, GaveWay

\* A task that does not end with the approval gives way to the catch-up.
LEMMA ApprovalGivesWay ==
    ASSUME NEW d \in Drives, NEW tx, HasTask(d), TaskStartsCatchUp(d, tx),
           NEW e, e = TaskOnApproval(d, tx)
    PROVE  GaveWay(d, e) /\ e.closeReq = d.closeReq
<1>1. GaveWay(d, d)
  BY DEF GaveWay
<1>2. CASE d.task.kind = "modify"
  <2> DEFINE a == [d EXCEPT !.task.approved = TRUE]
  <2>1. /\ a \in Drives /\ a.task.kind = "modify" /\ GaveWay(d, a) /\ a.closeReq = d.closeReq
    BY <1>2 DEF Drives, Tasks, GaveWay
  <2>2. e = d \/ e = BreakTask(a)
    BY <1>2 DEF TaskOnApproval, TaskStartsCatchUp, ModifyOnApproval, ModifyStartsCatchUp
  <2> HIDE DEF a
  <2>3. ASSUME e = BreakTask(a) PROVE GaveWay(d, e) /\ e.closeReq = d.closeReq
    <3>1. GaveWay(a, e) /\ e.closeReq = a.closeReq
      BY <2>1, <2>3, BreakGivesWay DEF Updating
    <3> QED BY <3>1, <2>1 DEF GaveWay
  <2> QED BY <2>2, <2>3, <1>1
<1>3. CASE d.task.kind = "catchup"
  <2>1. e = d \/ e = BreakTask(d)
    BY <1>3 DEF TaskOnApproval, CatchUpOnApproval
  <2>2. ASSUME e = BreakTask(d) PROVE GaveWay(d, e) /\ e.closeReq = d.closeReq
    BY <2>2, <1>3, BreakGivesWay DEF Updating
  <2> QED BY <2>1, <2>2, <1>1
<1>4. CASE d.task.kind \notin {"modify", "catchup"}
  BY <1>1, <1>4 DEF TaskOnApproval
<1> QED BY <1>2, <1>3, <1>4

\* onApprovalTransactionHasBeenPublished
LEMMA OnApprovalSound == Safe /\ Sound /\ OnApproval => Sound'
<1> SUFFICES ASSUME Safe, Sound, OnApproval
             PROVE  Sound'
  OBVIOUS
<1> SUFFICES ASSUME NothingCancelled
             PROVE  Trees(chain, inbox', drive', disk, "up")
  BY HandlerSound DEF OnApproval
<1> DEFINE tx == Head(inbox).mod
           v  == CancelVerification(drive)
           d  == IF HasTask(v) THEN TaskOnApproval(v, tx) ELSE v
           r  == [d EXCEPT !.catchReq = tx]
<1>0. drive \in Drives /\ drive.task \in Tasks /\ Good(chain, inbox, drive, disk)
      /\ Order(chain, inbox, drive, disk) /\ FlagOrder(drive.task)
  BY SafeGood DEF Safe
<1>1. Take("approve") /\ inbox # <<>> /\ up = "up" /\ inbox' = Tail(inbox)
  BY DEF OnApproval, Take
<1>2. Trees(chain, inbox, drive, disk, "up")
  BY <1>1 DEF Sound
<1>3. PICK h, t : h = Head(inbox) /\ t = Tail(inbox)
  OBVIOUS
<1>4. /\ h.type = "approve" /\ h.mod = tx /\ inbox' = t
      /\ Approved(chain, tx) /\ tx \in ModOrZero /\ tx \in Int
  BY <1>1, <1>3, HeadInv, ModTypes DEF Take, EventInv, Events, Safe
<1>5. /\ Order(chain, t, drive, disk)
      /\ EventOrder(chain, drive, disk, h)
      /\ \A i \in 1..Len(t) : PairOrder(h, t[i])
      /\ Covered(drive, t, tx)
  BY <1>1, <1>3, <1>4, TakenOrder
<1>6. \E a : IF HasTask(drive) => TaskStartsCatchUp(drive, tx)
             THEN ThenRunIfIdle(r, a) ELSE drive' = d
  <2>1. PICK a : a = IF drive.task.kind = "modify"
                     THEN ModifyOnApprovalAccount(drive, acct, tx) ELSE acct
    OBVIOUS
  <2>2. IF HasTask(drive) => TaskStartsCatchUp(drive, tx)
        THEN ThenRunIfIdle(r, a) ELSE drive' = d
    BY <2>1 DEF OnApproval
  <2> QED BY <2>2
<1>7. DriveInv(chain, v) /\ v \in Drives /\ SameRest(drive, v) /\ v.task = drive.task
  <2>1. DriveInv(chain, v)
    BY VerificationKeeps DEF Safe, IInv
  <2> QED BY <2>1, <1>0, TaskShape
          DEF CancelVerification, SameRest, Kept, DriveInv, DriveIsApproved
<1>8. HasTask(v) = HasTask(drive) /\ TaskStartsCatchUp(v, tx) = TaskStartsCatchUp(drive, tx)
  BY <1>7 DEF HasTask, TaskStartsCatchUp, ModifyStartsCatchUp
<1> HIDE DEF v, tx
<1>9. Trees(chain, inbox, v, disk, "up")
  BY <1>2, <1>7, SameRestTrees
<1>10. /\ DriveInv(chain, d)
       /\ d \in Drives
  BY <1>4, <1>7, TaskOnApprovalKeeps DEF DriveInv, DriveIsApproved
<1>11. SameWork(drive, v)
  BY <1>7 DEF SameWork, SameRest, Kept
<1>12. Order(chain, inbox, v, disk) /\ Good(chain, inbox, v, disk)
  BY <1>0, <1>7, <1>11, SameWorkCalmer, CalmerKeeps DEF Good
<1>13. CASE HasTask(drive) => TaskStartsCatchUp(drive, tx)
  <2>1. PICK a : ThenRunIfIdle(r, a)
    BY <1>6, <1>13
  <2>2. GaveWay(v, d) /\ d.closeReq = v.closeReq
    <3>1. CASE HasTask(v)
      <4>1. d = TaskOnApproval(v, tx) /\ TaskStartsCatchUp(v, tx)
        BY <1>8, <1>13, <3>1
      <4> HIDE DEF d
      <4> QED BY <4>1, <3>1, <1>7, ApprovalGivesWay
    <3>2. CASE ~HasTask(v)
      BY <3>2 DEF GaveWay
    <3> QED BY <3>1, <3>2
  <2>3. ~HasTask(v) => d = v
    OBVIOUS
  <2> HIDE DEF d
  <2>4. /\ r.catchReq = tx /\ r.deferred = d.deferred /\ r.last = d.last /\ r.task = d.task
        /\ r.closeReq = d.closeReq /\ GaveWay(v, r) /\ DriveInv(chain, r)
    BY <1>4, <1>10, <2>2 DEF DriveInv, DriveIsApproved, Drives, GaveWay
  <2> HIDE DEF r
  <2>5. Trees(chain, t, r, disk, "up")
    BY <1>1, <1>3, <1>4, <1>9, <1>12, <2>2, <2>4, CatchReqTrees
  <2>6. CASE HasTask(r)
    BY <2>1, <2>5, <2>6, <1>4 DEF ThenRunIfIdle
  <2>7. CASE ~HasTask(r)
    <3>1. v.task.kind = "none" /\ d = v
      BY <2>2, <2>3, <2>4, <2>7 DEF HasTask, GaveWay
    <3>2. /\ Order(chain, t, v, disk) /\ EventOrder(chain, v, disk, h)
          /\ Covered(v, t, tx)
      BY <1>5, <1>11, SameWorkCalmer, CalmerKeeps, CalmerEvent
    <3>3. v.task.mod \in Int /\ (v.task.kind = "modify" => v.task.interrupted)
      BY <1>7, <3>1, ModTypes DEF Drives, Tasks
    <3>4. Order(chain, t, r, disk)
      BY <1>4, <1>5, <2>4, <3>1, <3>2, <3>3, CatchReqOrder
    <3>5. Good(chain, t, r, disk)
      BY <1>1, <1>4, <2>4, HandlerGood
    <3>6. Trees(chain, t, drive', disk, "up")
      BY <2>1, <2>5, <3>4, <3>5, ThenRunTrees
    <3> QED BY <3>6, <1>4
  <2> QED BY <2>6, <2>7
<1>14. CASE ~(HasTask(drive) => TaskStartsCatchUp(drive, tx))
  <2>1. drive' = d /\ HasTask(v) /\ ~TaskStartsCatchUp(v, tx)
    BY <1>6, <1>8, <1>14
  <2>2. v.task.kind \notin {"init", "none"}
    BY <2>1 DEF HasTask, TaskStartsCatchUp
  <2>3. Trees(chain, t, v, disk, "up")
    BY <1>1, <1>3, <1>4, <1>9, <1>12, <2>2, QueueTypes, TakeTrees
  <2>4. CASE v.task.kind = "modify"
    <3> DEFINE n == [v EXCEPT !.task.approved = TRUE]
               s == [n EXCEPT !.task.step = "sync"]
    <3>1. ~v.task.interrupted /\ v.task.mod = tx
      BY <2>1, <2>4 DEF TaskStartsCatchUp, ModifyStartsCatchUp, ApprovesTask
    <3>2. drive' = IF v.task.calculated THEN s ELSE n
      BY <2>1, <2>4, <3>1
         DEF TaskOnApproval, TaskStartsCatchUp, ModifyStartsCatchUp, ModifyOnApproval
    <3>3. SameRest(v, n) /\ n \in Drives
      BY <1>7 DEF Drives, Tasks, SameRest, Kept
    <3> HIDE DEF n
    <3>4. Kept(n, s) /\ s.task.step = "sync" /\ s.task.root = n.task.root
      BY <3>3, TaskShape DEF Kept
    <3> HIDE DEF s, d
    <3>5. Trees(chain, t, n, disk, "up")
      BY <2>3, <3>3, SameRestTrees
    <3>6. ~Applies(v.task)
      BY <1>4, <1>5, <1>7, <3>1 DEF EventOrder
    <3>7. v.task.calculated => v.task.step = "wait"
      <4>1. ~v.task.approved
        BY <3>1, <3>6, <2>4 DEF Applies
      <4> QED BY <4>1, <3>1, <2>4, <1>0, <1>7 DEF FlagOrder
    <3>8. ASSUME v.task.calculated PROVE Trees(chain, t, s, disk, "up")
      <4>1. n.task.step = "wait" /\ n.task.kind = "modify" /\ s.task.kind = "modify"
        BY <3>3, <3>4, <3>7, <3>8, <2>4 DEF SameRest, Kept
      <4>2. /\ n.task.kind \in Updating /\ n.task.step \in Built /\ n.task.step # "finish"
            /\ s.task.step # "finish" /\ OutcomeOrder(s.task)
            /\ s.task.step \notin {"syncLast", "saveUploads", "saveLast"}
        BY <4>1, <3>4 DEF Updating, Built, OutcomeOrder
      <4> QED BY <4>2, <3>4, <3>5, PlainTrees
    <3> QED BY <3>2, <3>5, <3>8, <1>4
  <2>5. CASE v.task.kind # "modify"
    <3>1. drive' = v
      BY <2>1, <2>5 DEF TaskStartsCatchUp, TaskOnApproval
    <3> QED BY <3>1, <2>3, <1>4
  <2> QED BY <2>4, <2>5
<1> QED BY <1>13, <1>14

------------------------------------------------------------------------------
(* The process starts *)

\* The drive has read its files.
LEMMA LoadedTrees ==
    ASSUME NEW c, NEW q, NEW d, NEW k, NEW e, Good(c, q, d, k), Order(c, q, d, k),
           Trees(c, q, d, k, "up"), Loading(d.task),
           e.deferred = d.deferred, e.catchReq = d.catchReq, e.cancelReq = d.cancelReq,
           e.closeReq = d.closeReq, e.root = k.root, e.last = k.last,
           e.task.kind = "init", e.task.step = "finish", e.task.cancels = d.task.cancels
    PROVE  Trees(c, q, e, k, "up")
<1>1. /\ d.last \in Int /\ k.last \in Int /\ d.catchReq \in Int /\ 0 <= k.last
      /\ \A i \in 1..Len(q) : q[i].mod \in Int
  BY DriveNumbers, QueueTypes, ModTypes
<1>2. /\ e.task.kind \notin Updating /\ d.task.kind = "init" /\ d.task.kind \notin Updating
      /\ ~Loading(e.task) /\ \A m : Waits(e, q, m) <=> Waits(d, q, m)
  BY DEF Updating, Loading, Waits, Deferred
<1>3. ASSUME NEW m, Reaches(c, q, d, k, m) PROVE Reaches(c, q, e, k, m)
  BY <1>2, <1>3 DEF Reaches
<1>4. ASSUME Started(c, q, d, k) PROVE Started(c, q, e, k)
  BY <1>3, <1>4 DEF Started
<1>5. ASSUME Informed(c, q, d, k) PROVE Informed(c, q, e, k)
  <2>1. PICK g : g = Goal(d)
    OBVIOUS
  <2>2. Reaches(c, q, d, k, g) /\ d.last = 0
    BY <1>5, <2>1 DEF Informed, Reaches
  <2>3. PICK x \in ModOrZero : k.last <= x /\ x <= g
    BY <2>2 DEF Reaches, Within
  <2>4. g = IF d.catchReq # 0 THEN d.catchReq ELSE 0
    BY <2>1, <2>2, <1>2 DEF Goal
  <2>5. k.last <= g /\ g \in Int
    BY <2>3, <2>4, <1>1, ModTypes
  <2>6. Goal(e) = g
    BY <2>4, <2>5, <1>1, <1>2 DEF Goal
  <2>7. ASSUME NEW i \in 1..Len(q), q[i].type = "approve" PROVE e.last < q[i].mod
    <3>1. d.catchReq < q[i].mod
      BY <2>7 DEF Order, InboxOrder, EventOrder
    <3>2. d.last < q[i].mod
      BY <2>7, <1>5 DEF Informed
    <3> QED BY <3>1, <3>2, <2>2, <2>4, <2>5, <1>1
  <2>8. Reaches(c, q, e, k, Goal(e))
    BY <2>2, <2>6, <1>3
  <2> QED BY <2>7, <2>8, <1>2 DEF Informed
<1>6. Closing(e) <=> Closing(d)
  BY <1>2 DEF Closing
<1>7. TaskTrees(c, e) /\ OutcomeOrder(e.task) /\ MovedFirst(e.task, k) /\ NothingToCancel(e)
  BY <1>2 DEF TaskTrees, OutcomeOrder, MovedFirst, NothingToCancel, Trees, Built, Synchronizing
<1> QED BY <1>4, <1>5, <1>6, <1>7 DEF Trees

\* InitializeDriveTask: nothing is replayed where nothing is cancelled.
LEMMA InitializeSound == Safe /\ Sound /\ InitializeDrive => Sound'
<1> SUFFICES ASSUME Safe, Sound, InitializeDrive
             PROVE  Sound'
  OBVIOUS
<1>1. /\ chain' = chain /\ disk' = disk /\ up = "up"
      /\ drive.task.kind = "init" /\ drive.task.step = "load"
  BY DEF InitializeDrive, environment, At
<1>2. CASE ~NothingCancelled
  BY <1>1, <1>2 DEF Sound, NothingCancelled
<1>3. CASE NothingCancelled
  <2> DEFINE d == [drive EXCEPT !.root = disk.root, !.last = disk.last]
  <2>1. Trees(chain, inbox, drive, disk, "up") /\ drive.task.cancels = {}
    BY <1>1, <1>3 DEF Sound, Trees, NothingToCancel
  <2>2. /\ drive \in Drives /\ Good(chain, inbox, drive, disk)
        /\ Order(chain, inbox, drive, disk) /\ DiskInv(chain, disk)
    BY SafeGood DEF Safe, Good
  <2>3. drive' = Initialized(d, acct') /\ UNCHANGED environment
    BY <2>1 DEF InitializeDrive
  <2>4. /\ d.deferred = drive.deferred /\ d.catchReq = drive.catchReq
        /\ d.cancelReq = drive.cancelReq /\ d.closeReq = drive.closeReq
        /\ d.root = disk.root /\ d.last = disk.last /\ d.task = drive.task /\ d \in Drives
    BY <2>2 DEF Drives, DiskInv
  <2> HIDE DEF d
  <2>5. drive' = FinishTask(d)
    BY <2>1, <2>3, <2>4 DEF Initialized
  <2>6. Kept(d, drive') /\ drive'.task.step = "finish"
    BY <2>4, <2>5, KeptChanges
  <2>7. Trees(chain, inbox, drive', disk, "up")
    <3>1. Loading(drive.task)
      BY <1>1 DEF Loading
    <3>2. /\ drive'.deferred = drive.deferred /\ drive'.catchReq = drive.catchReq
          /\ drive'.cancelReq = drive.cancelReq /\ drive'.closeReq = drive.closeReq
          /\ drive'.root = disk.root /\ drive'.last = disk.last
          /\ drive'.task.kind = "init" /\ drive'.task.cancels = drive.task.cancels
      BY <1>1, <2>4, <2>6 DEF Kept
    <3> QED BY <2>1, <2>2, <2>6, <3>1, <3>2, LoadedTrees
  <2> QED BY <1>1, <2>3, <2>7, MoveSound DEF environment
<1> QED BY <1>2, <1>3

\* A drive that was just added has everything to come.
LEMMA NewDriveTrees ==
    ASSUME NEW c, NEW q, NEW d, NEW k, NEW u, d = NewDrive({}),
           c.last \in ModOrZero, ChainTrees(c), Within(c, k.root, k.last, c.last),
           u = "up" =>
              /\ \A w \in Mods : c.last < w /\ w <= c.issued => Requested(q, w)
              /\ c.last = 0 => \A i \in 1..Len(q) : q[i].type # "approve"
              /\ c.last # 0 => q # <<>> /\ Head(q).type = "approve" /\ Head(q).mod = c.last
    PROVE  Trees(c, q, d, k, u)
<1>1. /\ d.deferred = <<>> /\ d.catchReq = 0 /\ d.last = 0
      /\ d.task.kind = "init" /\ d.task.step = "load"
  BY NewDriveFields
<1>2. d.root = {} /\ d.cancelReq = 0 /\ d.task.cancels = {}
  <2>1. PICK n : n = NewTask("init", 0, "load")
    OBVIOUS
  <2>2. "cancels" \in DOMAIN n
    BY <2>1 DEF NewTask
  <2>3. d.root = {} /\ d.cancelReq = 0 /\ d.task = [n EXCEPT !.cancels = {}]
    BY <2>1 DEF NewDrive
  <2> QED BY <2>2, <2>3
<1>3. d.task.kind \notin Updating /\ d.task.step \notin Built
  BY <1>1 DEF Updating, Built, Synchronizing
<1>4. Within(c, d.root, d.last, c.last)
  BY <1>1, <1>2, ModTypes DEF Within, ChainTrees
<1>5. TaskTrees(c, d) /\ OutcomeOrder(d.task) /\ MovedFirst(d.task, k) /\ NothingToCancel(d)
  BY <1>1, <1>2, <1>3 DEF TaskTrees, OutcomeOrder, MovedFirst, NothingToCancel
<1>6. ASSUME u = "up" PROVE Informed(c, q, d, k) \/ Started(c, q, d, k)
  <2>1. Reaches(c, q, d, k, c.last)
    BY <1>1, <1>4, <1>6 DEF Reaches, Waits
  <2>2. CASE c.last = 0
    <3>1. Goal(d) = c.last
      BY <1>1, <1>3, <2>2 DEF Goal
    <3> QED BY <1>3, <1>6, <2>1, <2>2, <3>1 DEF Informed
  <2>3. CASE c.last # 0
    BY <1>1, <1>6, <2>1, <2>3 DEF Started
  <2> QED BY <2>2, <2>3
<1> QED BY <1>4, <1>5, <1>6 DEF Trees

\* The process ends, or the data of the drive is removed.
LEMMA EndSound ==
    ASSUME Safe, Sound, chain' = chain, drive' = NewDrive({}), up' # "up",
           disk' = disk \/ disk' = EmptyDisk
    PROVE  Sound'
<1> SUFFICES ASSUME NothingCancelled
             PROVE  Trees(chain, inbox', drive', disk', up')
  BY DEF Sound, NothingCancelled
<1>1. /\ Trees(chain, inbox, drive, disk, up) /\ chain.last \in ModOrZero
      /\ ChainTrees(chain)
  BY SafeGood, DriveNumbers DEF Sound, Trees
<1>2. Within(chain, disk'.root, disk'.last, chain.last)
  <2>1. CASE disk' = disk
    BY <1>1, <2>1 DEF Trees
  <2>2. CASE disk' = EmptyDisk
    BY <1>1, <2>2, ModTypes DEF EmptyDisk, Trees, ChainTrees, Within
  <2> QED BY <2>1, <2>2
<1>3. PICK c, q, d, k, u : c = chain /\ q = inbox' /\ d = drive' /\ k = disk' /\ u = up'
  OBVIOUS
<1>4. Trees(c, q, d, k, u)
  BY <1>1, <1>2, <1>3, NewDriveTrees
<1> QED BY <1>3, <1>4

\* A crash, and the removal of the drive.
LEMMA StopSound ==
    Safe /\ Sound /\ (Crash \/ RemoveAllDriveData \/ RemoveUnusedDrives) => Sound'
<1> SUFFICES ASSUME Safe, Sound, Crash \/ RemoveAllDriveData \/ RemoveUnusedDrives
             PROVE  Sound'
  OBVIOUS
<1>1. /\ chain' = chain /\ drive' = NewDrive({}) /\ up' \in {"down", "closed"}
      /\ disk' = disk \/ disk' = EmptyDisk
  BY DEF Crash, Die, RemoveAllDriveData, RemoveUnusedDrives, Safe, DownOrder
<1> QED BY <1>1, EndSound

\* All modifications that are not approved are pending, and their requests follow.
LEMMA RestartSound == Safe /\ Sound /\ Restart => Sound'
<1> SUFFICES ASSUME Safe, Sound, Restart
             PROVE  Sound'
  OBVIOUS
<1>1. chain' = chain /\ disk' = disk /\ drive' = NewDrive(chain.cancelled) /\ up' = "up"
  BY DEF Restart
<1> SUFFICES ASSUME NothingCancelled
             PROVE  Trees(chain, inbox', drive', disk, "up")
  BY <1>1 DEF Sound, NothingCancelled
<1>2. /\ Trees(chain, inbox, drive, disk, up) /\ ChainTrees(chain)
      /\ Within(chain, disk.root, disk.last, chain.last)
      /\ chain.last \in ModOrZero /\ chain.issued \in ModOrZero
  BY SafeGood, DriveNumbers DEF Sound, Trees
<1>3. ASSUME NEW w \in Mods, chain.last < w, w <= chain.issued PROVE Requested(inbox', w)
  <2>1. PICK j : j = w - chain.last
    OBVIOUS
  <2>2. j \in 1..Len(chain.pending) /\ chain.last + j = w
    BY <1>2, <1>3, <2>1, ModTypes DEF ChainTrees
  <2>3. chain.pending[j] = w
    BY <1>2, <2>2 DEF ChainTrees
  <2> QED BY <2>2, <2>3, RestartInbox
<1>4. /\ chain.last = 0 => \A i \in 1..Len(inbox') : inbox'[i].type # "approve"
      /\ chain.last # 0 => /\ inbox' # <<>> /\ Head(inbox').type = "approve"
                           /\ Head(inbox').mod = chain.last
  BY RestartInbox
<1>5. drive' = NewDrive({})
  BY <1>1 DEF NothingCancelled
<1> QED BY <1>2, <1>3, <1>4, <1>5, NewDriveTrees

\* The invariant holds initially ...
LEMMA InitSound == Init => Sound
<1> SUFFICES ASSUME Init PROVE Trees(chain, inbox, drive, disk, up)
  BY DEF Sound
<1>1. /\ chain.last = 0 /\ chain.issued = 0 /\ chain.pending = <<>> /\ chain.rootAt[0] = {}
      /\ inbox = <<>> /\ drive = NewDrive({}) /\ disk.root = {} /\ disk.last = 0
  BY ModTypes DEF Init, NewChain, EmptyDisk
<1>2. Len(inbox) = 0 /\ Len(chain.pending) = 0
  BY <1>1
<1>3. ChainTrees(chain) /\ Within(chain, disk.root, disk.last, chain.last)
  BY <1>1, <1>2, ModTypes DEF ChainTrees, Within
<1>4. \A w \in Mods : ~(w <= chain.issued)
  BY <1>1, ModTypes
<1>5. \A i \in 1..Len(inbox) : FALSE
  BY <1>2
<1>6. PICK c, q, d, k, u : c = chain /\ q = inbox /\ d = drive /\ k = disk /\ u = up
  OBVIOUS
<1>7. Trees(c, q, d, k, u)
  BY <1>1, <1>3, <1>4, <1>5, <1>6, ModTypes, NewDriveTrees
<1> QED BY <1>6, <1>7

------------------------------------------------------------------------------
(* The chain *)

\* The approved trees stay, and what is new is announced.
LEMMA ChainMoreTrees ==
    ASSUME NEW c, NEW q, NEW d, NEW k, NEW u, NEW b, NEW r,
           Good(c, q, d, k), Trees(c, q, d, k, u), ChainTrees(b),
           b.last \in ModOrZero, b.issued \in ModOrZero, c.last <= b.last,
           \A x \in ModOrZero : x <= c.last => b.rootAt[x] = c.rootAt[x],
           u = "up" =>
              /\ q # <<>> => r # <<>> /\ Head(r) = Head(q)
              /\ \A m \in Mods : Requested(q, m) => Requested(r, m)
              /\ \A m \in Mods : c.issued < m /\ m <= b.issued => Requested(r, m)
              /\ \A i \in 1..Len(r) : r[i].type = "approve" =>
                    (\E j \in 1..Len(q) : r[i] = q[j]) \/ d.last < r[i].mod
    PROVE  Trees(b, r, d, k, u)
<1>1. /\ c.last \in ModOrZero /\ d.last \in ModOrZero /\ d.task.mod \in ModOrZero
      /\ d.last <= c.last /\ (d.task.kind = "catchup" => d.task.mod <= c.last)
      /\ c.issued \in ModOrZero
  BY DriveNumbers DEF Applies
<1>2. \A t, lo, hi : Within(c, t, lo, hi) => Within(b, t, lo, hi)
  BY <1>1, ModTypes DEF Within
<1>3. Within(b, k.root, k.last, b.last) /\ Within(b, d.root, d.last, b.last)
  <2>1. /\ Within(b, k.root, k.last, c.last) /\ Within(b, d.root, d.last, c.last)
    BY <1>2 DEF Trees
  <2> QED BY <2>1, <1>1, ModTypes, WithinMore
<1>4. TaskTrees(b, d)
  <2>1. TaskTrees(c, d)
    BY DEF Trees
  <2>2. d.task.kind = "modify" /\ d.task.step # "finish" =>
           b.rootAt[d.task.mod - 1] = c.rootAt[d.task.mod - 1]
    BY <2>1, <1>1 DEF TaskTrees
  <2>3. d.task.kind = "catchup" => b.rootAt[d.task.mod] = c.rootAt[d.task.mod]
    BY <1>1
  <2> QED BY <2>1, <2>2, <2>3 DEF TaskTrees
<1>5. ASSUME u = "up", NEW m, Reaches(c, q, d, k, m) PROVE Reaches(b, r, d, k, m)
  <2>1. ASSUME NEW w \in Mods, m < w, w <= b.issued PROVE Waits(d, r, w)
    <3>1. CASE w <= c.issued
      <4>1. Waits(d, q, w)
        BY <1>5, <2>1, <3>1 DEF Reaches
      <4> QED BY <4>1, <1>5 DEF Waits
    <3>2. CASE ~(w <= c.issued)
      <4>1. c.issued < w
        BY <3>2, <1>1, ModTypes
      <4> QED BY <4>1, <2>1, <1>5 DEF Waits
    <3> QED BY <3>1, <3>2
  <2> QED BY <2>1, <1>2, <1>5 DEF Reaches
<1>6. ASSUME u = "up", Started(c, q, d, k) PROVE Started(b, r, d, k)
  BY <1>5, <1>6 DEF Started
<1>7. ASSUME u = "up", Informed(c, q, d, k) PROVE Informed(b, r, d, k)
  <2>1. \A i \in 1..Len(r) : r[i].type = "approve" => d.last < r[i].mod
    BY <1>7 DEF Informed
  <2> QED BY <2>1, <1>5, <1>7 DEF Informed
<1> QED BY <1>3, <1>4, <1>6, <1>7 DEF Trees

\* Event x follows the events q.
Posted(q, x, r) ==
    /\ q # <<>> => r # <<>> /\ Head(r) = Head(q)
    /\ \A m : Requested(q, m) => Requested(r, m)
    /\ x.type = "modify" => Requested(r, x.mod)
    /\ \A i \in 1..Len(r) : (\E j \in 1..Len(q) : r[i] = q[j]) \/ r[i] = x

\* Append posts an event.
LEMMA PostedEvent ==
    ASSUME NEW q \in Seq(Events), NEW x \in Events, NEW r, r = Append(q, x)
    PROVE  Posted(q, x, r)
<1>1. /\ r \in Seq(Events) /\ Len(r) = Len(q) + 1 /\ Len(q) \in Nat
      /\ \A i \in 1..Len(q) : r[i] = q[i]
      /\ r[Len(q) + 1] = x
  BY AppendProperties, LenProperties
<1>2. 1..Len(r) = 1..Len(q) \cup {Len(q) + 1}
  BY <1>1
<1>3. ASSUME q # <<>> PROVE r # <<>> /\ Head(r) = Head(q)
  <2>1. Len(q) # 0 /\ Len(r) # 0
    BY <1>1, <1>3, EmptySeq
  <2>2. r # <<>> /\ r[1] = q[1]
    BY <1>1, <2>1, EmptySeq
  <2> QED BY <1>1, <1>3, <2>2
<1> QED BY <1>1, <1>2, <1>3 DEF Requested, Posted

\* A step of the chain that posts event x.
LEMMA ChainSound ==
    ASSUME Safe, Sound, Safe', UNCHANGED replicator,
           NEW s \in {"modify", "approve", "close", "verify", "verified"},
           NEW m \in ModOrZero, Post(s, m), chain'.cancelled = chain.cancelled,
           chain.last <= chain'.last,
           \A x \in ModOrZero : x <= chain.last => chain'.rootAt[x] = chain.rootAt[x],
           ChainTrees(chain) => ChainTrees(chain'),
           \A w \in Mods : chain.issued < w /\ w <= chain'.issued => s = "modify" /\ w = m,
           s = "approve" => drive.last < m
    PROVE  Sound'
<1>1. drive' = drive /\ disk' = disk /\ up' = up
  BY DEF replicator
<1> SUFFICES ASSUME NothingCancelled
             PROVE  Trees(chain', inbox', drive, disk, up)
  BY <1>1 DEF Sound, NothingCancelled
<1>2. /\ Good(chain, inbox, drive, disk) /\ Trees(chain, inbox, drive, disk, up)
      /\ chain'.last \in ModOrZero /\ chain'.issued \in ModOrZero
      /\ inbox \in Seq(Events) /\ ChainTrees(chain')
  <2>1. ChainInv(chain')
    BY DEF Safe, IInv
  <2> QED BY <2>1, SafeGood, QueueTypes DEF Sound, Trees, ChainInv, Chains
<1>3. ASSUME up = "up"
      PROVE  /\ inbox # <<>> => inbox' # <<>> /\ Head(inbox') = Head(inbox)
             /\ \A w \in Mods : Requested(inbox, w) => Requested(inbox', w)
             /\ \A w \in Mods : chain.issued < w /\ w <= chain'.issued => Requested(inbox', w)
             /\ \A i \in 1..Len(inbox') : inbox'[i].type = "approve" =>
                   (\E j \in 1..Len(inbox) : inbox'[i] = inbox[j]) \/ drive.last < inbox'[i].mod
  <2> DEFINE x == [type |-> s, mod |-> m]
  <2>1. x \in Events /\ x.type = s /\ x.mod = m
    BY DEF Events
  <2>2. inbox' = Append(inbox, x)
    BY <1>3 DEF Post
  <2> HIDE DEF x
  <2>3. Posted(inbox, x, inbox')
    BY <1>2, <2>1, <2>2, PostedEvent
  <2> QED BY <2>1, <2>3 DEF Posted
<1>4. PICK c, q, d, k, u, b, r : /\ c = chain /\ q = inbox /\ d = drive /\ k = disk /\ u = up
                                 /\ b = chain' /\ r = inbox'
  OBVIOUS
<1>5. Trees(b, r, d, k, u)
  BY <1>2, <1>3, <1>4, ChainMoreTrees
<1> QED BY <1>4, <1>5

\* The client requests the next modification.
LEMMA ChainModifySound == Safe /\ Sound /\ Safe' /\ ChainModify => Sound'
<1> SUFFICES ASSUME Safe, Sound, Safe', ChainModify
             PROVE  Sound'
  OBVIOUS
<1> DEFINE m == chain.issued + 1
           p == Append(chain.pending, m)
<1>1. /\ chain \in Chains /\ chain.pending \in Seq(Mods) /\ ChainInv(chain)
      /\ chain.issued \in ModOrZero /\ chain.last \in ModOrZero
  BY SafeGood, ChainTypes DEF Good
<1>2. m \in Mods /\ m \in ModOrZero /\ chain.issued \in Int /\ chain.last \in Int
  <2>1. chain.issued \in Nat /\ chain.issued < MaxMods /\ chain.last \in Int
    BY <1>1, ModTypes DEF ChainModify
  <2>2. m \in Mods
    BY <2>1, DriveAssumption DEF Mods
  <2> QED BY <2>1, <2>2, ModTypes
<1>3. /\ chain' = [chain EXCEPT !.issued = m, !.pending = p] /\ Post("modify", m)
      /\ UNCHANGED replicator
  BY DEF ChainModify
<1>4. /\ Len(p) = Len(chain.pending) + 1 /\ Len(chain.pending) \in Nat
      /\ \A i \in 1..Len(chain.pending) : p[i] = chain.pending[i]
      /\ p[Len(chain.pending) + 1] = m
  BY <1>1, <1>2, AppendProperties, LenProperties
<1> HIDE DEF p
<1>5. /\ chain'.issued = m /\ chain'.pending = p /\ chain'.cancelled = chain.cancelled
      /\ chain'.last = chain.last /\ chain'.rootAt = chain.rootAt
  BY <1>1, <1>3 DEF Chains
<1>6. ASSUME ChainTrees(chain) PROVE ChainTrees(chain')
  <2>1. Len(chain.pending) = chain.issued - chain.last
    BY <1>6 DEF ChainTrees
  <2>2. Len(p) = chain'.issued - chain.last
    BY <2>1, <1>2, <1>4, <1>5
  <2>3. ASSUME NEW i \in 1..Len(p) PROVE p[i] = chain.last + i
    <3>1. CASE i \in 1..Len(chain.pending)
      BY <3>1, <1>4, <1>6 DEF ChainTrees
    <3>2. CASE i = Len(chain.pending) + 1
      BY <3>2, <2>1, <1>2, <1>4
    <3> QED BY <3>1, <3>2, <1>4
  <2> QED BY <2>2, <2>3, <1>5, <1>6 DEF ChainTrees
<1>7. \A w \in Mods : chain.issued < w /\ w <= chain'.issued => w = m
  BY <1>2, <1>5, ModTypes
<1>8. chain.last <= chain'.last
  BY <1>2, <1>5
<1> HIDE DEF m
<1>9. PICK s : s = "modify"
  OBVIOUS
<1>10. /\ s \in {"modify", "approve", "close", "verify", "verified"} /\ Post(s, m)
       /\ \A w \in Mods : chain.issued < w /\ w <= chain'.issued => s = "modify" /\ w = m
       /\ s = "approve" => drive.last < m
  BY <1>3, <1>7, <1>9
<1> QED BY <1>2, <1>3, <1>5, <1>6, <1>8, <1>10, ChainSound

\* The chain approves the tree of the modification after the last one.
LEMMA ChainApproveSound == Safe /\ Sound /\ Safe' /\ ChainApprove => Sound'
<1> SUFFICES ASSUME Safe, Sound, Safe', ChainApprove
             PROVE  Sound'
  OBVIOUS
<1> DEFINE m == Head(chain.pending)
           p == Tail(chain.pending)
           t == Execute(chain.rootAt[chain.last], m)
<1>1. /\ chain \in Chains /\ chain.pending \in Seq(Mods) /\ chain.pending # <<>>
      /\ ChainInv(chain) /\ chain.last \in ModOrZero /\ chain.last \in Int
      /\ chain.issued \in Int /\ drive.last \in Int /\ drive.last <= chain.last
  BY SafeGood, ChainTypes, DriveNumbers, ModTypes DEF Good, ChainApprove
<1>2. /\ m = chain.pending[1] /\ m \in Mods /\ Len(p) = Len(chain.pending) - 1
      /\ Len(chain.pending) \in Nat \ {0}
      /\ \A i \in 1..Len(p) : p[i] = chain.pending[i + 1]
  <2>1. /\ m \in Mods /\ Len(p) = Len(chain.pending) - 1
        /\ \A i \in 1..Len(p) : p[i] = chain.pending[i + 1]
    BY <1>1, HeadTailProperties
  <2>2. Len(chain.pending) \in Nat \ {0}
    BY <1>1, EmptySeq
  <2>3. m = chain.pending[1]
    BY <1>1
  <2> QED BY <2>1, <2>2, <2>3
<1>3. /\ Post("approve", m) /\ UNCHANGED replicator
      /\ \E z : chain' = [chain EXCEPT !.pending = p, !.last = m,
                                       !.rootAt[m] = t, !.sizeAt[m] = z]
  BY DEF ChainApprove
<1> HIDE DEF m, p, t
<1>4. /\ chain'.issued = chain.issued /\ chain'.pending = p
      /\ chain'.last = m /\ chain'.cancelled = chain.cancelled
      /\ chain'.rootAt = [chain.rootAt EXCEPT ![m] = t]
  BY <1>1, <1>3 DEF Chains
<1>5. chain.rootAt \in [ModOrZero -> Roots]
  BY <1>1 DEF Chains
<1>6. /\ chain'.rootAt[m] = t
      /\ \A x \in ModOrZero : x # m => chain'.rootAt[x] = chain.rootAt[x]
  BY <1>2, <1>4, <1>5, ModTypes
<1>7. chain.last < m /\ m \in Int /\ m \in ModOrZero
  <2>1. 1 \in 1..Len(chain.pending)
    BY <1>2
  <2> QED BY <2>1, <1>1, <1>2, ModTypes DEF ChainInv
<1>8. \A x \in ModOrZero : x <= chain.last => chain'.rootAt[x] = chain.rootAt[x]
  BY <1>1, <1>6, <1>7, ModTypes
<1>9. ASSUME ChainTrees(chain) PROVE ChainTrees(chain')
  <2>1. m = chain.last + 1
    <3>1. 1 \in 1..Len(chain.pending)
      BY <1>2
    <3> QED BY <3>1, <1>2, <1>9 DEF ChainTrees
  <2>2. chain'.rootAt[0] = {}
    <3>1. 0 <= chain.last
      BY <1>1, ModTypes
    <3> QED BY <3>1, <1>8, <1>9, ModTypes DEF ChainTrees
  <2>3. ASSUME NEW x \in Mods, x <= m PROVE chain'.rootAt[x] = Execute(chain'.rootAt[x - 1], x)
    <3>1. x \in Int /\ 0 < x /\ x \in ModOrZero
      BY ModTypes
    <3>2. CASE x = m
      <4>1. x - 1 = chain.last
        BY <3>2, <2>1, <1>1
      <4>2. chain'.rootAt[x - 1] = chain.rootAt[chain.last]
        BY <4>1, <1>1, <1>8
      <4> QED BY <3>2, <4>2, <1>6 DEF t
    <3>3. CASE x # m
      <4>1. x <= chain.last
        BY <2>1, <2>3, <3>1, <3>3, <1>1
      <4>2. x - 1 \in ModOrZero /\ x - 1 <= chain.last
        BY <3>1, <4>1, <1>1, DriveAssumption DEF ModOrZero
      <4>3. chain'.rootAt[x] = chain.rootAt[x] /\ chain'.rootAt[x - 1] = chain.rootAt[x - 1]
        BY <3>1, <4>1, <4>2, <1>8
      <4>4. chain.rootAt[x] = Execute(chain.rootAt[x - 1], x)
        BY <4>1, <1>9 DEF ChainTrees
      <4> QED BY <4>3, <4>4
    <3> QED BY <3>2, <3>3
  <2>4. Len(p) = chain.issued - m
    BY <2>1, <1>1, <1>2, <1>9 DEF ChainTrees
  <2>5. ASSUME NEW i \in 1..Len(p) PROVE p[i] = m + i
    <3>1. i + 1 \in 1..Len(chain.pending) /\ chain.last + (i + 1) = m + i
      <4>1. /\ Len(chain.pending) \in Nat /\ Len(p) = Len(chain.pending) - 1
            /\ chain.last \in Int /\ i \in 1..Len(p)
        BY <1>1, <1>2
      <4> QED BY ONLY <2>1, <4>1
    <3>2. chain.pending[i + 1] = chain.last + (i + 1)
      BY <3>1, <1>9 DEF ChainTrees
    <3> QED BY <3>1, <3>2, <1>2
  <2> QED BY <2>2, <2>3, <2>4, <2>5, <1>4 DEF ChainTrees
<1>10. PICK s : s = "approve"
  OBVIOUS
<1>11. /\ s \in {"modify", "approve", "close", "verify", "verified"} /\ Post(s, m)
       /\ \A w \in Mods : chain.issued < w /\ w <= chain'.issued => s = "modify" /\ w = m
       /\ s = "approve" => drive.last < m
       /\ chain.last <= chain'.last
  BY <1>1, <1>3, <1>4, <1>7, <1>10, ModTypes
<1> QED BY <1>3, <1>4, <1>7, <1>8, <1>9, <1>11, ChainSound

\* The closure and the verifications.
LEMMA ChainOtherSound ==
    Safe /\ Sound /\ Safe' /\ (ChainClose \/ ChainVerify \/ ChainVerified) => Sound'
<1> SUFFICES ASSUME Safe, Sound, Safe', ChainClose \/ ChainVerify \/ ChainVerified
             PROVE  Sound'
  OBVIOUS
<1>1. chain \in Chains /\ chain.last \in ModOrZero /\ chain.issued \in ModOrZero
  BY SafeGood, DriveNumbers DEF Good, ChainInv
<1>2. /\ chain'.issued = chain.issued /\ chain'.pending = chain.pending
      /\ chain'.last = chain.last /\ chain'.cancelled = chain.cancelled
      /\ chain'.rootAt = chain.rootAt
  BY <1>1 DEF ChainClose, ChainVerify, ChainVerified, Chains
<1>3. \E s \in {"close", "verify", "verified"}, m \in ModOrZero :
         Post(s, m) /\ UNCHANGED replicator
  BY <1>1, ModTypes DEF ChainClose, ChainVerify, ChainVerified
<1>4. PICK s \in {"close", "verify", "verified"}, m \in ModOrZero :
         Post(s, m) /\ UNCHANGED replicator
  BY <1>3
<1>5. /\ chain.last <= chain'.last
      /\ \A w \in Mods : ~(chain.issued < w /\ w <= chain'.issued)
      /\ s \in {"modify", "approve", "close", "verify", "verified"} /\ s # "approve"
  BY <1>1, <1>2, <1>4, ModTypes
<1>6. ChainTrees(chain) => ChainTrees(chain')
  BY <1>2 DEF ChainTrees
<1> QED BY <1>2, <1>4, <1>5, <1>6, ChainSound

\* From here on something is cancelled.
LEMMA ChainCancelSound ==
    ASSUME NEW m \in Mods, Safe, ChainCancel(m)
    PROVE  Sound'
<1>1. chain \in Chains
  BY SafeGood DEF Good, ChainInv
<1>2. m \in chain'.cancelled
  BY <1>1 DEF ChainCancel, Chains
<1> QED BY <1>2 DEF Sound, NothingCancelled

------------------------------------------------------------------------------
(* The theorems *)

\* ... and every step preserves it.
LEMMA NextSound == Safe /\ Sound /\ Safe' /\ [Next]_vars => Sound'
<1> SUFFICES ASSUME Safe, Sound, Safe', [Next]_vars
             PROVE  Sound'
  OBVIOUS
<1>1. CASE ChainStep
  BY <1>1, ChainModifySound, ChainApproveSound, ChainOtherSound, ChainCancelSound
     DEF ChainStep
<1>2. CASE OnEvent
  BY <1>2, OnModifySound, OnApprovalSound, OnCancelSound, OnCloseSound, OnVerifySound
     DEF OnEvent
<1>3. CASE ClientDownload \/ ReplicatorDownload
  BY <1>3, PlainStepSound DEF ClientDownload, ReplicatorDownload
<1>4. CASE TaskStep
  BY <1>4, InitializeSound, PlainStepSound, SandboxSound, SaveStepSound, ReplaceSound,
     SaveLastSound, CancelSound, FinishSound, StopSound DEF TaskStep
<1>5. CASE Crash \/ Restart \/ RemoveUnusedDrives
  BY <1>5, StopSound, RestartSound
<1>6. CASE UNCHANGED vars
  BY <1>6 DEF vars, Sound, NothingCancelled
<1> QED BY <1>1, <1>2, <1>3, <1>4, <1>5, <1>6 DEF Next

\* As long as nothing is cancelled, startSynchronizingDriveWithSandbox replaces the
\* drive by the tree the chain approved, however requests, approvals, catch-ups,
\* crashes and restarts are interleaved: ModifyDriveTask executes its modification
\* on the tree of the one before it (runDeferredModificationTask, runCatchingUpTask
\* and the events a restarted replicator is sent).
THEOREM SandboxIsApprovedTreeTheorem == Spec => []SandboxIsApprovedTree
<1>1. Safe /\ Sound => SandboxIsApprovedTree
  <2> SUFFICES ASSUME Safe, Sound, NothingCancelled, up = "up",
                      drive.task.step \in Synchronizing
               PROVE  drive.task.root = chain.rootAt[drive.task.mod]
    BY DEF SandboxIsApprovedTree, Running
  <2>1. /\ Good(chain, inbox, drive, disk) /\ ChainTrees(chain) /\ TaskTrees(chain, drive)
    BY SafeGood DEF Sound, Trees
  <2> QED BY <2>1, ApprovedTree
<1> QED BY InitSafe, NextSafe, InitSound, NextSound, <1>1, PTL DEF Spec

\* As long as nothing is cancelled, the tree of a running drive is one the chain
\* approved, and not older than the last approved modification the drive knows
\* (DriveParams, the restart values and the moves of the file tree in
\* ModifyDriveTask and CatchingUpTask), whenever the process dies.
THEOREM RootIsApprovedTheorem == Spec => []RootIsApproved
<1>1. Safe /\ Sound => RootIsApproved
  <2> SUFFICES ASSUME Safe, Sound, NothingCancelled
               PROVE  \E m \in {0} \cup {n \in Mods : IsApproved(n)} :
                         m >= drive.last /\ drive.root = chain.rootAt[m]
    BY DEF RootIsApproved
  <2>1. PICK x \in ModOrZero : drive.last <= x /\ x <= chain.last /\ drive.root = chain.rootAt[x]
    BY DEF Sound, Trees, Within
  <2>2. drive.last \in Int /\ chain.last \in Int /\ x \in Int /\ 0 <= x
    BY SafeGood, DriveNumbers, ModTypes
  <2>3. x >= drive.last
    BY <2>1, <2>2
  <2>4. x # 0 => x \in Mods /\ IsApproved(x)
    BY <2>1, <2>2, ModTypes DEF IsApproved, NothingCancelled
  <2> QED BY <2>1, <2>3, <2>4
<1> QED BY InitSafe, NextSafe, InitSound, NextSound, <1>1, PTL DEF Spec

==============================================================================
