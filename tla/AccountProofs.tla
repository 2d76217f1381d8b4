---------------------------- MODULE AccountProofs ----------------------------
(***************************************************************************)
(* What the accounts of a drive (ModifyOpinionController) hold, for any    *)
(* number of modifications, sizes, cancellations, verifications and        *)
(* crashes: no opinion names less than what the chain approved (parts I to *)
(* X), nothing is left of a cancelled modification (part XI), and when     *)
(* that holds which the code asserts of them and of a catch-up: until the  *)
(* first crash or cancellation, or until the second cancellation (part     *)
(* XII). And how they get over crashes: the files of a restart value (part *)
(* XIII) hold what a save can leave in them, and implement one atomic      *)
(* value, which is only lost by a crash in a save that follows one which   *)
(* was cut off between remove and rename.                                  *)
(***************************************************************************)
EXTENDS FlatDriveProofs, RestartValue

(* I. The invariant: every approved modification that the drive no longer    *)
(* has open is accounted for.                                                *)

\* Modification m is neither approved nor cancelled, or its event is on the way.
Pending(c, m) == \E i \in 1..Len(c.pending) : c.pending[i] = m

Announced(q, type, m) == \E i \in 1..Len(q) : q[i].type = type /\ q[i].mod = m

\* The task executes its modification, or waits for its approval.
Works(t) == /\ t.kind = "modify" /\ ~t.interrupted
            /\ t.step \notin {"saveUploads", "saveLast", "finish"}

\* Modification m waits or is being executed.
Open(d, q, m) == Waits(d, q, m) \/ (Works(d.task) /\ d.task.mod = m)

\* Every approved size is the one before it and that of the modification; a
\* modification is approved, cancelled or pending.
ChainSizes(c) ==
    /\ c.sizeAt[0] = 0
    /\ \A z \in Mods : Approved(c, z) =>
          /\ c.sizeAt[z] <= c.sizeAt[c.last]
          /\ \E y \in ModOrZero : /\ y = 0 \/ Approved(c, y)
                                  /\ y < z /\ c.sizeAt[z] = c.sizeAt[y] + Size[z]
    /\ \A m \in Mods : m <= c.issued => Approved(c, m) \/ m \in c.cancelled \/ Pending(c, m)

\* What is cancelled is newer than what was approved or requested before; the
\* closing of the drive is the last event.
EventPair(e, f) ==
    /\ e.type = "cancel" /\ f.type = "modify" => e.mod < f.mod
    /\ e.type = "approve" /\ f.type = "cancel" => e.mod < f.mod
    /\ e.type = "cancel" /\ f.type = "cancel" => e.mod # f.mod
    /\ e.type # "close"

EventPairs(c, q) ==
    /\ \A i, j \in 1..Len(q) : i < j => EventPair(q[i], q[j])
    /\ \A i \in 1..Len(q) : q[i].type = "close" => c.closed

\* A drive that is closed hears of nothing any more.
ClosingLast(c, q, d) ==
    Closing(d) => /\ c.closed /\ q = <<>>
                  /\ d.task.kind \in Updating => d.task.interrupted
                  /\ d.task.kind = "close" => d.task.step = "remove"

\* Nothing is left for an idle drive to do.
IdleIsIdle(d) ==
    d.task.kind = "none" =>
        d.deferred = <<>> /\ d.catchReq = 0 /\ d.cancelReq = 0 /\ ~d.closeReq

\* The drive was just started and knows of no modification.
Fresh(d) == d.deferred = <<>> /\ d.catchReq = 0 /\ d.task.kind \in {"init", "none", "cancel"}

\* Every pending modification is open, and the one at work is the oldest of them.
PendingOpen(c, q, d) ==
    \A m \in Mods : Pending(c, m) => Open(d, q, m) /\ (Works(d.task) => d.task.mod <= m)

\* So is every one whose approval is on the way, but for the one that a drive
\* is told of when it is started.
ApprovalsOpen(q, d) ==
    \A i \in 1..Len(q) : q[i].type = "approve" =>
        /\ Open(d, q, q[i].mod) \/ (i = 1 /\ Fresh(d))
        /\ Works(d.task) => d.task.mod <= q[i].mod

\* No other modification is open, unless the drive is still to hear that it
\* was cancelled.
OpenIsKnown(c, q, d) ==
    \A m \in Mods : Open(d, q, m) => Approved(c, m) \/ Pending(c, m) \/ Announced(q, "cancel", m)

\* What is cancelled is newer than what the drive catches up with.
CancelsAreNewer(q, d) ==
    \A i \in 1..Len(q) : q[i].type = "cancel" =>
        /\ d.catchReq < q[i].mod
        /\ d.task.kind = "catchup" => d.task.mod < q[i].mod

\* The approved modifications that are not open are accounted for.
Expects(c, q, d, a) ==
    \A z \in Mods : Approved(c, z) => Open(d, q, z) \/ c.sizeAt[z] <= a.expected

Ledger(c, q, d, a) ==
    /\ PendingOpen(c, q, d) /\ ApprovalsOpen(q, d) /\ OpenIsKnown(c, q, d)
    /\ CancelsAreNewer(q, d)
    /\ Works(d.task) => d.cancelReq = 0
    /\ Expects(c, q, d, a)

\* Uploads o cover what the chain approved for their modification, or is going
\* to approve.
Covers(c, o) ==
    /\ o \in Uploads /\ o.id <= c.issued
    /\ \A i \in 1..Len(c.pending) : o.id <= c.pending[i]
    /\ Approved(c, o.id) => c.sizeAt[o.id] <= o.sum
    /\ Pending(c, o.id) => c.sizeAt[c.last] + Size[o.id] <= o.sum

\* What the files k and the accounts a know of uploads, and the opinions s that
\* were handed on.
Remembered(k, a) == {k.approved, k.notApproved, k.opinion, a.approved, a.notApproved}

Books(c, s, k, a) == \A o \in s \cup Remembered(k, a) : Covers(c, o)

Tended(c, q, d, a) ==
    ClosingLast(c, q, d) /\ IdleIsIdle(d) /\ (~Closing(d) => Ledger(c, q, d, a))

Accounted ==
    /\ Typed
    /\ ChainSizes(chain) /\ EventPairs(chain, inbox)
    /\ up = "up" => Tended(chain, inbox, drive, acct)
    /\ Books(chain, sent, disk, acct)

------------------------------------------------------------------------------
(* II. Helpers *)

\* The tail of the inbox.
LEMMA TailAt ==
    ASSUME NEW q \in Seq(Events), q # <<>>, NEW t, t = Tail(q)
    PROVE  /\ t \in Seq(Events) /\ Len(q) \in Nat /\ Len(t) = Len(q) - 1 /\ 1 \in 1..Len(q)
           /\ Head(q) = q[1]
           /\ \A i \in 1..Len(t) : i + 1 \in 1..Len(q) /\ t[i] = q[i + 1]
<1>1. /\ Len(q) \in Nat /\ Len(q) # 0 /\ t \in Seq(Events) /\ Len(t) = Len(q) - 1
      /\ \A i \in 1..Len(t) : t[i] = q[i + 1]
  BY EmptySeq, LenProperties, HeadTailProperties
<1>2. Head(q) = q[1]  OBVIOUS
<1> QED  BY <1>1, <1>2

\* The account after an operation on it.
LEMMA AccountFields ==
    ASSUME NEW a \in Accounts, NEW n \in Nat, NEW m \in ModOrZero
    PROVE  /\ a.expected \in Nat /\ a.approved \in Uploads /\ a.notApproved \in Uploads
           /\ IncreaseExpected(a, n).expected = a.expected + n
           /\ IncreaseExpected(a, n).approved = a.approved
           /\ IncreaseExpected(a, n).notApproved = a.notApproved
           /\ UpdateUploads(a, m, n).expected = a.expected
           /\ UpdateUploads(a, m, n).approved = a.approved
           /\ UpdateUploads(a, m, n).notApproved.id = m
           /\ UpdateUploads(a, m, n).notApproved.sum = a.expected + n
           /\ ApproveUploads(a).approved = a.notApproved
           /\ ApproveUploads(a).notApproved = a.notApproved
           /\ ApproveUploads(a).expected \in Nat
           /\ a.expected <= ApproveUploads(a).expected
           /\ a.notApproved.sum <= ApproveUploads(a).expected
           /\ DisapproveUploads(a).expected = a.expected
           /\ DisapproveUploads(a).approved = a.approved
           /\ DisapproveUploads(a).notApproved = a.approved
<1>1. /\ a.expected \in Nat /\ a.approved \in Uploads /\ a.notApproved \in Uploads
      /\ a.notApproved.sum \in Nat
  BY DEF Accounts, Uploads
<1>2. /\ IncreaseExpected(a, n).expected = a.expected + n
      /\ IncreaseExpected(a, n).approved = a.approved
      /\ IncreaseExpected(a, n).notApproved = a.notApproved
  BY DEF IncreaseExpected, Accounts
<1>3. /\ UpdateUploads(a, m, n).expected = a.expected
      /\ UpdateUploads(a, m, n).approved = a.approved
      /\ UpdateUploads(a, m, n).notApproved.id = m
      /\ UpdateUploads(a, m, n).notApproved.sum = a.expected + n
  BY DEF UpdateUploads, Accounts
<1>4. /\ ApproveUploads(a).approved = a.notApproved
      /\ ApproveUploads(a).notApproved = a.notApproved
      /\ ApproveUploads(a).expected \in {a.expected, a.notApproved.sum}
      /\ a.expected <= ApproveUploads(a).expected
      /\ a.notApproved.sum <= ApproveUploads(a).expected
  BY <1>1 DEF ApproveUploads, Accounts
<1>5. /\ DisapproveUploads(a).expected = a.expected
      /\ DisapproveUploads(a).approved = a.approved
      /\ DisapproveUploads(a).notApproved = a.approved
  BY DEF DisapproveUploads, Accounts
<1> QED  BY <1>1, <1>2, <1>3, <1>4, <1>5

\* The sizes of a queue are added one by one: h is the sum of the first ones.
AddsUp(s, h) ==
    /\ TotalSize(s) = h[Len(s)] /\ h[0] = 0
    /\ \A i \in 0..Len(s) : h[i] \in Nat
    /\ \A i \in 1..Len(s) : h[i] = h[i - 1] + Size[s[i]]

LEMMA TotalSizeSteps == ASSUME NEW s \in Seq(Mods)  PROVE \E h : AddsUp(s, h)
<1>1. PICK n : n = Len(s)  OBVIOUS
<1>2. n \in Nat /\ \A i \in 1..n : s[i] \in Mods  BY <1>1, LenProperties, ElementOfSeq
<1>3. \A i \in 1..n : Size[s[i]] \in Nat  BY <1>2, DriveAssumption
<1>4. \E f : Totals(s, n, f)
  <2>1. \E f \in [0..n -> Nat] : Totals(s, n, f)  BY <1>2, <1>3, TotalsExist
  <2> QED  BY <2>1
<1>5. PICK h : h = CHOOSE f : Totals(s, n, f)  OBVIOUS
<1>6. Totals(s, n, h)  BY <1>4, <1>5, Zenon
<1>7. TotalSize(s) = h[n]  BY <1>1, <1>5, Zenon DEF TotalSize, Totals
<1>8. \A i \in 0..n : h[i] = IF i = 0 THEN 0 ELSE h[i - 1] + Size[s[i]]
  <2>1. PICK g : g = [i \in 0..n |-> IF i = 0 THEN 0 ELSE h[i - 1] + Size[s[i]]]  OBVIOUS
  <2>2. h = g  BY <1>6, <2>1, Zenon DEF Totals
  <2>3. \A i \in 0..n : g[i] = IF i = 0 THEN 0 ELSE h[i - 1] + Size[s[i]]  BY <2>1
  <2> QED  BY <2>2, <2>3, Zenon
<1> DEFINE N == {k \in Nat : k \in 0..n => h[k] \in Nat}
<1>9. 0 \in N  BY <1>8
<1>10. ASSUME NEW k \in Nat, k \in N  PROVE k + 1 \in N
  <2> SUFFICES ASSUME k + 1 \in 0..n  PROVE h[k + 1] \in Nat
    OBVIOUS
  <2>1. k \in 0..n /\ k + 1 \in 1..n /\ k + 1 # 0 /\ (k + 1) - 1 = k  BY <1>2
  <2>2. h[k] \in Nat /\ Size[s[k + 1]] \in Nat  BY <1>3, <1>10, <2>1
  <2>3. h[k + 1] = h[k] + Size[s[k + 1]]  BY <1>8, <2>1
  <2> QED  BY <2>2, <2>3
<1>11. N = Nat
  <2>1. N \in SUBSET Nat  OBVIOUS
  <2> HIDE DEF N
  <2> QED  BY <1>9, <1>10, <2>1, NumberInduction
<1>12. \A i \in 0..n : h[i] \in Nat
  <2> SUFFICES ASSUME NEW i \in 0..n  PROVE h[i] \in Nat
    OBVIOUS
  <2>1. i \in Nat  BY <1>2
  <2>2. i \in N  BY <1>11, <2>1
  <2> QED  BY <2>2
<1>13. h[0] = 0 /\ \A i \in 1..n : h[i] = h[i - 1] + Size[s[i]]
  <2>1. 0 \in 0..n /\ \A i \in 1..n : i \in 0..n /\ i # 0  BY <1>2
  <2> QED  BY <1>8, <2>1
<1>14. AddsUp(s, h)  BY <1>1, <1>7, <1>12, <1>13 DEF AddsUp
<1> QED  BY <1>14

------------------------------------------------------------------------------
(* III. What runCatchingUpTask drops *)

\* If the first p requests of a queue are approved, and what was approved before
\* them is among them or accounted for with x, then x and the sizes of the p
\* requests account for each of them.
LEMMA SkippedSizes ==
    ASSUME NEW c \in Chains, ChainSizes(c), NEW s \in Seq(Mods), Increasing(s),
           NEW p \in 0..Len(s), NEW x \in Nat, NEW t, t = SubSeq(s, 1, p),
           \A i \in 1..p : Approved(c, s[i]),
           \A i \in 1..p, z \in Mods : Approved(c, z) /\ z < s[i] =>
              c.sizeAt[z] <= x \/ \E j \in 1..Len(s) : s[j] = z
    PROVE  \A i \in 1..p : c.sizeAt[s[i]] <= x + TotalSize(t)
<1>1. Len(s) \in Nat /\ p \in Nat /\ p <= Len(s) /\ \A i \in 1..Len(s) : s[i] \in Mods
  BY LenProperties, ElementOfSeq
<1>2. t \in Seq(Mods) /\ Len(t) = p /\ \A i \in 1..p : t[i] = s[i]
  <2>1. t \in Seq(Mods) /\ \A i \in 1..p : t[i] = s[i]
    BY <1>1, SubSeqOfSeq
  <2> QED  BY <2>1, PrefixLen
<1>3. PICK h : /\ TotalSize(t) = h[p] /\ h[0] = 0
               /\ \A i \in 0..p : h[i] \in Nat
               /\ \A i \in 1..p : h[i] = h[i - 1] + Size[t[i]]
  <2>1. \E h : AddsUp(t, h)  BY <1>2, TotalSizeSteps
  <2>2. PICK h : AddsUp(t, h)  BY <2>1
  <2> QED  BY <1>2, <2>2 DEF AddsUp
<1>4. \A z \in ModOrZero : c.sizeAt[z] \in Nat  BY DEF Chains
<1> DEFINE N == {n \in Nat : n <= p => \A i \in 1..n : c.sizeAt[s[i]] <= x + h[n]}
<1>5. 0 \in N  OBVIOUS
<1>6. ASSUME NEW n \in Nat, n \in N  PROVE n + 1 \in N
  <2> SUFFICES ASSUME n + 1 <= p, NEW i \in 1..(n + 1)
               PROVE  c.sizeAt[s[i]] <= x + h[n + 1]
    OBVIOUS
  <2>1. PICK m : m = s[n + 1]  OBVIOUS
  <2>2. n + 1 \in 1..p /\ n + 1 \in 1..Len(s) /\ n \in 0..p /\ (n + 1) - 1 = n
    BY <1>1
  <2>3. m \in Mods /\ Approved(c, m) /\ Size[m] \in Nat /\ h[n] \in Nat
        /\ h[n + 1] = h[n] + Size[m]
    BY <1>1, <1>2, <1>3, <2>1, <2>2, DriveAssumption
  <2>4. \A j \in 1..n : c.sizeAt[s[j]] <= x + h[n] /\ c.sizeAt[s[j]] \in Nat
    <3>1. n <= p  BY <1>1
    <3>2. \A j \in 1..n : s[j] \in ModOrZero  BY <1>1, ModTypes
    <3> QED  BY <1>4, <1>6, <3>1, <3>2
  <2>5. CASE i \in 1..n
    BY <2>3, <2>4, <2>5
  <2>6. CASE i = n + 1
    <3>1. PICK y \in ModOrZero : /\ y = 0 \/ Approved(c, y)
                                 /\ y < m /\ c.sizeAt[m] = c.sizeAt[y] + Size[m]
      BY <2>3 DEF ChainSizes
    <3>2. c.sizeAt[y] \in Nat /\ c.sizeAt[y] <= x + h[n]
      <4>1. CASE y = 0  BY <1>4, <2>3, <3>1, <4>1 DEF ChainSizes
      <4>2. CASE y # 0
        <5>1. y \in Mods /\ y \in Int  BY <3>1, <4>2, ModTypes
        <5>2. CASE c.sizeAt[y] <= x  BY <1>4, <2>3, <3>1, <5>2
        <5>3. CASE \E j \in 1..Len(s) : s[j] = y
          <6>1. PICK j \in 1..Len(s) : s[j] = y  BY <5>3
          <6>2. j < n + 1
            <7>1. CASE j = n + 1  BY <2>1, <3>1, <5>1, <6>1, <7>1
            <7>2. CASE n + 1 < j
              <8>1. m < y  BY <2>1, <2>2, <6>1, <7>2 DEF Increasing
              <8> QED  BY <2>3, <3>1, <5>1, <8>1, ModTypes
            <7> QED  BY <1>1, <7>1, <7>2
          <6>3. j \in 1..n  BY <1>1, <6>2
          <6> QED  BY <2>4, <6>1, <6>3
        <5> QED  BY <2>1, <2>2, <3>1, <4>2, <5>1, <5>2, <5>3
      <4> QED  BY <4>1, <4>2
    <3> QED  BY <2>1, <2>3, <2>6, <3>1, <3>2
  <2> QED  BY <1>1, <2>5, <2>6
<1>7. N = Nat
  <2>1. N \in SUBSET Nat  OBVIOUS
  <2> HIDE DEF N
  <2> QED  BY <1>5, <1>6, <2>1, NumberInduction
<1>8. p \in N  BY <1>1, <1>7
<1> QED  BY <1>1, <1>3, <1>8

------------------------------------------------------------------------------
(* IV. Steps that open and close nothing *)

\* What waits is newer than everything the drive has, and what is requested is
\* newer than the queue.
LEMMA WaitingOrder ==
    ASSUME NEW c, NEW q, NEW d, NEW k, Good(c, q, d, k), Order(c, q, d, k)
    PROVE  /\ \A m : Waits(d, q, m) =>
                 /\ m \in Mods /\ m \in Int /\ m <= c.issued /\ d.last < m
                 /\ d.task.kind \in Updating => d.task.mod < m
           /\ \A w : Requested(q, w) =>
                 /\ w \in Mods /\ d.catchReq < w
                 /\ \A m \in Mods : Deferred(d, m) => m < w
<1>1. \A m : Waits(d, q, m) => m \in Mods /\ m \in Int  BY QueueTypes, ModTypes
<1>2. \A w : Requested(q, w) =>
          /\ NewRequest(c, d, k, w) /\ d.catchReq < w
          /\ \A m \in Mods : Deferred(d, m) => m < w
  BY DEF Requested, Order, InboxOrder, EventOrder
<1>3. \A m \in Mods : Deferred(d, m) => NewRequest(c, d, k, m)
  BY DEF Order, QueueOrder
<1>4. \A m : Waits(d, q, m) => NewRequest(c, d, k, m)
  BY <1>1, <1>2, <1>3 DEF Waits
<1> QED  BY <1>1, <1>2, <1>4 DEF NewRequest, Waits

\* What is pending is neither approved nor cancelled.
LEMMA PendingIsNew ==
    ASSUME NEW c, ChainInv(c)
    PROVE  \A m : Pending(c, m) => /\ m \in Mods /\ m \in Int /\ c.last < m /\ m <= c.issued
                                  /\ m \notin c.cancelled /\ ~Approved(c, m)
<1> SUFFICES ASSUME NEW m, Pending(c, m)
             PROVE  /\ m \in Mods /\ m \in Int /\ c.last < m /\ m <= c.issued
                    /\ m \notin c.cancelled /\ ~Approved(c, m)
  OBVIOUS
<1>1. PICK i \in 1..Len(c.pending) : c.pending[i] = m  BY DEF Pending
<1>2. c.pending \in Seq(Mods) /\ c.last \in Int  BY ChainTypes
<1>3. m \in Mods /\ m \in Int  BY <1>1, <1>2, ElementOfSeq, ModTypes
<1>4. c.last < m /\ m <= c.issued /\ m \notin c.cancelled  BY <1>1 DEF ChainInv
<1> QED  BY <1>2, <1>3, <1>4, ApprovedBound

\* In drive e the same modifications are open as in d.
SameOpen(d, e) ==
    /\ e.deferred = d.deferred /\ e.catchReq = d.catchReq
    /\ Works(e.task) <=> Works(d.task)
    /\ Works(e.task) => e.task.mod = d.task.mod /\ e.cancelReq = 0
    /\ e.task.kind = "catchup" => d.task.kind = "catchup" /\ e.task.mod = d.task.mod
    /\ d.task.kind \in {"init", "none", "cancel"} => e.task.kind \in {"init", "none", "cancel"}

\* At least as much is expected.
Expected(a, b) == a.expected \in Nat /\ b.expected \in Nat /\ a.expected <= b.expected

\* A sum that covers a size still does if it grows.
LEMMA StillExpected ==
    ASSUME NEW c \in Chains, NEW a, NEW b, Expected(a, b), NEW z \in ModOrZero,
           c.sizeAt[z] <= a.expected
    PROVE  c.sizeAt[z] <= b.expected
<1>1. c.sizeAt[z] \in Nat  BY DEF Chains
<1> QED  BY <1>1 DEF Expected

LEMMA SameOpenLedger ==
    ASSUME NEW c \in Chains, NEW q, NEW d, NEW a, Ledger(c, q, d, a),
           NEW e, SameOpen(d, e), NEW b, Expected(a, b)
    PROVE  Ledger(c, q, e, b)
<1>1. \A m : Open(e, q, m) <=> Open(d, q, m)
  BY DEF SameOpen, Open, Waits, Deferred
<1>2. PendingOpen(c, q, e)
  BY <1>1 DEF Ledger, PendingOpen, SameOpen
<1>3. ApprovalsOpen(q, e)
  BY <1>1 DEF Ledger, ApprovalsOpen, SameOpen, Fresh
<1>4. OpenIsKnown(c, q, e) /\ CancelsAreNewer(q, e)
  BY <1>1 DEF Ledger, OpenIsKnown, CancelsAreNewer, SameOpen
<1>5. Expects(c, q, e, b)
  BY <1>1, StillExpected, ModTypes DEF Ledger, Expects
<1> QED  BY <1>2, <1>3, <1>4, <1>5 DEF Ledger, SameOpen

------------------------------------------------------------------------------
(* V. The next task *)

RunsCancel(d, e) ==
    /\ e.deferred = d.deferred /\ e.catchReq = d.catchReq
    /\ e.task.kind = "cancel" /\ e.task.step = "disapprove"

\* What runNextTask starts, and what becomes of the accounts.
LEMMA StartedTask ==
    ASSUME NEW d \in Drives, NEW a, NEW e, e = RunNextTask(d), NEW b, b = RunNextAccount(d, a)
    PROVE  /\ d.closeReq => e.task.kind = "close" /\ e.task.step = "remove"
           /\ ~d.closeReq =>
                 /\ e.cancelReq = 0 /\ ~e.closeReq /\ e.last = d.last
                 /\ ~e.task.interrupted /\ e.task.cancels = {}
                 /\ \/ d.cancelReq # 0 /\ RunsCancel(d, e) /\ b = DisapproveUploads(a)
                    \/ /\ d.cancelReq = 0 /\ RunsCatchUp(d, e)
                       /\ b = IncreaseExpected(a, TotalSize(Skipped(d)))
                    \/ d.cancelReq = 0 /\ (RunsModify(d, e) \/ RunsNothing(d, e)) /\ b = a
<1>1. CASE d.cancelReq = 0
  <2>1. /\ e.last = d.last /\ e.cancelReq = 0 /\ e.task.cancels = {}
        /\ e.task.interrupted = FALSE
        /\ \/ RunsClose(d, e)
           \/ ~d.closeReq /\ (RunsCatchUp(d, e) \/ RunsModify(d, e) \/ RunsNothing(d, e))
    BY <1>1, RunNextCases
  <2>2. RunsCatchUp(d, e) => d.catchReq # 0 /\ ~e.closeReq  BY DEF RunsCatchUp
  <2>3. RunsModify(d, e) \/ RunsNothing(d, e) => d.catchReq = 0 /\ ~e.closeReq
    BY DEF RunsModify, RunsNothing
  <2>4. RunsClose(d, e) => d.closeReq /\ e.task.kind = "close" /\ e.task.step = "remove"
    BY DEF RunsClose
  <2>5. ~d.closeReq => b = IF d.catchReq # 0 THEN IncreaseExpected(a, TotalSize(Skipped(d)))
                           ELSE a
    BY <1>1, Zenon DEF RunNextAccount
  <2> QED  BY <1>1, <2>1, <2>2, <2>3, <2>4, <2>5
<1>2. CASE d.cancelReq # 0
  <2> DEFINE n == [d EXCEPT !.task = NoTask]
             v == IF n.verifyReq # NoVerification /\ n.last = n.verifyReq
                  THEN RunVerificationTask(n) ELSE n
             Same(x) ==
                /\ DOMAIN x = {"task", "deferred", "catchReq", "cancelReq", "closeReq",
                               "verifyReq", "verifyTask", "root", "last"}
                /\ x.deferred = d.deferred /\ x.catchReq = d.catchReq
                /\ x.cancelReq = d.cancelReq /\ x.closeReq = d.closeReq
                /\ x.last = d.last
  <2>1. Same(n)  BY TaskShape
  <2> HIDE DEF n
  <2>2. Same(v)  BY <2>1 DEF RunVerificationTask
  <2> HIDE DEF v
  <2>3. CASE d.closeReq
    <3>1. e = RunCloseDriveTask(n)  BY <2>1, <2>3 DEF RunNextTask, n
    <3>2. e.task = NewTask("close", 0, "remove")  BY <3>1, <2>1 DEF RunCloseDriveTask
    <3>3. e.task.kind = "close" /\ e.task.step = "remove"  BY <3>2 DEF NewTask
    <3> QED  BY <2>3, <3>3
  <2>4. CASE ~d.closeReq
    <3>1. e = RunCancelModificationTask(v)
      BY <1>2, <2>1, <2>4 DEF RunNextTask, n, v
    <3>2. /\ e.task = NewTask("cancel", v.cancelReq, "disapprove")
          /\ e.deferred = v.deferred /\ e.catchReq = v.catchReq /\ e.last = v.last
          /\ e.cancelReq = 0 /\ e.closeReq = v.closeReq
      BY <3>1, <2>2 DEF RunCancelModificationTask
    <3>3. /\ e.task.kind = "cancel" /\ e.task.step = "disapprove"
          /\ e.task.cancels = {} /\ e.task.interrupted = FALSE
      BY <3>2 DEF NewTask
    <3>4. b = DisapproveUploads(a)  BY <1>2, <2>4 DEF RunNextAccount
    <3> QED  BY <1>2, <2>2, <2>4, <3>2, <3>3, <3>4 DEF RunsCancel
  <2> QED  BY <2>3, <2>4
<1> QED  BY <1>1, <1>2

\* The first modification of the queue becomes the one at work.
LEMMA RunsModifyLedger ==
    ASSUME NEW c, NEW q, NEW d, NEW k, Good(c, q, d, k), Order(c, q, d, k),
           NEW a, Ledger(c, q, d, a), ~Works(d.task),
           NEW e, RunsModify(d, e), ~e.task.interrupted, e.cancelReq = 0
    PROVE  Ledger(c, q, e, a)
<1>1. PICK h : h = Head(d.deferred)  OBVIOUS
<1>2. /\ h \in Mods /\ Deferred(d, h)
      /\ \A m \in Mods : Deferred(e, m) => Deferred(d, m) /\ h < m
      /\ \A m \in Mods : Deferred(d, m) => Deferred(e, m) \/ m = h
  BY <1>1, QueueTypes, FirstDeferred DEF Order, QueueOrder, RunsModify
<1>3. Works(e.task) /\ e.task.mod = h  BY <1>1 DEF RunsModify, Works
<1>4. \A m : Waits(d, q, m) => m \in Mods /\ h <= m
  BY <1>2, WaitingOrder, ModTypes DEF Waits
<1>5. \A m \in Mods : Open(e, q, m) <=> Open(d, q, m)
  BY <1>2, <1>3 DEF Open, Waits
<1>6. \A m \in Mods : Open(d, q, m) => h <= m  BY <1>4 DEF Open
<1>7. PendingOpen(c, q, e)
  BY <1>3, <1>5, <1>6 DEF Ledger, PendingOpen
<1>8. ApprovalsOpen(q, e)
  <2>1. ~Fresh(d)  BY DEF RunsModify, Fresh
  <2>2. \A i \in 1..Len(q) : q[i].type = "approve" => Open(d, q, q[i].mod) /\ q[i].mod \in Mods
    BY <2>1, ApprovedBound, ModTypes, QueueTypes
       DEF Ledger, ApprovalsOpen, Good, InboxInv, EventInv
  <2> QED  BY <1>3, <1>5, <1>6, <2>2 DEF ApprovalsOpen
<1>9. OpenIsKnown(c, q, e) /\ CancelsAreNewer(q, e)
  BY <1>5 DEF Ledger, OpenIsKnown, CancelsAreNewer, RunsModify
<1>10. Expects(c, q, e, a)  BY <1>5 DEF Ledger, Expects
<1> QED  BY <1>7, <1>8, <1>9, <1>10 DEF Ledger

\* A catch-up drops the requests up to its modification, and expects their sizes.
LEMMA RunsCatchUpLedger ==
    ASSUME NEW c, NEW q, NEW d, NEW k, Good(c, q, d, k), Order(c, q, d, k), ChainSizes(c),
           NEW a \in Accounts, Ledger(c, q, d, a), ~Works(d.task),
           NEW e, RunsCatchUp(d, e), NEW b, b = IncreaseExpected(a, TotalSize(Skipped(d)))
    PROVE  Ledger(c, q, e, b)
<1>1. PICK s, x, p, t, v : /\ s = d.deferred /\ x = d.catchReq /\ p = Position(s, x)
                           /\ t = SubSeq(s, 1, p) /\ v = a.expected
  OBVIOUS
<1>2. /\ x \in Mods /\ x \in Int /\ Approved(c, x) /\ x <= c.last
      /\ c \in Chains /\ c.last \in Int
  <2>1. x \in ModOrZero /\ x # 0 /\ Approved(c, x)
    BY <1>1, DriveNumbers DEF RunsCatchUp, Good, DriveInv, DriveIsApproved
  <2> QED  BY <2>1, ApprovedBound, ChainTypes, ModTypes DEF Good
<1>3. /\ s \in Seq(Mods) /\ Increasing(s) /\ Len(s) \in Nat
      /\ \A i \in 1..Len(s) : s[i] \in Mods /\ s[i] \in Int
  BY <1>1, QueueTypes, ModTypes DEF Order, QueueOrder
<1>4. /\ p \in 0..Len(s) /\ (p # 0 => s[p] = x)
      /\ (\E i \in 1..Len(s) : s[i] = x) => p # 0
  <2>1. p \in 0..Len(s) /\ ((\E i \in DOMAIN s : s[i] = x) => p # 0 /\ s[p] = x)
    BY <1>1, <1>3, PositionType
  <2>2. DOMAIN s = 1..Len(s)  BY <1>3, LenProperties
  <2>3. p # 0 => \E i \in DOMAIN s : s[i] = x  BY <1>1 DEF Position
  <2> QED  BY <2>1, <2>2, <2>3
<1>5. v \in Nat /\ b.expected = v + TotalSize(t) /\ TotalSize(t) \in Nat
  <2>1. t \in Seq(Mods)
    <3>1. p \in Int /\ 1 <= 1 /\ p <= Len(s)  BY <1>3, <1>4
    <3> QED  BY <1>1, <1>3, <3>1, SubSeqOfSeq
  <2>2. TotalSize(t) \in Nat  BY <2>1, TotalSizeType
  <2>3. Skipped(d) = t  BY <1>1 DEF Skipped
  <2> QED  BY <1>1, <2>2, <2>3, AccountFields, ModTypes
<1>6. \A w : Requested(q, w) => x < w  BY <1>1, WaitingOrder
<1>7. \A m \in Mods : Deferred(d, m) <=> \E i \in 1..Len(s) : s[i] = m
  BY <1>1 DEF Deferred
<1>8. /\ \A m \in Mods : Deferred(e, m) => Deferred(d, m) /\ x < m
      /\ \A m \in Mods : Deferred(d, m) /\ x < m => Deferred(e, m)
  <2>1. Deferred(d, x) \/ \A m \in Mods : Deferred(d, m) => x < m
    <3>1. Covered(d, q, x)  BY <1>1 DEF Order, CoverOrder, RunsCatchUp
    <3> QED  BY <1>2, <1>6, <3>1 DEF Covered, Waits
  <2>2. e.deferred = SubSeq(d.deferred,
                            Len(SubSeq(d.deferred, 1, Position(d.deferred, x))) + 1,
                            Len(d.deferred))
    BY <1>1 DEF RunsCatchUp, Skipped
  <2> QED  BY <1>1, <1>2, <1>3, <2>1, <2>2, RestDeferred
<1>9. ~Works(e.task) /\ e.task.mod = x /\ e.catchReq = 0  BY <1>1 DEF RunsCatchUp, Works
<1>10. /\ \A m \in Mods : Open(e, q, m) => Open(d, q, m)
       /\ \A m \in Mods : Open(d, q, m) /\ x < m => Open(e, q, m)
       /\ \A m \in Mods : Open(d, q, m) /\ ~(x < m) => \E i \in 1..Len(s) : s[i] = m
  BY <1>6, <1>7, <1>8, <1>9 DEF Open, Waits
<1>11. PendingOpen(c, q, e)
  BY <1>2, <1>9, <1>10, PendingIsNew DEF Ledger, PendingOpen, Good
<1>12. ApprovalsOpen(q, e)
  <2>1. ~Fresh(d)  BY DEF RunsCatchUp, Fresh
  <2>2. \A i \in 1..Len(q) : q[i].type = "approve" =>
           Open(d, q, q[i].mod) /\ q[i].mod \in Mods /\ x < q[i].mod
    BY <1>1, <2>1, ApprovedBound, ModTypes, QueueTypes
       DEF Ledger, ApprovalsOpen, Good, InboxInv, EventInv, Order, InboxOrder, EventOrder
  <2> QED  BY <1>9, <1>10, <2>2 DEF ApprovalsOpen
<1>13. OpenIsKnown(c, q, e)  BY <1>10 DEF Ledger, OpenIsKnown
<1>14. CancelsAreNewer(q, e)
  <2>1. \A i \in 1..Len(q) : q[i].type = "cancel" => q[i].mod \in Mods /\ x < q[i].mod
    BY <1>1 DEF Ledger, CancelsAreNewer, Good, InboxInv, EventInv
  <2> QED  BY <1>9, <2>1, ModTypes DEF CancelsAreNewer
<1>15. \A i \in 1..p : s[i] \in Mods /\ s[i] \in Int /\ s[i] <= x /\ Approved(c, s[i])
  <2> SUFFICES ASSUME NEW i \in 1..p
               PROVE  s[i] \in Mods /\ s[i] \in Int /\ s[i] <= x /\ Approved(c, s[i])
    OBVIOUS
  <2>1. p # 0 /\ i \in 1..Len(s) /\ p \in 1..Len(s) /\ (i < p \/ i = p)  BY <1>3, <1>4
  <2>2. s[i] \in Mods /\ s[i] \in Int /\ s[i] <= x
    BY <1>2, <1>3, <1>4, <2>1 DEF Increasing
  <2>3. Open(d, q, s[i])  BY <1>7, <2>1, <2>2 DEF Open, Waits
  <2>4. ~Pending(c, s[i])  BY <1>2, <2>2, PendingIsNew DEF Good
  <2>5. ~Announced(q, "cancel", s[i])
    <3>1. \A j \in 1..Len(q) : q[j].type = "cancel" => x < q[j].mod
      BY <1>1 DEF Ledger, CancelsAreNewer
    <3> QED  BY <1>2, <2>2, <3>1 DEF Announced
  <2> QED  BY <2>2, <2>3, <2>4, <2>5 DEF Ledger, OpenIsKnown
<1>16. \A i \in 1..p, z \in Mods : Approved(c, z) /\ z < s[i] =>
          c.sizeAt[z] <= v \/ \E j \in 1..Len(s) : s[j] = z
  <2> SUFFICES ASSUME NEW i \in 1..p, NEW z \in Mods, Approved(c, z), z < s[i]
               PROVE  c.sizeAt[z] <= v \/ \E j \in 1..Len(s) : s[j] = z
    OBVIOUS
  <2>1. ~(x < z)  BY <1>2, <1>15, ModTypes
  <2> QED  BY <1>1, <1>10, <2>1 DEF Ledger, Expects
<1>17. \A i \in 1..p : c.sizeAt[s[i]] <= v + TotalSize(t)
  <2>1. c \in Chains /\ ChainSizes(c) /\ s \in Seq(Mods) /\ Increasing(s) /\ p \in 0..Len(s)
        /\ v \in Nat /\ t = SubSeq(s, 1, p)
    BY <1>1, <1>2, <1>3, <1>4, <1>5
  <2>2. \A i \in 1..p : Approved(c, s[i])  BY <1>15
  <2> QED  BY ONLY <1>16, <2>1, <2>2, SkippedSizes, Zenon
<1>18. Expects(c, q, e, b)
  <2> SUFFICES ASSUME NEW z \in Mods, Approved(c, z), ~Open(e, q, z)
               PROVE  c.sizeAt[z] <= b.expected
    BY DEF Expects
  <2>1. CASE ~Open(d, q, z)
    <3>1. c.sizeAt[z] <= v  BY <1>1, <2>1 DEF Ledger, Expects
    <3>2. c.sizeAt[z] \in Nat  BY <1>2, ModTypes DEF Chains
    <3> QED  BY <1>5, <3>1, <3>2
  <2>2. CASE Open(d, q, z)
    <3>1. ~(x < z)  BY <1>10, <2>2
    <3>2. PICK i \in 1..Len(s) : s[i] = z  BY <1>10, <2>2, <3>1
    <3>3. p # 0 /\ s[p] = x /\ p \in 1..Len(s)
      <4>1. Deferred(d, x) \/ \A m \in Mods : Deferred(d, m) => x < m
        <5>1. Covered(d, q, x)  BY <1>1 DEF Order, CoverOrder, RunsCatchUp
        <5> QED  BY <1>2, <1>6, <5>1 DEF Covered, Waits
      <4>2. Deferred(d, z)  BY <1>7, <3>2
      <4>3. Deferred(d, x)  BY <3>1, <4>1, <4>2
      <4> QED  BY <1>2, <1>3, <1>4, <1>7, <4>3
    <3>4. i \in 1..p
      <4>1. ASSUME p < i  PROVE FALSE
        <5>1. s[p] < s[i]  BY <1>3, <3>3, <4>1 DEF Increasing
        <5> QED  BY <3>1, <3>2, <3>3, <5>1
      <4> QED  BY <1>3, <3>3, <4>1
    <3> QED  BY <1>5, <1>17, <3>2, <3>4
  <2> QED  BY <2>1, <2>2
<1> QED  BY <1>9, <1>11, <1>12, <1>13, <1>14, <1>18 DEF Ledger

\* The next task, if there is one, leaves the accounts in order.
LEMMA RunNextLedger ==
    ASSUME NEW c, NEW q, NEW d, NEW k, Good(c, q, d, k), Order(c, q, d, k), ChainSizes(c),
           NEW a \in Accounts, Ledger(c, q, d, a), ~Works(d.task), ~d.closeReq,
           NEW e, e = RunNextTask(d), NEW b, b = RunNextAccount(d, a)
    PROVE  Ledger(c, q, e, b) /\ Expected(a, b)
<1>1. d \in Drives /\ c \in Chains
  BY ChainTypes DEF Good, DriveInv, DriveIsApproved
<1>2. /\ e.cancelReq = 0 /\ ~e.task.interrupted
      /\ \/ RunsCancel(d, e) /\ b = DisapproveUploads(a)
         \/ RunsCatchUp(d, e) /\ b = IncreaseExpected(a, TotalSize(Skipped(d)))
         \/ (RunsModify(d, e) \/ RunsNothing(d, e)) /\ b = a
  BY <1>1, StartedTask
<1>3. CASE RunsCancel(d, e) /\ b = DisapproveUploads(a)
  <2>1. SameOpen(d, e)  BY <1>3 DEF RunsCancel, SameOpen, Works
  <2>2. Expected(a, b)  BY <1>3, AccountFields, ModTypes DEF Expected
  <2> QED  BY <1>1, <2>1, <2>2, SameOpenLedger
<1>4. CASE RunsCatchUp(d, e) /\ b = IncreaseExpected(a, TotalSize(Skipped(d)))
  <2>1. Ledger(c, q, e, b)  BY <1>4, RunsCatchUpLedger
  <2>2. TotalSize(Skipped(d)) \in Nat
    <3>1. d.deferred \in Seq(Mods) /\ Len(d.deferred) \in Nat  BY QueueTypes
    <3>2. PICK p : p = Position(d.deferred, d.catchReq)  OBVIOUS
    <3>3. p \in 0..Len(d.deferred)  BY <3>1, <3>2, PositionType
    <3>4. p \in Int /\ 1 <= 1 /\ p <= Len(d.deferred)  BY <3>1, <3>3
    <3>5. SubSeq(d.deferred, 1, p) \in Seq(Mods)  BY <3>1, <3>4, SubSeqOfSeq
    <3>6. Skipped(d) \in Seq(Mods)  BY <3>2, <3>5 DEF Skipped
    <3> QED  BY <3>6, TotalSizeType
  <2>3. Expected(a, b)
    BY <1>4, <2>2, AccountFields, ModTypes DEF Expected
  <2> QED  BY <2>1, <2>3
<1>5. CASE RunsModify(d, e) /\ b = a
  <2>1. Expected(a, b)  BY <1>5, AccountFields, ModTypes DEF Expected
  <2> QED  BY <1>2, <1>5, <2>1, RunsModifyLedger
<1>6. CASE RunsNothing(d, e) /\ b = a
  <2>1. SameOpen(d, e)  BY <1>6 DEF RunsNothing, SameOpen, Works
  <2>2. Expected(a, b)  BY <1>6, AccountFields, ModTypes DEF Expected
  <2> QED  BY <1>1, <2>1, <2>2, SameOpenLedger
<1> QED  BY <1>2, <1>3, <1>4, <1>5, <1>6

------------------------------------------------------------------------------
(* VI. Steps of the tasks *)

\* What a step of a task leaves alone, apart from the last approved modification.
Goes(d, e) ==
    /\ e.deferred = d.deferred /\ e.catchReq = d.catchReq
    /\ e.cancelReq = d.cancelReq /\ e.closeReq = d.closeReq
    /\ e.task.kind = d.task.kind /\ e.task.mod = d.task.mod
    /\ e.task.interrupted = d.task.interrupted /\ e.task.cancels = d.task.cancels

LEMMA SteppedGoes ==
    ASSUME NEW d \in Drives, NEW t, NEW e, Stepped(d, e, t)
    PROVE  Goes(d, e) /\ e.task.step = t /\ e.last = d.last
<1>1. CASE e = [d EXCEPT !.task.step = t]  BY <1>1, TaskShape DEF Goes
<1>2. CASE e = [d EXCEPT !.task.step = t, !.task.listed = TRUE]
  BY <1>2, TaskShape DEF Goes
<1>3. CASE \E r : e = [d EXCEPT !.task.root = r, !.task.step = t]
  <2>1. PICK r : e = [d EXCEPT !.task.root = r, !.task.step = t]  BY <1>3
  <2> QED  BY <2>1, TaskShape DEF Goes
<1>4. CASE e = [d EXCEPT !.task.calculated = TRUE, !.task.step = t]
  BY <1>4, TaskShape DEF Goes
<1> QED  BY <1>1, <1>2, <1>3, <1>4 DEF Stepped

\* The task goes on, and works on its modification as before.
LEMMA GoesTended ==
    ASSUME NEW c \in Chains, NEW q, NEW d, NEW a, Tended(c, q, d, a),
           NEW e, Goes(d, e), d.task.kind # "close",
           Works(e.task) <=> Works(d.task), NEW b, Expected(a, b)
    PROVE  Tended(c, q, e, b)
<1>1. Closing(e) <=> Closing(d)  BY DEF Goes, Closing
<1>2. ClosingLast(c, q, e) /\ IdleIsIdle(e)
  BY <1>1 DEF Tended, ClosingLast, IdleIsIdle, Goes
<1>3. ASSUME ~Closing(e)  PROVE Ledger(c, q, e, b)
  <2>1. Ledger(c, q, d, a)  BY <1>1, <1>3 DEF Tended
  <2>2. SameOpen(d, e)  BY <2>1 DEF Goes, SameOpen, Ledger
  <2> QED  BY <2>1, <2>2, SameOpenLedger
<1> QED  BY <1>2, <1>3 DEF Tended

\* What is left to show of a step of a task.
LEMMA TaskAccounted ==
    ASSUME Accounted, Typed', chain' = chain, inbox' = inbox,
           Tended(chain, inbox, drive', acct'), Books(chain, sent', disk', acct')
    PROVE  Accounted'
  BY DEF Accounted

\* A step that saves what is known, or passes it on.
LEMMA MoveAccounted ==
    ASSUME Safe, Accounted, Typed', chain' = chain, inbox' = inbox, up = "up",
           Goes(drive, drive'), drive.task.kind \notin {"none", "close"},
           Works(drive'.task) <=> Works(drive.task),
           acct.expected <= acct'.expected,
           sent' \subseteq sent \cup Remembered(disk, acct),
           Remembered(disk', acct') \subseteq Remembered(disk, acct)
    PROVE  Accounted'
<1>1. chain \in Chains  BY SafeGood, ChainTypes DEF Good
<1>2. acct \in Accounts /\ acct' \in Accounts  BY DEF Accounted, Typed
<1>3. Expected(acct, acct')  BY <1>2 DEF Expected, Accounts
<1>4. Tended(chain, inbox, drive', acct')  BY <1>1, <1>3, GoesTended DEF Accounted
<1>5. Books(chain, sent', disk', acct')  BY DEF Accounted, Books
<1> QED  BY <1>4, <1>5, TaskAccounted

\* The downloads and the jobs that save nothing.
LEMMA PlainAccounted ==
    ASSUME Safe, Accounted, Typed',
           \/ ActionListDownloaded \/ PrepareDownloadMissingFiles \/ MissingFilesDownloaded
           \/ FsTreeDownloaded \/ RemoveUnusedFiles \/ CatchUpFilesDownloaded \/ ClearDrive
    PROVE  Accounted'
<1> USE DEF ActionListDownloaded, PrepareDownloadMissingFiles, MissingFilesDownloaded,
            FsTreeDownloaded, RemoveUnusedFiles, CatchUpFilesDownloaded, ClearDrive
<1>1. /\ chain' = chain /\ inbox' = inbox /\ up = "up" /\ acct' = acct /\ disk' = disk
      /\ sent' = sent /\ drive.task.kind \in {"modify", "catchup", "cancel"}
  BY DEF environment, At
<1>2. \E s \in Steps : /\ Stepped(drive, drive', s)
                       /\ drive.task.kind = "modify" =>
                             /\ drive.task.step \in {"list", "prep", "files"}
                             /\ s \in {"prep", "files", "sandbox", "copy"}
  BY DEF CompletedWithError, FinishTask, Steps, Stepped, At
<1>3. PICK s \in Steps : /\ Stepped(drive, drive', s)
                         /\ drive.task.kind = "modify" =>
                             /\ drive.task.step \in {"list", "prep", "files"}
                             /\ s \in {"prep", "files", "sandbox", "copy"}
  BY <1>2
<1>4. Goes(drive, drive') /\ drive'.task.step = s  BY <1>3, SafeGood, SteppedGoes
<1>5. Works(drive'.task) <=> Works(drive.task)  BY <1>3, <1>4 DEF Works, Goes
<1>6. acct.expected <= acct'.expected  BY <1>1 DEF Accounted, Typed, Accounts
<1> QED  BY ONLY Safe, Accounted, Typed', <1>1, <1>4, <1>5, <1>6, MoveAccounted

\* The jobs that save something, but for the modification that replaces the drive.
LEMMA SaveAccounted ==
    ASSUME Safe, Accounted, Typed',
           \/ SaveNotApproved \/ SaveDisapproved \/ SaveApprovedUploads
           \/ CatchUpMoveFsTree \/ MyOpinionIsCreated \/ CatchUpOpinionIsCreated
    PROVE  Accounted'
<1> USE DEF SaveNotApproved, SaveDisapproved, SaveApprovedUploads, CatchUpMoveFsTree,
            MyOpinionIsCreated, CatchUpOpinionIsCreated
<1>1. /\ chain' = chain /\ inbox' = inbox /\ up = "up" /\ acct' = acct
      /\ drive.task.kind \in {"modify", "catchup", "cancel"}
  BY DEF environment, At, Updating
<1>2. \E s \in Steps :
         /\ Stepped(drive, drive', s)
         /\ drive.task.kind = "modify" /\ ~drive.task.interrupted =>
              \/ /\ drive.task.step \notin {"saveUploads", "saveLast", "finish"}
                 /\ s \notin {"saveUploads", "saveLast", "finish"}
              \/ /\ drive.task.step \in {"saveUploads", "saveLast", "finish"}
                 /\ s \in {"saveUploads", "saveLast", "finish"}
  BY DEF FinishTask, Steps, Stepped, At, Updating
<1>3. PICK s \in Steps :
         /\ Stepped(drive, drive', s)
         /\ drive.task.kind = "modify" /\ ~drive.task.interrupted =>
              \/ /\ drive.task.step \notin {"saveUploads", "saveLast", "finish"}
                 /\ s \notin {"saveUploads", "saveLast", "finish"}
              \/ /\ drive.task.step \in {"saveUploads", "saveLast", "finish"}
                 /\ s \in {"saveUploads", "saveLast", "finish"}
  BY <1>2
<1>4. Goes(drive, drive') /\ drive'.task.step = s  BY <1>3, SafeGood, SteppedGoes
<1>5. Works(drive'.task) <=> Works(drive.task)  BY <1>3, <1>4 DEF Works, Goes
<1>6. acct.expected <= acct'.expected  BY <1>1 DEF Accounted, Typed, Accounts
<1>7. sent' \subseteq sent \cup Remembered(disk, acct)  BY DEF Remembered
<1>8. Remembered(disk', acct') \subseteq Remembered(disk, acct)
  <2>1. \/ disk' = [disk EXCEPT !.notApproved = acct.notApproved]
        \/ disk' = [disk EXCEPT !.approved = acct.approved]
        \/ disk' = [disk EXCEPT !.root = drive.task.root]
        \/ disk' = [disk EXCEPT !.opinion = acct.notApproved]
    OBVIOUS
  <2>2. DOMAIN disk = {"root", "last", "approved", "notApproved", "opinion"}
    BY DEF Safe, IInv, DiskInv
  <2> QED  BY ONLY <1>1, <2>1, <2>2 DEF Remembered
<1> QED  BY ONLY Safe, Accounted, Typed', <1>1, <1>4, <1>5, <1>6, <1>7, <1>8, MoveAccounted


\* What was approved before the modification at work is expected; so is the
\* modification of a catch-up.
LEMMA OlderExpected ==
    ASSUME NEW c, NEW q, NEW d, NEW k, Good(c, q, d, k), Order(c, q, d, k), ChainSizes(c),
           NEW a \in Accounts, Ledger(c, q, d, a), d.task.kind \in Updating,
           NEW z \in ModOrZero, z = 0 \/ Approved(c, z),
           z < d.task.mod \/ (d.task.kind = "catchup" /\ z = d.task.mod)
    PROVE  c.sizeAt[z] \in Nat /\ c.sizeAt[z] <= a.expected
<1>1. c \in Chains /\ c.sizeAt[z] \in Nat /\ a.expected \in Nat
  <2>1. c \in Chains  BY ChainTypes DEF Good
  <2> QED  BY <2>1 DEF Chains, Accounts
<1>2. CASE z = 0  BY <1>1, <1>2 DEF ChainSizes
<1>3. CASE z # 0
  <2>1. z \in Mods /\ z \in Int /\ d.task.mod \in Int  BY <1>3, ModTypes, DriveNumbers
  <2>2. ~Waits(d, q, z)  BY <2>1, WaitingOrder
  <2>3. ~Open(d, q, z)  BY <2>1, <2>2 DEF Open, Works
  <2> QED  BY <1>1, <1>3, <2>1, <2>3 DEF Ledger, Expects
<1> QED  BY <1>2, <1>3

\* The uploads that are made for the modification at work cover it: with its
\* own size, or as a part of what is expected already.
LEMMA NewUploadsCover ==
    ASSUME NEW c, NEW q, NEW d, NEW k, Good(c, q, d, k), Order(c, q, d, k), ChainSizes(c),
           NEW a \in Accounts, Ledger(c, q, d, a), d.task.mod \in Mods,
           NEW n \in Nat,
           \/ Works(d.task) /\ n = Size[d.task.mod]
           \/ d.task.kind = "catchup" /\ n = 0,
           NEW o, o.id = d.task.mod, o.sum = a.expected + n, o \in Uploads
    PROVE  Covers(c, o)
<1>1. /\ c \in Chains /\ ChainInv(c) /\ c.last \in ModOrZero /\ a.expected \in Nat
      /\ d.task.kind \in Updating
  BY ChainTypes, AccountFields, ModTypes DEF Good, Works, Updating
<1>2. o.id <= c.issued  BY <1>1 DEF Order, TaskOrder
<1>3. d.task.kind = "catchup" => Approved(c, d.task.mod)
  BY DEF Good, DriveInv, DriveIsApproved, TaskIsApproved
<1>4. \A i \in 1..Len(c.pending) : o.id <= c.pending[i]
  <2> SUFFICES ASSUME NEW i \in 1..Len(c.pending)  PROVE d.task.mod <= c.pending[i]
    OBVIOUS
  <2>1. Pending(c, c.pending[i])  BY DEF Pending
  <2>2. c.pending[i] \in Mods /\ c.pending[i] \in Int /\ c.last < c.pending[i]
    BY <1>1, <2>1, PendingIsNew
  <2>3. CASE Works(d.task)  BY <2>1, <2>2, <2>3 DEF Ledger, PendingOpen
  <2>4. CASE d.task.kind = "catchup"
    BY <1>1, <1>3, <2>2, <2>4, ApprovedBound, ModTypes
  <2> QED  BY <2>3, <2>4
<1>5. ASSUME Approved(c, o.id)  PROVE c.sizeAt[o.id] <= o.sum
  <2>1. CASE d.task.kind = "catchup" /\ n = 0
    <3>1. o.id \in ModOrZero  BY ModTypes
    <3>2. c.sizeAt[o.id] \in Nat /\ c.sizeAt[o.id] <= a.expected
      BY <1>1, <1>5, <2>1, <3>1, OlderExpected
    <3> QED  BY <1>1, <2>1, <3>2
  <2>2. CASE Works(d.task) /\ n = Size[d.task.mod]
    <3>1. PICK y \in ModOrZero : /\ y = 0 \/ Approved(c, y)
                                 /\ y < o.id /\ c.sizeAt[o.id] = c.sizeAt[y] + Size[o.id]
      BY <1>5 DEF ChainSizes
    <3>2. c.sizeAt[y] \in Nat /\ c.sizeAt[y] <= a.expected
      BY <1>1, <3>1, OlderExpected
    <3> QED  BY <1>1, <2>2, <3>1, <3>2
  <2> QED  BY <2>1, <2>2
<1>6. ASSUME Pending(c, o.id)  PROVE c.sizeAt[c.last] + Size[o.id] <= o.sum
  <2>1. c.last < o.id /\ ~Approved(c, o.id)  BY <1>1, <1>6, PendingIsNew
  <2>2. Works(d.task) /\ n = Size[d.task.mod]  BY <1>3, <2>1
  <2>3. c.last = 0 \/ Approved(c, c.last)
    BY <1>1, ModTypes DEF ChainInv, Approved
  <2>4. c.sizeAt[c.last] \in Nat /\ c.sizeAt[c.last] <= a.expected
    BY <1>1, <2>1, <2>3, OlderExpected
  <2> QED  BY <1>1, <2>2, <2>4
<1> QED  BY <1>2, <1>4, <1>5, <1>6 DEF Covers

\* myRootHashIsCalculated
LEMMA RootHashAccounted ==
    ASSUME Safe, Accounted, Typed', NEW r, NEW n \in Nat, MyRootHashIsCalculated(r, n),
           chain' = chain, inbox' = inbox, up = "up", disk' = disk, sent' = sent,
           drive.task.step \in {"sandbox", "copy"},
           \/ drive.task.kind = "modify" /\ n = Size[drive.task.mod]
           \/ drive.task.kind = "catchup" /\ n = 0
    PROVE  Accounted'
<1>1. /\ acct \in Accounts /\ Good(chain, inbox, drive, disk)
      /\ Order(chain, inbox, drive, disk) /\ ChainSizes(chain)
      /\ Tended(chain, inbox, drive, acct) /\ drive \in Drives
  BY SafeGood DEF Accounted, Typed, Safe
<1>2. CASE drive.task.interrupted
  <2>1. drive' = FinishTask(drive) /\ acct' = acct  BY <1>2 DEF MyRootHashIsCalculated
  <2>2. Goes(drive, drive')
    <3>1. Stepped(drive, drive', "finish")  BY <2>1 DEF FinishTask, Stepped
    <3> QED  BY <1>1, <3>1, SteppedGoes
  <2>3. Works(drive'.task) <=> Works(drive.task)  BY <1>2, <2>2 DEF Works, Goes
  <2>4. acct.expected <= acct'.expected  BY <1>1, <2>1 DEF Accounts
  <2>5. Remembered(disk', acct') = Remembered(disk, acct)  BY <2>1
  <2> QED  BY <2>2, <2>3, <2>4, <2>5, MoveAccounted
<1>3. CASE ~drive.task.interrupted
  <2>1. /\ drive' = [drive EXCEPT !.task.root = r, !.task.step = "saveNot"]
        /\ acct' = UpdateUploads(acct, drive.task.mod, n)
    BY <1>3 DEF MyRootHashIsCalculated
  <2>2. Goes(drive, drive') /\ drive'.task.step = "saveNot"
    <3>1. Stepped(drive, drive', "saveNot")  BY <2>1 DEF Stepped
    <3> QED  BY <1>1, <3>1, SteppedGoes
  <2>3. Works(drive'.task) <=> Works(drive.task)  BY <1>3, <2>2 DEF Works, Goes
  <2>4. drive.task.mod \in Mods
    <3>1. Approved(chain, drive.task.mod) => drive.task.mod \in Mods
      BY <1>1, DriveNumbers, ApprovedBound, ModTypes DEF Good
    <3> QED  BY <1>1, <3>1 DEF Good, DriveInv, DriveIsApproved, TaskIsApproved
  <2>5. drive.task.mod \in ModOrZero  BY <2>4, ModTypes
  <2>6. /\ acct'.expected = acct.expected /\ acct.expected \in Nat
        /\ acct'.approved = acct.approved
        /\ acct'.notApproved.id = drive.task.mod
        /\ acct'.notApproved.sum = acct.expected + n
    BY ONLY <1>1, <2>1, <2>5, n \in Nat, AccountFields
  <2>7. Tended(chain, inbox, drive', acct')
    <3>1. chain \in Chains  BY <1>1, ChainTypes DEF Good
    <3>2. Expected(acct, acct')  BY <2>6 DEF Expected
    <3> QED  BY <1>1, <2>2, <2>3, <3>1, <3>2, GoesTended
  <2>8. Ledger(chain, inbox, drive, acct)
    <3>1. ~Closing(drive)
      BY <1>1, <1>3 DEF Tended, ClosingLast, Updating, Closing
    <3> QED  BY <1>1, <3>1 DEF Tended
  <2>9. Covers(chain, acct'.notApproved)
    <3>1. acct'.notApproved \in Uploads  BY DEF Typed, Accounts
    <3>2. drive.task.kind = "modify" => Works(drive.task)  BY <1>3 DEF Works
    <3> QED  BY <1>1, <2>4, <2>6, <2>8, <3>1, <3>2, NewUploadsCover
  <2>10. Books(chain, sent', disk', acct')
    <3>1. \A o \in sent \cup Remembered(disk, acct) : Covers(chain, o)  BY DEF Accounted, Books
    <3> QED  BY <2>6, <2>9, <3>1 DEF Books, Remembered
  <2> QED  BY <2>7, <2>10, TaskAccounted
<1> QED  BY <1>2, <1>3

\* The three ways to a sandbox tree.
LEMMA SandboxAccounted ==
    ASSUME Safe, Accounted, Typed',
           ModifyFsTreeInSandbox \/ CopyFsTreeAfterError \/ ModifyDriveInSandbox
    PROVE  Accounted'
<1>1. drive.task.kind = "modify" => drive.task.mod \in Mods /\ Size[drive.task.mod] \in Nat
  BY DriveAssumption DEF Safe, IInv, DriveInv, DriveIsApproved, TaskIsApproved
<1>2. CASE ModifyFsTreeInSandbox
  <2>1. /\ chain' = chain /\ inbox' = inbox /\ up = "up" /\ disk' = disk /\ sent' = sent
        /\ drive.task.kind = "modify" /\ drive.task.step = "sandbox"
    BY <1>2 DEF ModifyFsTreeInSandbox, environment, At
  <2>2. CASE Outcome[Modification] = "space"
    <3>1. drive' = CompletedWithError(drive) /\ acct' = acct
      BY <1>2, <2>2 DEF ModifyFsTreeInSandbox
    <3>2. Goes(drive, drive') /\ drive'.task.step = "copy"
      <4>1. Stepped(drive, drive', "copy")  BY <3>1 DEF CompletedWithError, Stepped
      <4> QED  BY <4>1, SafeGood, SteppedGoes
    <3>3. Works(drive'.task) <=> Works(drive.task)  BY <2>1, <3>2 DEF Works, Goes
    <3>4. acct.expected <= acct'.expected  BY <3>1 DEF Accounted, Typed, Accounts
    <3>5. Remembered(disk', acct') = Remembered(disk, acct)  BY <2>1, <3>1
    <3> QED  BY <2>1, <3>2, <3>3, <3>4, <3>5, MoveAccounted
  <2>3. CASE Outcome[Modification] # "space"
    <3>1. MyRootHashIsCalculated(drive.root \cup {Modification}, Size[Modification])
      BY <1>2, <2>3 DEF ModifyFsTreeInSandbox
    <3> QED  BY <1>1, <2>1, <3>1, RootHashAccounted DEF Modification
  <2> QED  BY <2>2, <2>3
<1>3. CASE CopyFsTreeAfterError
  <2>1. /\ chain' = chain /\ inbox' = inbox /\ up = "up" /\ disk' = disk /\ sent' = sent
        /\ drive.task.kind = "modify" /\ drive.task.step = "copy"
        /\ MyRootHashIsCalculated(drive.root, Size[Modification])
    BY <1>3 DEF CopyFsTreeAfterError, environment, At
  <2> QED  BY <1>1, <2>1, RootHashAccounted DEF Modification
<1>4. CASE ModifyDriveInSandbox
  <2>1. /\ chain' = chain /\ inbox' = inbox /\ up = "up" /\ disk' = disk /\ sent' = sent
        /\ drive.task.kind = "catchup" /\ drive.task.step = "sandbox"
        /\ MyRootHashIsCalculated(ApprovedRoot, 0)
    BY <1>4 DEF ModifyDriveInSandbox, environment, At
  <2> QED  BY <2>1, RootHashAccounted
<1> QED  BY <1>2, <1>3, <1>4


\* The task has given its modification to the drive, and approves its uploads.
LEMMA AppliedLedger ==
    ASSUME NEW c, NEW q, NEW d, NEW k, Good(c, q, d, k), Order(c, q, d, k), ChainSizes(c),
           NEW a, Ledger(c, q, d, a), Applies(d.task), Approved(c, d.task.mod),
           d.task.kind = "modify",
           NEW e, Goes(d, e), ~Works(e.task),
           NEW b, Expected(a, b), c.sizeAt[d.task.mod] <= b.expected
    PROVE  Ledger(c, q, e, b)
<1>1. PICK x : x = d.task.mod  OBVIOUS
<1>2. c \in Chains /\ ChainInv(c)  BY ChainTypes DEF Good
<1>3. /\ \A m : Open(e, q, m) => Open(d, q, m)
      /\ \A m : Open(d, q, m) => Open(e, q, m) \/ m = x
  BY <1>1 DEF Open, Goes, Waits, Deferred
<1>4. PendingOpen(c, q, e)
  <2>1. ~Pending(c, x)  BY <1>1, <1>2, PendingIsNew
  <2> QED  BY <1>3, <2>1 DEF Ledger, PendingOpen
<1>5. ApprovalsOpen(q, e)
  <2>1. \A i \in 1..Len(q) : q[i].type = "approve" => q[i].mod # x
    <3>1. \A i \in 1..Len(q) : q[i].type = "approve" => x < q[i].mod /\ q[i].mod \in ModOrZero
      BY <1>1, QueueTypes DEF Order, InboxOrder, EventOrder
    <3> QED  BY <3>1, ModTypes
  <2>2. ~Fresh(d)  BY DEF Fresh
  <2> QED  BY <1>3, <2>1, <2>2 DEF Ledger, ApprovalsOpen
<1>6. OpenIsKnown(c, q, e) /\ CancelsAreNewer(q, e)
  BY <1>3 DEF Ledger, OpenIsKnown, CancelsAreNewer, Goes
<1>7. Expects(c, q, e, b)
  BY <1>1, <1>2, <1>3, StillExpected, ModTypes DEF Ledger, Expects
<1> QED  BY <1>4, <1>5, <1>6, <1>7 DEF Ledger

\* startSynchronizingDriveWithSandbox of both tasks: the uploads are approved.
LEMMA SynchronizeAccounted ==
    ASSUME Safe, Accounted, Typed', SynchronizeDriveWithSandbox \/ CatchUpSaveLast
    PROVE  Accounted'
<1>1. /\ acct \in Accounts /\ Good(chain, inbox, drive, disk)
      /\ Order(chain, inbox, drive, disk) /\ ChainSizes(chain)
      /\ Tended(chain, inbox, drive, acct) /\ drive \in Drives /\ AccountOrder(drive.task, acct)
      /\ Books(chain, sent, disk, acct)
  BY SafeGood DEF Accounted, Typed, Safe, At, SynchronizeDriveWithSandbox, CatchUpSaveLast
<1>2. /\ chain' = chain /\ inbox' = inbox /\ up = "up" /\ sent' = sent
      /\ drive.task.kind \in Updating /\ drive.task.step \in {"sync", "syncLast"}
      /\ acct' = ApproveUploads(acct) /\ Stepped(drive, drive', "saveUploads")
  BY DEF SynchronizeDriveWithSandbox, CatchUpSaveLast, environment, At, Updating,
         SynchronizationIsCompleted, Stepped
<1>3. Goes(drive, drive') /\ drive'.task.step = "saveUploads"
  BY <1>1, <1>2, SteppedGoes
<1>4. /\ acct'.approved = acct.notApproved /\ acct'.notApproved = acct.notApproved
      /\ acct.notApproved.sum <= acct'.expected /\ acct.notApproved.sum \in Nat
      /\ Expected(acct, acct')
  <2>1. 0 \in ModOrZero /\ 0 \in Nat  BY ModTypes
  <2> QED  BY ONLY <1>1, <1>2, <2>1, AccountFields DEF Expected, Uploads
<1>5. Approved(chain, drive.task.mod) /\ Applies(drive.task)
  BY <1>1, <1>2 DEF Synchronizing, Applies, Good, DriveInv, DriveIsApproved, TaskIsApproved
<1>6. chain.sizeAt[drive.task.mod] <= acct'.expected
  <2>1. acct.notApproved.id = drive.task.mod  BY <1>1, <1>2 DEF AccountOrder
  <2>2. chain.sizeAt[drive.task.mod] <= acct.notApproved.sum
    BY <1>1, <1>5, <2>1 DEF Books, Remembered, Covers
  <2>3. chain \in Chains /\ drive.task.mod \in ModOrZero
    BY <1>1, ChainTypes, DriveNumbers DEF Good
  <2>4. chain.sizeAt[drive.task.mod] \in Nat /\ acct'.expected \in Nat
    BY <1>4, <2>3 DEF Chains, Expected
  <2> QED  BY <1>4, <2>2, <2>4
<1>7. Tended(chain, inbox, drive', acct')
  <2>1. chain \in Chains  BY <1>1, ChainTypes DEF Good
  <2>2. CASE drive.task.kind = "catchup"
    <3>1. Works(drive'.task) <=> Works(drive.task)  BY <1>3, <2>2 DEF Works, Goes
    <3> QED  BY <1>1, <1>3, <1>4, <2>1, <2>2, <3>1, GoesTended
  <2>3. CASE drive.task.kind = "modify"
    <3>1. ~Works(drive'.task)  BY <1>3 DEF Works
    <3>2. ~Closing(drive) => Ledger(chain, inbox, drive', acct')
      BY <1>1, <1>3, <1>4, <1>5, <1>6, <2>3, <3>1, AppliedLedger DEF Tended
    <3>3. Closing(drive') <=> Closing(drive)  BY <1>3 DEF Goes, Closing
    <3>4. ClosingLast(chain, inbox, drive') /\ IdleIsIdle(drive')
      BY <1>1, <1>3, <2>3, <3>3 DEF Tended, ClosingLast, IdleIsIdle, Goes
    <3> QED  BY <3>2, <3>3, <3>4 DEF Tended
  <2> QED  BY <1>2, <2>2, <2>3 DEF Updating
<1>8. Books(chain, sent', disk', acct')
  <2>1. /\ disk'.approved = disk.approved /\ disk'.notApproved = disk.notApproved
        /\ disk'.opinion = disk.opinion
    BY <1>1 DEF SynchronizeDriveWithSandbox, CatchUpSaveLast, Good, DiskInv
  <2> QED  BY <1>1, <1>2, <1>4, <2>1 DEF Books, Remembered
<1> QED  BY <1>2, <1>7, <1>8, TaskAccounted

\* The modification is saved, and the task ends.
LEMMA SaveLastAccounted ==
    ASSUME Safe, Accounted, Typed', SaveLastApproved
    PROVE  Accounted'
<1>1. /\ chain' = chain /\ inbox' = inbox /\ up = "up" /\ acct' = acct /\ sent' = sent
      /\ drive.task.kind \in Updating /\ drive.task.step = "saveLast"
      /\ disk' = [disk EXCEPT !.last = drive.task.mod]
  BY DEF SaveLastApproved, environment, At
<1>2. Goes(drive, drive') /\ drive'.task.step = "finish"
  <2>1. PICK r, m : r = drive.task.root /\ m = drive.task.mod  OBVIOUS
  <2>2. PICK d : d = [drive EXCEPT !.root = r, !.last = m]  OBVIOUS
  <2>3. drive' = FinishTask(d)  BY <2>1, <2>2 DEF SaveLastApproved
  <2>4. /\ DOMAIN d = DOMAIN drive /\ d.task = drive.task
        /\ d.deferred = drive.deferred /\ d.catchReq = drive.catchReq
        /\ d.cancelReq = drive.cancelReq /\ d.closeReq = drive.closeReq
    BY <2>2, SafeGood, TaskShape
  <2>5. drive' = [d EXCEPT !.task.step = "finish"]  BY <2>3 DEF FinishTask
  <2>6. /\ drive'.task = [d.task EXCEPT !.step = "finish"]
        /\ drive'.deferred = d.deferred /\ drive'.catchReq = d.catchReq
        /\ drive'.cancelReq = d.cancelReq /\ drive'.closeReq = d.closeReq
    BY <2>4, <2>5, SafeGood, TaskShape
  <2> QED  BY <2>4, <2>6, SafeGood, TaskShape DEF Goes
<1>3. Works(drive'.task) <=> Works(drive.task)  BY <1>1, <1>2 DEF Works, Goes
<1>4. Remembered(disk', acct') = Remembered(disk, acct)
  <2>1. /\ disk'.approved = disk.approved /\ disk'.notApproved = disk.notApproved
        /\ disk'.opinion = disk.opinion
    BY <1>1 DEF Safe, IInv, DiskInv
  <2> QED  BY <1>1, <2>1 DEF Remembered
<1>5. acct.expected <= acct'.expected  BY <1>1 DEF Accounted, Typed, Accounts
<1> QED  BY <1>1, <1>2, <1>3, <1>4, <1>5, MoveAccounted DEF Updating

\* No uploads at all say nothing of a modification.
LEMMA NoUploadsCovered == ASSUME NEW c, ChainInv(c)  PROVE Covers(c, NoUploads)
<1>1. NoUploads.id = 0 /\ NoUploads \in Uploads  BY ModTypes DEF NoUploads, Uploads
<1>2. ~Approved(c, 0)  BY ApprovedBound
<1>3. ~Pending(c, 0)  BY PendingIsNew, ModTypes
<1>4. 0 <= c.issued  BY ChainTypes, ModTypes
<1>5. \A i \in 1..Len(c.pending) : 0 <= c.pending[i]
  <2>1. \A i \in 1..Len(c.pending) : Pending(c, c.pending[i])  BY DEF Pending
  <2> QED  BY <2>1, PendingIsNew, ModTypes
<1> QED  BY <1>1, <1>2, <1>3, <1>4, <1>5 DEF Covers

\* What the process knows when it does not run.
LEMMA EndAccounted ==
    ASSUME Safe, Accounted, Typed', chain' = chain, up' # "up", inbox' = <<>> \/ inbox' = inbox,
           \A o \in sent' \cup Remembered(disk', acct') :
              o = NoUploads \/ o \in sent \cup Remembered(disk, acct)
    PROVE  Accounted'
<1>1. EventPairs(chain', inbox')  BY DEF Accounted, EventPairs
<1>2. Covers(chain, NoUploads)  BY SafeGood, NoUploadsCovered DEF Good
<1>3. Books(chain', sent', disk', acct')  BY <1>2 DEF Accounted, Books
<1> QED  BY <1>1, <1>3 DEF Accounted

\* The process dies, by a crash or by a null pointer.
LEMMA DieAccounted ==
    ASSUME Safe, Accounted, Typed', chain' = chain, disk' = disk, Die,
           sent' \subseteq sent \cup Remembered(disk, acct)
    PROVE  Accounted'
<1>1. /\ up' # "up" /\ inbox' = <<>>
      /\ acct'.approved = NoUploads /\ acct'.notApproved = NoUploads
  BY DEF Die, NewAccount
<1>2. \A o \in sent' \cup Remembered(disk', acct') :
         o = NoUploads \/ o \in sent \cup Remembered(disk, acct)
  BY <1>1 DEF Remembered
<1> QED  BY <1>1, <1>2, EndAccounted

\* The data of the drive is removed.
LEMMA RemoveAccounted ==
    ASSUME Safe, Accounted, Typed', RemoveAllDriveData \/ RemoveUnusedDrives
    PROVE  Accounted'
<1>1. /\ chain' = chain /\ up' # "up" /\ (inbox' = <<>> \/ inbox' = inbox)
      /\ sent' = sent /\ disk' = EmptyDisk /\ (acct' = NewAccount(0) \/ acct' = acct)
  BY DEF RemoveAllDriveData, RemoveUnusedDrives
<1>2. \A o \in sent' \cup Remembered(disk', acct') :
         o = NoUploads \/ o \in sent \cup Remembered(disk, acct)
  BY <1>1 DEF Remembered, EmptyDisk, NewAccount
<1> QED  BY <1>1, <1>2, EndAccounted


\* The files are read: what they hold of uploads is known from now on.
LEMMA InitializeAccounted ==
    ASSUME Safe, Accounted, Typed', InitializeDrive
    PROVE  Accounted'
<1>1. disk' = disk /\ sent' \subseteq sent \cup Remembered(disk, acct)
  BY DEF InitializeDrive, Remembered
<1>2. CASE Die /\ UNCHANGED <<chain, crashes>>  BY <1>1, <1>2, DieAccounted
<1>3. CASE /\ acct' = [acct EXCEPT !.approved = disk.approved, !.notApproved = disk.notApproved]
           /\ drive' = Initialized([drive EXCEPT !.root = disk.root, !.last = disk.last], acct')
           /\ UNCHANGED environment
  <2>1. /\ chain' = chain /\ inbox' = inbox /\ up = "up" /\ drive.task.kind = "init"
        /\ acct \in Accounts
    BY <1>3 DEF environment, InitializeDrive, At, Accounted, Typed
  <2>2. /\ acct'.expected = acct.expected /\ acct'.approved = disk.approved
        /\ acct'.notApproved = disk.notApproved
    BY <1>3, <2>1 DEF Accounts
  <2>3. /\ drive'.deferred = drive.deferred /\ drive'.catchReq = drive.catchReq
        /\ drive'.closeReq = drive.closeReq /\ drive'.task.kind = "init"
    <3>1. PICK r, l, x : r = disk.root /\ l = disk.last /\ x = acct'.notApproved.id
      OBVIOUS
    <3>2. PICK d : d = [drive EXCEPT !.root = r, !.last = l]  OBVIOUS
    <3>3. PICK e : e = [d EXCEPT !.cancelReq = x]  OBVIOUS
    <3>4. drive' = FinishTask(d) \/ drive' = FinishTask(e)
      BY <1>3, <3>1, <3>2, <3>3 DEF Initialized
    <3>5. drive \in Drives  BY SafeGood
    <3>6. /\ DOMAIN d = DOMAIN drive /\ d.task = drive.task
          /\ d.deferred = drive.deferred /\ d.catchReq = drive.catchReq
          /\ d.closeReq = drive.closeReq
      BY <3>2, <3>5, TaskShape
    <3>7. /\ DOMAIN e = DOMAIN drive /\ e.task = drive.task
          /\ e.deferred = drive.deferred /\ e.catchReq = drive.catchReq
          /\ e.closeReq = drive.closeReq
      BY <3>3, <3>5, <3>6, TaskShape
    <3>8. /\ drive'.deferred = drive.deferred /\ drive'.catchReq = drive.catchReq
          /\ drive'.closeReq = drive.closeReq
          /\ drive'.task = [drive.task EXCEPT !.step = "finish"]
      BY ONLY <3>4, <3>5, <3>6, <3>7, TaskShape DEF FinishTask
    <3> QED  BY <2>1, <3>5, <3>8, TaskShape
  <2>4. Tended(chain, inbox, drive', acct')
    <3>1. Tended(chain, inbox, drive, acct)  BY <2>1 DEF Accounted
    <3>2. Closing(drive') <=> Closing(drive)  BY <2>1, <2>3 DEF Closing
    <3>3. ClosingLast(chain, inbox, drive') /\ IdleIsIdle(drive')
      BY <2>3, <3>1, <3>2 DEF Tended, ClosingLast, IdleIsIdle, Updating
    <3>4. SameOpen(drive, drive')  BY <2>1, <2>3 DEF SameOpen, Works
    <3>5. Expected(acct, acct')  BY <2>1, <2>2 DEF Expected, Accounts
    <3>6. chain \in Chains  BY SafeGood, ChainTypes DEF Good
    <3>7. ~Closing(drive) => Ledger(chain, inbox, drive', acct')
      BY <3>1, <3>4, <3>5, <3>6, SameOpenLedger DEF Tended
    <3> QED  BY <3>2, <3>3, <3>7 DEF Tended
  <2>5. Books(chain, sent', disk', acct')
    BY <1>1, <2>2 DEF Books, Remembered, Accounted
  <2> QED  BY <2>1, <2>4, <2>5, TaskAccounted
<1> QED  BY <1>2, <1>3 DEF InitializeDrive

\* Whatever runNextTask starts is tended to.
LEMMA RunNextTended ==
    ASSUME NEW c, NEW q, NEW d, NEW k, Good(c, q, d, k), Order(c, q, d, k), ChainSizes(c),
           NEW a \in Accounts, ~Works(d.task), d.closeReq => c.closed /\ q = <<>>,
           ~d.closeReq => Ledger(c, q, d, a),
           NEW e, e = RunNextTask(d), NEW b, b = RunNextAccount(d, a)
    PROVE  Tended(c, q, e, b)
<1>1. d \in Drives  BY DEF Good, DriveInv, DriveIsApproved
<1>2. CASE d.closeReq
  <2>1. e.task.kind = "close" /\ e.task.step = "remove"  BY <1>1, <1>2, StartedTask
  <2> QED  BY <1>2, <2>1 DEF Tended, ClosingLast, IdleIsIdle, Closing, Updating
<1>3. CASE ~d.closeReq
  <2>1. Ledger(c, q, e, b)  BY <1>3, RunNextLedger
  <2>2. /\ e.cancelReq = 0 /\ ~e.closeReq
        /\ RunsCancel(d, e) \/ RunsCatchUp(d, e) \/ RunsModify(d, e) \/ RunsNothing(d, e)
    BY <1>1, <1>3, StartedTask
  <2>3. ~Closing(e) /\ IdleIsIdle(e)
    BY <2>2 DEF RunsCancel, RunsCatchUp, RunsModify, RunsNothing, Closing, IdleIsIdle
  <2> QED  BY <2>1, <2>3 DEF Tended, ClosingLast
<1> QED  BY <1>2, <1>3

\* No uploads get lost by what runNextTask does to the accounts.
LEMMA RunNextBooks ==
    ASSUME NEW d \in Drives, NEW a \in Accounts, NEW b, b = RunNextAccount(d, a)
    PROVE  b.approved = a.approved /\ b.notApproved \in {a.approved, a.notApproved}
<1>1. \/ b = a \/ b = DisapproveUploads(a)
      \/ b = IncreaseExpected(a, TotalSize(Skipped(d)))
  BY DEF RunNextAccount
<1> QED  BY <1>1 DEF DisapproveUploads, IncreaseExpected, Accounts

\* The sandbox was cleared, and the next task runs.
LEMMA FinishAccounted ==
    ASSUME Safe, Accounted, Typed', FinishAndRunNextTask
    PROVE  Accounted'
<1>1. /\ chain' = chain /\ inbox' = inbox /\ up = "up" /\ disk' = disk /\ sent' = sent
      /\ drive.task.step = "finish"
      /\ drive' = RunNextTask(drive) /\ acct' = RunNextAccount(drive, acct)
  BY DEF FinishAndRunNextTask, environment, At
<1>2. /\ acct \in Accounts /\ Good(chain, inbox, drive, disk)
      /\ Order(chain, inbox, drive, disk) /\ ChainSizes(chain)
      /\ Tended(chain, inbox, drive, acct) /\ drive \in Drives
  BY <1>1, SafeGood DEF Accounted, Typed, Safe
<1>3. ~Works(drive.task)  BY <1>1 DEF Works
<1>4. drive.task.kind # "close"
  BY <1>1, <1>2 DEF Tended, ClosingLast, Closing
<1>5. /\ drive.closeReq => chain.closed /\ inbox = <<>>
      /\ ~drive.closeReq => Ledger(chain, inbox, drive, acct)
  BY <1>2, <1>4 DEF Tended, ClosingLast, Closing
<1>6. Tended(chain, inbox, drive', acct')  BY <1>1, <1>2, <1>3, <1>5, RunNextTended
<1>7. Books(chain, sent', disk', acct')
  BY <1>1, <1>2, RunNextBooks DEF Accounted, Books, Remembered
<1> QED  BY <1>1, <1>6, <1>7, TaskAccounted


------------------------------------------------------------------------------
(* VII. Events *)

\* Whatever is taken, the cancellations behind it are still announced.
LEMMA CancelStays ==
    ASSUME NEW q \in Seq(Events), q # <<>>, NEW h, h = Head(q), NEW t, t = Tail(q)
    PROVE  \A m : Announced(q, "cancel", m) /\ (h.type = "cancel" => h.mod # m)
                  => Announced(t, "cancel", m)
<1>1. /\ Len(q) \in Nat /\ 1 \in 1..Len(q) /\ h = q[1] /\ Len(t) = Len(q) - 1
      /\ \A i \in 1..Len(t) : i + 1 \in 1..Len(q) /\ t[i] = q[i + 1]
  BY TailAt
<1> SUFFICES ASSUME NEW m, h.type = "cancel" => h.mod # m,
                    NEW i \in 1..Len(q), q[i].type = "cancel", q[i].mod = m
             PROVE  Announced(t, "cancel", m)
  BY DEF Announced
<1>2. i # 1  BY <1>1
<1>3. i - 1 \in 1..Len(t) /\ (i - 1) + 1 = i  BY <1>1, <1>2
<1>4. t[i - 1] = q[i]  BY <1>1, <1>3
<1> QED  BY <1>3, <1>4 DEF Announced

\* An event other than a request or a cancellation is taken.
LEMMA TakenLedger ==
    ASSUME NEW c, NEW q \in Seq(Events), q # <<>>, NEW h, h = Head(q), NEW t, t = Tail(q),
           h.type \notin {"modify", "cancel"}, NEW d, NEW a, Ledger(c, q, d, a)
    PROVE  /\ Ledger(c, t, d, a)
           /\ \A i \in 1..Len(t) : t[i].type = "approve" => Open(d, t, t[i].mod)
           /\ h.type = "approve" /\ Works(d.task) => d.task.mod <= h.mod
<1>1. /\ Len(q) \in Nat /\ 1 \in 1..Len(q) /\ h = q[1] /\ Len(t) = Len(q) - 1
      /\ \A i \in 1..Len(t) : i + 1 \in 1..Len(q) /\ t[i] = q[i + 1]
  BY TailAt
<1>2. \A m : Requested(q, m) <=> Requested(t, m)  BY FirstEvent
<1>3. \A m : Open(d, t, m) <=> Open(d, q, m)  BY <1>2 DEF Open, Waits
<1>4. \A m : Announced(q, "cancel", m) => Announced(t, "cancel", m)
  <2> SUFFICES ASSUME NEW m, NEW i \in 1..Len(q), q[i].type = "cancel", q[i].mod = m
               PROVE  Announced(t, "cancel", m)
    BY DEF Announced
  <2>1. i # 1  BY <1>1
  <2>2. i - 1 \in 1..Len(t) /\ (i - 1) + 1 = i  BY <1>1, <2>1
  <2>3. t[i - 1] = q[i]  BY <1>1, <2>2
  <2> QED  BY <2>2, <2>3 DEF Announced
<1>5. PendingOpen(c, t, d)  BY <1>3 DEF Ledger, PendingOpen
<1>6. \A i \in 1..Len(t) : t[i].type = "approve" =>
          Open(d, t, t[i].mod) /\ (Works(d.task) => d.task.mod <= t[i].mod)
  <2> SUFFICES ASSUME NEW i \in 1..Len(t), t[i].type = "approve"
               PROVE  Open(d, t, t[i].mod) /\ (Works(d.task) => d.task.mod <= t[i].mod)
    OBVIOUS
  <2>1. i + 1 \in 1..Len(q) /\ i + 1 # 1 /\ q[i + 1] = t[i]  BY <1>1
  <2>2. Open(d, q, q[i + 1].mod) /\ (Works(d.task) => d.task.mod <= q[i + 1].mod)
    BY <2>1 DEF Ledger, ApprovalsOpen
  <2> QED  BY <1>3, <2>1, <2>2
<1>7. OpenIsKnown(c, t, d)  BY <1>3, <1>4 DEF Ledger, OpenIsKnown
<1>8. CancelsAreNewer(t, d)  BY <1>1 DEF Ledger, CancelsAreNewer
<1>9. Expects(c, t, d, a)  BY <1>3 DEF Ledger, Expects
<1>10. h.type = "approve" /\ Works(d.task) => d.task.mod <= h.mod
  BY <1>1 DEF Ledger, ApprovalsOpen
<1> QED  BY <1>5, <1>6, <1>7, <1>8, <1>9, <1>10 DEF Ledger, ApprovalsOpen

\* What is left to show of a handler.
LEMMA HandlerAccounted ==
    ASSUME Safe, Accounted, Typed', NEW s, Take(s), EventPairs(chain, inbox'),
           Tended(chain, inbox', drive', acct'), Books(chain, sent', disk, acct')
    PROVE  Accounted'
  BY DEF Accounted, Take

\* A drive that takes an event is not being closed; the closing of the drive
\* is the last event.
LEMMA Taken ==
    ASSUME Safe, Accounted, NEW s, Take(s)
    PROVE  /\ inbox \in Seq(Events) /\ inbox # <<>> /\ inbox' = Tail(inbox)
           /\ Head(inbox).type = s /\ Head(inbox) \in Events
           /\ ~Closing(drive) /\ IdleIsIdle(drive) /\ Ledger(chain, inbox, drive, acct)
           /\ EventPairs(chain, inbox')
           /\ \A i \in 1..Len(inbox') : EventPair(Head(inbox), inbox'[i])
           /\ s = "close" => inbox' = <<>> /\ chain.closed
<1>1. /\ inbox # <<>> /\ inbox' = Tail(inbox) /\ Head(inbox).type = s /\ up = "up"
  BY DEF Take
<1>2. inbox \in Seq(Events) /\ Head(inbox) \in Events
  BY <1>1, HeadInv DEF Safe, IInv, InboxInv
<1>3. PICK q, t, h : q = inbox /\ t = inbox' /\ h = Head(inbox)  OBVIOUS
<1>4. /\ Len(q) \in Nat /\ 1 \in 1..Len(q) /\ h = q[1] /\ Len(t) = Len(q) - 1
      /\ \A i \in 1..Len(t) : i + 1 \in 1..Len(q) /\ t[i] = q[i + 1]
      /\ t \in Seq(Events)
  BY <1>1, <1>2, <1>3, TailAt
<1>5. EventPairs(chain, q)  BY <1>3 DEF Accounted
<1>6. EventPairs(chain, t)
  <2>1. \A i, j \in 1..Len(t) : i < j => i + 1 < j + 1  BY <1>4
  <2> QED  BY <1>4, <1>5, <2>1 DEF EventPairs
<1>7. \A i \in 1..Len(t) : EventPair(h, t[i])
  <2>1. \A i \in 1..Len(t) : 1 < i + 1  BY <1>4
  <2> QED  BY <1>4, <1>5, <2>1 DEF EventPairs
<1>8. s = "close" => t = <<>> /\ chain.closed
  <2>1. ASSUME s = "close"  PROVE Len(t) = 0
    <3>1. ASSUME Len(t) # 0  PROVE FALSE
      <4>1. 1 \in 1..Len(t)  BY <1>4, <3>1
      <4>2. EventPair(h, t[1])  BY <1>7, <4>1
      <4> QED  BY <1>1, <1>3, <2>1, <4>2 DEF EventPair
    <3> QED  BY <3>1
  <2>2. s = "close" => t = <<>>  BY <1>4, <2>1, EmptySeq
  <2>3. s = "close" => chain.closed  BY <1>1, <1>3, <1>4, <1>5 DEF EventPairs
  <2> QED  BY <2>2, <2>3
<1>9. Tended(chain, inbox, drive, acct)  BY <1>1 DEF Accounted
<1>10. ~Closing(drive)  BY <1>1, <1>9 DEF Tended, ClosingLast
<1> QED  BY <1>1, <1>2, <1>3, <1>6, <1>7, <1>8, <1>9, <1>10 DEF Tended

\* What verifications leave alone.
LEMMA VerificationGoes ==
    ASSUME NEW d \in Drives, NEW m
    PROVE  /\ Goes(d, CancelVerification(d)) /\ CancelVerification(d).task = d.task
           /\ Goes(d, RunVerificationTask(d)) /\ RunVerificationTask(d).task = d.task
           /\ Goes(d, [d EXCEPT !.verifyReq = m]) /\ [d EXCEPT !.verifyReq = m].task = d.task
           /\ Goes(d, RunVerificationTask([d EXCEPT !.verifyReq = m]))
           /\ RunVerificationTask([d EXCEPT !.verifyReq = m]).task = d.task
<1>1. Goes(d, CancelVerification(d)) /\ CancelVerification(d).task = d.task
  BY TaskShape DEF CancelVerification, Goes
<1>2. Goes(d, RunVerificationTask(d)) /\ RunVerificationTask(d).task = d.task
  BY TaskShape DEF RunVerificationTask, Goes
<1>3. PICK e : e = [d EXCEPT !.verifyReq = m]  OBVIOUS
<1>4. Goes(d, e) /\ e.task = d.task /\ DOMAIN e = DOMAIN d  BY <1>3, TaskShape DEF Goes
<1>5. Goes(e, RunVerificationTask(e)) /\ RunVerificationTask(e).task = e.task
  BY <1>4, TaskShape DEF RunVerificationTask, Goes
<1>6. Goes(d, RunVerificationTask(e))  BY <1>4, <1>5 DEF Goes
<1> QED  BY <1>1, <1>2, <1>3, <1>4, <1>5, <1>6

\* The start and the end of a verification.
LEMMA OnVerifyAccounted ==
    ASSUME Safe, Accounted, Typed', OnVerify \/ OnVerified
    PROVE  Accounted'
<1>1. acct' = acct /\ sent' = sent /\ (Take("verify") \/ Take("verified"))
  BY DEF OnVerify, OnVerified
<1>2. PICK s \in {"verify", "verified"} : Take(s)  BY <1>1
<1>3. PICK m : m = Head(inbox).mod  OBVIOUS
<1>4. \/ drive' = CancelVerification(drive) \/ drive' = [drive EXCEPT !.verifyReq = m]
      \/ drive' = RunVerificationTask([drive EXCEPT !.verifyReq = m])
  BY <1>3, Zenon DEF OnVerify, OnVerified
<1>5. Goes(drive, drive') /\ drive'.task = drive.task
  <2>1. drive \in Drives  BY SafeGood
  <2>2. CASE drive' = CancelVerification(drive)
    BY ONLY <2>1, <2>2, VerificationGoes
  <2>3. CASE drive' = [drive EXCEPT !.verifyReq = m]
    BY ONLY <2>1, <2>3, VerificationGoes
  <2>4. CASE drive' = RunVerificationTask([drive EXCEPT !.verifyReq = m])
    BY ONLY <2>1, <2>4, VerificationGoes
  <2> QED  BY <1>4, <2>2, <2>3, <2>4
<1>6. Tended(chain, inbox', drive, acct)
  <2>1. Ledger(chain, inbox', drive, acct)  BY <1>2, Taken, TakenLedger
  <2> QED  BY <1>2, <2>1, Taken DEF Tended, ClosingLast
<1>7. Tended(chain, inbox', drive', acct')
  <2>1. chain \in Chains /\ Expected(acct, acct')
    BY <1>1, SafeGood, ChainTypes DEF Good, Expected, Accounted, Typed, Accounts
  <2>2. drive.task.kind # "close"  BY <1>2, Taken DEF Closing
  <2> QED  BY <1>5, <1>6, <2>1, <2>2, GoesTended
<1>8. Books(chain, sent', disk, acct')  BY <1>1 DEF Accounted
<1> QED  BY <1>2, <1>7, <1>8, Taken, HandlerAccounted

\* A handler ends with runNextTask, if no task is running.
LEMMA ThenRunTended ==
    ASSUME NEW q, NEW d, NEW a \in Accounts, Good(chain, q, d, disk),
           Order(chain, q, d, disk), ChainSizes(chain), ThenRunIfIdle(d, a),
           d.task.kind # "close",
           d.closeReq => /\ chain.closed /\ q = <<>>
                         /\ d.task.kind \in Updating => d.task.interrupted,
           ~d.closeReq => Ledger(chain, q, d, a)
    PROVE  /\ Tended(chain, q, drive', acct')
           /\ acct'.approved = a.approved /\ acct'.notApproved \in {a.approved, a.notApproved}
<1>1. CASE HasTask(d)
  <2>1. drive' = d /\ acct' = a  BY <1>1 DEF ThenRunIfIdle
  <2>2. Tended(chain, q, d, a)
    BY <1>1 DEF Tended, ClosingLast, Closing, IdleIsIdle, HasTask
  <2> QED  BY <2>1, <2>2
<1>2. CASE ~HasTask(d)
  <2>1. drive' = RunNextTask(d) /\ acct' = RunNextAccount(d, a)
    BY <1>2 DEF ThenRunIfIdle
  <2>2. ~Works(d.task)  BY <1>2 DEF HasTask, Works
  <2>3. Tended(chain, q, drive', acct')  BY <2>1, <2>2, RunNextTended
  <2>4. d \in Drives  BY DEF Good, DriveInv, DriveIsApproved
  <2> QED  BY <2>1, <2>3, <2>4, RunNextBooks
<1> QED  BY <1>1, <1>2


\* A request goes into the queue of the drive: it is as open as before.
LEMMA RequestOpens ==
    ASSUME NEW q \in Seq(Events), q # <<>>, NEW h, h = Head(q), NEW t, t = Tail(q),
           h.type = "modify", NEW d \in Drives, h.mod \in Mods,
           NEW e, e.deferred = Append(d.deferred, h.mod), e.task = d.task
    PROVE  \A m : Open(e, t, m) <=> Open(d, q, m)
<1>1. d.deferred \in Seq(Mods)  BY DEF Drives
<1>2. PICK s, w, x : s = d.deferred /\ w = e.deferred /\ x = h.mod  OBVIOUS
<1>3. /\ Len(s) \in Nat /\ Len(w) = Len(s) + 1 /\ w[Len(s) + 1] = x
      /\ \A i \in 1..Len(s) : w[i] = s[i]
  BY <1>1, <1>2, AppendProperties, LenProperties
<1>4. /\ \A i \in 1..Len(w) : i \in 1..Len(s) \/ i = Len(s) + 1
      /\ \A i \in 1..Len(s) : i \in 1..Len(w)
      /\ Len(s) + 1 \in 1..Len(w)
  BY <1>3
<1>5. \A m : (\E i \in 1..Len(w) : w[i] = m) <=> (\E i \in 1..Len(s) : s[i] = m) \/ m = x
  BY <1>3, <1>4
<1>6. \A m : Deferred(e, m) <=> Deferred(d, m) \/ m = h.mod  BY <1>2, <1>5 DEF Deferred
<1>7. \A m : Requested(q, m) <=> Requested(t, m) \/ m = h.mod  BY FirstEvent
<1> QED  BY <1>6, <1>7 DEF Open, Waits

\* The accounts with it are in order.
LEMMA RequestLedger ==
    ASSUME NEW c, NEW q \in Seq(Events), q # <<>>, NEW h, h = Head(q), NEW t, t = Tail(q),
           h.type = "modify", NEW d \in Drives, NEW a, Ledger(c, q, d, a), h.mod \in Mods,
           NEW e, e.deferred = Append(d.deferred, h.mod), e.catchReq = d.catchReq,
           e.cancelReq = d.cancelReq, e.task = d.task
    PROVE  Ledger(c, t, e, a)
<1>1. /\ Len(q) \in Nat /\ 1 \in 1..Len(q) /\ h = q[1] /\ Len(t) = Len(q) - 1
      /\ \A i \in 1..Len(t) : i + 1 \in 1..Len(q) /\ t[i] = q[i + 1]
  BY TailAt
<1>2. \A m : Open(e, t, m) <=> Open(d, q, m)
  BY ONLY q \in Seq(Events), q # <<>>, h = Head(q), t = Tail(q), h.type = "modify",
          d \in Drives, h.mod \in Mods, e.deferred = Append(d.deferred, h.mod),
          e.task = d.task, RequestOpens
<1>3. \A m : Announced(q, "cancel", m) => Announced(t, "cancel", m)  BY CancelStays
<1>4. PendingOpen(c, t, e)  BY <1>2 DEF Ledger, PendingOpen
<1>5. ApprovalsOpen(t, e)
  <2> SUFFICES ASSUME NEW i \in 1..Len(t), t[i].type = "approve"
               PROVE  Open(e, t, t[i].mod) /\ (Works(e.task) => e.task.mod <= t[i].mod)
    BY DEF ApprovalsOpen
  <2>1. i + 1 \in 1..Len(q) /\ i + 1 # 1 /\ q[i + 1] = t[i]  BY <1>1
  <2>2. Open(d, q, q[i + 1].mod) /\ (Works(d.task) => d.task.mod <= q[i + 1].mod)
    BY <2>1 DEF Ledger, ApprovalsOpen
  <2> QED  BY <1>2, <2>1, <2>2
<1>6. OpenIsKnown(c, t, e)  BY <1>2, <1>3 DEF Ledger, OpenIsKnown
<1>7. CancelsAreNewer(t, e)  BY <1>1 DEF Ledger, CancelsAreNewer
<1>8. Expects(c, t, e, a)  BY <1>2 DEF Ledger, Expects
<1> QED  BY <1>4, <1>5, <1>6, <1>7, <1>8 DEF Ledger

\* The first part of the invariant and the order of a request that was taken.
LEMMA RequestTaken ==
    ASSUME Safe, Take("modify"),
           NEW d, d = [drive EXCEPT !.deferred = Append(drive.deferred, Head(inbox).mod)]
    PROVE  /\ d.deferred = Append(drive.deferred, Head(inbox).mod)
           /\ d.catchReq = drive.catchReq /\ d.cancelReq = drive.cancelReq
           /\ d.closeReq = drive.closeReq /\ d.last = drive.last /\ d.task = drive.task
           /\ Good(chain, inbox', d, disk) /\ Order(chain, inbox', d, disk)
           /\ Head(inbox).mod \in Mods
<1>0. Good(chain, inbox, drive, disk) /\ Tidy /\ drive \in Drives  BY SafeGood
<1>1. PICK m : m = Head(inbox).mod  OBVIOUS
<1>2. m \in Mods  BY <1>1, HeadInv DEF Take, EventInv, Safe
<1>3. drive.deferred \in Seq(Mods)  BY <1>0 DEF Drives
<1>4. Append(drive.deferred, m) \in Seq(Mods)  BY <1>2, <1>3, AppendProperties
<1>5. DriveInv(chain, d)
  BY <1>1, <1>4 DEF Safe, IInv, DriveInv, DriveIsApproved, Drives
<1>6. /\ d.deferred = Append(drive.deferred, m) /\ d.catchReq = drive.catchReq
      /\ d.cancelReq = drive.cancelReq /\ d.closeReq = drive.closeReq
      /\ d.last = drive.last /\ d.task = drive.task
  BY <1>0, <1>1, TaskShape
<1>7. inbox # <<>> /\ Head(inbox).type = "modify" /\ inbox' = Tail(inbox)
  BY DEF Take
<1>8. PICK h, t : h = Head(inbox) /\ t = Tail(inbox)  OBVIOUS
<1>9. h.type = "modify" /\ d.deferred = Append(drive.deferred, h.mod) /\ inbox' = t
  BY <1>1, <1>6, <1>7, <1>8
<1>10. Order(chain, t, d, disk)
  BY <1>0, <1>6, <1>7, <1>8, <1>9, RequestOrder DEF Tidy
<1>11. Good(chain, inbox', d, disk)  BY <1>5, HandlerGood
<1> QED  BY <1>1, <1>2, <1>6, <1>9, <1>10, <1>11

\* startModifyDrive
LEMMA OnModifyAccounted ==
    ASSUME Safe, Accounted, Typed', OnModify
    PROVE  Accounted'
<1>1. PICK d : d = [drive EXCEPT !.deferred = Append(drive.deferred, Head(inbox).mod)]
  OBVIOUS
<1>2. Take("modify") /\ ThenRunIfIdle(d, acct) /\ sent' = sent
  BY <1>1, SafeGood, TaskShape DEF OnModify
<1>3. /\ d.deferred = Append(drive.deferred, Head(inbox).mod)
      /\ d.catchReq = drive.catchReq /\ d.cancelReq = drive.cancelReq
      /\ d.closeReq = drive.closeReq /\ d.last = drive.last /\ d.task = drive.task
      /\ Good(chain, inbox', d, disk) /\ Order(chain, inbox', d, disk)
      /\ Head(inbox).mod \in Mods
  BY <1>1, <1>2, RequestTaken
<1>4. /\ inbox \in Seq(Events) /\ inbox # <<>> /\ inbox' = Tail(inbox)
      /\ Head(inbox).type = "modify" /\ ~Closing(drive)
      /\ Ledger(chain, inbox, drive, acct) /\ EventPairs(chain, inbox')
  BY <1>2, Taken
<1>5. Ledger(chain, inbox', d, acct)
  <2>1. PICK h, t : h = Head(inbox) /\ t = inbox'  OBVIOUS
  <2>2. drive \in Drives  BY SafeGood
  <2> QED  BY <1>3, <1>4, <2>1, <2>2, RequestLedger
<1>6. acct \in Accounts /\ ChainSizes(chain)  BY DEF Accounted, Typed
<1>7. d.task.kind # "close" /\ ~d.closeReq  BY <1>3, <1>4 DEF Closing
<1>8. /\ Tended(chain, inbox', drive', acct')
      /\ acct'.approved = acct.approved
      /\ acct'.notApproved \in {acct.approved, acct.notApproved}
  BY <1>2, <1>3, <1>5, <1>6, <1>7, ThenRunTended
<1>9. Books(chain, sent', disk, acct')  BY <1>2, <1>8 DEF Accounted, Books, Remembered
<1> QED  BY <1>2, <1>4, <1>8, <1>9, HandlerAccounted

\* What an interruption leaves alone.
LEMMA BreakGoes ==
    ASSUME NEW d \in Drives, NEW e, e = BreakTask(d)
    PROVE  /\ e.deferred = d.deferred /\ e.catchReq = d.catchReq
           /\ e.cancelReq = d.cancelReq /\ e.closeReq = d.closeReq /\ e.last = d.last
           /\ e.task.kind = d.task.kind /\ e.task.mod = d.task.mod
           /\ e.task.cancels = d.task.cancels
           /\ e.task.interrupted /\ e.task.step \in {d.task.step, "finish"}
<1>1. PICK i : i = [d EXCEPT !.task.interrupted = TRUE]  OBVIOUS
<1>2. /\ DOMAIN i = DOMAIN d /\ DOMAIN i.task = DOMAIN d.task
      /\ i.deferred = d.deferred /\ i.catchReq = d.catchReq
      /\ i.cancelReq = d.cancelReq /\ i.closeReq = d.closeReq /\ i.last = d.last
      /\ i.task.kind = d.task.kind /\ i.task.mod = d.task.mod
      /\ i.task.cancels = d.task.cancels
      /\ i.task.interrupted /\ i.task.step = d.task.step
  BY <1>1, TaskShape
<1>3. e = FinishTask(i) \/ e = i  BY <1>1 DEF BreakTask, TryBreakTask
<1> QED  BY ONLY <1>2, <1>3, TaskShape, d \in Drives DEF FinishTask

\* startDriveClosing
LEMMA OnCloseAccounted ==
    ASSUME Safe, Accounted, Typed', OnClose
    PROVE  Accounted'
<1>1. PICK v : v = CancelVerification(drive)  OBVIOUS
<1>2. PICK d : d = [v EXCEPT !.closeReq = TRUE]  OBVIOUS
<1>3. /\ Take("close") /\ sent' = sent
      /\ IF d.task.kind \in Updating /\ ~d.task.interrupted
         THEN drive' = BreakTask(d) /\ acct' = acct
         ELSE ThenRunIfIdle(d, acct)
  BY <1>1, <1>2 DEF OnClose
<1>4. v \in Drives /\ DriveInv(chain, v) /\ v.task = drive.task /\ SameWork(drive, v)
  BY <1>1, SafeGood, VerificationKeeps, TaskShape
     DEF Safe, IInv, DriveInv, DriveIsApproved, SameWork, CancelVerification
<1>5. d \in Drives /\ DriveInv(chain, d) /\ d.closeReq /\ d.task = drive.task
      /\ SameWork(drive, d)
  BY <1>2, <1>4 DEF DriveInv, DriveIsApproved, Drives, SameWork
<1>6. /\ inbox' = <<>> /\ chain.closed /\ ~Closing(drive) /\ EventPairs(chain, inbox')
  BY <1>3, Taken
<1>7. acct \in Accounts /\ ChainSizes(chain)  BY DEF Accounted, Typed
<1>8. d.task.kind # "close"  BY <1>5, <1>6 DEF Closing
<1>9. CASE d.task.kind \in Updating /\ ~d.task.interrupted
  <2>1. drive' = BreakTask(d) /\ acct' = acct  BY <1>3, <1>9
  <2>2. drive'.closeReq /\ drive'.task.kind = d.task.kind /\ drive'.task.interrupted
    BY <1>5, <2>1, BreakGoes
  <2>3. Tended(chain, inbox', drive', acct')
    BY <1>6, <1>8, <1>9, <2>2 DEF Tended, ClosingLast, IdleIsIdle, Closing, Updating
  <2>4. Books(chain, sent', disk, acct')  BY <1>3, <2>1 DEF Accounted
  <2> QED  BY <1>3, <1>6, <2>3, <2>4, HandlerAccounted
<1>10. CASE ~(d.task.kind \in Updating /\ ~d.task.interrupted)
  <2>1. ThenRunIfIdle(d, acct)  BY <1>3, <1>10
  <2>2. Order(chain, inbox', d, disk)
    BY <1>3, <1>5, TakenOrder, SameWorkCalmer, CalmerKeeps
  <2>3. Good(chain, inbox', d, disk)  BY <1>3, <1>5, HandlerGood
  <2>4. /\ Tended(chain, inbox', drive', acct')
        /\ acct'.approved = acct.approved
        /\ acct'.notApproved \in {acct.approved, acct.notApproved}
    BY <1>5, <1>6, <1>7, <1>8, <1>10, <2>1, <2>2, <2>3, ThenRunTended
  <2>5. Books(chain, sent', disk, acct')  BY <1>3, <2>4 DEF Accounted, Books, Remembered
  <2> QED  BY <1>3, <1>6, <2>4, <2>5, HandlerAccounted
<1> QED  BY <1>9, <1>10

\* What the approval of a modification does to a task that gives way to it.
LEMMA GivesWay ==
    ASSUME NEW d \in Drives, NEW tx, d.task.kind = "none" \/ TaskStartsCatchUp(d, tx),
           NEW e, e = TaskOnApproval(d, tx)
    PROVE  /\ e.deferred = d.deferred /\ e.catchReq = d.catchReq
           /\ e.cancelReq = d.cancelReq /\ e.closeReq = d.closeReq /\ e.last = d.last
           /\ e.task.kind = d.task.kind /\ e.task.mod = d.task.mod
           /\ e.task.kind \in Updating => e.task.interrupted
<1>1. PICK n : n = [d EXCEPT !.task.approved = TRUE]  OBVIOUS
<1>2. /\ n \in Drives
      /\ n.deferred = d.deferred /\ n.catchReq = d.catchReq
      /\ n.cancelReq = d.cancelReq /\ n.closeReq = d.closeReq /\ n.last = d.last
      /\ n.task.kind = d.task.kind /\ n.task.mod = d.task.mod
  BY <1>1 DEF Drives, Tasks
<1>3. \/ e = d /\ (d.task.kind \in Updating => d.task.interrupted)
      \/ e = BreakTask(d)
      \/ e = BreakTask(n)
  BY <1>1 DEF TaskOnApproval, TaskStartsCatchUp, ModifyOnApproval, ModifyStartsCatchUp,
              CatchUpOnApproval, ApprovesTask, Updating
<1>4. CASE e = d /\ (d.task.kind \in Updating => d.task.interrupted)  BY <1>4
<1>5. CASE e = BreakTask(d)  BY ONLY <1>5, BreakGoes, d \in Drives
<1>6. CASE e = BreakTask(n)
  <2>1. /\ e.deferred = n.deferred /\ e.catchReq = n.catchReq
        /\ e.cancelReq = n.cancelReq /\ e.closeReq = n.closeReq /\ e.last = n.last
        /\ e.task.kind = n.task.kind /\ e.task.mod = n.task.mod
        /\ e.task.interrupted
    BY ONLY <1>2, <1>6, BreakGoes
  <2> QED  BY <1>2, <2>1
<1> QED  BY <1>3, <1>4, <1>5, <1>6

\* The drive is going to catch up with modification x: what the task worked on
\* is expected, everything else is as open as it was.
LEMMA CatchReqLedger ==
    ASSUME NEW c, NEW q, NEW d, NEW k, Good(c, q, d, k), Order(c, q, d, k), ChainSizes(c),
           NEW a \in Accounts, Ledger(c, q, d, a), NEW x \in Mods, Approved(c, x),
           \A i \in 1..Len(q) : q[i].type = "cancel" => x < q[i].mod,
           \A i \in 1..Len(q) : q[i].type = "approve" =>
              Open(d, q, q[i].mod) /\ x < q[i].mod,
           Works(d.task) => d.task.mod <= x,
           NEW e, e.deferred = d.deferred, e.catchReq = x, e.task.kind = d.task.kind,
           e.task.mod = d.task.mod, e.task.kind \in Updating => e.task.interrupted,
           NEW b \in Accounts, a.expected <= b.expected,
           Works(d.task) => b.expected = a.expected + Size[d.task.mod]
    PROVE  Ledger(c, q, e, b)
<1>1. c \in Chains /\ ChainInv(c) /\ x \in Int /\ x <= c.last /\ c.last \in Int
  BY ChainTypes, ApprovedBound, ModTypes DEF Good
<1>2. a.expected \in Nat /\ b.expected \in Nat  BY DEF Accounts
<1>3. ~Works(e.task)  BY DEF Works, Updating
<1>4. /\ \A m : Open(e, q, m) => Open(d, q, m)
      /\ \A m : Open(d, q, m) => Open(e, q, m) \/ (Works(d.task) /\ d.task.mod = m)
  BY <1>3 DEF Open, Waits, Deferred
<1>5. Works(d.task) => d.task.kind \in Updating /\ d.task.mod \in Mods /\ d.task.mod \in Int
  BY ModTypes DEF Works, Updating, Good, DriveInv, DriveIsApproved, TaskIsApproved
<1>6. PendingOpen(c, q, e)
  <2> SUFFICES ASSUME NEW m \in Mods, Pending(c, m)  PROVE Open(e, q, m)
    BY <1>3 DEF PendingOpen
  <2>1. Open(d, q, m)  BY DEF Ledger, PendingOpen
  <2>2. c.last < m /\ m \in Int  BY <1>1, PendingIsNew
  <2>3. ~(Works(d.task) /\ d.task.mod = m)  BY <1>1, <1>5, <2>2
  <2> QED  BY <1>4, <2>1, <2>3
<1>7. ApprovalsOpen(q, e)
  <2> SUFFICES ASSUME NEW i \in 1..Len(q), q[i].type = "approve"
               PROVE  Open(e, q, q[i].mod)
    BY <1>3 DEF ApprovalsOpen
  <2>1. Open(d, q, q[i].mod) /\ x < q[i].mod /\ q[i].mod \in Int
    BY QueueTypes, ModTypes
  <2>2. ~(Works(d.task) /\ d.task.mod = q[i].mod)  BY <1>1, <1>5, <2>1
  <2> QED  BY <1>4, <2>1, <2>2
<1>8. OpenIsKnown(c, q, e)  BY <1>4 DEF Ledger, OpenIsKnown
<1>9. CancelsAreNewer(q, e)  BY DEF Ledger, CancelsAreNewer
<1>10. Expects(c, q, e, b)
  <2> SUFFICES ASSUME NEW z \in Mods, Approved(c, z), ~Open(e, q, z)
               PROVE  c.sizeAt[z] <= b.expected
    BY DEF Expects
  <2>1. c.sizeAt[z] \in Nat  BY <1>1, ModTypes DEF Chains
  <2>2. CASE ~Open(d, q, z)
    <3>1. c.sizeAt[z] <= a.expected  BY <2>2 DEF Ledger, Expects
    <3> QED  BY <1>2, <2>1, <3>1
  <2>3. CASE Open(d, q, z)
    <3>1. Works(d.task) /\ d.task.mod = z  BY <1>4, <2>3
    <3>2. PICK y \in ModOrZero : /\ y = 0 \/ Approved(c, y)
                                 /\ y < z /\ c.sizeAt[z] = c.sizeAt[y] + Size[z]
      BY DEF ChainSizes
    <3>3. c.sizeAt[y] \in Nat /\ c.sizeAt[y] <= a.expected
      BY <1>5, <3>1, <3>2, OlderExpected
    <3>4. Size[z] \in Nat  BY DriveAssumption
    <3>5. b.expected = a.expected + Size[z]  BY <3>1
    <3> QED  BY <1>2, <3>2, <3>3, <3>4, <3>5
  <2> QED  BY <2>2, <2>3
<1> QED  BY <1>3, <1>6, <1>7, <1>8, <1>9, <1>10 DEF Ledger

\* The drive after the approval of tx, if its task gives way to it.
GaveWayTo(d, tx) == [TaskOnApproval(CancelVerification(d), tx) EXCEPT !.catchReq = tx]

\* The drive, once a task gave way to an approval, satisfies the first two
\* parts of the invariant.
LEMMA GivesWayGood ==
    ASSUME Safe, Take("approve"), NEW tx, tx = Head(inbox).mod,
           HasTask(drive) => TaskStartsCatchUp(drive, tx),
           NEW r, r = GaveWayTo(drive, tx)
    PROVE  /\ Good(chain, inbox', r, disk) /\ Order(chain, inbox', r, disk)
           /\ r.catchReq = tx /\ r.deferred = drive.deferred
           /\ r.cancelReq = drive.cancelReq /\ r.closeReq = drive.closeReq
           /\ r.task.kind = drive.task.kind /\ r.task.mod = drive.task.mod
           /\ r.task.kind \in Updating => r.task.interrupted
<1>0. PICK v, d : /\ v = CancelVerification(drive) /\ d = TaskOnApproval(v, tx)
                  /\ r = [d EXCEPT !.catchReq = tx]
  BY DEF GaveWayTo
<1>1. drive \in Drives /\ drive.task \in Tasks /\ Tidy  BY SafeGood
<1>2. PICK h : h = Head(inbox)  OBVIOUS
<1>3. /\ Approved(chain, tx) /\ tx \in ModOrZero /\ tx \in Int /\ h.type = "approve"
      /\ drive.task.mod \in Int /\ h.mod = tx
  <2>1. Approved(chain, tx) /\ tx \in ModOrZero /\ h.type = "approve" /\ h.mod = tx
    BY <1>2, HeadInv DEF Take, EventInv, Events, Safe
  <2> QED  BY <1>1, <2>1, ModTypes DEF Tasks
<1>4. /\ Order(chain, inbox', drive, disk)
      /\ EventOrder(chain, drive, disk, h)
      /\ \A i \in 1..Len(inbox') : PairOrder(h, inbox'[i])
      /\ Covered(drive, inbox', tx)
  BY <1>2, TakenOrder
<1>5. /\ DriveInv(chain, v) /\ v \in Drives /\ SameWork(drive, v)
      /\ v.cancelReq = drive.cancelReq /\ v.closeReq = drive.closeReq
  <2>1. DriveInv(chain, v)  BY <1>0, VerificationKeeps DEF Safe, IInv
  <2>2. v \in Drives /\ SameWork(drive, v)
    BY <1>0, <1>1 DEF CancelVerification, SameWork, Drives
  <2>3. v.cancelReq = drive.cancelReq /\ v.closeReq = drive.closeReq
    BY <1>0, <1>1, TaskShape DEF CancelVerification
  <2> QED  BY <2>1, <2>2, <2>3
<1>6. FlagOrder(v.task) /\ AccountOrder(v.task, acct)  BY <1>1, <1>5 DEF SameWork, Tidy
<1>7. v.task.kind = "none" \/ TaskStartsCatchUp(v, tx)
  BY <1>5 DEF SameWork, HasTask, TaskStartsCatchUp, ModifyStartsCatchUp
<1>8. DriveInv(chain, d)  BY <1>0, <1>3, <1>5, TaskOnApprovalKeeps
<1>9. /\ d.deferred = v.deferred /\ d.cancelReq = v.cancelReq /\ d.closeReq = v.closeReq
      /\ d.task.kind = v.task.kind /\ d.task.mod = v.task.mod
      /\ d.task.kind \in Updating => d.task.interrupted
  BY <1>0, <1>5, <1>7, GivesWay
<1>10. /\ Calmer(v, d, disk) /\ (d.task.kind = "modify" => d.task.interrupted)
  <2>1. TaskStartsCatchUp(v, tx) \/ v.task.kind # "modify"  BY <1>7
  <2> QED  BY <1>0, <1>5, <1>6, <2>1, TaskGivesWay
<1>11. Calmer(drive, d, disk)  BY <1>5, <1>10 DEF Calmer, SameWork
<1>12. Order(chain, inbox', d, disk)  BY <1>4, <1>11, CalmerKeeps
<1>13. EventOrder(chain, d, disk, h) /\ Covered(d, inbox', tx)
  BY <1>4, <1>11, CalmerEvent
<1>14. d \in Drives /\ d.task.mod \in Int
  BY <1>8, ModTypes DEF DriveInv, DriveIsApproved, Drives, Tasks
<1>15. /\ r.catchReq = tx /\ r.deferred = d.deferred /\ r.last = d.last /\ r.task = d.task
       /\ r.cancelReq = d.cancelReq /\ r.closeReq = d.closeReq
  BY <1>0, <1>14, TaskShape
<1>16. DriveInv(chain, r)
  BY <1>0, <1>3, <1>8, <1>14 DEF DriveInv, DriveIsApproved, Drives
<1>17. Order(chain, inbox', r, disk)
  <2>1. /\ r.catchReq = h.mod /\ Covered(d, inbox', h.mod) /\ h.mod \in Int
        /\ \A i \in 1..Len(inbox') : PairOrder(h, inbox'[i])
    BY <1>3, <1>4, <1>13, <1>15
  <2> QED
    BY ONLY <1>3, <1>10, <1>12, <1>13, <1>14, <1>15, <2>1, CatchReqOrder
<1>18. Good(chain, inbox', r, disk)  BY <1>16, HandlerGood
<1> QED  BY <1>5, <1>9, <1>15, <1>17, <1>18 DEF SameWork

\* A task gives way to the approval: the accounts are in order.
LEMMA GivesWayLedger ==
    ASSUME Safe, Accounted, Take("approve"), NEW tx, tx = Head(inbox).mod,
           HasTask(drive) => TaskStartsCatchUp(drive, tx),
           NEW r, r = GaveWayTo(drive, tx),
           NEW a, a = IF drive.task.kind = "modify"
                      THEN ModifyOnApprovalAccount(drive, acct, tx) ELSE acct
    PROVE  /\ Ledger(chain, inbox', r, a)
           /\ Good(chain, inbox', r, disk) /\ Order(chain, inbox', r, disk)
           /\ a \in Accounts /\ ChainSizes(chain)
           /\ a.approved = acct.approved /\ a.notApproved = acct.notApproved
           /\ r.task.kind # "close" /\ ~r.closeReq
<1>1. /\ Good(chain, inbox', r, disk) /\ Order(chain, inbox', r, disk)
      /\ r.catchReq = tx /\ r.deferred = drive.deferred
      /\ r.cancelReq = drive.cancelReq /\ r.closeReq = drive.closeReq
      /\ r.task.kind = drive.task.kind /\ r.task.mod = drive.task.mod
      /\ r.task.kind \in Updating => r.task.interrupted
  BY ONLY Safe, Take("approve"), tx = Head(inbox).mod,
          HasTask(drive) => TaskStartsCatchUp(drive, tx), r = GaveWayTo(drive, tx), GivesWayGood
<1>2. /\ inbox \in Seq(Events) /\ inbox # <<>> /\ inbox' = Tail(inbox)
      /\ Head(inbox).type = "approve" /\ ~Closing(drive)
      /\ Ledger(chain, inbox, drive, acct)
      /\ \A i \in 1..Len(inbox') : EventPair(Head(inbox), inbox'[i])
  BY Taken
<1>3. PICK h, q : h = Head(inbox) /\ q = inbox'  OBVIOUS
<1>4. Approved(chain, tx) /\ tx \in Mods
  <2>1. Approved(chain, tx) /\ tx \in ModOrZero
    BY HeadInv DEF Take, EventInv, Events, Safe
  <2> QED  BY <2>1, SafeGood, ApprovedBound, ModTypes DEF Good
<1>5. /\ Ledger(chain, q, drive, acct)
      /\ \A i \in 1..Len(q) : q[i].type = "approve" => Open(drive, q, q[i].mod)
      /\ Works(drive.task) => drive.task.mod <= tx
  BY <1>2, <1>3, TakenLedger
<1>6. /\ Order(chain, q, drive, disk)
      /\ \A i \in 1..Len(q) : PairOrder(h, q[i])
  BY <1>3, TakenOrder
<1>7. Good(chain, q, drive, disk)
  BY <1>3, HandlerGood DEF Safe, IInv
<1>8. /\ \A i \in 1..Len(q) : q[i].type = "cancel" => tx < q[i].mod
      /\ \A i \in 1..Len(q) : q[i].type = "approve" => tx < q[i].mod
  <2>1. \A i \in 1..Len(q) : EventPair(h, q[i])  BY <1>2, <1>3
  <2>2. h.type = "approve" /\ h.mod = tx  BY <1>2, <1>3
  <2> QED  BY <1>6, <2>1, <2>2 DEF EventPair, PairOrder
<1>9. acct \in Accounts /\ ChainSizes(chain)  BY DEF Accounted, Typed
<1>10. PICK n : n = Size[drive.task.mod]  OBVIOUS
<1>11. drive.task.kind = "modify" => n \in Nat
  <2>1. drive.task.kind = "modify" => drive.task.mod \in Mods
    BY DEF Safe, IInv, DriveInv, DriveIsApproved, TaskIsApproved
  <2> QED  BY <1>10, <2>1, DriveAssumption
<1>12. /\ a = acct \/ (drive.task.kind = "modify" /\ a = IncreaseExpected(acct, n))
       /\ Works(drive.task) => a = IncreaseExpected(acct, n)
  BY <1>10 DEF ModifyOnApprovalAccount, Works, HasTask, TaskStartsCatchUp, ModifyStartsCatchUp
<1>13. /\ a \in Accounts /\ acct.expected <= a.expected
       /\ a.approved = acct.approved /\ a.notApproved = acct.notApproved
       /\ Works(drive.task) => a.expected = acct.expected + n
  <2>1. CASE a = acct /\ ~Works(drive.task)
    BY <1>9, <2>1 DEF Accounts
  <2>2. CASE drive.task.kind = "modify" /\ a = IncreaseExpected(acct, n)
    <3>1. n \in Nat  BY <1>11, <2>2
    <3>2. a \in Accounts  BY <1>9, <2>2, <3>1, AccountTypes
    <3>3. a.expected = acct.expected + n /\ acct.expected \in Nat
          /\ a.approved = acct.approved /\ a.notApproved = acct.notApproved
      BY <1>9, <2>2 DEF IncreaseExpected, Accounts
    <3> QED  BY <3>1, <3>2, <3>3
  <2>3. Works(drive.task) => drive.task.kind = "modify"  BY DEF Works
  <2> QED  BY <1>12, <2>1, <2>2, <2>3
<1>14. Ledger(chain, q, r, a)
  <2>1. \A i \in 1..Len(q) : q[i].type = "approve" =>
           Open(drive, q, q[i].mod) /\ tx < q[i].mod
    BY <1>5, <1>8
  <2>2. Works(drive.task) => a.expected = acct.expected + Size[drive.task.mod]
    BY <1>10, <1>13
  <2>3. Works(drive.task) => drive.task.mod <= tx  BY <1>5
  <2>4. \A i \in 1..Len(q) : q[i].type = "cancel" => tx < q[i].mod  BY <1>8
  <2>5. acct.expected <= a.expected /\ a \in Accounts  BY <1>13
  <2>6. Ledger(chain, q, drive, acct)  BY <1>5
  <2> QED
    BY ONLY <1>1, <1>4, <1>6, <1>7, <1>9, <2>1, <2>2, <2>3, <2>4, <2>5, <2>6, CatchReqLedger
<1>15. r.task.kind # "close" /\ ~r.closeReq  BY <1>1, <1>2 DEF Closing
<1> QED  BY ONLY <1>1, <1>3, <1>9, <1>13, <1>14, <1>15

\* The drive is going to catch up.
LEMMA GivesWayTended ==
    ASSUME Safe, Accounted, Take("approve"), NEW tx, tx = Head(inbox).mod,
           HasTask(drive) => TaskStartsCatchUp(drive, tx),
           NEW r, r = GaveWayTo(drive, tx),
           NEW a, a = IF drive.task.kind = "modify"
                      THEN ModifyOnApprovalAccount(drive, acct, tx) ELSE acct,
           ThenRunIfIdle(r, a)
    PROVE  /\ Tended(chain, inbox', drive', acct')
           /\ acct'.approved = acct.approved
           /\ acct'.notApproved \in {acct.approved, acct.notApproved}
<1>1. PICK q : q = inbox'  OBVIOUS
<1>2. /\ Ledger(chain, q, r, a)
      /\ Good(chain, q, r, disk) /\ Order(chain, q, r, disk)
      /\ a \in Accounts /\ ChainSizes(chain)
      /\ a.approved = acct.approved /\ a.notApproved = acct.notApproved
      /\ r.task.kind # "close" /\ ~r.closeReq
  BY <1>1, GivesWayLedger
<1> QED  BY ONLY <1>1, <1>2, ThenRunIfIdle(r, a), ThenRunTended

\* The task of modification tx notes its approval.
LEMMA NotesApproval ==
    ASSUME Safe, Take("approve"), NEW tx, tx = Head(inbox).mod,
           NEW v \in Drives, v.task = drive.task, Goes(drive, v),
           HasTask(drive), ~TaskStartsCatchUp(drive, tx), NEW e, e = TaskOnApproval(v, tx)
    PROVE  /\ Goes(drive, e) /\ drive.task.kind # "init"
           /\ \/ e.task.step = drive.task.step
              \/ e.task.step = "sync" /\ drive.task.step = "wait"
<1>1. drive \in Drives /\ drive.task \in Tasks /\ Tidy  BY SafeGood
<1>2. CASE drive.task.kind # "modify"
  <2>1. e = v /\ drive.task.kind # "init"
    BY <1>2 DEF TaskOnApproval, TaskStartsCatchUp, HasTask
  <2> QED  BY <2>1
<1>3. CASE drive.task.kind = "modify"
  <2>1. PICK n : n = [v EXCEPT !.task.approved = TRUE]  OBVIOUS
  <2>2. PICK s : s = [n EXCEPT !.task.step = "sync"]  OBVIOUS
  <2>3. ~v.task.interrupted /\ v.task.mod = tx /\ ApprovesTask(v.task, tx)
    BY <1>3 DEF TaskStartsCatchUp, ModifyStartsCatchUp, ApprovesTask
  <2>4. e = IF v.task.calculated THEN s ELSE n
    BY <1>3, <2>1, <2>2, <2>3 DEF TaskOnApproval, ModifyOnApproval
  <2>5. Goes(v, n) /\ n.task.step = v.task.step /\ n \in Drives
    BY <2>1 DEF Goes, Drives, Tasks
  <2>6. Goes(n, s) /\ s.task.step = "sync"
    BY ONLY <2>2, <2>5, TaskShape DEF Goes
  <2>7. ~Applies(drive.task)
    <3>1. EventOrder(chain, drive, disk, Head(inbox))  BY TakenOrder
    <3>2. Head(inbox).type = "approve" /\ tx \in Int
      BY HeadInv, ModTypes DEF Take, Events, Safe
    <3> QED  BY <2>3, <3>1, <3>2 DEF EventOrder
  <2>8. v.task.calculated => drive.task.step = "wait"
    BY <1>1, <1>3, <2>3, <2>7 DEF Applies, Tidy, FlagOrder
  <2>9. Goes(drive, e)  BY <2>4, <2>5, <2>6 DEF Goes
  <2> QED  BY <1>3, <2>4, <2>5, <2>6, <2>8, <2>9
<1> QED  BY <1>2, <1>3

\* onApprovalTransactionHasBeenPublished
LEMMA OnApprovalAccounted ==
    ASSUME Safe, Accounted, Typed', OnApproval
    PROVE  Accounted'
<1>1. PICK tx, v, d, r, a :
         /\ tx = Head(inbox).mod /\ v = CancelVerification(drive)
         /\ d = TaskOnApproval(v, tx) /\ r = [d EXCEPT !.catchReq = tx]
         /\ a = IF drive.task.kind = "modify"
                THEN ModifyOnApprovalAccount(drive, acct, tx) ELSE acct
  OBVIOUS
<1>2. Take("approve") /\ drive \in Drives /\ drive.task \in Tasks /\ Tidy
  BY SafeGood DEF OnApproval
<1>3. v \in Drives /\ v.task = drive.task /\ Goes(drive, v)
  BY <1>1, <1>2, VerificationGoes DEF CancelVerification, Drives
<1>4. d = IF HasTask(v) THEN TaskOnApproval(v, tx) ELSE v
  BY <1>1 DEF HasTask, TaskOnApproval
<1>5. IF HasTask(drive) => TaskStartsCatchUp(drive, tx)
      THEN ThenRunIfIdle(r, a) ELSE drive' = d /\ acct' = a
  BY <1>1, <1>4 DEF OnApproval
<1>6. sent' \subseteq sent \cup {acct.notApproved}  BY DEF OnApproval
<1>7. EventPairs(chain, inbox')  BY <1>2, Taken
<1>8. CASE HasTask(drive) => TaskStartsCatchUp(drive, tx)
  <2>1. /\ Tended(chain, inbox', drive', acct')
        /\ acct'.approved = acct.approved
        /\ acct'.notApproved \in {acct.approved, acct.notApproved}
    <3>1. ThenRunIfIdle(r, a)  BY <1>5, <1>8
    <3>2. tx = Head(inbox).mod /\ r = GaveWayTo(drive, tx)  BY <1>1 DEF GaveWayTo
    <3> QED  BY ONLY Safe, Accounted, <1>1, <1>2, <1>8, <3>1, <3>2, GivesWayTended
  <2>2. Books(chain, sent', disk, acct')
    BY <1>6, <2>1 DEF Accounted, Books, Remembered
  <2> QED  BY <1>2, <1>7, <2>1, <2>2, HandlerAccounted
<1>9. CASE ~(HasTask(drive) => TaskStartsCatchUp(drive, tx))
  <2>1. /\ drive' = d /\ acct' = acct /\ HasTask(drive) /\ ~TaskStartsCatchUp(drive, tx)
    BY <1>1, <1>5, <1>9
       DEF TaskStartsCatchUp, ModifyStartsCatchUp, ModifyOnApprovalAccount
  <2>2. Goes(drive, drive') /\ (Works(drive'.task) <=> Works(drive.task))
    <3>1. d = TaskOnApproval(v, tx) /\ tx = Head(inbox).mod  BY <1>1
    <3>2. /\ Goes(drive, d)
          /\ \/ d.task.step = drive.task.step
             \/ d.task.step = "sync" /\ drive.task.step = "wait"
      BY ONLY Safe, <1>2, <1>3, <2>1, <3>1, NotesApproval
    <3> QED  BY <2>1, <3>2 DEF Works, Goes
  <2>3. Tended(chain, inbox', drive, acct) /\ drive.task.kind # "close"
    <3>1. Ledger(chain, inbox', drive, acct)  BY <1>2, Taken, TakenLedger
    <3> QED  BY <1>2, <3>1, Taken DEF Tended, ClosingLast, Closing
  <2>4. Tended(chain, inbox', drive', acct')
    <3>1. chain \in Chains /\ Expected(acct, acct')
      BY <2>1, SafeGood, ChainTypes DEF Good, Expected, Accounted, Typed, Accounts
    <3> QED  BY <2>2, <2>3, <3>1, GoesTended
  <2>5. Books(chain, sent', disk, acct')
    BY <1>6, <2>1 DEF Accounted, Books, Remembered
  <2> QED  BY <1>2, <1>7, <2>4, <2>5, HandlerAccounted
<1> QED  BY <1>8, <1>9

\* The queue without m does not contain m.
LEMMA WithoutForgets ==
    ASSUME NEW s \in Seq(Mods), NEW m, Increasing(s), NEW w, w = Without(s, m)
    PROVE  \A i \in 1..Len(w) : w[i] # m
<1>1. PICK p : p = Position(s, m)  OBVIOUS
<1>2. /\ p \in 0..Len(s) /\ Len(s) \in Nat /\ DOMAIN s = 1..Len(s)
      /\ (\E i \in DOMAIN s : s[i] = m) => p # 0 /\ s[p] = m
      /\ \A i \in 1..Len(s) : s[i] \in Mods /\ s[i] \in Int
  BY <1>1, PositionType, LenProperties, ElementOfSeq, ModTypes
<1>3. CASE ~\E i \in DOMAIN s : s[i] = m
  <2>1. w = s  BY <1>3 DEF Without, Position
  <2> QED  BY <1>2, <1>3, <2>1
<1>4. CASE \E i \in DOMAIN s : s[i] = m
  <2>1. /\ Len(w) = Len(s) - 1
        /\ \A i \in 1..(Len(s) - 1) : w[i] = IF i < p THEN s[i] ELSE s[i + 1]
    BY <1>1, <1>4, WithoutProperties
  <2>2. p \in 1..Len(s) /\ s[p] = m  BY <1>2, <1>4
  <2>3. ASSUME NEW i \in 1..Len(w)  PROVE w[i] # m
    <3>1. i \in 1..Len(s) /\ i + 1 \in 1..Len(s) /\ i \in 1..(Len(s) - 1)  BY <1>2, <2>1
    <3>2. CASE i < p
      <4>1. s[i] < s[p]  BY <2>2, <3>1, <3>2 DEF Increasing
      <4> QED  BY <1>2, <2>1, <2>2, <3>1, <3>2, <4>1
    <3>3. CASE ~(i < p)
      <4>1. p < i + 1  BY <2>2, <3>1, <3>3
      <4>2. s[p] < s[i + 1]  BY <2>2, <3>1, <4>1 DEF Increasing
      <4> QED  BY <1>2, <2>1, <2>2, <3>1, <3>3, <4>2
    <3> QED  BY <3>2, <3>3
  <2> QED  BY <2>3
<1> QED  BY <1>3, <1>4

\* Drive e no longer works on modification x, nor does x wait in its queue.
Withdrawn(d, e, x) ==
    /\ \A m : Deferred(e, m) <=> Deferred(d, m) /\ m # x
    /\ e.catchReq = d.catchReq
    /\ e.task.kind = d.task.kind /\ e.task.mod = d.task.mod
    /\ Works(e.task) <=> Works(d.task) /\ d.task.mod # x
    /\ Works(e.task) => e.cancelReq = 0

\* What follows a cancellation.
AfterCancel(h, t) == h.type = "cancel" /\ \A i \in 1..Len(t) : EventPair(h, t[i])

\* A modification that was cancelled is open no longer.
LEMMA CancelOpens ==
    ASSUME NEW q \in Seq(Events), q # <<>>, NEW h, h = Head(q), NEW t, t = Tail(q),
           AfterCancel(h, t), NEW x \in Mods, x = h.mod, NEW d, NEW e, Withdrawn(d, e, x)
    PROVE  \A m : Open(e, t, m) <=> Open(d, q, m) /\ m # x
<1> USE DEF AfterCancel, Withdrawn
<1>1. \A m : Requested(t, m) <=> Requested(q, m)  BY FirstEvent
<1>2. ASSUME NEW i \in 1..Len(t), t[i].type = "modify", t[i].mod = x  PROVE FALSE
  <2>1. x < x  BY <1>2 DEF EventPair
  <2> QED  BY <2>1, ModTypes
<1>3. ~Requested(t, x)  BY <1>2 DEF Requested
<1> QED  BY <1>1, <1>3 DEF Open, Waits

\* The accounts without it are in order.
LEMMA CancelLedger ==
    ASSUME NEW c, ChainInv(c), NEW q \in Seq(Events), q # <<>>, InboxInv(c, q),
           NEW h, h = Head(q), NEW t, t = Tail(q), AfterCancel(h, t),
           NEW x \in Mods, x = h.mod, x \in c.cancelled,
           NEW d, NEW a, Ledger(c, q, d, a), NEW e, Withdrawn(d, e, x)
    PROVE  Ledger(c, t, e, a)
<1>1. /\ Len(q) \in Nat /\ 1 \in 1..Len(q) /\ h = q[1] /\ Len(t) = Len(q) - 1
      /\ \A i \in 1..Len(t) : i + 1 \in 1..Len(q) /\ t[i] = q[i + 1]
  BY TailAt
<1>2. ~Approved(c, x)  BY DEF Approved
<1>3. \A m : Open(e, t, m) <=> Open(d, q, m) /\ m # x
  BY ONLY q \in Seq(Events), q # <<>>, h = Head(q), t = Tail(q), AfterCancel(h, t),
          x \in Mods, x = h.mod, Withdrawn(d, e, x), CancelOpens
<1>4. \A m : Announced(q, "cancel", m) /\ m # x => Announced(t, "cancel", m)
  BY CancelStays DEF AfterCancel
<1>5. PendingOpen(c, t, e)
  <2>1. ~Pending(c, x)  BY PendingIsNew
  <2> QED  BY <1>3, <2>1 DEF Ledger, PendingOpen, Withdrawn
<1>6. ApprovalsOpen(t, e)
  <2> SUFFICES ASSUME NEW i \in 1..Len(t), t[i].type = "approve"
               PROVE  Open(e, t, t[i].mod) /\ (Works(e.task) => e.task.mod <= t[i].mod)
    BY DEF ApprovalsOpen
  <2>1. i + 1 \in 1..Len(q) /\ i + 1 # 1 /\ q[i + 1] = t[i]  BY <1>1
  <2>2. Open(d, q, q[i + 1].mod) /\ (Works(d.task) => d.task.mod <= q[i + 1].mod)
    BY <2>1 DEF Ledger, ApprovalsOpen
  <2>3. q[i + 1].mod # x  BY <2>1 DEF InboxInv, EventInv, Approved
  <2> QED  BY <1>3, <2>1, <2>2, <2>3 DEF Withdrawn
<1>7. OpenIsKnown(c, t, e)  BY <1>3, <1>4 DEF Ledger, OpenIsKnown
<1>8. CancelsAreNewer(t, e)  BY <1>1 DEF Ledger, CancelsAreNewer, Withdrawn
<1>9. Expects(c, t, e, a)  BY <1>2, <1>3 DEF Ledger, Expects
<1> QED  BY <1>5, <1>6, <1>7, <1>8, <1>9 DEF Ledger, Withdrawn

\* What cancelModifyDrive does to the drive.
LEMMA CancelGoes ==
    ASSUME NEW d \in Drives, Increasing(d.deferred), NEW a, NEW x \in Mods,
           ~CancelDereferencesNull(d, a, x), Works(d.task) => d.cancelReq = 0,
           d.task.kind = "none" => d.deferred = <<>>,
           NEW e, e = CancelModifyDrive(d, a, x)
    PROVE  /\ Withdrawn(d, e, x) /\ e.closeReq = d.closeReq
           /\ d.task.kind = "none" => e.deferred = <<>> /\ e.cancelReq = d.cancelReq
<1>1. PICK t : t = TaskOnCancel(d, x)  OBVIOUS
<1>2. /\ t.deferred = d.deferred /\ t.catchReq = d.catchReq
      /\ t.cancelReq = d.cancelReq /\ t.closeReq = d.closeReq
      /\ t.task.kind = d.task.kind /\ t.task.mod = d.task.mod
      /\ \/ d.task.kind = "modify" /\ ModifyShouldCancel(d, x) /\ t.task.interrupted
         \/ /\ ~(d.task.kind = "modify" /\ ModifyShouldCancel(d, x))
            /\ t.task.interrupted = d.task.interrupted /\ t.task.step = d.task.step
      /\ DOMAIN t = DOMAIN d
  <2>1. CASE d.task.kind = "modify" /\ ModifyShouldCancel(d, x)
    <3>1. t = BreakTask(d)  BY <1>1, <2>1 DEF TaskOnCancel
    <3>2. /\ t.deferred = d.deferred /\ t.catchReq = d.catchReq
          /\ t.cancelReq = d.cancelReq /\ t.closeReq = d.closeReq
          /\ t.task.kind = d.task.kind /\ t.task.mod = d.task.mod /\ t.task.interrupted
      BY ONLY <3>1, BreakGoes, d \in Drives
    <3>3. DOMAIN t = DOMAIN d
      BY <3>1, TaskShape DEF BreakTask, FinishTask, TryBreakTask
    <3> QED  BY <2>1, <3>2, <3>3
  <2>2. CASE ~(d.task.kind = "modify" /\ ModifyShouldCancel(d, x))
    <3>1. \/ t = [d EXCEPT !.task.cancels = d.task.cancels \cup {x}]
          \/ t = d
      BY <1>1, <2>2, TaskShape DEF TaskOnCancel
    <3> QED  BY <2>2, <3>1, TaskShape
  <2> QED  BY <2>1, <2>2
<1>3. d.deferred \in Seq(Mods)  BY DEF Drives
<1>4. CASE TaskShouldCancel(d, a, x)
  <2>1. e = [t EXCEPT !.cancelReq = x]  BY <1>1, <1>4 DEF CancelModifyDrive
  <2>2. /\ e.deferred = d.deferred /\ e.catchReq = d.catchReq /\ e.closeReq = d.closeReq
        /\ e.task = t.task
    BY <1>2, <2>1, TaskShape
  <2>3. d.deferred = <<>>  BY <1>4 DEF CancelDereferencesNull
  <2>4. \A m : ~Deferred(d, m) /\ ~Deferred(e, m)
    BY <2>2, <2>3, EmptySeq DEF Deferred
  <2>5. d.task.kind # "none" /\ (d.task.kind = "modify" => ModifyShouldCancel(d, x))
    BY <1>4 DEF TaskShouldCancel
  <2>6. ~Works(e.task) /\ ~(Works(d.task) /\ d.task.mod # x)
    BY <1>2, <2>2, <2>5 DEF Works, ModifyShouldCancel
  <2> QED  BY <1>2, <2>2, <2>4, <2>5, <2>6 DEF Withdrawn
<1>5. CASE ~TaskShouldCancel(d, a, x)
  <2>1. e = [t EXCEPT !.deferred = Without(d.deferred, x)]
    BY <1>1, <1>2, <1>5 DEF CancelModifyDrive
  <2>2. /\ e.deferred = Without(d.deferred, x) /\ e.catchReq = d.catchReq
        /\ e.closeReq = d.closeReq /\ e.cancelReq = d.cancelReq /\ e.task = t.task
    BY <1>2, <2>1, TaskShape
  <2>3. \A m : Deferred(e, m) <=> Deferred(d, m) /\ m # x
    <3>1. PICK s, w : s = d.deferred /\ w = Without(s, x)  OBVIOUS
    <3>2. s \in Seq(Mods) /\ Increasing(s)  BY <1>3, <3>1
    <3>3. /\ \A i \in 1..Len(w) : \E j \in 1..Len(s) : s[j] = w[i]
          /\ \A j \in 1..Len(s) : s[j] # x => \E i \in 1..Len(w) : w[i] = s[j]
      BY ONLY <3>1, <3>2, WithoutOrder, SMTT(60)
    <3>4. \A i \in 1..Len(w) : w[i] # x
      BY ONLY <3>1, <3>2, WithoutForgets, SMTT(60)
    <3>5. /\ \A m : Deferred(d, m) <=> \E j \in 1..Len(s) : s[j] = m
          /\ \A m : Deferred(e, m) <=> \E j \in 1..Len(w) : w[j] = m
      BY ONLY <2>2, <3>1 DEF Deferred
    <3> QED  BY ONLY <3>3, <3>4, <3>5, Zenon
  <2>4. ~(d.task.kind = "modify" /\ ModifyShouldCancel(d, x))
    BY <1>5 DEF TaskShouldCancel
  <2>5. t.task.interrupted = d.task.interrupted /\ t.task.step = d.task.step
    BY <1>2, <2>4
  <2>6. Works(e.task) <=> Works(d.task) /\ d.task.mod # x
    BY <1>2, <2>2, <2>4, <2>5 DEF Works, ModifyShouldCancel
  <2>7. d.task.kind = "none" => e.deferred = <<>>
    <3>1. Without(<<>>, x) = <<>>  BY DEF Without, Position
    <3> QED  BY <2>2, <3>1
  <2>8. Works(e.task) => e.cancelReq = 0  BY <2>2, <2>6
  <2> QED  BY <1>2, <2>2, <2>3, <2>6, <2>7, <2>8 DEF Withdrawn
<1> QED  BY <1>4, <1>5

\* cancelModifyDrive, with both of its ends
LEMMA OnCancelAccounted ==
    ASSUME Safe, Accounted, Typed', OnCancel
    PROVE  Accounted'
<1>1. PICK tx : tx = Head(inbox).mod  OBVIOUS
<1>2. CASE Die /\ chain' = chain /\ disk' = disk /\ sent' = sent
  BY <1>2, DieAccounted
<1>3. CASE /\ Take("cancel") /\ ~CancelDereferencesNull(drive, acct, tx)
           /\ drive' = CancelModifyDrive(drive, acct, tx) /\ acct' = acct /\ sent' = sent
  <2>1. /\ inbox \in Seq(Events) /\ inbox # <<>> /\ inbox' = Tail(inbox)
        /\ Head(inbox).type = "cancel" /\ ~Closing(drive) /\ IdleIsIdle(drive)
        /\ Ledger(chain, inbox, drive, acct) /\ EventPairs(chain, inbox')
        /\ \A i \in 1..Len(inbox') : EventPair(Head(inbox), inbox'[i])
    BY <1>3, Taken
  <2>2. /\ drive \in Drives /\ Increasing(drive.deferred)
        /\ ChainInv(chain) /\ InboxInv(chain, inbox)
    BY SafeGood DEF Good, Tidy, Order, QueueOrder
  <2>3. tx \in Mods /\ tx \in chain.cancelled
    <3>1. EventOrder(chain, drive, disk, Head(inbox))  BY <1>3, TakenOrder
    <3> QED  BY <1>1, <2>1, <3>1, HeadInv DEF EventInv, EventOrder, Safe
  <2>4. Works(drive.task) => drive.cancelReq = 0  BY <2>1 DEF Ledger
  <2>5. drive.task.kind = "none" => drive.deferred = <<>>  BY <2>1 DEF IdleIsIdle
  <2>6. PICK e : e = drive'  OBVIOUS
  <2>7. /\ Withdrawn(drive, e, tx) /\ e.closeReq = drive.closeReq
        /\ drive.task.kind = "none" => e.deferred = <<>> /\ e.cancelReq = drive.cancelReq
    <3>1. e = CancelModifyDrive(drive, acct, tx) /\ ~CancelDereferencesNull(drive, acct, tx)
      BY <1>3, <2>6
    <3> QED  BY ONLY <2>2, <2>3, <2>4, <2>5, <3>1, CancelGoes
  <2>8. Ledger(chain, inbox', e, acct)
    <3>1. PICK h, t : h = Head(inbox) /\ t = inbox'  OBVIOUS
    <3>2. AfterCancel(h, t) /\ t = Tail(inbox) /\ tx = h.mod
      BY <1>1, <2>1, <3>1 DEF AfterCancel
    <3>3. inbox \in Seq(Events) /\ inbox # <<>> /\ Ledger(chain, inbox, drive, acct)
      BY <2>1
    <3>4. Ledger(chain, t, e, acct)
      BY ONLY <2>2, <2>3, <2>7, <3>1, <3>2, <3>3, CancelLedger
    <3> QED  BY <3>1, <3>4
  <2>9. Tended(chain, inbox', drive', acct')
    <3>1. e.task.kind = drive.task.kind /\ e.catchReq = drive.catchReq
      BY <2>7 DEF Withdrawn
    <3>2. Tended(chain, inbox', e, acct)
      BY <2>1, <2>7, <2>8, <3>1 DEF Tended, ClosingLast, Closing, IdleIsIdle
    <3> QED  BY <1>3, <2>6, <3>2
  <2>10. Books(chain, sent', disk, acct')  BY <1>3 DEF Accounted
  <2> QED  BY <1>3, <2>1, <2>9, <2>10, HandlerAccounted
<1> QED  BY <1>1, <1>2, <1>3 DEF OnCancel

------------------------------------------------------------------------------
(* VIII. Steps of the chain *)

\* Queue r is q with event x at its end.
PostedNext(q, x, r) ==
    /\ r \in Seq(Events) /\ Len(q) \in Nat /\ Len(r) = Len(q) + 1
    /\ \A i \in 1..Len(r) : \/ i \in 1..Len(q) /\ r[i] = q[i]
                            \/ i = Len(q) + 1 /\ r[i] = x
    /\ \A i \in 1..Len(q) : i \in 1..Len(r) /\ r[i] = q[i]
    /\ Len(q) + 1 \in 1..Len(r) /\ r[Len(q) + 1] = x
    /\ \A m : Requested(r, m) <=> Requested(q, m) \/ (x.type = "modify" /\ x.mod = m)
    /\ \A m : Announced(q, "cancel", m) => Announced(r, "cancel", m)
    /\ x.type = "cancel" => Announced(r, "cancel", x.mod)

\* An event is posted.
LEMMA PostedAt ==
    ASSUME NEW q \in Seq(Events), NEW x \in Events, NEW r, r = Append(q, x)
    PROVE  PostedNext(q, x, r)
<1>1. /\ r \in Seq(Events) /\ Len(q) \in Nat /\ Len(r) = Len(q) + 1
      /\ r[Len(q) + 1] = x /\ \A i \in 1..Len(q) : r[i] = q[i]
  BY AppendProperties, LenProperties
<1>2. /\ \A i \in 1..Len(r) : \/ i \in 1..Len(q) /\ r[i] = q[i]
                              \/ i = Len(q) + 1 /\ r[i] = x
      /\ \A i \in 1..Len(q) : i \in 1..Len(r) /\ r[i] = q[i]
      /\ Len(q) + 1 \in 1..Len(r)
  BY <1>1
<1>3. \A m : Requested(r, m) <=> Requested(q, m) \/ (x.type = "modify" /\ x.mod = m)
  <2>1. ASSUME NEW m, Requested(r, m)
        PROVE  Requested(q, m) \/ (x.type = "modify" /\ x.mod = m)
    <3>1. PICK i \in 1..Len(r) : r[i].type = "modify" /\ r[i].mod = m
      BY <2>1 DEF Requested
    <3> QED  BY <1>2, <3>1 DEF Requested
  <2>2. \A m : Requested(q, m) => Requested(r, m)  BY <1>2 DEF Requested
  <2>3. x.type = "modify" => Requested(r, x.mod)  BY <1>1, <1>2 DEF Requested
  <2> QED  BY <2>1, <2>2, <2>3
<1>4. \A m : Announced(q, "cancel", m) => Announced(r, "cancel", m)
  BY <1>2 DEF Announced
<1>5. x.type = "cancel" => Announced(r, "cancel", x.mod)  BY <1>1, <1>2 DEF Announced
<1> QED  BY <1>1, <1>2, <1>3, <1>4, <1>5 DEF PostedNext

\* The posted event is the last one of its queue.
LEMMA PostedPairs ==
    ASSUME NEW c, NEW b, NEW q \in Seq(Events), NEW x \in Events, NEW r, r = Append(q, x),
           EventPairs(c, q), ~c.closed, \A i \in 1..Len(q) : EventPair(q[i], x) \/ q[i].type = "close",
           x.type = "close" => b.closed
    PROVE  EventPairs(b, r)
<1>1. /\ Len(q) \in Nat /\ Len(r) = Len(q) + 1
      /\ \A i \in 1..Len(r) : \/ i \in 1..Len(q) /\ r[i] = q[i]
                              \/ i = Len(q) + 1 /\ r[i] = x
  BY PostedAt DEF PostedNext
<1>2. \A i \in 1..Len(q) : q[i].type # "close"  BY DEF EventPairs
<1>3. ASSUME NEW i \in 1..Len(r), NEW j \in 1..Len(r), i < j  PROVE EventPair(r[i], r[j])
  <2>1. i \in 1..Len(q) /\ r[i] = q[i]  BY <1>1, <1>3
  <2>2. CASE j \in 1..Len(q) /\ r[j] = q[j]
    BY <1>3, <2>1, <2>2 DEF EventPairs
  <2>3. CASE r[j] = x  BY <1>2, <2>1, <2>3
  <2> QED  BY <1>1, <2>2, <2>3
<1>4. \A i \in 1..Len(r) : r[i].type = "close" => b.closed  BY <1>1, <1>2
<1> QED  BY <1>3, <1>4 DEF EventPairs

\* What an event x tells of the step of the chain from c to b: nothing becomes
\* pending or approved, and nothing ceases to be, without it.
Tells(c, b, d, x) ==
    /\ \A m \in Mods : Pending(b, m) =>
          \/ Pending(c, m)
          \/ x.type = "modify" /\ x.mod = m /\ (Works(d.task) => d.task.mod <= m)
    /\ \A m \in Mods : Approved(c, m) \/ Pending(c, m) =>
          Approved(b, m) \/ Pending(b, m) \/ (x.type = "cancel" /\ x.mod = m)
    /\ \A m \in Mods : Approved(b, m) =>
          (Approved(c, m) /\ b.sizeAt[m] = c.sizeAt[m]) \/ Pending(c, m)
    /\ x.type = "modify" => Pending(b, x.mod)
    /\ x.type = "approve" => Pending(c, x.mod)
    /\ x.type = "cancel" => /\ d.catchReq < x.mod
                            /\ d.task.kind = "catchup" => d.task.mod < x.mod

\* The drive hears of what the chain does.
LEMMA PostedLedger ==
    ASSUME NEW c, ChainInv(c), NEW b, NEW q \in Seq(Events), NEW x \in Events,
           NEW r, r = Append(q, x), NEW d, NEW a, Ledger(c, q, d, a), Tells(c, b, d, x)
    PROVE  Ledger(b, r, d, a)
<1>0. PostedNext(q, x, r)  BY ONLY PostedAt, q \in Seq(Events), x \in Events, r = Append(q, x)
<1>1. /\ Len(q) \in Nat
      /\ \A i \in 1..Len(r) : \/ i \in 1..Len(q) /\ r[i] = q[i]
                              \/ i = Len(q) + 1 /\ r[i] = x
      /\ \A m : Announced(q, "cancel", m) => Announced(r, "cancel", m)
      /\ x.type = "cancel" => Announced(r, "cancel", x.mod)
  BY <1>0 DEF PostedNext
<1>2. /\ \A m : Open(d, r, m) => Open(d, q, m) \/ (x.type = "modify" /\ x.mod = m)
      /\ \A m : Open(d, q, m) => Open(d, r, m)
      /\ x.type = "modify" => Open(d, r, x.mod)
  <2>1. \A m : Requested(r, m) <=> Requested(q, m) \/ (x.type = "modify" /\ x.mod = m)
    BY <1>0 DEF PostedNext
  <2> QED  BY <2>1 DEF Open, Waits
<1>3. PendingOpen(b, r, d)
  <2> SUFFICES ASSUME NEW m \in Mods, Pending(b, m)
               PROVE  Open(d, r, m) /\ (Works(d.task) => d.task.mod <= m)
    BY DEF PendingOpen
  <2>1. CASE Pending(c, m)  BY <1>2, <2>1 DEF Ledger, PendingOpen
  <2>2. CASE ~Pending(c, m)
    <3>1. x.type = "modify" /\ x.mod = m /\ (Works(d.task) => d.task.mod <= m)
      BY <2>2 DEF Tells
    <3> QED  BY <1>2, <3>1
  <2> QED  BY <2>1, <2>2
<1>4. ApprovalsOpen(r, d)
  <2> SUFFICES ASSUME NEW i \in 1..Len(r), r[i].type = "approve"
               PROVE  /\ Open(d, r, r[i].mod) \/ (i = 1 /\ Fresh(d))
                      /\ Works(d.task) => d.task.mod <= r[i].mod
    BY DEF ApprovalsOpen
  <2>1. CASE i \in 1..Len(q) /\ r[i] = q[i]
    BY <1>2, <2>1 DEF Ledger, ApprovalsOpen
  <2>2. CASE r[i] = x
    <3>1. Pending(c, x.mod)  BY <2>2 DEF Tells
    <3>2. x.mod \in Mods  BY <3>1, PendingIsNew
    <3> QED  BY <1>2, <2>2, <3>1, <3>2 DEF Ledger, PendingOpen
  <2> QED  BY <1>1, <2>1, <2>2
<1>5. OpenIsKnown(b, r, d)
  <2> SUFFICES ASSUME NEW m \in Mods, Open(d, r, m)
               PROVE  Approved(b, m) \/ Pending(b, m) \/ Announced(r, "cancel", m)
    BY DEF OpenIsKnown
  <2>1. CASE Open(d, q, m)
    <3>1. Approved(c, m) \/ Pending(c, m) \/ Announced(q, "cancel", m)
      BY <2>1 DEF Ledger, OpenIsKnown
    <3> QED  BY <1>1, <3>1 DEF Tells
  <2>2. CASE x.type = "modify" /\ x.mod = m  BY <2>2 DEF Tells
  <2> QED  BY <1>2, <2>1, <2>2
<1>6. CancelsAreNewer(r, d)
  BY <1>1 DEF Ledger, CancelsAreNewer, Tells
<1>7. Expects(b, r, d, a)
  <2> SUFFICES ASSUME NEW z \in Mods, Approved(b, z)
               PROVE  Open(d, r, z) \/ b.sizeAt[z] <= a.expected
    BY DEF Expects
  <2>1. CASE Approved(c, z) /\ b.sizeAt[z] = c.sizeAt[z]
    BY <1>2, <2>1 DEF Ledger, Expects
  <2>2. CASE Pending(c, z)
    BY <1>2, <2>2 DEF Ledger, PendingOpen
  <2> QED  BY <2>1, <2>2 DEF Tells
<1> QED  BY <1>3, <1>4, <1>5, <1>6, <1>7 DEF Ledger

\* What the uploads that are known cover is still covered.
StillCovers(c, b) == \A o : Covers(c, o) => Covers(b, o)

\* What a step of the chain from c to b and the event x for it keep.
ChainGoes(c, b, q, d, x) ==
    /\ ChainSizes(b) /\ Tells(c, b, d, x) /\ StillCovers(c, b)
    /\ \A i \in 1..Len(q) : EventPair(q[i], x) \/ q[i].type = "close"
    /\ \A m \in Mods : Approved(c, m) => Approved(b, m)
    /\ x.type = "modify" => c.issued < x.mod

\* What is left to show of a step of the chain.
LEMMA ChainAccounted ==
    ASSUME Safe, Accounted, Typed', UNCHANGED replicator, ~chain.closed,
           NEW x \in Events, Post(x.type, x.mod), x.type = "close" => chain'.closed,
           ChainGoes(chain, chain', inbox, drive, x)
    PROVE  Accounted'
<1>0. /\ ChainSizes(chain') /\ Tells(chain, chain', drive, x) /\ StillCovers(chain, chain')
      /\ \A i \in 1..Len(inbox) : EventPair(inbox[i], x) \/ inbox[i].type = "close"
  BY DEF ChainGoes
<1>1. /\ up' = up /\ drive' = drive /\ acct' = acct /\ disk' = disk /\ sent' = sent
  BY DEF replicator
<1>2. inbox \in Seq(Events) /\ ChainInv(chain)
  BY SafeGood DEF Good, InboxInv
<1>3. [type |-> x.type, mod |-> x.mod] = x  BY DEF Events
<1>4. inbox' = IF up = "up" THEN Append(inbox, x) ELSE inbox  BY <1>3 DEF Post
<1>5. EventPairs(chain', inbox')
  <2>1. CASE up = "up"
    <3>1. inbox' = Append(inbox, x)  BY <1>4, <2>1
    <3>2. EventPairs(chain, inbox)  BY DEF Accounted
    <3> QED  BY <1>0, <1>2, <3>1, <3>2, PostedPairs
  <2>2. CASE up # "up"
    <3>1. inbox' = <<>>  BY <1>4, <2>2, SafeGood DEF Tidy, DownOrder
    <3> QED  BY <3>1 DEF EventPairs
  <2> QED  BY <2>1, <2>2
<1>6. ASSUME up = "up"  PROVE Tended(chain', inbox', drive, acct)
  <2>1. Tended(chain, inbox, drive, acct)  BY <1>6 DEF Accounted
  <2>2. ~Closing(drive)  BY <2>1 DEF Tended, ClosingLast
  <2>3. inbox' = Append(inbox, x)  BY <1>4, <1>6
  <2>4. Ledger(chain, inbox, drive, acct)  BY <2>1, <2>2 DEF Tended
  <2>5. Ledger(chain', inbox', drive, acct)  BY <1>0, <1>2, <2>3, <2>4, PostedLedger
  <2> QED  BY <2>1, <2>2, <2>5 DEF Tended, ClosingLast
<1>7. Books(chain', sent, disk, acct)  BY <1>0 DEF Accounted, Books, StillCovers
<1> QED  BY <1>0, <1>1, <1>5, <1>6, <1>7 DEF Accounted

\* A new modification is newer than all others.
LEMMA ModifyGoes ==
    ASSUME NEW c, NEW q, NEW d, NEW k, Good(c, q, d, k), Order(c, q, d, k), ChainSizes(c),
           NEW m \in Mods, m = c.issued + 1, NEW b, b.pending = Append(c.pending, m),
           b.issued = m, b.last = c.last, b.sizeAt = c.sizeAt, b.cancelled = c.cancelled,
           NEW x, x.type = "modify", x.mod = m
    PROVE  ChainGoes(c, b, q, d, x)
<1>1. /\ c.pending \in Seq(Mods) /\ c.issued \in Int /\ ChainInv(c) /\ m \in Int
      /\ c.issued < m
  BY ChainTypes, ModTypes DEF Good
<1>2. PICK s, w : s = c.pending /\ w = b.pending  OBVIOUS
<1>3. /\ Len(s) \in Nat /\ Len(w) = Len(s) + 1 /\ w[Len(s) + 1] = m
      /\ \A i \in 1..Len(s) : w[i] = s[i]
  BY <1>1, <1>2, AppendProperties, LenProperties
<1>4. /\ \A i \in 1..Len(w) : i \in 1..Len(s) \/ w[i] = m
      /\ \A i \in 1..Len(s) : i \in 1..Len(w)
      /\ Len(s) + 1 \in 1..Len(w)
  BY <1>3
<1>5. \A z : Pending(b, z) <=> Pending(c, z) \/ z = m
  BY <1>2, <1>3, <1>4 DEF Pending
<1>6. \A z : Approved(b, z) <=> Approved(c, z)  BY DEF Approved
<1>7. ChainSizes(b)
  <2>1. \A z \in Mods : z <= b.issued => z <= c.issued \/ z = m  BY <1>1, ModTypes
  <2> QED  BY <1>5, <1>6, <2>1 DEF ChainSizes
<1>8. Tells(c, b, d, x)
  <2>1. Works(d.task) => d.task.mod <= m
    <3>1. Works(d.task) => d.task.mod <= c.issued
      BY DEF Order, TaskOrder, Works, Updating
    <3>2. d.task.mod \in Int  BY DriveNumbers, ModTypes
    <3> QED  BY <1>1, <3>1, <3>2
  <2> QED  BY <1>5, <1>6, <2>1 DEF Tells
<1>9. StillCovers(c, b)
  <2> SUFFICES ASSUME NEW o, Covers(c, o)  PROVE Covers(b, o)
    BY DEF StillCovers
  <2>1. o \in Uploads /\ o.id \in Int /\ o.id <= c.issued
    BY ModTypes DEF Covers, Uploads
  <2>2. o.id <= b.issued /\ o.id <= m /\ o.id # m  BY <1>1, <2>1
  <2>3. \A i \in 1..Len(w) : o.id <= w[i]
    <3>1. \A i \in 1..Len(s) : o.id <= s[i]  BY <1>2 DEF Covers
    <3> QED  BY <1>3, <1>4, <2>2, <3>1
  <2> QED  BY <1>2, <1>5, <1>6, <2>1, <2>2, <2>3 DEF Covers
<1>10. \A i \in 1..Len(q) : EventPair(q[i], x) \/ q[i].type = "close"
  <2> SUFFICES ASSUME NEW i \in 1..Len(q), q[i].type = "cancel"  PROVE q[i].mod < m
    BY DEF EventPair
  <2>1. q[i].mod \in c.cancelled /\ q[i].mod \in Int
    BY QueueTypes, ModTypes DEF Order, InboxOrder, EventOrder
  <2>2. q[i].mod <= c.issued  BY <2>1 DEF Good, ChainInv
  <2> QED  BY <1>1, <2>1, <2>2
<1> QED  BY <1>1, <1>6, <1>7, <1>8, <1>9, <1>10 DEF ChainGoes

\* The oldest pending modification becomes the last approved one; nothing was
\* left between them.
LEMMA ApproveGoes ==
    ASSUME NEW c, NEW q, NEW d, NEW k, Good(c, q, d, k), Order(c, q, d, k), ChainSizes(c),
           c.pending # <<>>, NEW m, m = Head(c.pending), NEW b, b.pending = Tail(c.pending),
           b.issued = c.issued, b.last = m, b.cancelled = c.cancelled,
           b.sizeAt = [c.sizeAt EXCEPT ![m] = c.sizeAt[c.last] + Size[m]],
           NEW x, x.type = "approve", x.mod = m
    PROVE  ChainGoes(c, b, q, d, x)
<1>1. /\ c.pending \in Seq(Mods) /\ c.issued \in Int /\ ChainInv(c) /\ c \in Chains
      /\ c.last \in ModOrZero /\ c.last \in Int
  BY ChainTypes DEF Good
<1>2. PICK s, w : s = c.pending /\ w = b.pending  OBVIOUS
<1>3. /\ w \in Seq(Mods) /\ Len(s) \in Nat /\ Len(w) = Len(s) - 1 /\ 1 \in 1..Len(s)
      /\ m = s[1] /\ m \in Mods
      /\ \A i \in 1..Len(w) : i + 1 \in 1..Len(s) /\ w[i] = s[i + 1]
  <2>1. s \in Seq(Mods) /\ s # <<>> /\ w = Tail(s) /\ m = Head(s)  BY <1>1, <1>2
  <2>2. /\ w \in Seq(Mods) /\ Len(s) \in Nat /\ Len(s) # 0 /\ Len(w) = Len(s) - 1
        /\ m \in Mods /\ \A i \in 1..Len(w) : w[i] = s[i + 1]
    BY <2>1, EmptySeq, LenProperties, HeadTailProperties
  <2>3. m = s[1]  BY <2>1
  <2> QED  BY <2>2, <2>3
<1>4. \A i, j \in 1..Len(s) : i < j => s[i] < s[j]  BY <1>1, <1>2 DEF ChainInv
<1>5. /\ \A z : Pending(b, z) => Pending(c, z) /\ m < z
      /\ \A z : Pending(c, z) => Pending(b, z) \/ z = m
      /\ Pending(c, m)
  <2>1. \A i \in 1..Len(w) : m < w[i]
    <3> SUFFICES ASSUME NEW i \in 1..Len(w)  PROVE m < w[i]
      OBVIOUS
    <3>1. 1 < i + 1  BY <1>3
    <3> QED  BY <1>3, <1>4, <3>1
  <2>2. ASSUME NEW i \in 1..Len(s), i # 1  PROVE \E j \in 1..Len(w) : w[j] = s[i]
    <3>1. i - 1 \in 1..Len(w) /\ (i - 1) + 1 = i  BY <1>3, <2>2
    <3> QED  BY <1>3, <3>1
  <2>3. /\ \A z : Pending(c, z) <=> \E i \in 1..Len(s) : s[i] = z
        /\ \A z : Pending(b, z) <=> \E i \in 1..Len(w) : w[i] = z
    BY <1>2 DEF Pending
  <2>4. /\ \A i \in 1..Len(w) : \E j \in 1..Len(s) : s[j] = w[i]
        /\ \A i \in 1..Len(s) : s[i] = m \/ \E j \in 1..Len(w) : w[j] = s[i]
        /\ \E i \in 1..Len(s) : s[i] = m
    BY <1>3, <2>2
  <2> QED  BY ONLY <2>1, <2>3, <2>4, Zenon
<1>6. /\ m \in Int /\ c.last < m /\ m \in ModOrZero /\ ~Approved(c, m) /\ m \notin c.cancelled
      /\ m <= c.issued
  BY <1>1, <1>3, <1>5, PendingIsNew, ModTypes
<1>7. /\ \A z \in Mods : Approved(b, z) => Approved(c, z) \/ z = m
      /\ \A z \in Mods : Approved(c, z) => Approved(b, z) /\ z # m
      /\ Approved(b, m)
  <2>1. ASSUME NEW z \in Mods, Approved(b, z), z # m  PROVE Approved(c, z)
    <3>1. z \in Int /\ 1 <= z /\ z < m /\ z \notin c.cancelled
      BY <1>6, <2>1, ModTypes DEF Approved
    <3>2. z <= c.issued  BY <1>1, <1>6, <3>1
    <3>3. Approved(c, z) \/ Pending(c, z)  BY <3>1, <3>2 DEF ChainSizes
    <3>4. ~Pending(c, z)
      <4>1. ~(m < z)  BY <1>6, <3>1
      <4> QED  BY <1>5, <2>1, <4>1, PendingIsNew
    <3> QED  BY <3>3, <3>4
  <2>2. ASSUME NEW z \in Mods, Approved(c, z)  PROVE Approved(b, z) /\ z # m
    <3>1. z \in Int /\ 1 <= z /\ z <= c.last /\ z \notin c.cancelled
      BY <1>1, <2>2, ApprovedBound DEF Approved
    <3> QED  BY <1>1, <1>6, <3>1 DEF Approved
  <2>3. Approved(b, m)  BY <1>3, <1>6, ModTypes DEF Approved
  <2> QED  BY <2>1, <2>2, <2>3
<1>8. /\ \A z \in ModOrZero : c.sizeAt[z] \in Nat
      /\ b.sizeAt[m] = c.sizeAt[c.last] + Size[m]
      /\ \A z \in ModOrZero : z # m => b.sizeAt[z] = c.sizeAt[z]
      /\ Size[m] \in Nat
  <2>1. c.sizeAt \in [ModOrZero -> Nat]  BY <1>1 DEF Chains
  <2>2. Size[m] \in Nat  BY <1>3, DriveAssumption
  <2> QED  BY <1>6, <2>1, <2>2
<1>9. ChainSizes(b)
  <2>1. b.sizeAt[0] = 0
    <3>1. 0 \in ModOrZero /\ m # 0  BY <1>3, ModTypes
    <3> QED  BY <1>8, <3>1 DEF ChainSizes
  <2>2. ASSUME NEW z \in Mods, Approved(b, z)
        PROVE  /\ b.sizeAt[z] <= b.sizeAt[b.last]
               /\ \E y \in ModOrZero : /\ y = 0 \/ Approved(b, y)
                                       /\ y < z /\ b.sizeAt[z] = b.sizeAt[y] + Size[z]
    <3>1. CASE z = m
      <4>1. c.last = 0 \/ Approved(b, c.last)
        <5>1. c.last # 0 => c.last \in Mods /\ 1 <= c.last /\ c.last \notin c.cancelled
          BY <1>1, ModTypes DEF ChainInv
        <5>2. c.last # 0 => Approved(c, c.last)  BY <1>1, <5>1 DEF Approved
        <5> QED  BY <1>7, <5>1, <5>2
      <4>2. c.last # m /\ c.last < m  BY <1>1, <1>6
      <4>3. b.sizeAt[z] = b.sizeAt[c.last] + Size[z]  BY <1>1, <1>8, <3>1, <4>2
      <4>4. b.sizeAt[z] <= b.sizeAt[b.last]  BY <1>1, <1>8, <3>1
      <4> QED  BY <1>1, <3>1, <4>1, <4>2, <4>3, <4>4
    <3>2. CASE z # m
      <4>1. Approved(c, z) /\ z \in ModOrZero /\ z \in Int  BY <1>7, <2>2, <3>2, ModTypes
      <4>2. c.sizeAt[z] <= c.sizeAt[c.last]  BY <4>1 DEF ChainSizes
      <4>3. b.sizeAt[z] <= b.sizeAt[b.last]
        <5>1. b.sizeAt[z] = c.sizeAt[z] /\ c.sizeAt[z] \in Nat /\ c.sizeAt[c.last] \in Nat
          BY <1>1, <1>8, <3>2, <4>1
        <5> QED  BY <1>8, <4>2, <5>1
      <4>4. PICK y \in ModOrZero : /\ y = 0 \/ Approved(c, y)
                                   /\ y < z /\ c.sizeAt[z] = c.sizeAt[y] + Size[z]
        BY <4>1 DEF ChainSizes
      <4>5. y # m /\ (y = 0 \/ Approved(b, y))
        <5>1. y \in Int /\ (y # 0 => y \in Mods)  BY ModTypes
        <5>2. z <= c.last  BY <1>1, <4>1, ApprovedBound
        <5>3. y # m  BY <1>1, <1>6, <4>1, <4>4, <5>1, <5>2
        <5> QED  BY <1>7, <4>4, <5>1, <5>3
      <4>6. b.sizeAt[z] = b.sizeAt[y] + Size[z]  BY <1>8, <3>2, <4>1, <4>4, <4>5
      <4> QED  BY <4>3, <4>4, <4>5, <4>6
    <3> QED  BY <3>1, <3>2
  <2>3. \A z \in Mods : z <= b.issued => Approved(b, z) \/ z \in b.cancelled \/ Pending(b, z)
    BY <1>5, <1>7 DEF ChainSizes
  <2> QED  BY <2>1, <2>2, <2>3 DEF ChainSizes
<1>10. Tells(c, b, d, x)
  <2>1. \A z \in Mods : Approved(c, z) \/ Pending(c, z) => Approved(b, z) \/ Pending(b, z)
    BY <1>5, <1>7
  <2>2. \A z \in Mods : Approved(b, z) =>
           (Approved(c, z) /\ b.sizeAt[z] = c.sizeAt[z]) \/ Pending(c, z)
    BY <1>5, <1>7, <1>8, ModTypes
  <2>3. \A z \in Mods : Pending(b, z) => Pending(c, z)  BY <1>5
  <2> QED  BY <1>5, <2>1, <2>2, <2>3 DEF Tells
<1>11. StillCovers(c, b)
  <2> SUFFICES ASSUME NEW o, Covers(c, o)  PROVE Covers(b, o)
    BY DEF StillCovers
  <2>1. /\ o \in Uploads /\ o.id <= c.issued /\ o.id \in ModOrZero /\ o.id \in Int
        /\ o.sum \in Nat /\ \A i \in 1..Len(s) : o.id <= s[i]
    BY <1>2, ModTypes DEF Covers, Uploads
  <2>2. \A i \in 1..Len(w) : o.id <= w[i]  BY <1>3, <2>1
  <2>3. o.id <= m  BY <1>3, <2>1
  <2>4. ~Pending(b, o.id)
    <3>1. Pending(b, o.id) => m < o.id  BY <1>5
    <3> QED  BY <1>6, <2>1, <2>3, <3>1
  <2>5. Approved(b, o.id) => b.sizeAt[o.id] <= o.sum
    <3>1. CASE o.id = m
      <4>1. c.sizeAt[c.last] + Size[o.id] <= o.sum  BY <1>5, <3>1 DEF Covers
      <4> QED  BY <1>8, <3>1, <4>1
    <3>2. CASE o.id # m
      <4>1. Approved(b, o.id) => o.id \in Mods  BY <1>6, <2>1, ModTypes DEF Approved
      <4>2. Approved(b, o.id) => Approved(c, o.id)  BY <1>7, <3>2, <4>1
      <4>3. Approved(c, o.id) => c.sizeAt[o.id] <= o.sum  BY DEF Covers
      <4> QED  BY <1>8, <2>1, <3>2, <4>2, <4>3
    <3> QED  BY <3>1, <3>2
  <2> QED  BY <1>2, <2>1, <2>2, <2>4, <2>5 DEF Covers
<1>12. \A i \in 1..Len(q) : EventPair(q[i], x) \/ q[i].type = "close"  BY DEF EventPair
<1> QED  BY <1>7, <1>9, <1>10, <1>11, <1>12 DEF ChainGoes

\* A pending modification is newer than everything that was approved.
LEMMA CancelledGoes ==
    ASSUME NEW c, NEW q, NEW d, NEW k, Good(c, q, d, k), Order(c, q, d, k), ChainSizes(c),
           NEW m, Pending(c, m), NEW b, b.pending = Without(c.pending, m),
           b.issued = c.issued, b.last = c.last, b.sizeAt = c.sizeAt,
           b.cancelled = c.cancelled \cup {m},
           NEW x, x.type = "cancel", x.mod = m
    PROVE  ChainGoes(c, b, q, d, x)
<1>1. /\ c.pending \in Seq(Mods) /\ ChainInv(c) /\ c.last \in Int
      /\ m \in Mods /\ m \in Int /\ c.last < m /\ m \notin c.cancelled
  BY ChainTypes, PendingIsNew DEF Good
<1>2. PICK s, w : s = c.pending /\ w = b.pending  OBVIOUS
<1>3. /\ \A i \in 1..Len(w) : \E j \in 1..Len(s) : s[j] = w[i]
      /\ \A j \in 1..Len(s) : s[j] # m => \E i \in 1..Len(w) : w[i] = s[j]
      /\ \A i \in 1..Len(w) : w[i] # m
  <2>1. s \in Seq(Mods) /\ Increasing(s) /\ w = Without(s, m)
    BY <1>1, <1>2 DEF ChainInv, Increasing
  <2>2. /\ \A i \in 1..Len(w) : \E j \in 1..Len(s) : s[j] = w[i]
        /\ \A j \in 1..Len(s) : s[j] # m => \E i \in 1..Len(w) : w[i] = s[j]
    BY ONLY <2>1, WithoutOrder, SMTT(60)
  <2>3. \A i \in 1..Len(w) : w[i] # m  BY ONLY <2>1, WithoutForgets, SMTT(60)
  <2> QED  BY <2>2, <2>3
<1>4. \A z : Pending(b, z) <=> Pending(c, z) /\ z # m
  <2>1. /\ \A z : Pending(c, z) <=> \E i \in 1..Len(s) : s[i] = z
        /\ \A z : Pending(b, z) <=> \E i \in 1..Len(w) : w[i] = z
    BY <1>2 DEF Pending
  <2> QED  BY ONLY <1>3, <2>1, Zenon
<1>5. \A z \in ModOrZero : Approved(b, z) <=> Approved(c, z)
  BY <1>1, ModTypes DEF Approved
<1>6. ChainSizes(b)
  <2>1. \A z \in Mods : z \in ModOrZero  BY ModTypes
  <2> QED  BY <1>4, <1>5, <2>1 DEF ChainSizes
<1>7. Tells(c, b, d, x)
  <2>1. d.catchReq < m  BY <1>1, DriveNumbers, ModTypes
  <2>2. d.task.kind = "catchup" => d.task.mod < m
    BY <1>1, DriveNumbers, ModTypes DEF Applies
  <2>3. \A z \in Mods : z \in ModOrZero  BY ModTypes
  <2> QED  BY <1>4, <1>5, <2>1, <2>2, <2>3 DEF Tells
<1>8. StillCovers(c, b)
  <2> SUFFICES ASSUME NEW o, Covers(c, o)  PROVE Covers(b, o)
    BY DEF StillCovers
  <2>1. o.id \in ModOrZero  BY DEF Covers, Uploads
  <2>2. \A i \in 1..Len(w) : o.id <= w[i]
    <3>1. \A i \in 1..Len(s) : o.id <= s[i]  BY <1>2 DEF Covers
    <3> QED  BY <1>3, <3>1
  <2> QED  BY <1>2, <1>4, <1>5, <2>1, <2>2 DEF Covers
<1>9. \A i \in 1..Len(q) : EventPair(q[i], x) \/ q[i].type = "close"
  <2> SUFFICES ASSUME NEW i \in 1..Len(q)
               PROVE  /\ q[i].type = "approve" => q[i].mod < m
                      /\ q[i].type = "cancel" => q[i].mod # m
    BY DEF EventPair
  <2>1. q[i].type = "approve" => q[i].mod < m
    <3>1. q[i].type = "approve" => Approved(c, q[i].mod)
      BY DEF Good, InboxInv, EventInv
    <3>2. Approved(c, q[i].mod) => q[i].mod \in Int /\ q[i].mod <= c.last
      BY <1>1, ApprovedBound
    <3> QED  BY <1>1, <3>1, <3>2
  <2>2. q[i].type = "cancel" => q[i].mod \in c.cancelled
    BY DEF Order, InboxOrder, EventOrder
  <2> QED  BY <1>1, <2>1, <2>2
<1>10. \A z \in Mods : Approved(c, z) => Approved(b, z)  BY <1>5, ModTypes
<1> QED  BY <1>6, <1>7, <1>8, <1>9, <1>10 DEF ChainGoes

\* The other steps of the chain approve and cancel nothing.
LEMMA OtherGoes ==
    ASSUME NEW c, NEW q, NEW d, ChainSizes(c), NEW b, b.pending = c.pending,
           b.issued = c.issued, b.last = c.last, b.sizeAt = c.sizeAt,
           b.cancelled = c.cancelled, NEW x, x.type \in {"close", "verify", "verified"}
    PROVE  ChainGoes(c, b, q, d, x)
<1>1. \A z : (Pending(b, z) <=> Pending(c, z)) /\ (Approved(b, z) <=> Approved(c, z))
  BY DEF Pending, Approved
<1>2. ChainSizes(b)  BY <1>1 DEF ChainSizes
<1>3. Tells(c, b, d, x)  BY <1>1 DEF Tells
<1>4. StillCovers(c, b)  BY <1>1 DEF StillCovers, Covers
<1>5. \A i \in 1..Len(q) : EventPair(q[i], x) \/ q[i].type = "close"  BY DEF EventPair
<1> QED  BY <1>1, <1>2, <1>3, <1>4, <1>5 DEF ChainGoes

\* The chain takes a step: it tells the drive one event.
LEMMA ChainStepGoes ==
    ASSUME Safe, ChainSizes(chain), Typed', ChainStep
    PROVE  /\ UNCHANGED replicator /\ ~chain.closed
           /\ \E x \in Events : /\ Post(x.type, x.mod) /\ (x.type = "close" => chain'.closed)
                               /\ ChainGoes(chain, chain', inbox, drive, x)
<1>1. /\ Good(chain, inbox, drive, disk) /\ Order(chain, inbox, drive, disk)
      /\ ChainSizes(chain) /\ chain \in Chains
  BY SafeGood, ChainTypes DEF Good, Tidy
<1>2. DOMAIN chain = {"issued", "pending", "last", "rootAt", "sizeAt", "cancelled",
                      "verifies", "verifying", "closed"}
  BY <1>1 DEF Chains
<1>3. UNCHANGED replicator /\ ~chain.closed
  BY DEF ChainStep, ChainModify, ChainApprove, ChainCancel, ChainClose, ChainVerify,
         ChainVerified
<1> DEFINE Told == \E x \in Events :
                     /\ Post(x.type, x.mod) /\ (x.type = "close" => chain'.closed)
                     /\ ChainGoes(chain, chain', inbox, drive, x)
<1>4. ASSUME NEW x \in Events, Post(x.type, x.mod), x.type = "close" => chain'.closed,
             ChainGoes(chain, chain', inbox, drive, x)
      PROVE  Told
  BY <1>4
<1> SUFFICES Told
  BY <1>3
<1> HIDE DEF Told
<1>5. CASE ChainModify
  <2>1. PICK m : m = chain.issued + 1  OBVIOUS
  <2>2. PICK x : x = [type |-> "modify", mod |-> m]  OBVIOUS
  <2>3. /\ chain.issued < MaxMods /\ Post("modify", m)
        /\ chain' = [chain EXCEPT !.issued = m, !.pending = Append(chain.pending, m)]
    BY <1>2, <1>5, <2>1 DEF ChainModify
  <2>4. m \in Mods /\ m \in ModOrZero
    BY <1>1, <2>1, <2>3, DriveAssumption, ModTypes DEF Chains, Mods, ModOrZero
  <2>5. x \in Events /\ x.type = "modify" /\ x.mod = m  BY <2>2, <2>4 DEF Events
  <2>6. /\ chain'.pending = Append(chain.pending, m) /\ chain'.issued = m
        /\ chain'.last = chain.last /\ chain'.sizeAt = chain.sizeAt
        /\ chain'.cancelled = chain.cancelled
    BY <1>2, <2>3
  <2>7. ChainGoes(chain, chain', inbox, drive, x)
    BY ONLY <1>1, <2>1, <2>4, <2>5, <2>6, ModifyGoes
  <2> QED  BY <1>4, <2>3, <2>5, <2>7
<1>6. CASE ChainApprove
  <2>1. PICK m : m = Head(chain.pending)  OBVIOUS
  <2>2. PICK x : x = [type |-> "approve", mod |-> m]  OBVIOUS
  <2>3. PICK sa : sa = [chain.sizeAt EXCEPT ![m] = chain.sizeAt[chain.last] + Size[m]]
    OBVIOUS
  <2>4. /\ chain.pending # <<>> /\ Post("approve", m)
        /\ \E ra : chain' = [chain EXCEPT !.pending = Tail(chain.pending), !.last = m,
                                          !.rootAt = ra, !.sizeAt = sa]
    BY <1>2, <1>6, <2>1, <2>3 DEF ChainApprove
  <2>5. m \in Mods /\ m \in ModOrZero
    <3>1. chain.pending \in Seq(Mods)  BY <1>1 DEF Chains
    <3>2. m \in Mods  BY <2>1, <2>4, <3>1, HeadTailProperties
    <3> QED  BY <3>2, ModTypes
  <2>6. x \in Events /\ x.type = "approve" /\ x.mod = m  BY <2>2, <2>5 DEF Events
  <2>7. /\ chain'.pending = Tail(chain.pending) /\ chain'.issued = chain.issued
        /\ chain'.last = m /\ chain'.cancelled = chain.cancelled /\ chain'.sizeAt = sa
    BY <1>2, <2>4
  <2>8. ChainGoes(chain, chain', inbox, drive, x)
    BY ONLY <1>1, <2>1, <2>3, <2>4, <2>6, <2>7, ApproveGoes
  <2> QED  BY <1>4, <2>4, <2>6, <2>8
<1>7. CASE \E m \in Mods : ChainCancel(m)
  <2>1. PICK m \in Mods : ChainCancel(m)  BY <1>7
  <2>2. PICK x : x = [type |-> "cancel", mod |-> m]  OBVIOUS
  <2>3. /\ Post("cancel", m) /\ \E i \in DOMAIN chain.pending : chain.pending[i] = m
        /\ chain' = [chain EXCEPT !.pending = Without(chain.pending, m),
                                  !.cancelled = chain.cancelled \cup {m}]
    BY <1>2, <2>1 DEF ChainCancel
  <2>4. Pending(chain, m)
    <3>1. chain.pending \in Seq(Mods)  BY <1>1 DEF Chains
    <3>2. DOMAIN chain.pending = 1..Len(chain.pending)  BY <3>1, LenProperties
    <3> QED  BY <2>3, <3>2 DEF Pending
  <2>5. x \in Events /\ x.type = "cancel" /\ x.mod = m  BY <2>2, ModTypes DEF Events
  <2>6. /\ chain'.pending = Without(chain.pending, m) /\ chain'.issued = chain.issued
        /\ chain'.last = chain.last /\ chain'.sizeAt = chain.sizeAt
        /\ chain'.cancelled = chain.cancelled \cup {m}
    BY <1>2, <2>3
  <2>7. ChainGoes(chain, chain', inbox, drive, x)
    BY ONLY <1>1, <2>4, <2>5, <2>6, CancelledGoes
  <2> QED  BY <1>4, <2>3, <2>5, <2>7
<1>8. CASE ChainClose \/ ChainVerify \/ ChainVerified
  <2>1. PICK x \in Events : /\ Post(x.type, x.mod) /\ x.type \in {"close", "verify", "verified"}
                            /\ x.type = "close" => chain'.closed
    <3>1. CASE ChainClose
      <4>1. PICK x : x = [type |-> "close", mod |-> 0]  OBVIOUS
      <4>2. x \in Events /\ x.type = "close" /\ x.mod = 0  BY <4>1, ModTypes DEF Events
      <4>3. Post("close", 0) /\ chain'.closed  BY <1>2, <3>1 DEF ChainClose
      <4> QED  BY <4>2, <4>3
    <3>2. CASE ChainVerify
      <4>1. PICK x : x = [type |-> "verify", mod |-> chain.last]  OBVIOUS
      <4>2. x \in Events /\ x.type = "verify" /\ x.mod = chain.last
        BY <1>1, <4>1 DEF Events, Chains
      <4>3. Post("verify", chain.last)  BY <3>2 DEF ChainVerify
      <4> QED  BY <4>2, <4>3
    <3>3. CASE ChainVerified
      <4>1. PICK x : x = [type |-> "verified", mod |-> 0]  OBVIOUS
      <4>2. x \in Events /\ x.type = "verified" /\ x.mod = 0  BY <4>1, ModTypes DEF Events
      <4>3. Post("verified", 0)  BY <3>3 DEF ChainVerified
      <4> QED  BY <4>2, <4>3
    <3> QED  BY <1>8, <3>1, <3>2, <3>3
  <2>2. /\ chain'.pending = chain.pending /\ chain'.issued = chain.issued
        /\ chain'.last = chain.last /\ chain'.sizeAt = chain.sizeAt
        /\ chain'.cancelled = chain.cancelled
    BY <1>2, <1>8 DEF ChainClose, ChainVerify, ChainVerified
  <2>3. ChainGoes(chain, chain', inbox, drive, x)
    BY ONLY <1>1, <2>1, <2>2, OtherGoes
  <2> QED  BY <1>4, <2>1, <2>3
<1> QED  BY <1>5, <1>6, <1>7, <1>8 DEF ChainStep

\* The step of the chain keeps the accounts right.
LEMMA ChainStepAccounted ==
    ASSUME Safe, Accounted, Typed', ChainStep
    PROVE  Accounted'
<1>1. ChainSizes(chain)  BY DEF Accounted
<1>2. /\ UNCHANGED replicator /\ ~chain.closed
      /\ \E x \in Events : /\ Post(x.type, x.mod) /\ (x.type = "close" => chain'.closed)
                          /\ ChainGoes(chain, chain', inbox, drive, x)
  BY <1>1, ChainStepGoes
<1>3. PICK x \in Events : /\ Post(x.type, x.mod) /\ (x.type = "close" => chain'.closed)
                         /\ ChainGoes(chain, chain', inbox, drive, x)
  BY <1>2
<1> QED  BY <1>2, <1>3, ChainAccounted

------------------------------------------------------------------------------
(* IX. Crashes and restarts *)

\* The accounts of a drive that was just added: its size is that of the last
\* approved modification.
LEMMA NewDriveLedger ==
    ASSUME NEW c \in Chains, ChainSizes(c), NEW q,
           \A i \in 1..Len(q) : \/ q[i].type = "verify"
                                \/ q[i].type = "approve" /\ i = 1
                                \/ q[i].type = "modify" /\ Pending(c, q[i].mod),
           \A m \in Mods : Pending(c, m) => Requested(q, m),
           NEW x, NEW d, d = NewDrive(x), NEW n, n = c.sizeAt[c.last],
           NEW a, a = NewAccount(n)
    PROVE  Tended(c, q, d, a) /\ EventPairs(c, q)
<1>1. /\ d.deferred = <<>> /\ d.catchReq = 0 /\ d.cancelReq = 0 /\ ~d.closeReq
      /\ d.task.kind = "init"
  BY DEF NewDrive, NewTask
<1>2. a.expected = n  BY DEF NewAccount
<1>3. /\ ~Works(d.task) /\ Fresh(d) /\ ~Closing(d)
      /\ \A m : ~Deferred(d, m)
  BY <1>1, EmptySeq DEF Works, Fresh, Closing, Deferred
<1>4. PendingOpen(c, q, d)  BY <1>3 DEF PendingOpen, Open, Waits
<1>5. ApprovalsOpen(q, d)  BY <1>3 DEF ApprovalsOpen
<1>6. OpenIsKnown(c, q, d)
  <2>1. \A m : Requested(q, m) => Pending(c, m)  BY DEF Requested
  <2> QED  BY <1>3, <2>1 DEF OpenIsKnown, Open, Waits
<1>7. CancelsAreNewer(q, d)  BY DEF CancelsAreNewer
<1>8. Expects(c, q, d, a)  BY <1>2 DEF Expects, ChainSizes
<1>9. Ledger(c, q, d, a)  BY <1>3, <1>4, <1>5, <1>6, <1>7, <1>8 DEF Ledger
<1>10. EventPairs(c, q)  BY DEF EventPairs, EventPair
<1> QED  BY <1>1, <1>3, <1>9, <1>10 DEF Tended, ClosingLast, IdleIsIdle

\* The replicator starts again.
LEMMA RestartAccounted ==
    ASSUME Safe, Accounted, Typed', Restart
    PROVE  Accounted'
<1>1. /\ chain' = chain /\ disk' = disk /\ sent' = sent
      /\ drive' = NewDrive(chain.cancelled)
      /\ acct' = NewAccount(chain.sizeAt[chain.last])
  BY DEF Restart
<1>2. chain \in Chains /\ ChainInv(chain)  BY SafeGood, ChainTypes DEF Good
<1>3. PICK q : q = inbox'  OBVIOUS
<1>4. /\ q \in Seq(Events) /\ Ordered(q)
      /\ \A i \in 1..Len(q) :
            \/ q[i].type = "verify"
            \/ q[i].type = "approve" /\ q[i].mod = chain.last /\ chain.last # 0
            \/ /\ q[i].type = "modify"
               /\ \E j \in 1..Len(chain.pending) : q[i].mod = chain.pending[j]
      /\ \A j \in 1..Len(chain.pending) : Requested(q, chain.pending[j])
      /\ chain.last # 0 => q # <<>> /\ Head(q).type = "approve" /\ Head(q).mod = chain.last
  BY <1>3, RestartInbox
<1>5. \A i \in 1..Len(q) : \/ q[i].type = "verify"
                           \/ q[i].type = "approve" /\ i = 1
                           \/ q[i].type = "modify" /\ Pending(chain, q[i].mod)
  <2> SUFFICES ASSUME NEW i \in 1..Len(q), q[i].type = "approve"  PROVE i = 1
    BY <1>4 DEF Pending
  <2>1. q[i].mod = chain.last /\ chain.last # 0  BY <1>4
  <2>2. q[1].type = "approve" /\ q[1].mod = chain.last  BY <1>4, <2>1
  <2>3. ASSUME 1 < i  PROVE FALSE
    <3>1. 1 \in 1..Len(q)  BY <2>3
    <3>2. PairOrder(q[1], q[i])  BY <1>4, <2>3, <3>1 DEF Ordered
    <3>3. chain.last < chain.last  BY <2>1, <2>2, <3>2 DEF PairOrder
    <3> QED  BY <1>2, <3>3, ChainTypes
  <2> QED  BY <2>3
<1>6. \A m \in Mods : Pending(chain, m) => Requested(q, m)  BY <1>4 DEF Pending
<1>7. Tended(chain, q, drive', acct') /\ EventPairs(chain, q)
  <2>1. PICK d, n, a : d = drive' /\ n = chain.sizeAt[chain.last] /\ a = acct'  OBVIOUS
  <2>2. ChainSizes(chain)  BY DEF Accounted
  <2>3. d = NewDrive(chain.cancelled) /\ a = NewAccount(n)  BY <1>1, <2>1
  <2>4. Tended(chain, q, d, a) /\ EventPairs(chain, q)
    BY ONLY <1>2, <1>5, <1>6, <2>1, <2>2, <2>3, NewDriveLedger
  <2> QED  BY <2>1, <2>4
<1>8. Books(chain, sent', disk', acct')
  <2>1. acct'.approved = NoUploads /\ acct'.notApproved = NoUploads
    BY <1>1 DEF NewAccount
  <2> QED  BY <1>1, <1>2, <2>1, NoUploadsCovered DEF Accounted, Books, Remembered
<1> QED  BY <1>1, <1>3, <1>7, <1>8 DEF Accounted

\* A crash.
LEMMA CrashAccounted ==
    ASSUME Safe, Accounted, Typed', Crash
    PROVE  Accounted'
BY DieAccounted DEF Crash

------------------------------------------------------------------------------
(* X. The theorem *)

\* The types hold initially, and every step preserves them.
LEMMA InitTyped == Init => Typed
<1> SUFFICES ASSUME Init  PROVE Typed
  OBVIOUS
<1>1. NoUploads \in Uploads  BY ModTypes DEF NoUploads, Uploads
<1>2. acct \in Accounts  BY <1>1 DEF Init, NewAccount, Accounts
<1>3. disk \in Disks  BY <1>1, ModTypes DEF Init, EmptyDisk, Disks, Roots
<1> QED  BY <1>2, <1>3, BoundAssumption DEF Init, Typed

LEMMA NextTyped == ASSUME IInv, Typed, Next  PROVE Typed'
BY ChainTyped, EventTyped, TaskTyped, RestartTyped DEF Next

\* The accounts are in order initially ...
LEMMA InitAccounted == Init => Accounted
<1> SUFFICES ASSUME Init  PROVE Accounted
  OBVIOUS
<1>1. chain = NewChain /\ inbox = <<>> /\ drive = NewDrive({}) /\ acct = NewAccount(0)
      /\ disk = EmptyDisk /\ sent = {}
  BY DEF Init
<1>2. /\ chain.pending = <<>> /\ chain.last = 0 /\ chain.issued = 0
      /\ chain.sizeAt = [m \in ModOrZero |-> 0]
  BY <1>1 DEF NewChain
<1>3. chain \in Chains /\ ChainInv(chain)
  BY InitSafe, SafeGood, ChainTypes DEF Good
<1>4. Len(chain.pending) = 0 /\ Len(inbox) = 0  BY <1>1, <1>2, EmptySeq
<1>5. \A m : ~Pending(chain, m) /\ ~Approved(chain, m)
  <2>1. \A m : ~Pending(chain, m)  BY <1>4 DEF Pending
  <2>2. \A m : ~Approved(chain, m)  BY <1>2, <1>3, ApprovedBound
  <2> QED  BY <2>1, <2>2
<1>6. ChainSizes(chain)
  <2>1. \A m \in Mods : ~(m <= chain.issued)  BY <1>2, ModTypes
  <2>2. chain.sizeAt[0] = 0  BY <1>2, ModTypes
  <2> QED  BY <1>5, <2>1, <2>2 DEF ChainSizes
<1>7. Tended(chain, inbox, drive, acct) /\ EventPairs(chain, inbox)
  <2>1. PICK c, q, d, n, a : /\ c = chain /\ q = inbox /\ d = drive /\ a = acct
                             /\ n = c.sizeAt[c.last]
    OBVIOUS
  <2>2. n = 0  BY <1>2, <2>1, ModTypes
  <2>3. d = NewDrive({}) /\ a = NewAccount(n)  BY <1>1, <2>1, <2>2
  <2>4. c \in Chains /\ ChainSizes(c)  BY <1>3, <1>6, <2>1
  <2>5. /\ \A i \in 1..Len(q) : FALSE
        /\ \A m \in Mods : ~Pending(c, m)
    BY <1>4, <1>5, <2>1
  <2>6. Tended(c, q, d, a) /\ EventPairs(c, q)
    BY ONLY <2>1, <2>3, <2>4, <2>5, NewDriveLedger
  <2> QED  BY <2>1, <2>6
<1>8. Books(chain, sent, disk, acct)
  <2>1. sent \cup Remembered(disk, acct) = {NoUploads}
    BY <1>1 DEF Remembered, EmptyDisk, NewAccount
  <2> QED  BY <1>3, <2>1, NoUploadsCovered DEF Books
<1> QED  BY <1>6, <1>7, <1>8, InitTyped DEF Accounted

\* ... and every step keeps them in order.
LEMMA NextAccounted == Safe /\ Accounted /\ [Next]_vars => Accounted'
<1> SUFFICES ASSUME Safe, Accounted, [Next]_vars  PROVE Accounted'
  OBVIOUS
<1>1. CASE UNCHANGED vars  BY <1>1 DEF vars, Accounted, Typed
<1>2. CASE Next
  <2>1. Typed'  BY <1>2, NextTyped DEF Safe, Accounted
  <2>2. CASE ChainStep  BY <2>1, <2>2, ChainStepAccounted
  <2>3. CASE OnEvent
    BY <2>1, <2>3, OnModifyAccounted, OnApprovalAccounted, OnCancelAccounted,
       OnCloseAccounted, OnVerifyAccounted DEF OnEvent
  <2>4. CASE ClientDownload \/ ReplicatorDownload
    BY <2>1, <2>4, PlainAccounted DEF ClientDownload, ReplicatorDownload
  <2>5. CASE TaskStep
    BY <2>1, <2>5, InitializeAccounted, PlainAccounted, SandboxAccounted, SaveAccounted,
       SynchronizeAccounted, SaveLastAccounted, RemoveAccounted, FinishAccounted
       DEF TaskStep
  <2>6. CASE Crash \/ Restart \/ RemoveUnusedDrives
    BY <2>1, <2>6, CrashAccounted, RestartAccounted, RemoveAccounted
  <2> QED  BY <1>2, <2>2, <2>3, <2>4, <2>5, <2>6 DEF Next
<1> QED  BY <1>1, <1>2

\* An opinion never names less than what the chain approved: whatever was
\* cancelled, whatever the drive skipped or executed twice and whenever the
\* replicator was restarted, m_approvedExpectedCumulativeDownload has grown by
\* the size of every approved modification that the drive no longer works on.
THEOREM OpinionsNeverUndercountTheorem == Spec => []OpinionsNeverUndercount
<1>1. Init => Safe /\ Accounted  BY InitSafe, InitAccounted
<1>2. Safe /\ Accounted /\ [Next]_vars => (Safe /\ Accounted)'
  BY NextSafe, NextAccounted
<1>3. Accounted /\ TypeOK => OpinionsNeverUndercount
  <2> SUFFICES ASSUME Accounted, NEW o \in sent, IsApproved(o.id)
               PROVE  o.sum >= chain.sizeAt[o.id]
    BY DEF OpinionsNeverUndercount
  <2>1. Covers(chain, o) /\ Approved(chain, o.id)
    BY DEF Accounted, Books, IsApproved, Approved
  <2> QED  BY <2>1 DEF Covers
<1> QED  BY <1>1, <1>2, <1>3, TypesAreKept, PTL DEF Spec

------------------------------------------------------------------------------
(* XI. Cancellations.  The invariant: the uploads that are not approved yet   *)
(* are those of a modification that was approved after all, that is going to  *)
(* be disapproved, or whose cancellation can still be heard of.               *)

\* There is nothing to take back of modification m.
Settles(c, m) == m = 0 \/ Approved(c, m)

\* The uploads in memory were changed, but not saved yet.
Unsaved(t) == \/ Loading(t)
              \/ t.kind \in Updating /\ t.step = "saveNot"
              \/ t.kind = "cancel" /\ t.step = "disapprove"

\* Modification m, or its cancellation, is the next one that the drive handles.
Alive(c, q, d, m) ==
    /\ Pending(c, m) \/ Announced(q, "cancel", m)
    /\ m \in Mods /\ Open(d, q, m)
    /\ \A n \in Mods : Open(d, q, n) => m <= n
    /\ d.task.kind = "modify" => Works(d.task) /\ d.task.mod = m

\* A cancellation of m is not lost.
Forgets(c, q, d, m) ==
    \/ Settles(c, m)
    \/ d.cancelReq # 0
    \/ Loading(d.task) /\ m \in d.task.cancels
    \/ Alive(c, q, d, m)

\* What the drive is going to know of uploads that are not approved.
Latest(d, k, a) == IF Loading(d.task) THEN k.notApproved.id ELSE a.notApproved.id

Remembers(c, q, d, k, a) ==
    /\ Settles(c, a.approved.id)
    /\ Unsaved(d.task) \/ k.notApproved = a.notApproved
    /\ d.task.step \in Built => d.task.kind \in Updating /\ a.notApproved.id = d.task.mod
    /\ d.task.kind = "cancel" => Settles(c, a.notApproved.id)
    /\ Closing(d) \/ Forgets(c, q, d, Latest(d, k, a))

Cleared == up = "up" => Remembers(chain, inbox, drive, disk, acct)

\* The task goes on and its modification is as open as it was.
LEMMA GoesForgets ==
    ASSUME NEW c, NEW q, NEW d, NEW m, Forgets(c, q, d, m), NEW e, Goes(d, e),
           Works(e.task) <=> Works(d.task), Loading(d.task) => Loading(e.task)
    PROVE  Forgets(c, q, e, m)
<1>1. \A n \in Mods : Open(e, q, n) <=> Open(d, q, n)
  BY DEF Goes, Open, Waits, Deferred
<1>2. Alive(c, q, d, m) => Alive(c, q, e, m)  BY <1>1 DEF Alive, Goes
<1> QED  BY <1>2 DEF Forgets, Goes

\* So is what is known of its uploads, if the step leaves them alone.
LEMMA GoesRemembers ==
    ASSUME NEW c, NEW q, NEW d, NEW k, NEW a, Remembers(c, q, d, k, a),
           NEW e, Goes(d, e), Works(e.task) <=> Works(d.task), ~Loading(d.task),
           ~Loading(e.task), e.task.step \in Built => d.task.step \in Built,
           NEW l, Unsaved(e.task) \/ l.notApproved = a.notApproved
    PROVE  Remembers(c, q, e, l, a)
<1>1. Closing(e) <=> Closing(d)  BY DEF Goes, Closing
<1>2. Closing(d) \/ Forgets(c, q, e, a.notApproved.id)
  BY GoesForgets DEF Remembers, Latest
<1> QED  BY <1>1, <1>2 DEF Remembers, Latest, Goes

\* What is left to show of a step of a task.
LEMMA TaskCleared ==
    ASSUME chain' = chain, inbox' = inbox, Remembers(chain, inbox, drive', disk', acct')
    PROVE  Cleared'
  BY DEF Cleared

\* The downloads and the jobs that save nothing.
LEMMA PlainCleared ==
    ASSUME Safe, Cleared,
           \/ ActionListDownloaded \/ PrepareDownloadMissingFiles \/ MissingFilesDownloaded
           \/ FsTreeDownloaded \/ RemoveUnusedFiles \/ CatchUpFilesDownloaded \/ ClearDrive
    PROVE  Cleared'
<1> USE DEF ActionListDownloaded, PrepareDownloadMissingFiles, MissingFilesDownloaded,
            FsTreeDownloaded, RemoveUnusedFiles, CatchUpFilesDownloaded, ClearDrive
<1>1. /\ chain' = chain /\ inbox' = inbox /\ up = "up" /\ acct' = acct /\ disk' = disk
      /\ drive.task.kind \in {"modify", "catchup", "cancel"}
      /\ drive.task.step \in {"list", "prep", "files", "tree", "unused", "clear"}
  BY DEF environment, At
<1>2. \E s \in Steps : /\ Stepped(drive, drive', s)
                       /\ s \in {"prep", "files", "sandbox", "copy", "unused", "finish"}
                       /\ drive.task.kind = "modify" => s \in {"prep", "files", "sandbox", "copy"}
  BY DEF CompletedWithError, FinishTask, Steps, Stepped, At
<1>3. PICK s \in Steps : /\ Stepped(drive, drive', s)
                         /\ s \in {"prep", "files", "sandbox", "copy", "unused", "finish"}
                         /\ drive.task.kind = "modify" => s \in {"prep", "files", "sandbox", "copy"}
  BY <1>2
<1>4. Goes(drive, drive') /\ drive'.task.step = s  BY <1>3, SafeGood, SteppedGoes
<1>5. Works(drive'.task) <=> Works(drive.task)  BY <1>1, <1>3, <1>4 DEF Works, Goes
<1>6. Remembers(chain, inbox, drive, disk, acct)  BY <1>1 DEF Cleared
<1>7. disk'.notApproved = acct.notApproved
  BY <1>1, <1>6 DEF Remembers, Unsaved, Loading, Updating
<1>8. ~Loading(drive.task) /\ ~Loading(drive'.task) /\ drive'.task.step \notin Built
  BY <1>1, <1>3, <1>4 DEF Loading, Built, Synchronizing
<1> QED  BY <1>1, <1>4, <1>5, <1>6, <1>7, <1>8, GoesRemembers, TaskCleared

\* The jobs that save something, but for the modification that replaces the drive.
LEMMA SaveCleared ==
    ASSUME Safe, Cleared,
           \/ SaveNotApproved \/ SaveDisapproved \/ SaveApprovedUploads
           \/ CatchUpMoveFsTree \/ MyOpinionIsCreated \/ CatchUpOpinionIsCreated
    PROVE  Cleared'
<1> USE DEF SaveNotApproved, SaveDisapproved, SaveApprovedUploads, CatchUpMoveFsTree,
            MyOpinionIsCreated, CatchUpOpinionIsCreated
<1>1. /\ chain' = chain /\ inbox' = inbox /\ up = "up" /\ acct' = acct
      /\ drive.task.kind \in {"modify", "catchup", "cancel"}
      /\ drive.task.step \in {"saveNot", "disapprove"} \cup Built
  BY DEF environment, At, Updating, Built, Synchronizing
<1>2. \E s \in Steps :
         /\ Stepped(drive, drive', s) /\ s # "load"
         /\ s \in Built => drive.task.step \in Built
         /\ drive.task.kind = "modify" /\ ~drive.task.interrupted =>
              \/ /\ drive.task.step \notin {"saveUploads", "saveLast", "finish"}
                 /\ s \notin {"saveUploads", "saveLast", "finish"}
              \/ /\ drive.task.step \in {"saveUploads", "saveLast", "finish"}
                 /\ s \in {"saveUploads", "saveLast", "finish"}
  BY DEF FinishTask, Steps, Stepped, At, Updating, Built, Synchronizing
<1>3. PICK s \in Steps :
         /\ Stepped(drive, drive', s) /\ s # "load"
         /\ s \in Built => drive.task.step \in Built
         /\ drive.task.kind = "modify" /\ ~drive.task.interrupted =>
              \/ /\ drive.task.step \notin {"saveUploads", "saveLast", "finish"}
                 /\ s \notin {"saveUploads", "saveLast", "finish"}
              \/ /\ drive.task.step \in {"saveUploads", "saveLast", "finish"}
                 /\ s \in {"saveUploads", "saveLast", "finish"}
  BY <1>2
<1>4. Goes(drive, drive') /\ drive'.task.step = s  BY <1>3, SafeGood, SteppedGoes
<1>5. Works(drive'.task) <=> Works(drive.task)  BY <1>3, <1>4 DEF Works, Goes
<1>6. Remembers(chain, inbox, drive, disk, acct)  BY <1>1 DEF Cleared
<1>7. disk'.notApproved = acct.notApproved
  <2>1. \/ disk' = [disk EXCEPT !.notApproved = acct.notApproved]
        \/ /\ Unsaved(drive.task) \/ disk.notApproved = acct.notApproved
           /\ ~Unsaved(drive.task)
           /\ \/ disk' = [disk EXCEPT !.approved = acct.approved]
              \/ disk' = [disk EXCEPT !.root = drive.task.root]
              \/ disk' = [disk EXCEPT !.opinion = acct.notApproved]
    BY <1>6 DEF Remembers, At, Unsaved, Loading, Updating
  <2>2. DOMAIN disk = {"root", "last", "approved", "notApproved", "opinion"}
    BY DEF Safe, IInv, DiskInv
  <2> QED  BY ONLY <2>1, <2>2
<1>8. ~Loading(drive.task) /\ ~Loading(drive'.task)
  BY <1>1, <1>3, <1>4 DEF Loading, Goes
<1>9. drive'.task.step \in Built => drive.task.step \in Built  BY <1>3, <1>4
<1> QED  BY <1>1, <1>4, <1>5, <1>6, <1>7, <1>8, <1>9, GoesRemembers, TaskCleared


\* The uploads that are made for the modification at work are its own: it was
\* approved, or it is the next one to be handled.
LEMMA NewUploadsForget ==
    ASSUME NEW c, NEW q, NEW d, NEW k, Good(c, q, d, k), Order(c, q, d, k),
           NEW a, Ledger(c, q, d, a), NEW m \in Mods, m = d.task.mod,
           d.task.kind = "catchup" \/ Works(d.task)
    PROVE  Forgets(c, q, d, m)
<1>1. CASE d.task.kind = "catchup"
  BY <1>1 DEF Good, DriveInv, DriveIsApproved, TaskIsApproved, Forgets, Settles
<1>2. CASE Works(d.task)
  <2>1. Open(d, q, m)  BY <1>2 DEF Open
  <2>2. \A n \in Mods : Open(d, q, n) => m <= n
    <3> SUFFICES ASSUME NEW n \in Mods, Open(d, q, n)  PROVE m <= n
      OBVIOUS
    <3>1. CASE Waits(d, q, n)
      <4>1. m < n  BY <1>2, <3>1, WaitingOrder DEF Works, Updating
      <4> QED  BY <4>1, ModTypes
    <3>2. CASE d.task.mod = n  BY <3>2, ModTypes
    <3> QED  BY <3>1, <3>2 DEF Open
  <2>3. Approved(c, m) \/ Pending(c, m) \/ Announced(q, "cancel", m)
    BY <2>1 DEF Ledger, OpenIsKnown
  <2>4. d.task.kind = "modify" => Works(d.task) /\ d.task.mod = m  BY <1>2
  <2> QED  BY <2>1, <2>2, <2>3, <2>4 DEF Forgets, Settles, Alive
<1> QED  BY <1>1, <1>2

\* myRootHashIsCalculated
LEMMA RootHashCleared ==
    ASSUME Safe, Accounted, Cleared, NEW r, NEW n \in Nat, MyRootHashIsCalculated(r, n),
           chain' = chain, inbox' = inbox, up = "up", disk' = disk,
           drive.task.step \in {"sandbox", "copy"}, drive.task.kind \in Updating
    PROVE  Cleared'
<1>1. /\ acct \in Accounts /\ Good(chain, inbox, drive, disk)
      /\ Order(chain, inbox, drive, disk)
      /\ Tended(chain, inbox, drive, acct) /\ drive \in Drives
      /\ Remembers(chain, inbox, drive, disk, acct)
  BY SafeGood DEF Accounted, Typed, Safe, Cleared
<1>2. ~Loading(drive.task) /\ ~Unsaved(drive.task)
  BY DEF Loading, Unsaved, Updating
<1>3. CASE drive.task.interrupted
  <2>1. drive' = FinishTask(drive) /\ acct' = acct  BY <1>3 DEF MyRootHashIsCalculated
  <2>2. Goes(drive, drive') /\ drive'.task.step = "finish"
    <3>1. Stepped(drive, drive', "finish")  BY <2>1 DEF FinishTask, Stepped
    <3> QED  BY <1>1, <3>1, SteppedGoes
  <2>3. Works(drive'.task) <=> Works(drive.task)  BY <1>3, <2>2 DEF Works, Goes
  <2>4. ~Loading(drive'.task) /\ drive'.task.step \notin Built
    BY <2>2 DEF Loading, Built, Synchronizing
  <2>5. disk'.notApproved = acct.notApproved  BY <1>1, <1>2 DEF Remembers
  <2> QED  BY <1>1, <1>2, <2>1, <2>2, <2>3, <2>4, <2>5, GoesRemembers, TaskCleared
<1>4. CASE ~drive.task.interrupted
  <2>1. /\ drive' = [drive EXCEPT !.task.root = r, !.task.step = "saveNot"]
        /\ acct' = UpdateUploads(acct, drive.task.mod, n)
    BY <1>4 DEF MyRootHashIsCalculated
  <2>2. Goes(drive, drive') /\ drive'.task.step = "saveNot"
    <3>1. Stepped(drive, drive', "saveNot")  BY <2>1 DEF Stepped
    <3> QED  BY <1>1, <3>1, SteppedGoes
  <2>3. Works(drive'.task) <=> Works(drive.task)  BY <1>4, <2>2 DEF Works, Goes
  <2>4. drive.task.mod \in Mods
    <3>1. Approved(chain, drive.task.mod) => drive.task.mod \in Mods
      BY <1>1, DriveNumbers, ApprovedBound, ModTypes DEF Good
    <3> QED  BY <1>1, <3>1 DEF Good, DriveInv, DriveIsApproved, TaskIsApproved, Updating
  <2>5. drive.task.mod \in ModOrZero  BY <2>4, ModTypes
  <2>6. acct'.approved = acct.approved /\ acct'.notApproved.id = drive.task.mod
    BY ONLY <1>1, <2>1, <2>5, n \in Nat, AccountFields
  <2>7. ~Loading(drive'.task) /\ Unsaved(drive'.task) /\ drive'.task.kind \in Updating
        /\ drive'.task.mod = drive.task.mod
    BY <2>2 DEF Loading, Unsaved, Goes
  <2>8. Ledger(chain, inbox, drive, acct)
    <3>1. ~Closing(drive)
      BY <1>1, <1>4 DEF Tended, ClosingLast, Updating, Closing
    <3> QED  BY <1>1, <3>1 DEF Tended
  <2>9. drive.task.kind = "catchup" \/ Works(drive.task)  BY <1>4 DEF Works, Updating
  <2>10. Forgets(chain, inbox, drive, drive.task.mod)
    BY <1>1, <2>4, <2>8, <2>9, NewUploadsForget
  <2>11. Forgets(chain, inbox, drive', drive.task.mod)
    BY <1>2, <2>2, <2>3, <2>10, GoesForgets
  <2>12. Settles(chain, acct.approved.id)  BY <1>1 DEF Remembers
  <2>13. Remembers(chain, inbox, drive', disk', acct')
    BY <2>6, <2>7, <2>11, <2>12 DEF Remembers, Latest, Updating
  <2> QED  BY <2>13, TaskCleared
<1> QED  BY <1>3, <1>4

\* The three ways to a sandbox tree.
LEMMA SandboxCleared ==
    ASSUME Safe, Accounted, Cleared,
           ModifyFsTreeInSandbox \/ CopyFsTreeAfterError \/ ModifyDriveInSandbox
    PROVE  Cleared'
<1>1. drive.task.kind = "modify" => drive.task.mod \in Mods /\ Size[drive.task.mod] \in Nat
  BY DriveAssumption DEF Safe, IInv, DriveInv, DriveIsApproved, TaskIsApproved
<1>2. CASE ModifyFsTreeInSandbox
  <2>1. /\ chain' = chain /\ inbox' = inbox /\ up = "up" /\ disk' = disk
        /\ drive.task.kind = "modify" /\ drive.task.step = "sandbox"
    BY <1>2 DEF ModifyFsTreeInSandbox, environment, At
  <2>2. CASE Outcome[Modification] = "space"
    <3>1. drive' = CompletedWithError(drive) /\ acct' = acct
      BY <1>2, <2>2 DEF ModifyFsTreeInSandbox
    <3>2. Goes(drive, drive') /\ drive'.task.step = "copy"
      <4>1. Stepped(drive, drive', "copy")  BY <3>1 DEF CompletedWithError, Stepped
      <4> QED  BY <4>1, SafeGood, SteppedGoes
    <3>3. Works(drive'.task) <=> Works(drive.task)  BY <2>1, <3>2 DEF Works, Goes
    <3>4. Remembers(chain, inbox, drive, disk, acct)  BY <2>1 DEF Cleared
    <3>5. /\ ~Loading(drive.task) /\ ~Loading(drive'.task) /\ drive'.task.step \notin Built
          /\ disk'.notApproved = acct.notApproved
      BY <2>1, <3>2, <3>4 DEF Loading, Built, Synchronizing, Remembers, Unsaved
    <3> QED  BY <2>1, <3>1, <3>2, <3>3, <3>4, <3>5, GoesRemembers, TaskCleared
  <2>3. CASE Outcome[Modification] # "space"
    <3>1. MyRootHashIsCalculated(drive.root \cup {Modification}, Size[Modification])
      BY <1>2, <2>3 DEF ModifyFsTreeInSandbox
    <3> QED  BY <1>1, <2>1, <3>1, RootHashCleared DEF Modification, Updating
  <2> QED  BY <2>2, <2>3
<1>3. CASE CopyFsTreeAfterError
  <2>1. /\ chain' = chain /\ inbox' = inbox /\ up = "up" /\ disk' = disk
        /\ drive.task.kind = "modify" /\ drive.task.step = "copy"
        /\ MyRootHashIsCalculated(drive.root, Size[Modification])
    BY <1>3 DEF CopyFsTreeAfterError, environment, At
  <2> QED  BY <1>1, <2>1, RootHashCleared DEF Modification, Updating
<1>4. CASE ModifyDriveInSandbox
  <2>1. /\ chain' = chain /\ inbox' = inbox /\ up = "up" /\ disk' = disk
        /\ drive.task.kind = "catchup" /\ drive.task.step = "sandbox"
        /\ MyRootHashIsCalculated(ApprovedRoot, 0)
    BY <1>4 DEF ModifyDriveInSandbox, environment, At
  <2>2. 0 \in Nat  OBVIOUS
  <2> QED  BY <2>1, <2>2, RootHashCleared DEF Updating
<1> QED  BY <1>2, <1>3, <1>4

\* startSynchronizingDriveWithSandbox of both tasks: the uploads are approved.
LEMMA SynchronizeCleared ==
    ASSUME Safe, Accounted, Cleared, SynchronizeDriveWithSandbox \/ CatchUpSaveLast
    PROVE  Cleared'
<1>1. /\ acct \in Accounts /\ Good(chain, inbox, drive, disk) /\ drive \in Drives
      /\ Remembers(chain, inbox, drive, disk, acct)
  BY SafeGood DEF Accounted, Typed, Safe, At, SynchronizeDriveWithSandbox, CatchUpSaveLast,
                  Cleared
<1>2. /\ chain' = chain /\ inbox' = inbox /\ up = "up"
      /\ drive.task.kind \in Updating /\ drive.task.step \in {"sync", "syncLast"}
      /\ acct' = ApproveUploads(acct) /\ Stepped(drive, drive', "saveUploads")
      /\ \/ disk' = [disk EXCEPT !.root = drive.task.root]
         \/ disk' = [disk EXCEPT !.last = drive.task.mod]
  BY DEF SynchronizeDriveWithSandbox, CatchUpSaveLast, environment, At, Updating,
         SynchronizationIsCompleted, Stepped
<1>3. Goes(drive, drive') /\ drive'.task.step = "saveUploads"
  BY <1>1, <1>2, SteppedGoes
<1>4. acct'.approved = acct.notApproved /\ acct'.notApproved = acct.notApproved
  <2>1. 0 \in ModOrZero /\ 0 \in Nat  BY ModTypes
  <2> QED  BY ONLY <1>1, <1>2, <2>1, AccountFields
<1>5. acct.notApproved.id = drive.task.mod /\ Approved(chain, drive.task.mod)
  BY <1>1, <1>2 DEF Synchronizing, Good, DriveInv, DriveIsApproved, TaskIsApproved,
                    Remembers, Built
<1>6. disk'.notApproved = disk.notApproved  BY <1>1, <1>2 DEF Good, DiskInv
<1>7. disk.notApproved = acct.notApproved
  BY <1>1, <1>2 DEF Remembers, Unsaved, Loading, Updating
<1>8. Remembers(chain, inbox, drive', disk', acct')
  BY <1>2, <1>3, <1>4, <1>5, <1>6, <1>7
     DEF Remembers, Latest, Loading, Settles, Forgets, Goes, Updating
<1> QED  BY <1>2, <1>8, TaskCleared

\* The modification is saved, and the task ends.
LEMMA SaveLastCleared ==
    ASSUME Safe, Accounted, Cleared, SaveLastApproved
    PROVE  Cleared'
<1>1. /\ chain' = chain /\ inbox' = inbox /\ up = "up" /\ acct' = acct
      /\ drive.task.kind \in Updating /\ drive.task.step = "saveLast"
      /\ disk' = [disk EXCEPT !.last = drive.task.mod]
  BY DEF SaveLastApproved, environment, At
<1>2. Remembers(chain, inbox, drive, disk, acct) /\ Good(chain, inbox, drive, disk)
  BY <1>1, SafeGood DEF Cleared
<1>3. drive'.task.kind = drive.task.kind /\ drive'.task.step = "finish"
  <2>1. PICK r, m : r = drive.task.root /\ m = drive.task.mod  OBVIOUS
  <2>2. PICK d : d = [drive EXCEPT !.root = r, !.last = m]  OBVIOUS
  <2>3. drive' = FinishTask(d)  BY <2>1, <2>2 DEF SaveLastApproved
  <2>4. DOMAIN d = DOMAIN drive /\ d.task = drive.task
    BY <2>2, SafeGood, TaskShape
  <2>5. drive' = [d EXCEPT !.task.step = "finish"]  BY <2>3 DEF FinishTask
  <2>6. drive'.task = [d.task EXCEPT !.step = "finish"]
    BY <2>4, <2>5, SafeGood, TaskShape
  <2> QED  BY <2>4, <2>6, SafeGood, TaskShape
<1>4. acct.notApproved.id = drive.task.mod /\ Approved(chain, drive.task.mod)
  BY <1>1, <1>2 DEF Synchronizing, Good, DriveInv, DriveIsApproved, TaskIsApproved,
                    Remembers, Built
<1>5. disk'.notApproved = acct.notApproved
  <2>1. disk'.notApproved = disk.notApproved  BY <1>1, <1>2 DEF Good, DiskInv
  <2> QED  BY <1>1, <1>2, <2>1 DEF Remembers, Unsaved, Loading, Updating
<1>6. Remembers(chain, inbox, drive', disk', acct')
  BY <1>1, <1>2, <1>3, <1>4, <1>5
     DEF Remembers, Latest, Loading, Settles, Forgets, Updating, Built, Synchronizing
<1> QED  BY <1>1, <1>6, TaskCleared

\* The files are read: what they hold of uploads is known from now on.
LEMMA InitializeCleared ==
    ASSUME Safe, Accounted, Cleared, InitializeDrive
    PROVE  Cleared'
<1>1. CASE Die  BY <1>1 DEF Die, Cleared
<1>2. CASE /\ acct' = [acct EXCEPT !.approved = disk.approved, !.notApproved = disk.notApproved]
           /\ drive' = Initialized([drive EXCEPT !.root = disk.root, !.last = disk.last], acct')
           /\ UNCHANGED environment
  <2>1. /\ chain' = chain /\ inbox' = inbox /\ up = "up" /\ Loading(drive.task)
        /\ acct \in Accounts /\ disk' = disk /\ drive \in Drives
        /\ Remembers(chain, inbox, drive, disk, acct)
    BY <1>2, SafeGood DEF environment, InitializeDrive, At, Accounted, Typed, Loading, Cleared
  <2>2. acct'.approved = disk.approved /\ acct'.notApproved = disk.notApproved
    BY <1>2, <2>1 DEF Accounts
  <2>3. /\ drive'.deferred = drive.deferred /\ drive'.catchReq = drive.catchReq
        /\ drive'.closeReq = drive.closeReq /\ drive'.task.kind = "init"
        /\ drive'.task.step = "finish"
        /\ IF disk.notApproved.id \in drive.task.cancels
           THEN drive'.cancelReq = disk.notApproved.id
           ELSE drive'.cancelReq = drive.cancelReq
    <3>1. PICK r, l, x : r = disk.root /\ l = disk.last /\ x = disk.notApproved.id
      OBVIOUS
    <3>2. PICK d : d = [drive EXCEPT !.root = r, !.last = l]  OBVIOUS
    <3>3. PICK e : e = [d EXCEPT !.cancelReq = x]  OBVIOUS
    <3>4. /\ DOMAIN d = DOMAIN drive /\ d.task = drive.task
          /\ d.deferred = drive.deferred /\ d.catchReq = drive.catchReq
          /\ d.closeReq = drive.closeReq /\ d.cancelReq = drive.cancelReq
      BY <2>1, <3>2, TaskShape
    <3>5. /\ DOMAIN e = DOMAIN drive /\ e.task = drive.task
          /\ e.deferred = drive.deferred /\ e.catchReq = drive.catchReq
          /\ e.closeReq = drive.closeReq /\ e.cancelReq = x
      BY <2>1, <3>3, <3>4, TaskShape
    <3>6. drive' = IF x \in drive.task.cancels THEN FinishTask(e) ELSE FinishTask(d)
      BY <1>2, <2>2, <3>1, <3>2, <3>3, <3>4 DEF Initialized
    <3>7. /\ drive'.deferred = drive.deferred /\ drive'.catchReq = drive.catchReq
          /\ drive'.closeReq = drive.closeReq
          /\ drive'.cancelReq = IF x \in drive.task.cancels THEN x ELSE drive.cancelReq
          /\ drive'.task = [drive.task EXCEPT !.step = "finish"]
      BY ONLY <2>1, <3>4, <3>5, <3>6, TaskShape DEF FinishTask
    <3> QED  BY <2>1, <3>1, <3>7, TaskShape DEF Loading
  <2>4. drive.task.cancels \in SUBSET Mods  BY <2>1 DEF Drives, Tasks
  <2>5. \A n \in Mods : Open(drive', inbox, n) <=> Open(drive, inbox, n)
    BY <2>1, <2>3 DEF Open, Waits, Deferred, Works, Loading
  <2>6. ASSUME ~Closing(drive)
        PROVE  Forgets(chain, inbox, drive', disk.notApproved.id)
    <3>1. Forgets(chain, inbox, drive, disk.notApproved.id)
      BY <2>1, <2>6 DEF Remembers, Latest
    <3>2. Alive(chain, inbox, drive, disk.notApproved.id)
          => Alive(chain, inbox, drive', disk.notApproved.id)
      BY <2>3, <2>5 DEF Alive
    <3> QED  BY <2>3, <2>4, <3>1, <3>2, ModTypes DEF Forgets
  <2>7. Closing(drive') <=> Closing(drive)  BY <2>1, <2>3 DEF Closing, Loading
  <2>8. Settles(chain, disk.approved.id)  BY DEF Safe, SavedIsApproved, Settles
  <2>9. Remembers(chain, inbox, drive', disk', acct')
    BY <2>1, <2>2, <2>3, <2>6, <2>7, <2>8
       DEF Remembers, Latest, Loading, Built, Synchronizing
  <2> QED  BY <2>1, <2>9, TaskCleared
<1> QED  BY <1>1, <1>2 DEF InitializeDrive


\* A catch-up drops the requests up to its modification, and keeps the others.
LEMMA CatchUpOpens ==
    ASSUME NEW c, NEW q, NEW d, NEW k, Good(c, q, d, k), Order(c, q, d, k), ~Works(d.task),
           NEW e, RunsCatchUp(d, e)
    PROVE  /\ \A m \in Mods : Open(e, q, m) => Open(d, q, m)
           /\ \A m \in Mods : Open(d, q, m) /\ d.catchReq < m => Open(e, q, m)
<1>1. PICK s, x, p : s = d.deferred /\ x = d.catchReq /\ p = Position(s, x)
  OBVIOUS
<1>2. x \in Mods
  <2>1. x \in ModOrZero /\ x # 0  BY <1>1, DriveNumbers DEF RunsCatchUp
  <2> QED  BY <2>1, ModTypes
<1>3. s \in Seq(Mods) /\ Increasing(s)  BY <1>1, QueueTypes DEF Order, QueueOrder
<1>4. \A w : Requested(q, w) => x < w  BY <1>1, WaitingOrder
<1>5. /\ \A m \in Mods : Deferred(e, m) => Deferred(d, m) /\ x < m
      /\ \A m \in Mods : Deferred(d, m) /\ x < m => Deferred(e, m)
  <2>1. Deferred(d, x) \/ \A m \in Mods : Deferred(d, m) => x < m
    <3>1. Covered(d, q, x)  BY <1>1 DEF Order, CoverOrder, RunsCatchUp
    <3>2. x \in Int  BY <1>2, ModTypes
    <3> QED  BY <1>4, <3>1, <3>2 DEF Covered, Waits
  <2>2. e.deferred = SubSeq(d.deferred,
                            Len(SubSeq(d.deferred, 1, Position(d.deferred, x))) + 1,
                            Len(d.deferred))
    BY <1>1 DEF RunsCatchUp, Skipped
  <2> QED  BY <1>1, <1>2, <1>3, <2>1, <2>2, RestDeferred
<1>6. ~Works(e.task)  BY DEF RunsCatchUp, Works
<1> QED  BY <1>1, <1>5, <1>6 DEF Open, Waits

\* Whatever runNextTask starts, no cancellation is lost.
LEMMA RunNextRemembers ==
    ASSUME NEW c, NEW q, NEW d, NEW k, Good(c, q, d, k), Order(c, q, d, k),
           NEW a \in Accounts, Remembers(c, q, d, k, a),
           d.task.kind = "none" \/ d.task.step = "finish", d.task.kind # "close",
           ~d.closeReq => Ledger(c, q, d, a),
           NEW e, e = RunNextTask(d), NEW b, b = RunNextAccount(d, a)
    PROVE  Remembers(c, q, e, k, b)
<1>1. d \in Drives /\ ChainInv(c)  BY DEF Good, DriveInv, DriveIsApproved
<1>2. /\ ~Works(d.task) /\ ~Loading(d.task) /\ ~Unsaved(d.task)
      /\ k.notApproved = a.notApproved /\ Settles(c, a.approved.id)
      /\ Closing(d) <=> d.closeReq
  BY DEF Works, Loading, Unsaved, Updating, Closing, Remembers
<1>3. b.approved = a.approved /\ b.notApproved \in {a.approved, a.notApproved}
  BY <1>1, RunNextBooks
<1>4. CASE d.closeReq
  <2>1. e.task.kind = "close" /\ e.task.step = "remove"  BY <1>1, <1>4, StartedTask
  <2>2. b = a  BY <1>4 DEF RunNextAccount
  <2> QED  BY <1>2, <2>1, <2>2 DEF Remembers, Unsaved, Loading, Updating, Closing, Built,
                                   Synchronizing
<1>5. CASE ~d.closeReq
  <2>1. /\ e.cancelReq = 0 /\ ~e.closeReq /\ ~e.task.interrupted
        /\ \/ d.cancelReq # 0 /\ RunsCancel(d, e) /\ b = DisapproveUploads(a)
           \/ d.cancelReq = 0 /\ RunsCatchUp(d, e)
              /\ b = IncreaseExpected(a, TotalSize(Skipped(d)))
           \/ d.cancelReq = 0 /\ (RunsModify(d, e) \/ RunsNothing(d, e)) /\ b = a
    BY ONLY <1>1, <1>5, StartedTask, e = RunNextTask(d), b = RunNextAccount(d, a)
  <2>2. CASE RunsCancel(d, e) /\ b = DisapproveUploads(a)
    <3>1. b.notApproved = a.approved  BY <2>2 DEF DisapproveUploads, Accounts
    <3> QED  BY <1>2, <1>3, <2>2, <3>1
             DEF RunsCancel, Remembers, Unsaved, Loading, Latest, Forgets, Built, Synchronizing
  <2> DEFINE m == a.notApproved.id
  <2>3. Settles(c, m) \/ d.cancelReq # 0 \/ Alive(c, q, d, m)
    BY <1>2, <1>5 DEF Remembers, Latest, Forgets
  <2>4. ASSUME b.notApproved = a.notApproved, e.task.kind # "cancel", ~Loading(e.task),
               e.task.step \notin Built, Alive(c, q, d, m) => Alive(c, q, e, m),
               d.cancelReq = 0
        PROVE  Remembers(c, q, e, k, b)
    BY <1>2, <1>3, <2>3, <2>4 DEF Remembers, Latest, Forgets
  <2>5. CASE d.cancelReq = 0 /\ RunsCatchUp(d, e) /\ b = IncreaseExpected(a, TotalSize(Skipped(d)))
    <3>1. /\ b.notApproved = a.notApproved /\ e.task.kind = "catchup"
          /\ e.task.step \notin Built
      BY <2>5 DEF IncreaseExpected, Accounts, RunsCatchUp, Built, Synchronizing
    <3>2. ASSUME Alive(c, q, d, m)  PROVE Alive(c, q, e, m)
      <4>1. d.catchReq < m
        <5>1. CASE Pending(c, m)
          <6>1. c.last < m /\ m \in Int  BY <1>1, <5>1, PendingIsNew
          <6>2. d.catchReq <= c.last /\ d.catchReq \in Int /\ c.last \in Int
            BY DriveNumbers, ModTypes
          <6> QED  BY <6>1, <6>2
        <5>2. CASE Announced(q, "cancel", m)
          BY <1>5, <5>2 DEF Ledger, CancelsAreNewer, Announced
        <5> QED  BY <3>2, <5>1, <5>2 DEF Alive
      <4>2. /\ \A n \in Mods : Open(e, q, n) => Open(d, q, n)
            /\ \A n \in Mods : Open(d, q, n) /\ d.catchReq < n => Open(e, q, n)
        BY <1>2, <2>5, CatchUpOpens
      <4> QED  BY <3>1, <3>2, <4>1, <4>2 DEF Alive
    <3> QED  BY <2>4, <2>5, <3>1, <3>2 DEF Loading
  <2>6. CASE d.cancelReq = 0 /\ RunsModify(d, e) /\ b = a
    <3>1. /\ e.task.kind = "modify" /\ e.task.step \notin Built /\ Works(e.task)
          /\ e.task.mod = Head(d.deferred)
      BY <2>1, <2>6 DEF RunsModify, Built, Synchronizing, Works
    <3>2. PICK h : h = Head(d.deferred)  OBVIOUS
    <3>3. /\ h \in Mods /\ Deferred(d, h)
          /\ \A n \in Mods : Deferred(e, n) => Deferred(d, n) /\ h < n
          /\ \A n \in Mods : Deferred(d, n) => Deferred(e, n) \/ n = h
      BY <2>6, <3>2, QueueTypes, FirstDeferred DEF Order, QueueOrder, RunsModify
    <3>4. \A n : Waits(d, q, n) => n \in Mods /\ h <= n
      BY <3>3, WaitingOrder, ModTypes DEF Waits
    <3>5. \A n \in Mods : Open(e, q, n) <=> Open(d, q, n)
      BY <1>2, <3>1, <3>2, <3>3 DEF Open, Waits
    <3>6. ASSUME Alive(c, q, d, m)  PROVE Alive(c, q, e, m)
      <4>1. m \in Mods /\ Waits(d, q, m)  BY <1>2, <3>6 DEF Alive, Open
      <4>2. h <= m /\ m <= h  BY <3>3, <3>4, <3>6, <4>1 DEF Alive, Open, Waits
      <4>3. m = h  BY <3>3, <4>1, <4>2, ModTypes
      <4> QED  BY <3>1, <3>2, <3>5, <3>6, <4>3 DEF Alive
    <3> QED  BY <2>4, <2>6, <3>1, <3>6 DEF Loading
  <2>7. CASE d.cancelReq = 0 /\ RunsNothing(d, e) /\ b = a
    <3>1. /\ e.task.kind = "none" /\ e.task.step \notin Built /\ e.deferred = d.deferred
      BY <2>7 DEF RunsNothing, Built, Synchronizing
    <3>2. \A n \in Mods : Open(e, q, n) <=> Open(d, q, n)
      BY <1>2, <3>1 DEF Open, Waits, Deferred, Works
    <3>3. Alive(c, q, d, m) => Alive(c, q, e, m)  BY <3>1, <3>2 DEF Alive
    <3> QED  BY <2>4, <2>7, <3>1, <3>3 DEF Loading
  <2> QED  BY <2>1, <2>2, <2>5, <2>6, <2>7
<1> QED  BY <1>4, <1>5

\* The sandbox was cleared, and the next task runs.
LEMMA FinishCleared ==
    ASSUME Safe, Accounted, Cleared, FinishAndRunNextTask
    PROVE  Cleared'
<1>1. /\ chain' = chain /\ inbox' = inbox /\ up = "up" /\ disk' = disk
      /\ drive.task.step = "finish"
      /\ drive' = RunNextTask(drive) /\ acct' = RunNextAccount(drive, acct)
  BY DEF FinishAndRunNextTask, environment, At
<1>2. /\ acct \in Accounts /\ Good(chain, inbox, drive, disk)
      /\ Order(chain, inbox, drive, disk)
      /\ Tended(chain, inbox, drive, acct) /\ Remembers(chain, inbox, drive, disk, acct)
  BY <1>1, SafeGood DEF Accounted, Typed, Safe, Cleared
<1>3. drive.task.kind # "close"
  BY <1>1, <1>2 DEF Tended, ClosingLast, Closing
<1>4. ~drive.closeReq => Ledger(chain, inbox, drive, acct)
  BY <1>2, <1>3 DEF Tended, Closing
<1>5. Remembers(chain, inbox, drive', disk', acct')
  BY <1>1, <1>2, <1>3, <1>4, RunNextRemembers
<1> QED  BY <1>1, <1>5, TaskCleared

\* A handler that opens and closes nothing.
LEMMA SameOpenRemembers ==
    ASSUME NEW c, NEW q, NEW d, NEW k, NEW a, Remembers(c, q, d, k, a),
           NEW t, NEW e, e.task = d.task, e.cancelReq = d.cancelReq, e.closeReq = d.closeReq,
           \A n \in Mods : Open(e, t, n) <=> Open(d, q, n),
           \A n : Announced(q, "cancel", n) => Announced(t, "cancel", n)
    PROVE  Remembers(c, t, e, k, a)
<1>1. \A m : Forgets(c, q, d, m) => Forgets(c, t, e, m)  BY DEF Forgets, Alive
<1> QED  BY <1>1 DEF Remembers, Latest, Closing

\* An event other than a request or a cancellation is taken.
LEMMA TakenRemembers ==
    ASSUME Safe, Accounted, Cleared, NEW s, Take(s), s \notin {"modify", "cancel"}
    PROVE  Remembers(chain, inbox', drive, disk, acct)
<1>1. /\ inbox \in Seq(Events) /\ inbox # <<>> /\ inbox' = Tail(inbox)
      /\ Head(inbox).type = s
  BY Taken
<1>2. Remembers(chain, inbox, drive, disk, acct)  BY DEF Take, Cleared
<1>3. PICK q, h, t : q = inbox /\ h = Head(inbox) /\ t = inbox'  OBVIOUS
<1>4. /\ q \in Seq(Events) /\ q # <<>> /\ t = Tail(q) /\ h = Head(q)
      /\ h.type \notin {"modify", "cancel"}
  BY <1>1, <1>3
<1>5. \A n \in Mods : Open(drive, t, n) <=> Open(drive, q, n)
  BY <1>4, FirstEvent DEF Open, Waits
<1>6. \A n : Announced(q, "cancel", n) => Announced(t, "cancel", n)
  BY <1>4, CancelStays
<1> QED  BY <1>2, <1>3, <1>5, <1>6, SameOpenRemembers

\* What is left to show of a handler.
LEMMA HandlerCleared ==
    ASSUME NEW s, Take(s), Remembers(chain, inbox', drive', disk, acct')
    PROVE  Cleared'
  BY DEF Cleared, Take

\* A handler ends with runNextTask, if no task is running.
LEMMA ThenRunRemembers ==
    ASSUME NEW q, NEW d, NEW a \in Accounts, Good(chain, q, d, disk),
           Order(chain, q, d, disk), ThenRunIfIdle(d, a), d.task.kind # "close",
           ~d.closeReq => Ledger(chain, q, d, a), Remembers(chain, q, d, disk, a)
    PROVE  Remembers(chain, q, drive', disk, acct')
<1>1. CASE HasTask(d)  BY <1>1 DEF ThenRunIfIdle
<1>2. CASE ~HasTask(d)
  <2>1. /\ drive' = RunNextTask(d) /\ acct' = RunNextAccount(d, a)
        /\ d.task.kind = "none"
    BY <1>2 DEF ThenRunIfIdle, HasTask
  <2> QED  BY <2>1, RunNextRemembers
<1> QED  BY <1>1, <1>2

\* The start and the end of a verification.
LEMMA OnVerifyCleared ==
    ASSUME Safe, Accounted, Cleared, OnVerify \/ OnVerified
    PROVE  Cleared'
<1>1. acct' = acct /\ (Take("verify") \/ Take("verified"))
  BY DEF OnVerify, OnVerified
<1>2. PICK s \in {"verify", "verified"} : Take(s)  BY <1>1
<1>3. PICK m : m = Head(inbox).mod  OBVIOUS
<1>4. \/ drive' = CancelVerification(drive) \/ drive' = [drive EXCEPT !.verifyReq = m]
      \/ drive' = RunVerificationTask([drive EXCEPT !.verifyReq = m])
  BY <1>3, Zenon DEF OnVerify, OnVerified
<1>5. Goes(drive, drive') /\ drive'.task = drive.task
  <2>1. drive \in Drives  BY SafeGood
  <2>2. CASE drive' = CancelVerification(drive)
    BY ONLY <2>1, <2>2, VerificationGoes
  <2>3. CASE drive' = [drive EXCEPT !.verifyReq = m]
    BY ONLY <2>1, <2>3, VerificationGoes
  <2>4. CASE drive' = RunVerificationTask([drive EXCEPT !.verifyReq = m])
    BY ONLY <2>1, <2>4, VerificationGoes
  <2> QED  BY <1>4, <2>2, <2>3, <2>4
<1>6. Remembers(chain, inbox', drive, disk, acct)  BY <1>2, TakenRemembers
<1>7. \A n \in Mods : Open(drive', inbox', n) <=> Open(drive, inbox', n)
  BY <1>5 DEF Goes, Open, Waits, Deferred
<1>8. Remembers(chain, inbox', drive', disk, acct)
  BY <1>5, <1>6, <1>7, SameOpenRemembers DEF Goes
<1> QED  BY <1>1, <1>2, <1>8, HandlerCleared

\* startModifyDrive
LEMMA OnModifyCleared ==
    ASSUME Safe, Accounted, Cleared, OnModify
    PROVE  Cleared'
<1>1. PICK d : d = [drive EXCEPT !.deferred = Append(drive.deferred, Head(inbox).mod)]
  OBVIOUS
<1>2. Take("modify") /\ ThenRunIfIdle(d, acct)
  BY <1>1, SafeGood, TaskShape DEF OnModify
<1>3. /\ d.deferred = Append(drive.deferred, Head(inbox).mod)
      /\ d.catchReq = drive.catchReq /\ d.cancelReq = drive.cancelReq
      /\ d.closeReq = drive.closeReq /\ d.last = drive.last /\ d.task = drive.task
      /\ Good(chain, inbox', d, disk) /\ Order(chain, inbox', d, disk)
      /\ Head(inbox).mod \in Mods
  BY <1>1, <1>2, RequestTaken
<1>4. /\ inbox \in Seq(Events) /\ inbox # <<>> /\ inbox' = Tail(inbox)
      /\ Head(inbox).type = "modify" /\ ~Closing(drive)
      /\ Ledger(chain, inbox, drive, acct)
  BY <1>2, Taken
<1>5. PICK q, h, t : q = inbox /\ h = Head(inbox) /\ t = inbox'  OBVIOUS
<1>6. drive \in Drives /\ acct \in Accounts  BY SafeGood DEF Accounted, Typed
<1>7. Ledger(chain, t, d, acct)  BY <1>3, <1>4, <1>5, <1>6, RequestLedger
<1>8. \A n \in Mods : Open(d, t, n) <=> Open(drive, q, n)
  BY <1>3, <1>4, <1>5, <1>6, RequestOpens
<1>9. \A n : Announced(q, "cancel", n) => Announced(t, "cancel", n)
  BY <1>4, <1>5, CancelStays
<1>10. Remembers(chain, t, d, disk, acct)
  <2>1. Remembers(chain, q, drive, disk, acct)  BY <1>2, <1>5 DEF Take, Cleared
  <2> QED  BY <1>3, <1>8, <1>9, <2>1, SameOpenRemembers
<1>11. d.task.kind # "close"  BY <1>3, <1>4 DEF Closing
<1>12. Remembers(chain, t, drive', disk, acct')
  BY <1>2, <1>3, <1>5, <1>6, <1>7, <1>10, <1>11, ThenRunRemembers
<1> QED  BY <1>2, <1>5, <1>12, HandlerCleared


\* An interruption does not end a task whose uploads are still to be saved.
LEMMA BreakSaves ==
    ASSUME NEW d \in Drives, FlagOrder(d.task), d.task.kind \in Updating,
           ~d.task.interrupted, NEW e, e = BreakTask(d)
    PROVE  Unsaved(d.task) => Unsaved(e.task)
<1>1. e.task.kind = d.task.kind
  BY ONLY d \in Drives, e = BreakTask(d), BreakGoes
<1>2. PICK i : i = [d EXCEPT !.task.interrupted = TRUE]  OBVIOUS
<1>3. /\ i.task.kind = d.task.kind /\ i.task.step = d.task.step
      /\ i.task.calculated = d.task.calculated /\ i.task.approved = d.task.approved
  BY <1>2, TaskShape
<1> SUFFICES ASSUME Unsaved(d.task)  PROVE e = i
  BY <1>1, <1>3 DEF Unsaved, Loading
<1>4. d.task.step = "saveNot"  BY DEF Unsaved, Loading, Updating
<1>5. ~(i.task.kind = "modify" /\ i.task.calculated /\ ~i.task.approved)
  BY <1>3, <1>4 DEF FlagOrder
<1> QED  BY <1>2, <1>4, <1>5 DEF BreakTask, TryBreakTask, Downloading

\* What an interruption leaves of the uploads.
LEMMA BreakRemembers ==
    ASSUME NEW c, NEW q, NEW d \in Drives, NEW k, NEW a, Remembers(c, q, d, k, a),
           FlagOrder(d.task), d.task.kind \in Updating, ~d.task.interrupted,
           NEW e, e.task = BreakTask(d).task,
           Closing(e) \/ Forgets(c, q, e, a.notApproved.id)
    PROVE  Remembers(c, q, e, k, a)
<1>1. /\ e.task.kind = d.task.kind /\ e.task.mod = d.task.mod
      /\ e.task.step \in {d.task.step, "finish"}
  BY ONLY d \in Drives, e.task = BreakTask(d).task, BreakGoes
<1>2. Unsaved(d.task) => Unsaved(e.task)  BY BreakSaves
<1>3. Unsaved(e.task) \/ k.notApproved = a.notApproved  BY <1>2 DEF Remembers
<1>4. e.task.step \in Built => d.task.step \in Built  BY <1>1 DEF Built, Synchronizing
<1>5. ~Loading(e.task)  BY <1>1 DEF Loading, Updating
<1> QED  BY <1>1, <1>3, <1>4, <1>5 DEF Remembers, Latest, Updating

\* startDriveClosing
LEMMA OnCloseCleared ==
    ASSUME Safe, Accounted, Cleared, OnClose
    PROVE  Cleared'
<1>1. PICK v : v = CancelVerification(drive)  OBVIOUS
<1>2. PICK d : d = [v EXCEPT !.closeReq = TRUE]  OBVIOUS
<1>3. /\ Take("close")
      /\ IF d.task.kind \in Updating /\ ~d.task.interrupted
         THEN drive' = BreakTask(d) /\ acct' = acct
         ELSE ThenRunIfIdle(d, acct)
  BY <1>1, <1>2 DEF OnClose
<1>4. v \in Drives /\ DriveInv(chain, v) /\ v.task = drive.task /\ SameWork(drive, v)
  BY <1>1, SafeGood, VerificationKeeps, TaskShape
     DEF Safe, IInv, DriveInv, DriveIsApproved, SameWork, CancelVerification
<1>5. d \in Drives /\ DriveInv(chain, d) /\ d.closeReq /\ d.task = drive.task
      /\ SameWork(drive, d)
  BY <1>2, <1>4 DEF DriveInv, DriveIsApproved, Drives, SameWork
<1>6. ~Closing(drive) /\ acct \in Accounts  BY <1>3, Taken DEF Accounted, Typed
<1>7. Remembers(chain, inbox', d, disk, acct)
  <2>1. Remembers(chain, inbox', drive, disk, acct)  BY <1>3, TakenRemembers
  <2> QED  BY <1>5, <2>1 DEF Remembers, Closing
<1>8. CASE d.task.kind \in Updating /\ ~d.task.interrupted
  <2>1. drive' = BreakTask(d) /\ acct' = acct  BY <1>3, <1>8
  <2>2. FlagOrder(d.task) /\ drive'.closeReq
    BY <1>5, <2>1, SafeGood, BreakGoes DEF Tidy
  <2>3. Remembers(chain, inbox', drive', disk, acct')
    BY <1>5, <1>7, <1>8, <2>1, <2>2, BreakRemembers DEF Closing
  <2> QED  BY <1>3, <2>3, HandlerCleared
<1>9. CASE ~(d.task.kind \in Updating /\ ~d.task.interrupted)
  <2>1. ThenRunIfIdle(d, acct)  BY <1>3, <1>9
  <2>2. Order(chain, inbox', d, disk)
    BY <1>3, <1>5, TakenOrder, SameWorkCalmer, CalmerKeeps
  <2>3. Good(chain, inbox', d, disk)  BY <1>3, <1>5, HandlerGood
  <2>4. d.task.kind # "close"  BY <1>5, <1>6 DEF Closing
  <2>5. Remembers(chain, inbox', drive', disk, acct')
    BY <1>5, <1>6, <1>7, <2>1, <2>2, <2>3, <2>4, ThenRunRemembers
  <2> QED  BY <1>3, <2>5, HandlerCleared
<1> QED  BY <1>8, <1>9


\* A task that is interrupted for another approval: what its modification was
\* does not matter, as that one was approved before.
LEMMA GivesWayForgets ==
    ASSUME NEW c, NEW q, NEW d, NEW m, Forgets(c, q, d, m),
           ~(d.task.kind = "modify" /\ Alive(c, q, d, m)),
           NEW e, e.deferred = d.deferred, e.cancelReq = d.cancelReq,
           e.task.kind = d.task.kind, Loading(d.task) => e.task = d.task
    PROVE  Forgets(c, q, e, m)
<1>1. CASE Alive(c, q, d, m)
  <2>1. d.task.kind # "modify" /\ ~Works(d.task) /\ ~Works(e.task)  BY <1>1 DEF Works
  <2>2. \A n \in Mods : Open(e, q, n) <=> Open(d, q, n)
    BY <2>1 DEF Open, Waits, Deferred
  <2> QED  BY <1>1, <2>1, <2>2 DEF Alive, Forgets
<1>2. CASE ~Alive(c, q, d, m)  BY <1>2 DEF Forgets
<1> QED  BY <1>1, <1>2

\* No modification that is executed while another one is approved can still
\* be cancelled.
LEMMA ApprovalEndsWork ==
    ASSUME Safe, Accounted, Take("approve"), NEW m
    PROVE  ~(drive.task.kind = "modify" /\ Alive(chain, inbox', drive, m))
<1>1. /\ inbox \in Seq(Events) /\ inbox # <<>> /\ inbox' = Tail(inbox)
      /\ Head(inbox).type = "approve" /\ Ledger(chain, inbox, drive, acct)
      /\ \A i \in 1..Len(inbox') : EventPair(Head(inbox), inbox'[i])
  BY Taken
<1>2. PICK q, h, t : q = inbox /\ h = Head(inbox) /\ t = inbox'  OBVIOUS
<1>3. Works(drive.task) => drive.task.mod <= h.mod  BY <1>1, <1>2, TakenLedger
<1>4. Approved(chain, h.mod) /\ h.mod \in ModOrZero
  BY <1>1, <1>2, HeadInv DEF EventInv, Events, Safe
<1>5. ChainInv(chain) /\ drive.task.mod \in ModOrZero /\ chain.last \in ModOrZero
  BY SafeGood, DriveNumbers DEF Good
<1>6. h.mod \in Int /\ h.mod <= chain.last /\ chain.last \in Int
  BY <1>4, <1>5, ApprovedBound, ModTypes
<1> SUFFICES ASSUME drive.task.kind = "modify", Alive(chain, t, drive, m)  PROVE FALSE
  BY <1>2
<1>7. m \in Mods /\ m \in Int /\ m <= h.mod  BY <1>3, ModTypes DEF Alive
<1>8. CASE Pending(chain, m)
  <2>1. chain.last < m  BY <1>5, <1>8, PendingIsNew
  <2> QED  BY <1>6, <1>7, <2>1
<1>9. CASE Announced(t, "cancel", m)
  <2>1. PICK i \in 1..Len(t) : t[i].type = "cancel" /\ t[i].mod = m  BY <1>9 DEF Announced
  <2>2. h.mod < m  BY <1>1, <1>2, <2>1 DEF EventPair
  <2> QED  BY <1>6, <1>7, <2>2
<1> QED  BY <1>8, <1>9 DEF Alive

\* A task gives way to the approval: no cancellation is lost.
LEMMA GivesWayRemembers ==
    ASSUME Safe, Accounted, Cleared, Take("approve"), NEW tx, tx = Head(inbox).mod,
           HasTask(drive) => TaskStartsCatchUp(drive, tx),
           NEW r, r = GaveWayTo(drive, tx)
    PROVE  Remembers(chain, inbox', r, disk, acct)
<1>1. PICK q, v, n : /\ q = inbox' /\ v = CancelVerification(drive)
                     /\ n = [v EXCEPT !.task.approved = TRUE]
  OBVIOUS
<1>2. PICK d : d = TaskOnApproval(v, tx)  OBVIOUS
<1>3. r = [d EXCEPT !.catchReq = tx]  BY <1>1, <1>2 DEF GaveWayTo
<1>4. drive \in Drives /\ FlagOrder(drive.task)  BY SafeGood DEF Tidy
<1>5. v \in Drives /\ v.task = drive.task /\ Goes(drive, v)
  BY <1>1, <1>4, VerificationGoes DEF CancelVerification, Drives
<1>6. Remembers(chain, q, drive, disk, acct)  BY <1>1, TakenRemembers
<1>7. \A m : ~(drive.task.kind = "modify" /\ Alive(chain, q, drive, m))
  BY <1>1, ApprovalEndsWork
<1>8. \A m \in Mods : Open(v, q, m) <=> Open(drive, q, m)
  BY <1>5 DEF Goes, Open, Waits, Deferred
<1>9. Remembers(chain, q, v, disk, acct)
  BY <1>5, <1>6, <1>8, SameOpenRemembers DEF Goes
<1>10. \A m : ~(v.task.kind = "modify" /\ Alive(chain, q, v, m))
  BY <1>5, <1>7, <1>8 DEF Alive
<1>11. \/ d = v
       \/ d = BreakTask(v) /\ v.task.kind = "catchup" /\ ~v.task.interrupted
       \/ d = BreakTask(n) /\ v.task.kind = "modify" /\ ~v.task.interrupted
  BY <1>1, <1>2, <1>5
     DEF TaskOnApproval, TaskStartsCatchUp, ModifyOnApproval, ModifyStartsCatchUp,
         CatchUpOnApproval, ApprovesTask, HasTask
<1>12. /\ d.deferred = v.deferred /\ d.cancelReq = v.cancelReq /\ d.closeReq = v.closeReq
       /\ d \in Drives /\ Remembers(chain, q, d, disk, acct)
  <2>1. CASE d = v  BY <1>5, <1>9, <2>1
  <2>2. ASSUME NEW w \in Drives, Goes(v, w), w.task.step = v.task.step,
               FlagOrder(w.task), v.task.kind \in Updating, ~v.task.interrupted,
               d = BreakTask(w)
        PROVE  /\ d.deferred = v.deferred /\ d.cancelReq = v.cancelReq
               /\ d.closeReq = v.closeReq /\ d \in Drives
               /\ Remembers(chain, q, d, disk, acct)
    <3>1. /\ d.deferred = w.deferred /\ d.cancelReq = w.cancelReq
          /\ d.closeReq = w.closeReq /\ d.task.kind = w.task.kind
      BY ONLY <2>2, BreakGoes
    <3>2. d \in Drives
      <4>1. PICK i : i = [w EXCEPT !.task.interrupted = TRUE]  OBVIOUS
      <4>2. i \in Drives  BY <2>2, <4>1 DEF Drives, Tasks
      <4>3. FinishTask(i) \in Drives
        <5>1. "finish" \in Steps  BY DEF Steps
        <5> QED  BY ONLY <4>2, <5>1 DEF FinishTask, Drives, Tasks
      <4>4. d \in {i, FinishTask(i)}  BY ONLY <2>2, <4>1 DEF BreakTask, TryBreakTask
      <4> QED  BY <4>2, <4>3, <4>4
    <3>3. ~Loading(v.task) /\ ~Loading(w.task)
      BY <2>2 DEF Loading, Updating, Goes
    <3>4. Remembers(chain, q, w, disk, acct)
      <4>1. (Works(w.task) <=> Works(v.task))
        BY <2>2 DEF Works, Goes
      <4>2. Unsaved(w.task) \/ disk.notApproved = acct.notApproved
        BY <1>9, <2>2, <3>3 DEF Remembers, Unsaved, Goes
      <4> QED  BY <1>9, <2>2, <3>3, <4>1, <4>2, GoesRemembers
    <3>5. Closing(d) \/ Forgets(chain, q, d, acct.notApproved.id)
      <4>1. (Works(w.task) <=> Works(v.task))  BY <2>2 DEF Works, Goes
      <4>2. \A m \in Mods : Open(w, q, m) <=> Open(v, q, m)
        BY <2>2, <4>1 DEF Goes, Open, Waits, Deferred
      <4>3. \A m : ~(w.task.kind = "modify" /\ Alive(chain, q, w, m))
        BY <1>10, <2>2, <4>1, <4>2 DEF Alive, Goes
      <4>4. Closing(d) \/ Forgets(chain, q, w, acct.notApproved.id)
        BY <3>1, <3>3, <3>4 DEF Remembers, Latest, Closing
      <4> QED  BY <3>1, <3>3, <4>3, <4>4, GivesWayForgets
    <3>6. w.task.kind \in Updating /\ ~w.task.interrupted  BY <2>2 DEF Goes
    <3> QED  BY <2>2, <3>1, <3>2, <3>4, <3>5, <3>6, BreakRemembers DEF Goes
  <2>3. CASE d = BreakTask(v) /\ v.task.kind = "catchup" /\ ~v.task.interrupted
    <3>1. Goes(v, v) /\ FlagOrder(v.task) /\ v.task.kind \in Updating
      BY <1>4, <1>5, <2>3 DEF Goes, Updating
    <3> QED  BY <1>5, <2>2, <2>3, <3>1
  <2>4. CASE d = BreakTask(n) /\ v.task.kind = "modify" /\ ~v.task.interrupted
    <3>1. n \in Drives /\ Goes(v, n) /\ n.task.step = v.task.step /\ n.task.approved
      BY <1>1, <1>5 DEF Goes, Drives, Tasks
    <3>2. FlagOrder(n.task) /\ v.task.kind \in Updating  BY <2>4, <3>1 DEF FlagOrder, Updating
    <3> QED  BY <2>2, <2>4, <3>1, <3>2
  <2> QED  BY <1>11, <2>1, <2>3, <2>4
<1>13. /\ r.deferred = d.deferred /\ r.cancelReq = d.cancelReq /\ r.closeReq = d.closeReq
       /\ r.task = d.task
  BY <1>3, <1>12, TaskShape
<1>14. \A m \in Mods : Open(r, q, m) <=> Open(d, q, m)
  BY <1>13 DEF Open, Waits, Deferred
<1> QED  BY <1>1, <1>12, <1>13, <1>14, SameOpenRemembers

\* onApprovalTransactionHasBeenPublished
LEMMA OnApprovalCleared ==
    ASSUME Safe, Accounted, Cleared, OnApproval
    PROVE  Cleared'
<1>1. PICK tx, v, d, r, a :
         /\ tx = Head(inbox).mod /\ v = CancelVerification(drive)
         /\ d = TaskOnApproval(v, tx) /\ r = [d EXCEPT !.catchReq = tx]
         /\ a = IF drive.task.kind = "modify"
                THEN ModifyOnApprovalAccount(drive, acct, tx) ELSE acct
  OBVIOUS
<1>2. Take("approve") /\ drive \in Drives  BY SafeGood DEF OnApproval
<1>3. v \in Drives /\ v.task = drive.task /\ Goes(drive, v)
  BY <1>1, <1>2, VerificationGoes DEF CancelVerification, Drives
<1>4. d = IF HasTask(v) THEN TaskOnApproval(v, tx) ELSE v
  BY <1>1 DEF HasTask, TaskOnApproval
<1>5. IF HasTask(drive) => TaskStartsCatchUp(drive, tx)
      THEN ThenRunIfIdle(r, a) ELSE drive' = d /\ acct' = a
  BY <1>1, <1>4 DEF OnApproval
<1>6. CASE HasTask(drive) => TaskStartsCatchUp(drive, tx)
  <2>1. ThenRunIfIdle(r, a)  BY <1>5, <1>6
  <2>2. tx = Head(inbox).mod /\ r = GaveWayTo(drive, tx)  BY <1>1 DEF GaveWayTo
  <2>3. PICK q : q = inbox'  OBVIOUS
  <2>4. /\ Ledger(chain, q, r, a)
        /\ Good(chain, q, r, disk) /\ Order(chain, q, r, disk) /\ a \in Accounts
        /\ a.approved = acct.approved /\ a.notApproved = acct.notApproved
        /\ r.task.kind # "close" /\ ~r.closeReq
    BY ONLY Safe, Accounted, <1>1, <1>2, <1>6, <2>2, <2>3, GivesWayLedger
  <2>5. Remembers(chain, q, r, disk, acct)
    BY ONLY Safe, Accounted, Cleared, <1>2, <1>6, <2>2, <2>3, GivesWayRemembers
  <2>6. Remembers(chain, q, r, disk, a)  BY <2>4, <2>5 DEF Remembers, Latest
  <2>7. Remembers(chain, q, drive', disk, acct')
    BY ONLY <2>1, <2>4, <2>6, ThenRunRemembers
  <2> QED  BY <1>2, <2>3, <2>7, HandlerCleared
<1>7. CASE ~(HasTask(drive) => TaskStartsCatchUp(drive, tx))
  <2>1. /\ drive' = d /\ acct' = acct /\ HasTask(drive) /\ ~TaskStartsCatchUp(drive, tx)
    BY <1>1, <1>5, <1>7
       DEF TaskStartsCatchUp, ModifyStartsCatchUp, ModifyOnApprovalAccount
  <2>2. d = TaskOnApproval(v, tx) /\ tx = Head(inbox).mod  BY <1>1
  <2>3. /\ Goes(drive, d) /\ drive.task.kind # "init"
        /\ \/ d.task.step = drive.task.step
           \/ d.task.step = "sync" /\ drive.task.step = "wait"
    BY ONLY Safe, <1>2, <1>3, <2>1, <2>2, NotesApproval
  <2>4. Remembers(chain, inbox', drive, disk, acct)  BY <1>2, TakenRemembers
  <2>5. /\ ~Loading(drive.task) /\ ~Loading(d.task)
        /\ (Works(d.task) <=> Works(drive.task))
        /\ d.task.step \in Built => drive.task.step \in Built
    BY <2>3 DEF Loading, Works, Goes, Built, Synchronizing
  <2>6. Unsaved(d.task) \/ disk.notApproved = acct.notApproved
    BY <2>3, <2>4, <2>5 DEF Remembers, Unsaved, Goes
  <2>7. Remembers(chain, inbox', d, disk, acct)
    BY <2>3, <2>4, <2>5, <2>6, GoesRemembers
  <2> QED  BY <1>2, <2>1, <2>7, HandlerCleared
<1> QED  BY <1>6, <1>7


\* What cancelModifyDrive leaves alone of a modification that is not cancelled.
LEMMA CancelForgets ==
    ASSUME NEW c, NEW q \in Seq(Events), q # <<>>, NEW h, h = Head(q), NEW t, t = Tail(q),
           AfterCancel(h, t), NEW x \in Mods, x = h.mod, NEW d, NEW e, Withdrawn(d, e, x),
           NEW m, m # x, Alive(c, q, d, m)
    PROVE  Alive(c, t, e, m)
<1>1. \A n : Open(e, t, n) <=> Open(d, q, n) /\ n # x
  BY ONLY q \in Seq(Events), q # <<>>, h = Head(q), t = Tail(q), AfterCancel(h, t),
          x \in Mods, x = h.mod, Withdrawn(d, e, x), CancelOpens
<1>2. Announced(q, "cancel", m) => Announced(t, "cancel", m)  BY CancelStays
<1> QED  BY <1>1, <1>2 DEF Alive, Withdrawn

\* A modification that is open when it is cancelled, and has uploads: the drive
\* takes them back.
LEMMA CancelFindsUploads ==
    ASSUME NEW c, NEW q \in Seq(Events), q # <<>>, NEW h, h = Head(q), NEW t, t = Tail(q),
           AfterCancel(h, t), NEW x \in Mods, x = h.mod,
           NEW d, d.task.kind \in Kinds, d.task.kind # "close", d.task.kind # "cancel",
           d.task.kind = "none" => d.deferred = <<>>,
           Alive(c, q, d, x), ~Loading(d.task), NEW a, a.notApproved.id = x
    PROVE  TaskShouldCancel(d, a, x)
<1>1. CASE d.task.kind = "modify"
  BY <1>1 DEF Alive, Works, TaskShouldCancel, ModifyShouldCancel
<1>2. CASE d.task.kind = "catchup"
  BY <1>2 DEF TaskShouldCancel, CatchUpShouldCancel
<1>3. CASE d.task.kind = "init"  BY <1>3 DEF TaskShouldCancel, Loading
<1>4. CASE d.task.kind = "none"
  <2>1. d.deferred = <<>> /\ ~Works(d.task)  BY <1>4 DEF Works
  <2>2. Requested(q, x)  BY <2>1, EmptySeq DEF Alive, Open, Waits, Deferred
  <2>3. Requested(t, x)  BY <2>2, FirstEvent DEF AfterCancel
  <2>4. PICK i \in 1..Len(t) : t[i].type = "modify" /\ t[i].mod = x  BY <2>3 DEF Requested
  <2>5. x < x  BY <2>4 DEF AfterCancel, EventPair
  <2> QED  BY <2>5, ModTypes
<1> QED  BY <1>1, <1>2, <1>3, <1>4 DEF Kinds

\* cancelModifyDrive: the cancellation is noted, or there is nothing to take back.
LEMMA CancelRemembers ==
    ASSUME NEW c, NEW q \in Seq(Events), q # <<>>, NEW h, h = Head(q), NEW t, t = Tail(q),
           AfterCancel(h, t), NEW x \in Mods, x = h.mod,
           NEW d \in Drives, FlagOrder(d.task), ~Closing(d),
           d.task.kind = "none" => d.deferred = <<>>,
           NEW k, NEW a, Remembers(c, q, d, k, a),
           NEW e, e = CancelModifyDrive(d, a, x), Withdrawn(d, e, x), e.closeReq = d.closeReq
    PROVE  Remembers(c, t, e, k, a)
<1>1. PICK u : u = TaskOnCancel(d, x)  OBVIOUS
<1>2. x # 0  BY ModTypes
<1>3. CASE TaskShouldCancel(d, a, x)
  <2>1. e = [u EXCEPT !.cancelReq = x]  BY <1>1, <1>3 DEF CancelModifyDrive
  <2>2. CASE d.task.kind = "modify" /\ ModifyShouldCancel(d, x)
    <3>1. u = BreakTask(d)  BY <1>1, <2>2 DEF TaskOnCancel
    <3>2. DOMAIN u = DOMAIN d
      BY <3>1, TaskShape DEF BreakTask, FinishTask, TryBreakTask
    <3>3. e.cancelReq = x /\ e.task = BreakTask(d).task  BY <2>1, <3>1, <3>2, TaskShape
    <3>4. Forgets(c, t, e, a.notApproved.id)  BY <1>2, <3>3 DEF Forgets
    <3>5. ~d.task.interrupted /\ d.task.kind \in Updating
      BY <2>2 DEF ModifyShouldCancel, Updating
    <3>6. /\ Settles(c, a.approved.id) /\ d.task.kind # "cancel" /\ ~Loading(d.task)
          /\ Unsaved(d.task) \/ k.notApproved = a.notApproved
          /\ d.task.step \in Built => d.task.kind \in Updating /\ a.notApproved.id = d.task.mod
      BY <2>2 DEF Remembers, Loading
    <3>7. Unsaved(d.task) => Unsaved(e.task)
      <4>1. PICK f : f = BreakTask(d)  OBVIOUS
      <4>2. Unsaved(d.task) => Unsaved(f.task)  BY <3>5, <4>1, BreakSaves
      <4> QED  BY <3>3, <4>1, <4>2
    <3>8. /\ e.task.kind = d.task.kind /\ e.task.mod = d.task.mod
          /\ e.task.step \in {d.task.step, "finish"}
      BY ONLY d \in Drives, <3>3, BreakGoes
    <3>9. e.task.step \in Built => d.task.step \in Built  BY <3>8 DEF Built, Synchronizing
    <3>10. ~Loading(e.task) /\ e.task.kind # "cancel"  BY <2>2, <3>8 DEF Loading
    <3> QED  BY <3>4, <3>6, <3>7, <3>8, <3>9, <3>10 DEF Remembers, Latest
  <2>3. CASE ~(d.task.kind = "modify" /\ ModifyShouldCancel(d, x))
    <3>1. u = d /\ ~Loading(d.task)
      BY <1>1, <1>3, <2>3 DEF TaskOnCancel, TaskShouldCancel, Loading
    <3>2. e.cancelReq = x /\ e.task = d.task  BY <2>1, <3>1, TaskShape
    <3> QED  BY <1>2, <3>1, <3>2 DEF Remembers, Latest, Forgets
  <2> QED  BY <2>2, <2>3
<1>4. CASE ~TaskShouldCancel(d, a, x)
  <2>1. e = [u EXCEPT !.deferred = Without(u.deferred, x)]
    BY <1>1, <1>4 DEF CancelModifyDrive
  <2>2. IF Loading(d.task)
        THEN u = [d EXCEPT !.task.cancels = d.task.cancels \cup {x}] ELSE u = d
    BY <1>1, <1>4, TaskShape DEF TaskOnCancel, TaskShouldCancel, Loading
  <2>3. /\ e.task.kind = d.task.kind /\ e.task.mod = d.task.mod
        /\ e.task.step = d.task.step /\ e.cancelReq = d.cancelReq
        /\ d.task.cancels \subseteq e.task.cancels
        /\ Loading(d.task) => x \in e.task.cancels
    BY <2>1, <2>2, TaskShape
  <2> DEFINE m == Latest(d, k, a)
  <2>4. Forgets(c, q, d, m) /\ Latest(e, k, a) = m /\ (Loading(e.task) <=> Loading(d.task))
    BY <2>3 DEF Remembers, Loading, Latest
  <2>5. Forgets(c, t, e, m)
    <3>1. CASE Alive(c, q, d, m) /\ m # x
      <4>1. PICK n : n = m  OBVIOUS
      <4>2. Alive(c, q, d, n) /\ n # x  BY <3>1, <4>1
      <4>3. Alive(c, t, e, n)
        BY ONLY q \in Seq(Events), q # <<>>, h = Head(q), t = Tail(q), AfterCancel(h, t),
                x \in Mods, x = h.mod, Withdrawn(d, e, x), <4>2, CancelForgets
      <4> QED  BY <4>1, <4>3 DEF Forgets
    <3>2. CASE Alive(c, q, d, m) /\ m = x
      <4>1. CASE Loading(d.task)  BY <2>3, <2>4, <3>2, <4>1 DEF Forgets
      <4>2. CASE d.task.kind = "cancel"
        BY <3>2, <4>2 DEF Remembers, Latest, Loading, Forgets
      <4>3. CASE ~Loading(d.task) /\ d.task.kind # "cancel"
        <5>1. a.notApproved.id = x /\ Alive(c, q, d, x)  BY <3>2, <4>3 DEF Latest
        <5>2. d.task.kind \in Kinds /\ d.task.kind # "close"
          BY DEF Drives, Tasks, Closing
        <5>3. TaskShouldCancel(d, a, x)
          BY ONLY q \in Seq(Events), q # <<>>, h = Head(q), t = Tail(q), AfterCancel(h, t),
                  x \in Mods, x = h.mod, d.task.kind = "none" => d.deferred = <<>>,
                  <4>3, <5>1, <5>2, CancelFindsUploads
        <5> QED  BY <1>4, <5>3
      <4> QED  BY <4>1, <4>2, <4>3
    <3>3. CASE ~Alive(c, q, d, m)  BY <2>3, <2>4, <3>3 DEF Forgets
    <3> QED  BY <3>1, <3>2, <3>3
  <2> HIDE DEF m
  <2>6. Unsaved(e.task) <=> Unsaved(d.task)  BY <2>3 DEF Unsaved, Loading
  <2> QED  BY <2>3, <2>4, <2>5, <2>6 DEF Remembers
<1> QED  BY <1>3, <1>4

\* cancelModifyDrive, with both of its ends
LEMMA OnCancelCleared ==
    ASSUME Safe, Accounted, Cleared, OnCancel
    PROVE  Cleared'
<1>1. PICK tx : tx = Head(inbox).mod  OBVIOUS
<1>2. CASE Die  BY <1>2 DEF Die, Cleared
<1>3. CASE /\ Take("cancel") /\ ~CancelDereferencesNull(drive, acct, tx)
           /\ drive' = CancelModifyDrive(drive, acct, tx) /\ acct' = acct
  <2>1. /\ inbox \in Seq(Events) /\ inbox # <<>> /\ inbox' = Tail(inbox)
        /\ Head(inbox).type = "cancel" /\ ~Closing(drive) /\ IdleIsIdle(drive)
        /\ Ledger(chain, inbox, drive, acct)
        /\ \A i \in 1..Len(inbox') : EventPair(Head(inbox), inbox'[i])
    BY <1>3, Taken
  <2>2. drive \in Drives /\ Increasing(drive.deferred) /\ FlagOrder(drive.task)
    BY SafeGood DEF Tidy, Order, QueueOrder
  <2>3. tx \in Mods  BY <1>1, <2>1, HeadInv DEF EventInv, Safe
  <2>4. Works(drive.task) => drive.cancelReq = 0  BY <2>1 DEF Ledger
  <2>5. drive.task.kind = "none" => drive.deferred = <<>>  BY <2>1 DEF IdleIsIdle
  <2>6. PICK q, h, t, d, e, k, a : /\ q = inbox /\ h = Head(inbox) /\ t = inbox'
                                   /\ d = drive /\ e = drive' /\ k = disk /\ a = acct
    OBVIOUS
  <2>7. e = CancelModifyDrive(d, a, tx) /\ ~CancelDereferencesNull(d, a, tx)
    BY <1>3, <2>6
  <2>8. /\ d \in Drives /\ Increasing(d.deferred) /\ FlagOrder(d.task) /\ ~Closing(d)
        /\ Works(d.task) => d.cancelReq = 0
        /\ d.task.kind = "none" => d.deferred = <<>>
    BY <2>1, <2>2, <2>4, <2>5, <2>6
  <2>9. Withdrawn(d, e, tx) /\ e.closeReq = d.closeReq
    BY ONLY <2>3, <2>7, <2>8, CancelGoes
  <2>10. /\ q \in Seq(Events) /\ q # <<>> /\ h = Head(q) /\ t = Tail(q)
         /\ AfterCancel(h, t) /\ tx = h.mod
    BY <1>1, <2>1, <2>6 DEF AfterCancel
  <2>11. Remembers(chain, q, d, k, a)  BY <1>3, <2>6 DEF Take, Cleared
  <2>12. Remembers(chain, t, e, k, a)
    BY ONLY <2>3, <2>7, <2>8, <2>9, <2>10, <2>11, CancelRemembers
  <2> QED  BY <1>3, <2>6, <2>12, HandlerCleared
<1> QED  BY <1>1, <1>2, <1>3 DEF OnCancel

\* The drive hears of what the chain does: what is forgotten stays forgotten,
\* and a modification that is next is so until it is cancelled.
LEMMA PostedForgets ==
    ASSUME NEW c, NEW q \in Seq(Events), NEW d, NEW k, Good(c, q, d, k), Order(c, q, d, k),
           NEW b, NEW x \in Events, ChainGoes(c, b, q, d, x),
           NEW r, PostedNext(q, x, r), NEW m \in ModOrZero, Forgets(c, q, d, m)
    PROVE  Forgets(b, r, d, m)
<1>1. \A z \in Mods : Approved(c, z) => Approved(b, z)  BY DEF ChainGoes
<1>2. Settles(c, m) => Settles(b, m)  BY <1>1, ModTypes DEF Settles
<1>3. ASSUME Alive(c, q, d, m)  PROVE Settles(b, m) \/ Alive(b, r, d, m)
  <2>1. m \in Mods /\ m \in Int /\ Open(d, q, m) /\ (Pending(c, m) \/ Announced(q, "cancel", m))
    BY <1>3, ModTypes DEF Alive
  <2>2. m <= c.issued
    <3>1. ChainInv(c)  BY DEF Good
    <3>2. CASE Pending(c, m)  BY <3>1, <3>2, PendingIsNew
    <3>3. CASE Announced(q, "cancel", m)
      <4>1. PICK i \in 1..Len(q) : q[i].type = "cancel" /\ q[i].mod = m
        BY <3>3 DEF Announced
      <4>2. m \in c.cancelled  BY <4>1 DEF Order, InboxOrder, EventOrder
      <4> QED  BY <3>1, <4>2 DEF ChainInv
    <3> QED  BY <2>1, <3>2, <3>3
  <2>3. Settles(b, m) \/ Pending(b, m) \/ Announced(r, "cancel", m)
    <3>1. Pending(c, m) => Approved(b, m) \/ Pending(b, m) \/ (x.type = "cancel" /\ x.mod = m)
      BY <2>1 DEF ChainGoes, Tells
    <3> QED  BY <2>1, <3>1 DEF PostedNext, Settles
  <2>4. \A n : Open(d, r, n) => Open(d, q, n) \/ (x.type = "modify" /\ x.mod = n)
    BY DEF PostedNext, Open, Waits
  <2>5. Open(d, r, m)  BY <2>1 DEF PostedNext, Open, Waits
  <2>6. x.type = "modify" => c.issued < x.mod  BY DEF ChainGoes
  <2>7. \A n \in Mods : Open(d, r, n) => m <= n
    <3> SUFFICES ASSUME NEW n \in Mods, Open(d, r, n), ~Open(d, q, n)  PROVE m <= n
      BY <1>3 DEF Alive
    <3>1. c.issued < n  BY <2>4, <2>6
    <3>2. c.issued \in Int /\ n \in Int  BY ChainTypes, ModTypes DEF Good
    <3> QED  BY <2>1, <2>2, <3>1, <3>2
  <2> QED  BY <1>3, <2>1, <2>3, <2>5, <2>7 DEF Alive
<1> QED  BY <1>2, <1>3 DEF Forgets

\* The chain takes a step.
LEMMA ChainStepCleared ==
    ASSUME Safe, Accounted, Cleared, Typed', ChainStep
    PROVE  Cleared'
<1>1. /\ ChainSizes(chain) /\ Good(chain, inbox, drive, disk)
      /\ Order(chain, inbox, drive, disk) /\ inbox \in Seq(Events)
  BY SafeGood DEF Accounted, Tidy, Good, InboxInv
<1>2. /\ UNCHANGED replicator
      /\ \E x \in Events : /\ Post(x.type, x.mod) /\ (x.type = "close" => chain'.closed)
                          /\ ChainGoes(chain, chain', inbox, drive, x)
  BY <1>1, ChainStepGoes
<1>3. PICK x \in Events : Post(x.type, x.mod) /\ ChainGoes(chain, chain', inbox, drive, x)
  BY <1>2
<1>4. /\ up' = up /\ drive' = drive /\ acct' = acct /\ disk' = disk  BY <1>2 DEF replicator
<1> SUFFICES ASSUME up = "up"  PROVE Remembers(chain', inbox', drive, disk, acct)
  BY <1>4 DEF Cleared
<1>5. PICK r : r = inbox'  OBVIOUS
<1>6. [type |-> x.type, mod |-> x.mod] = x  BY DEF Events
<1>7. r = Append(inbox, x)  BY <1>3, <1>5, <1>6 DEF Post
<1>8. PostedNext(inbox, x, r)  BY ONLY <1>1, <1>7, x \in Events, PostedAt
<1>9. Remembers(chain, inbox, drive, disk, acct)  BY DEF Cleared
<1>10. \A m \in ModOrZero : Settles(chain, m) => Settles(chain', m)
  BY <1>3, ModTypes DEF ChainGoes, Settles
<1>11. /\ acct.approved.id \in ModOrZero /\ acct.notApproved.id \in ModOrZero
       /\ disk.notApproved.id \in ModOrZero
  BY DEF Accounted, Typed, Accounts, Disks, Uploads
<1>12. PICK m \in ModOrZero : m = Latest(drive, disk, acct)  BY <1>11 DEF Latest
<1>13. Forgets(chain, inbox, drive, m) => Forgets(chain', r, drive, m)
  BY <1>1, <1>3, <1>8, PostedForgets
<1> QED  BY <1>5, <1>9, <1>10, <1>11, <1>12, <1>13 DEF Remembers

\* The replicator ends.
LEMMA EndCleared ==
    ASSUME Crash \/ RemoveAllDriveData \/ RemoveUnusedDrives
    PROVE  Cleared'
BY DEF Crash, Die, RemoveAllDriveData, RemoveUnusedDrives, Cleared

\* The replicator starts again, with the cancellations of the chain: the
\* uploads of its files are of a modification that is pending, was approved or
\* is one of these.
LEMMA RestartCleared ==
    ASSUME Safe, Accounted, Restart
    PROVE  Cleared'
<1>1. /\ chain' = chain /\ disk' = disk /\ drive' = NewDrive(chain.cancelled)
      /\ acct' = NewAccount(chain.sizeAt[chain.last])
  BY DEF Restart
<1>2. ChainInv(chain) /\ chain.issued \in Int  BY SafeGood, ChainTypes DEF Good
<1>3. PICK q, m : q = inbox' /\ m = disk.notApproved.id  OBVIOUS
<1>4. /\ drive'.task.kind = "init" /\ drive'.task.step = "load"
      /\ drive'.task.cancels = chain.cancelled /\ drive'.deferred = <<>>
      /\ acct'.approved.id = 0
  BY <1>1 DEF NewDrive, NewTask, NewAccount, NoUploads
<1>5. Loading(drive'.task) /\ Unsaved(drive'.task) /\ ~Works(drive'.task)
      /\ \A z : ~Deferred(drive', z)
  BY <1>4, EmptySeq DEF Loading, Unsaved, Works, Deferred
<1>6. \A z : Open(drive', q, z) <=> Requested(q, z)  BY <1>5 DEF Open, Waits
<1>7. /\ \A z : Requested(q, z) => Pending(chain, z)
      /\ \A z : Pending(chain, z) => Requested(q, z)
  <2>1. /\ \A i \in 1..Len(q) : q[i].type = "modify" =>
                \E j \in 1..Len(chain.pending) : q[i].mod = chain.pending[j]
        /\ \A j \in 1..Len(chain.pending) : Requested(q, chain.pending[j])
    BY <1>3, RestartInbox
  <2> QED  BY <2>1 DEF Requested, Pending
<1>8. Forgets(chain, q, drive', m)
  <2>1. Covers(chain, disk.notApproved)  BY DEF Accounted, Books, Remembered
  <2>2. /\ m <= chain.issued /\ m \in ModOrZero
        /\ \A z : Pending(chain, z) => m <= z
    BY <1>3, <2>1 DEF Covers, Uploads, Pending
  <2>3. m = 0 \/ m \in Mods  BY <2>2, ModTypes
  <2>4. m \in Mods => Approved(chain, m) \/ m \in chain.cancelled \/ Pending(chain, m)
    BY <2>2 DEF Accounted, ChainSizes
  <2>5. m \in Mods /\ Pending(chain, m) => Alive(chain, q, drive', m)
    BY <1>4, <1>6, <1>7, <2>2 DEF Alive
  <2> QED  BY <1>4, <1>5, <2>3, <2>4, <2>5 DEF Forgets, Settles
<1>9. Remembers(chain, q, drive', disk, acct')
  <2>1. Latest(drive', disk, acct') = m  BY <1>3, <1>5 DEF Latest
  <2>2. drive'.task.step \notin Built  BY <1>4 DEF Built, Synchronizing
  <2> QED  BY <1>4, <1>5, <1>8, <2>1, <2>2 DEF Remembers, Settles
<1> QED  BY <1>1, <1>3, <1>9 DEF Cleared

\* Nothing is left of a cancellation initially ...
LEMMA InitCleared == Init => Cleared
<1> SUFFICES ASSUME Init  PROVE Cleared
  OBVIOUS
<1>1. /\ drive.task.kind = "init" /\ drive.task.step = "load"
      /\ acct.approved.id = 0 /\ disk.notApproved.id = 0
  BY DEF Init, NewDrive, NewTask, NewAccount, EmptyDisk, NoUploads
<1>2. Loading(drive.task) /\ Unsaved(drive.task) /\ drive.task.step \notin Built
  BY <1>1 DEF Loading, Unsaved, Built, Synchronizing
<1> QED  BY <1>1, <1>2 DEF Cleared, Remembers, Forgets, Latest, Settles

\* ... and a step that leaves something can still take it back.
LEMMA NextCleared == Safe /\ Accounted /\ Cleared /\ [Next]_vars => Cleared'
<1> SUFFICES ASSUME Safe, Accounted, Cleared, [Next]_vars  PROVE Cleared'
  OBVIOUS
<1>1. CASE UNCHANGED vars  BY <1>1 DEF vars, Cleared
<1>2. CASE Next
  <2>1. Typed'  BY <1>2, NextTyped DEF Safe, Accounted
  <2>2. CASE ChainStep  BY <2>1, <2>2, ChainStepCleared
  <2>3. CASE OnEvent
    BY <2>3, OnModifyCleared, OnApprovalCleared, OnCancelCleared, OnCloseCleared,
       OnVerifyCleared DEF OnEvent
  <2>4. CASE ClientDownload \/ ReplicatorDownload
    BY <2>4, PlainCleared DEF ClientDownload, ReplicatorDownload
  <2>5. CASE TaskStep
    BY <2>5, InitializeCleared, PlainCleared, SandboxCleared, SaveCleared,
       SynchronizeCleared, SaveLastCleared, EndCleared, FinishCleared DEF TaskStep
  <2>6. CASE Crash \/ Restart \/ RemoveUnusedDrives
    BY <2>6, EndCleared, RestartCleared
  <2> QED  BY <1>2, <2>2, <2>3, <2>4, <2>5, <2>6 DEF Next
<1> QED  BY <1>1, <1>2

\* A cancellation is never lost, whether cancelModifyDrive finds the
\* modification queued, running, waiting for its approval or finished before
\* the replicator was restarted: when the drive is at rest, neither its
\* accounts nor the file of them hold uploads of a cancelled modification.
THEOREM CancelledIsForgottenTheorem == Spec => []CancelledIsForgotten
<1>1. Init => Safe /\ Accounted /\ Cleared  BY InitSafe, InitAccounted, InitCleared
<1>2. Safe /\ Accounted /\ Cleared /\ [Next]_vars => (Safe /\ Accounted /\ Cleared)'
  BY NextSafe, NextAccounted, NextCleared
<1>3. Safe /\ Accounted /\ Cleared => CancelledIsForgotten
  <2> SUFFICES ASSUME Safe, Accounted, Cleared, Idle
               PROVE  /\ acct.notApproved.id \notin chain.cancelled
                      /\ disk.notApproved = acct.notApproved
    BY DEF CancelledIsForgotten
  <2>1. /\ up = "up" /\ inbox = <<>> /\ drive.task.kind = "none"
    BY DEF Idle, HasTask
  <2>2. Remembers(chain, inbox, drive, disk, acct)  BY <2>1 DEF Cleared
  <2>3. /\ drive.deferred = <<>> /\ drive.cancelReq = 0 /\ ~Closing(drive)
    BY <2>1 DEF Accounted, Tended, IdleIsIdle, Closing
  <2>4. /\ ~Loading(drive.task) /\ ~Unsaved(drive.task)
    BY <2>1 DEF Loading, Unsaved, Updating
  <2>5. \A m : ~Open(drive, inbox, m)
    <3>1. \A m : ~Deferred(drive, m) /\ ~Requested(inbox, m)
      BY <2>1, <2>3, EmptySeq DEF Deferred, Requested
    <3> QED  BY <2>1, <3>1 DEF Open, Waits, Works
  <2>6. Settles(chain, acct.notApproved.id)
    BY <2>2, <2>3, <2>4, <2>5 DEF Remembers, Forgets, Latest, Alive
  <2>7. 0 \notin chain.cancelled
    BY SafeGood, ChainTypes, ModTypes DEF Good, Chains
  <2> QED  BY <2>2, <2>4, <2>6, <2>7 DEF Remembers, Settles, Approved
<1> QED  BY <1>1, <1>2, <1>3, PTL DEF Spec

------------------------------------------------------------------------------
(* XII. Assertions.  Two things the others rest on: a drive that has handled  *)
(* no cancellation has every approved modification in sight, so that it has   *)
(* all that are older than the one it has uploads of; and until it ends, its  *)
(* uploads are not more than it expects, but for those of its task.           *)

\* There is nothing approved before modification m and after `last'.
Passed(c, m, last) ==
    Settles(c, m) \/ \A z \in Mods : Approved(c, z) /\ z < m => z <= last

\* The task makes its modification the last one whatever happens.
Applying(t) == \/ t.kind = "catchup" /\ t.step # "finish"
               \/ t.kind = "modify" /\ t.step \in {"saveUploads", "saveLast"}

\* The drive has modification z, or is on its way to it ...
Reached(d, z) ==
    z <= d.last \/ z <= d.catchReq \/ (Applying(d.task) /\ z <= d.task.mod)

\* ... or was just started, and is told of it next.
Told(d, q, z) == Fresh(d) /\ q # <<>> /\ Head(q).type = "approve" /\ z <= Head(q).mod

Sees(d, q, z) == Open(d, q, z) \/ Reached(d, z) \/ Told(d, q, z)

\* Nothing is to be taken back, and only an approval interrupts a task.
Undisturbed(d) ==
    /\ d.cancelReq = 0 /\ d.task.kind # "cancel" /\ d.task.cancels = {}
    /\ d.task.kind \in Updating /\ d.task.interrupted => d.catchReq # 0

AllSeen(c, q, d) == \A z \in Mods : Approved(c, z) => Sees(d, q, z)

Untouched(c, q, d, k, a) ==
    /\ Undisturbed(d) /\ d.last <= k.last /\ AllSeen(c, q, d)
    /\ Passed(c, k.notApproved.id, k.last) /\ Passed(c, a.notApproved.id, d.last)

\* What the uploads of the task add to what is expected.
Own(t) == IF Works(t) /\ t.step \in Built THEN Size[t.mod] ELSE 0

Balanced(d, k, a) ==
    /\ Loading(d.task) => k.notApproved.sum = 0
    /\ a.notApproved.sum <= a.expected + Own(d.task)

\* The cancellations of the chain are all on their way.
NoneHandled(c, q) == \A y \in c.cancelled : Announced(q, "cancel", y)

\* With n crashes so far.
Follows(c, q, d, k, a, n) == Untouched(c, q, d, k, a) /\ (n = 0 => Balanced(d, k, a))

Calm == up = "up" /\ ~Closing(drive) /\ NoneHandled(chain, inbox)

Steady ==
    /\ Calm => Follows(chain, inbox, drive, disk, acct, crashes)
    /\ up = "down" /\ NothingCancelled /\ ~chain.closed =>
           crashes # 0 /\ Passed(chain, disk.notApproved.id, disk.last)

\* What is passed stays passed.
LEMMA PassedMore ==
    ASSUME NEW c, NEW m, NEW l \in ModOrZero, Passed(c, m, l), NEW n \in ModOrZero, l <= n
    PROVE  Passed(c, m, n)
<1>1. \A z \in Mods : z <= l => z <= n  BY ModTypes
<1> QED  BY <1>1 DEF Passed

\* The numbers of a drive, its files and its task.
LEMMA Positions ==
    ASSUME NEW c, NEW q, NEW d, NEW k, Good(c, q, d, k), Order(c, q, d, k)
    PROVE  /\ d.last \in Int /\ d.catchReq \in Int /\ d.task.mod \in Int /\ k.last \in Int
           /\ 0 <= d.last /\ 0 <= d.catchReq /\ 0 <= k.last
           /\ d.last \in ModOrZero /\ k.last \in ModOrZero /\ d.task.mod \in ModOrZero
           /\ Applies(d.task) => /\ d.last <= d.task.mod /\ k.last <= d.task.mod
                                 /\ d.catchReq # 0 => d.task.mod <= d.catchReq
           /\ d.catchReq # 0 => d.last <= d.catchReq
           /\ Applying(d.task) => Applies(d.task)
<1>1. Applying(d.task) => Applies(d.task)  BY DEF Applying, Applies, Synchronizing
<1> QED  BY <1>1, DriveNumbers, ModTypes DEF Order, TaskOrder, NotAhead

\* What a step of a task leaves in sight.
InSight(d, e, q) ==
    \A z \in Mods : Open(d, q, z) \/ Reached(d, z) => Open(e, q, z) \/ Reached(e, z)

LEMMA GoesUntouched ==
    ASSUME NEW c, NEW q, NEW d, NEW k, NEW a, Untouched(c, q, d, k, a),
           NEW e, Goes(d, e), InSight(d, e, q), NEW l, e.last <= l.last,
           Passed(c, l.notApproved.id, l.last),
           NEW b, Passed(c, b.notApproved.id, e.last)
    PROVE  Untouched(c, q, e, l, b)
<1>1. Undisturbed(e)  BY DEF Goes, Untouched, Undisturbed
<1>2. \A z : Told(d, q, z) => Told(e, q, z)  BY DEF Told, Fresh, Goes
<1>3. AllSeen(c, q, e)  BY <1>2 DEF Untouched, AllSeen, Sees, InSight
<1> QED  BY <1>1, <1>3 DEF Untouched

\* The task goes on: its modification is as open as it was, and it does not
\* end without it, unless it was interrupted.
LEMMA GoesInSight ==
    ASSUME NEW c, NEW q, NEW d, NEW k, Good(c, q, d, k), Order(c, q, d, k),
           Undisturbed(d), NEW e, Goes(d, e), e.last = d.last,
           Works(e.task) <=> Works(d.task),
           Applying(d.task) => \/ Applying(e.task)
                               \/ d.task.kind \in Updating /\ d.task.interrupted
    PROVE  InSight(d, e, q)
<1> SUFFICES ASSUME NEW z \in Mods, Open(d, q, z) \/ Reached(d, z)
             PROVE  Open(e, q, z) \/ Reached(e, z)
  BY DEF InSight
<1>1. CASE Open(d, q, z)  BY <1>1 DEF Goes, Open, Waits, Deferred
<1>2. CASE Reached(d, z)
  <2>1. CASE Applying(d.task) /\ z <= d.task.mod /\ ~Applying(e.task)
    <3>1. d.catchReq # 0 /\ d.task.mod <= d.catchReq  BY <2>1, Positions DEF Undisturbed
    <3>2. z <= e.catchReq  BY <2>1, <3>1, Positions, ModTypes DEF Goes
    <3> QED  BY <3>2 DEF Reached
  <2> QED  BY <1>2, <2>1 DEF Reached, Goes
<1> QED  BY <1>1, <1>2

\* What is left to show of a step of a task.
LEMMA TaskSteady ==
    ASSUME Steady, chain' = chain, inbox' = inbox, up = "up", up' = "up", crashes' = crashes,
           Closing(drive) => Closing(drive'),
           Calm => Follows(chain, inbox, drive', disk', acct', crashes)
    PROVE  Steady'
<1>1. Calm' => Calm  BY DEF Calm, NoneHandled, Announced
<1> QED  BY <1>1 DEF Steady

\* The sums are numbers.
LEMMA Sums ==
    ASSUME NEW a \in Accounts, NEW d \in Drives, d.task.kind = "modify" => d.task.mod \in Mods
    PROVE  a.expected \in Nat /\ a.notApproved.sum \in Nat /\ Own(d.task) \in Nat
<1>1. a.expected \in Nat /\ a.notApproved.sum \in Nat  BY DEF Accounts, Uploads
<1>2. Own(d.task) \in Nat  BY DriveAssumption DEF Own, Works
<1> QED  BY <1>1, <1>2

LEMMA GoesFollows ==
    ASSUME NEW c, NEW q, NEW d, NEW k, Good(c, q, d, k), Order(c, q, d, k),
           NEW a, NEW n, Follows(c, q, d, k, a, n),
           NEW e, Goes(d, e), e.last = d.last, ~Loading(e.task),
           Works(e.task) <=> Works(d.task), Own(e.task) = Own(d.task),
           Applying(d.task) => \/ Applying(e.task)
                               \/ d.task.kind \in Updating /\ d.task.interrupted,
           NEW l, l.last = k.last, l.notApproved \in {k.notApproved, a.notApproved}
    PROVE  Follows(c, q, e, l, a, n)
<1>1. /\ Undisturbed(d) /\ d.last <= k.last /\ Untouched(c, q, d, k, a)
      /\ Passed(c, k.notApproved.id, k.last) /\ Passed(c, a.notApproved.id, d.last)
  BY DEF Follows, Untouched
<1>2. InSight(d, e, q)  BY <1>1, GoesInSight
<1>3. Passed(c, a.notApproved.id, k.last)  BY <1>1, Positions, PassedMore
<1>4. Passed(c, l.notApproved.id, l.last)  BY <1>1, <1>3
<1>5. Untouched(c, q, e, l, a)  BY <1>1, <1>2, <1>4, GoesUntouched
<1>6. n = 0 => Balanced(e, l, a)  BY DEF Follows, Balanced
<1> QED  BY <1>5, <1>6 DEF Follows

\* What is known of the current state.
LEMMA Current ==
    ASSUME Safe, Accounted, Steady, up = "up"
    PROVE  /\ Good(chain, inbox, drive, disk) /\ Order(chain, inbox, drive, disk)
           /\ drive \in Drives /\ acct \in Accounts /\ ChainSizes(chain)
           /\ Tended(chain, inbox, drive, acct)
           /\ Calm => Follows(chain, inbox, drive, disk, acct, crashes)
  BY SafeGood DEF Accounted, Typed, Steady, Tidy

\* The downloads and the jobs that save nothing.
LEMMA PlainSteady ==
    ASSUME Safe, Accounted, Steady,
           \/ ActionListDownloaded \/ PrepareDownloadMissingFiles \/ MissingFilesDownloaded
           \/ FsTreeDownloaded \/ RemoveUnusedFiles \/ CatchUpFilesDownloaded \/ ClearDrive
    PROVE  Steady'
<1> USE DEF ActionListDownloaded, PrepareDownloadMissingFiles, MissingFilesDownloaded,
            FsTreeDownloaded, RemoveUnusedFiles, CatchUpFilesDownloaded, ClearDrive
<1>1. /\ chain' = chain /\ inbox' = inbox /\ up = "up" /\ up' = "up" /\ crashes' = crashes
      /\ acct' = acct /\ disk' = disk
      /\ drive.task.kind \in {"modify", "catchup", "cancel"}
      /\ drive.task.step \in {"list", "prep", "files", "tree", "unused", "clear"}
  BY DEF environment, At
<1>2. \E s \in Steps : /\ Stepped(drive, drive', s)
                       /\ s \in {"prep", "files", "sandbox", "copy", "unused", "finish"}
                       /\ drive.task.kind = "modify" => s \in {"prep", "files", "sandbox", "copy"}
                       /\ drive.task.kind = "catchup" /\ s = "finish" => drive.task.interrupted
  BY DEF CompletedWithError, FinishTask, Steps, Stepped, At
<1>3. PICK s \in Steps : /\ Stepped(drive, drive', s)
                         /\ s \in {"prep", "files", "sandbox", "copy", "unused", "finish"}
                         /\ drive.task.kind = "modify" => s \in {"prep", "files", "sandbox", "copy"}
                         /\ drive.task.kind = "catchup" /\ s = "finish" => drive.task.interrupted
  BY <1>2
<1>4. Goes(drive, drive') /\ drive'.task.step = s /\ drive'.last = drive.last
  BY <1>3, SafeGood, SteppedGoes
<1>5. Works(drive'.task) <=> Works(drive.task)  BY <1>1, <1>3, <1>4 DEF Works, Goes
<1>6. Closing(drive) => Closing(drive')  BY <1>4 DEF Goes, Closing
<1>7. ~Loading(drive'.task) /\ drive'.task.step \notin Built /\ drive.task.step \notin Built
  BY <1>1, <1>3, <1>4 DEF Loading, Built, Synchronizing
<1>8. Own(drive'.task) = Own(drive.task)  BY <1>7 DEF Own
<1>9. ASSUME Follows(chain, inbox, drive, disk, acct, crashes)
      PROVE  Follows(chain, inbox, drive', disk', acct', crashes)
  <2>1. drive.task.kind # "cancel"  BY <1>9 DEF Follows, Untouched, Undisturbed
  <2>2. Applying(drive.task) => \/ Applying(drive'.task)
                                \/ drive.task.kind \in Updating /\ drive.task.interrupted
    BY <1>1, <1>3, <1>4 DEF Applying, Goes, Updating
  <2> QED  BY <1>1, <1>4, <1>5, <1>7, <1>8, <1>9, <2>2, Current, GoesFollows
<1> QED  BY <1>1, <1>6, <1>9, Current, TaskSteady

\* The jobs that save something, but for the modification that replaces the drive.
LEMMA SaveSteady ==
    ASSUME Safe, Accounted, Steady,
           \/ SaveNotApproved \/ SaveDisapproved \/ SaveApprovedUploads
           \/ CatchUpMoveFsTree \/ MyOpinionIsCreated \/ CatchUpOpinionIsCreated
    PROVE  Steady'
<1> USE DEF SaveNotApproved, SaveDisapproved, SaveApprovedUploads, CatchUpMoveFsTree,
            MyOpinionIsCreated, CatchUpOpinionIsCreated
<1>1. /\ chain' = chain /\ inbox' = inbox /\ up = "up" /\ up' = "up" /\ crashes' = crashes
      /\ acct' = acct
      /\ drive.task.kind \in {"modify", "catchup", "cancel"}
  BY DEF environment, At, Updating
<1>2. \E s \in Steps :
         /\ Stepped(drive, drive', s) /\ s # "load"
         /\ \/ drive.task.kind = "cancel"
            \/ s \in Built /\ drive.task.step \in Built
               /\ (drive.task.step \in {"saveUploads", "saveLast"} <=> s = "saveLast")
               /\ s # "saveUploads"
            \/ drive.task.interrupted /\ s = "finish" /\ drive.task.step \in {"saveNot", "saveOpinion"}
  BY DEF FinishTask, Steps, Stepped, At, Updating, Built, Synchronizing
<1>3. PICK s \in Steps :
         /\ Stepped(drive, drive', s) /\ s # "load"
         /\ \/ drive.task.kind = "cancel"
            \/ s \in Built /\ drive.task.step \in Built
               /\ (drive.task.step \in {"saveUploads", "saveLast"} <=> s = "saveLast")
               /\ s # "saveUploads"
            \/ drive.task.interrupted /\ s = "finish" /\ drive.task.step \in {"saveNot", "saveOpinion"}
  BY <1>2
<1>4. Goes(drive, drive') /\ drive'.task.step = s /\ drive'.last = drive.last
  BY <1>3, SafeGood, SteppedGoes
<1>5. Closing(drive) => Closing(drive')  BY <1>4 DEF Goes, Closing
<1>6. disk'.last = disk.last /\ disk'.notApproved \in {disk.notApproved, acct.notApproved}
  <2>1. \/ disk' = [disk EXCEPT !.notApproved = acct.notApproved]
        \/ disk' = [disk EXCEPT !.approved = acct.approved]
        \/ disk' = [disk EXCEPT !.root = drive.task.root]
        \/ disk' = [disk EXCEPT !.opinion = acct.notApproved]
    OBVIOUS
  <2>2. DOMAIN disk = {"root", "last", "approved", "notApproved", "opinion"}
    BY DEF Safe, IInv, DiskInv
  <2> QED  BY ONLY <2>1, <2>2
<1>7. ASSUME Follows(chain, inbox, drive, disk, acct, crashes)
      PROVE  Follows(chain, inbox, drive', disk', acct', crashes)
  <2>1. drive.task.kind # "cancel"  BY <1>7 DEF Follows, Untouched, Undisturbed
  <2>2. \/ s \in Built /\ drive.task.step \in Built
           /\ (drive.task.step \in {"saveUploads", "saveLast"} <=> s = "saveLast")
           /\ s # "saveUploads"
        \/ drive.task.interrupted /\ s = "finish" /\ drive.task.step \in {"saveNot", "saveOpinion"}
    BY <1>3, <2>1
  <2>3. Works(drive'.task) <=> Works(drive.task)
    BY <1>4, <2>2 DEF Works, Goes, Built, Synchronizing
  <2>4. Own(drive'.task) = Own(drive.task)
    BY <1>4, <2>2, <2>3 DEF Works, Own, Goes
  <2>5. Applying(drive.task) => \/ Applying(drive'.task)
                                \/ drive.task.kind \in Updating /\ drive.task.interrupted
    BY <1>1, <1>4, <2>2 DEF Applying, Goes, Updating, Built, Synchronizing
  <2>6. ~Loading(drive'.task)  BY <1>3, <1>4 DEF Loading
  <2> QED  BY <1>1, <1>4, <1>6, <1>7, <2>3, <2>4, <2>5, <2>6, Current, GoesFollows
<1> QED  BY <1>1, <1>5, <1>7, Current, TaskSteady

\* Everything older than the modification at work was applied.
LEMMA WorkPasses ==
    ASSUME NEW c, NEW q, NEW d, NEW k, Good(c, q, d, k), Order(c, q, d, k), AllSeen(c, q, d),
           NEW m \in Mods, m = d.task.mod, d.task.kind = "catchup" \/ Works(d.task)
    PROVE  Passed(c, m, d.last)
<1>1. CASE d.task.kind = "catchup"
  BY <1>1 DEF Good, DriveInv, DriveIsApproved, TaskIsApproved, Passed, Settles
<1>2. CASE Works(d.task)
  <2> SUFFICES ASSUME NEW z \in Mods, Approved(c, z), z < m  PROVE z <= d.last
    BY DEF Passed
  <2>1. z \in Int /\ 0 < z /\ m \in Int  BY ModTypes
  <2>2. ~Open(d, q, z)
    <3>1. ~Waits(d, q, z)  BY <1>2, <2>1, WaitingOrder DEF Works, Updating
    <3> QED  BY <2>1, <3>1 DEF Open
  <2>3. ~Told(d, q, z)  BY <1>2 DEF Told, Fresh, Works
  <2>4. d.catchReq = 0 /\ ~Applying(d.task)
    BY <1>2 DEF Works, Applying, Order, TaskOrder
  <2> QED  BY <2>1, <2>2, <2>3, <2>4 DEF AllSeen, Sees, Reached
<1> QED  BY <1>1, <1>2

\* The uploads of the modification at work: nothing older is missing, and they
\* are what is expected and its size.
LEMMA NewUploadsFollow ==
    ASSUME NEW c, NEW q, NEW d \in Drives, NEW k, Good(c, q, d, k), Order(c, q, d, k),
           NEW a \in Accounts, NEW i, Follows(c, q, d, k, a, i), NEW m \in Mods, m = d.task.mod,
           NEW n \in Nat,
           \/ Works(d.task) /\ n = Size[m]
           \/ d.task.kind = "catchup" /\ n = 0,
           NEW e, Goes(d, e), e.last = d.last, e.task.step = "saveNot",
           d.task.step \in {"sandbox", "copy"},
           NEW b, b.notApproved.id = m, b.notApproved.sum = a.expected + n,
           b.expected = a.expected
    PROVE  Follows(c, q, e, k, b, i)
<1>1. /\ Undisturbed(d) /\ d.last <= k.last /\ Untouched(c, q, d, k, a) /\ AllSeen(c, q, d)
      /\ Passed(c, k.notApproved.id, k.last)
  BY DEF Follows, Untouched
<1>2. /\ Works(e.task) <=> Works(d.task)
      /\ Applying(d.task) => Applying(e.task)
      /\ ~Loading(e.task) /\ e.task.step \in Built
      /\ e.task.mod = m
  BY DEF Works, Goes, Applying, Loading, Built
<1>3. InSight(d, e, q)  BY <1>1, <1>2, GoesInSight
<1>4. Passed(c, b.notApproved.id, e.last)  BY <1>1, WorkPasses
<1>5. Untouched(c, q, e, k, b)  BY <1>1, <1>3, <1>4, GoesUntouched
<1>6. b.notApproved.sum <= b.expected + Own(e.task)
  <2>1. Own(e.task) = n  BY <1>2 DEF Own, Works
  <2>2. a.expected \in Nat  BY DEF Accounts
  <2> QED  BY <2>1, <2>2
<1> QED  BY <1>2, <1>5, <1>6 DEF Follows, Balanced

\* myRootHashIsCalculated
LEMMA RootHashSteady ==
    ASSUME Safe, Accounted, Steady, NEW r, NEW n \in Nat, MyRootHashIsCalculated(r, n),
           chain' = chain, inbox' = inbox, up = "up", up' = "up", crashes' = crashes,
           disk' = disk, drive.task.step \in {"sandbox", "copy"},
           \/ drive.task.kind = "modify" /\ n = Size[drive.task.mod]
           \/ drive.task.kind = "catchup" /\ n = 0
    PROVE  Steady'
<1>1. /\ Good(chain, inbox, drive, disk) /\ Order(chain, inbox, drive, disk)
      /\ drive \in Drives /\ acct \in Accounts
  BY Current
<1>2. CASE drive.task.interrupted
  <2>1. drive' = FinishTask(drive) /\ acct' = acct  BY <1>2 DEF MyRootHashIsCalculated
  <2>2. Goes(drive, drive') /\ drive'.task.step = "finish" /\ drive'.last = drive.last
    <3>1. Stepped(drive, drive', "finish")  BY <2>1 DEF FinishTask, Stepped
    <3> QED  BY <1>1, <3>1, SteppedGoes
  <2>3. (Works(drive'.task) <=> Works(drive.task)) /\ Own(drive'.task) = Own(drive.task)
    BY <1>2, <2>2 DEF Works, Goes, Own
  <2>4. ~Loading(drive'.task) /\ drive.task.kind \in Updating
    BY <2>2 DEF Loading, Updating
  <2>5. Closing(drive) => Closing(drive')  BY <2>2 DEF Goes, Closing
  <2>6. Follows(chain, inbox, drive, disk, acct, crashes)
        => Follows(chain, inbox, drive', disk', acct', crashes)
    BY <1>1, <1>2, <2>1, <2>2, <2>3, <2>4, GoesFollows
  <2> QED  BY <2>5, <2>6, Current, TaskSteady
<1>3. CASE ~drive.task.interrupted
  <2>1. /\ drive' = [drive EXCEPT !.task.root = r, !.task.step = "saveNot"]
        /\ acct' = UpdateUploads(acct, drive.task.mod, n)
    BY <1>3 DEF MyRootHashIsCalculated
  <2>2. Goes(drive, drive') /\ drive'.task.step = "saveNot" /\ drive'.last = drive.last
    <3>1. Stepped(drive, drive', "saveNot")  BY <2>1 DEF Stepped
    <3> QED  BY <1>1, <3>1, SteppedGoes
  <2>3. drive.task.mod \in Mods
    <3>1. Approved(chain, drive.task.mod) => drive.task.mod \in Mods
      BY <1>1, DriveNumbers, ApprovedBound, ModTypes DEF Good
    <3> QED  BY <1>1, <3>1 DEF Good, DriveInv, DriveIsApproved, TaskIsApproved
  <2>4. drive.task.mod \in ModOrZero  BY <2>3, ModTypes
  <2>5. /\ acct'.notApproved.id = drive.task.mod /\ acct'.expected = acct.expected
        /\ acct'.notApproved.sum = acct.expected + n
    BY ONLY <1>1, <2>1, <2>4, n \in Nat, AccountFields
  <2>6. Closing(drive) => Closing(drive')  BY <2>2 DEF Goes, Closing
  <2>7. \/ Works(drive.task) /\ n = Size[drive.task.mod]
        \/ drive.task.kind = "catchup" /\ n = 0
    BY <1>3 DEF Works
  <2>8. Follows(chain, inbox, drive, disk, acct, crashes)
        => Follows(chain, inbox, drive', disk', acct', crashes)
    BY <1>1, <2>2, <2>3, <2>5, <2>7, NewUploadsFollow
  <2> QED  BY <2>6, <2>8, Current, TaskSteady
<1> QED  BY <1>2, <1>3

\* The three ways to a sandbox tree.
LEMMA SandboxSteady ==
    ASSUME Safe, Accounted, Steady,
           ModifyFsTreeInSandbox \/ CopyFsTreeAfterError \/ ModifyDriveInSandbox
    PROVE  Steady'
<1>1. drive.task.kind = "modify" => drive.task.mod \in Mods /\ Size[drive.task.mod] \in Nat
  BY DriveAssumption DEF Safe, IInv, DriveInv, DriveIsApproved, TaskIsApproved
<1>2. CASE ModifyFsTreeInSandbox
  <2>1. /\ chain' = chain /\ inbox' = inbox /\ up = "up" /\ up' = "up" /\ crashes' = crashes
        /\ disk' = disk /\ drive.task.kind = "modify" /\ drive.task.step = "sandbox"
    BY <1>2 DEF ModifyFsTreeInSandbox, environment, At
  <2>2. CASE Outcome[Modification] = "space"
    <3>1. drive' = CompletedWithError(drive) /\ acct' = acct
      BY <1>2, <2>2 DEF ModifyFsTreeInSandbox
    <3>2. Goes(drive, drive') /\ drive'.task.step = "copy" /\ drive'.last = drive.last
      <4>1. Stepped(drive, drive', "copy")  BY <3>1 DEF CompletedWithError, Stepped
      <4> QED  BY <4>1, SafeGood, SteppedGoes
    <3>3. /\ Works(drive'.task) <=> Works(drive.task)
          /\ Own(drive'.task) = Own(drive.task)
          /\ ~Loading(drive'.task) /\ ~Applying(drive.task)
      BY <2>1, <3>2 DEF Works, Goes, Own, Built, Synchronizing, Loading, Applying
    <3>4. Closing(drive) => Closing(drive')  BY <3>2 DEF Goes, Closing
    <3>5. Follows(chain, inbox, drive, disk, acct, crashes)
          => Follows(chain, inbox, drive', disk', acct', crashes)
      BY <2>1, <3>1, <3>2, <3>3, Current, GoesFollows
    <3> QED  BY <2>1, <3>4, <3>5, Current, TaskSteady
  <2>3. CASE Outcome[Modification] # "space"
    <3>1. MyRootHashIsCalculated(drive.root \cup {Modification}, Size[Modification])
      BY <1>2, <2>3 DEF ModifyFsTreeInSandbox
    <3> QED  BY <1>1, <2>1, <3>1, RootHashSteady DEF Modification
  <2> QED  BY <2>2, <2>3
<1>3. CASE CopyFsTreeAfterError
  <2>1. /\ chain' = chain /\ inbox' = inbox /\ up = "up" /\ up' = "up" /\ crashes' = crashes
        /\ disk' = disk /\ drive.task.kind = "modify" /\ drive.task.step = "copy"
        /\ MyRootHashIsCalculated(drive.root, Size[Modification])
    BY <1>3 DEF CopyFsTreeAfterError, environment, At
  <2> QED  BY <1>1, <2>1, RootHashSteady DEF Modification
<1>4. CASE ModifyDriveInSandbox
  <2>1. /\ chain' = chain /\ inbox' = inbox /\ up = "up" /\ up' = "up" /\ crashes' = crashes
        /\ disk' = disk /\ drive.task.kind = "catchup" /\ drive.task.step = "sandbox"
        /\ MyRootHashIsCalculated(ApprovedRoot, 0)
    BY <1>4 DEF ModifyDriveInSandbox, environment, At
  <2>2. 0 \in Nat  OBVIOUS
  <2> QED  BY <2>1, <2>2, RootHashSteady
<1> QED  BY <1>2, <1>3, <1>4

\* startSynchronizingDriveWithSandbox of both tasks: the task is sure of its
\* modification, and its uploads are expected.
LEMMA SynchronizeSteady ==
    ASSUME Safe, Accounted, Steady, SynchronizeDriveWithSandbox \/ CatchUpSaveLast
    PROVE  Steady'
<1>1. /\ chain' = chain /\ inbox' = inbox /\ up = "up" /\ up' = "up" /\ crashes' = crashes
      /\ acct' = ApproveUploads(acct) /\ Stepped(drive, drive', "saveUploads")
      /\ \/ drive.task.kind = "modify" /\ disk' = [disk EXCEPT !.root = drive.task.root]
         \/ drive.task.kind = "catchup" /\ disk' = [disk EXCEPT !.last = drive.task.mod]
      /\ drive.task.step \in {"sync", "syncLast"}
  BY DEF SynchronizeDriveWithSandbox, CatchUpSaveLast, environment, At,
         SynchronizationIsCompleted, Stepped
<1>2. /\ Good(chain, inbox, drive, disk) /\ Order(chain, inbox, drive, disk)
      /\ drive \in Drives /\ acct \in Accounts
  BY <1>1, Current
<1>3. Goes(drive, drive') /\ drive'.task.step = "saveUploads" /\ drive'.last = drive.last
  BY <1>1, <1>2, SteppedGoes
<1>4. acct'.notApproved = acct.notApproved /\ acct'.expected \in Nat
      /\ acct.notApproved.sum <= acct'.expected
  <2>1. 0 \in ModOrZero /\ 0 \in Nat  BY ModTypes
  <2> QED  BY ONLY <1>1, <1>2, <2>1, AccountFields
<1>5. /\ disk'.notApproved = disk.notApproved
      /\ disk'.last = IF drive.task.kind = "catchup" THEN drive.task.mod ELSE disk.last
  BY <1>1, <1>2 DEF Good, DiskInv
<1>6. /\ drive.last <= drive.task.mod /\ disk.last <= drive.task.mod
      /\ drive.task.mod \in ModOrZero
  BY <1>1, <1>2, Positions DEF Applies, Synchronizing
<1>7. ASSUME Follows(chain, inbox, drive, disk, acct, crashes)
      PROVE  Follows(chain, inbox, drive', disk', acct', crashes)
  <2>1. /\ Untouched(chain, inbox, drive, disk, acct) /\ drive.last <= disk.last
        /\ Passed(chain, disk.notApproved.id, disk.last)
        /\ Passed(chain, acct.notApproved.id, drive.last)
    BY <1>7 DEF Follows, Untouched
  <2>2. InSight(drive, drive', inbox)
    <3> SUFFICES ASSUME NEW z \in Mods, Open(drive, inbox, z) \/ Reached(drive, z)
                 PROVE  Open(drive', inbox, z) \/ Reached(drive', z)
      BY DEF InSight
    <3>1. Applying(drive'.task)  BY <1>1, <1>3 DEF Applying, Goes
    <3>2. CASE Open(drive, inbox, z)
      <4>1. Waits(drive, inbox, z) => Open(drive', inbox, z)
        BY <1>3 DEF Goes, Open, Waits, Deferred
      <4>2. drive.task.mod = z => z <= drive'.task.mod  BY <1>3, ModTypes DEF Goes
      <4> QED  BY <3>1, <3>2, <4>1, <4>2 DEF Open, Reached
    <3>3. CASE Reached(drive, z)  BY <1>3, <3>1, <3>3 DEF Reached, Goes
    <3> QED  BY <3>2, <3>3
  <2>3. drive'.last <= disk'.last  BY <1>3, <1>5, <1>6, <2>1
  <2>4. Passed(chain, disk'.notApproved.id, disk'.last)
    BY <1>2, <1>5, <1>6, <2>1, Positions, PassedMore
  <2>5. Untouched(chain, inbox, drive', disk', acct')
    BY <1>3, <1>4, <2>1, <2>2, <2>3, <2>4, GoesUntouched
  <2>6. ~Works(drive'.task) /\ ~Loading(drive'.task)
    BY <1>3 DEF Works, Loading
  <2>7. Balanced(drive', disk', acct')
    BY <1>2, <1>4, <2>6 DEF Balanced, Own, Accounts, Uploads
  <2> QED  BY <2>5, <2>7 DEF Follows
<1>8. Closing(drive) => Closing(drive')  BY <1>3 DEF Goes, Closing
<1> QED  BY <1>1, <1>7, <1>8, Current, TaskSteady

\* The modification is saved, and the task ends.
LEMMA SaveLastSteady ==
    ASSUME Safe, Accounted, Steady, SaveLastApproved
    PROVE  Steady'
<1>1. /\ chain' = chain /\ inbox' = inbox /\ up = "up" /\ up' = "up" /\ crashes' = crashes
      /\ acct' = acct
      /\ drive.task.kind \in Updating /\ drive.task.step = "saveLast"
      /\ disk' = [disk EXCEPT !.last = drive.task.mod]
  BY DEF SaveLastApproved, environment, At
<1>2. /\ Good(chain, inbox, drive, disk) /\ Order(chain, inbox, drive, disk)
      /\ drive \in Drives /\ acct \in Accounts
  BY <1>1, Current
<1>3. Goes(drive, drive') /\ drive'.task.step = "finish" /\ drive'.last = drive.task.mod
  <2>1. PICK r, m : r = drive.task.root /\ m = drive.task.mod  OBVIOUS
  <2>2. PICK d : d = [drive EXCEPT !.root = r, !.last = m]  OBVIOUS
  <2>3. drive' = FinishTask(d)  BY <2>1, <2>2 DEF SaveLastApproved
  <2>4. /\ DOMAIN d = DOMAIN drive /\ d.task = drive.task
        /\ d.deferred = drive.deferred /\ d.catchReq = drive.catchReq
        /\ d.cancelReq = drive.cancelReq /\ d.closeReq = drive.closeReq /\ d.last = m
    BY <2>2, SafeGood, TaskShape
  <2>5. drive' = [d EXCEPT !.task.step = "finish"]  BY <2>3 DEF FinishTask
  <2>6. /\ drive'.task = [d.task EXCEPT !.step = "finish"]
        /\ drive'.deferred = d.deferred /\ drive'.catchReq = d.catchReq
        /\ drive'.cancelReq = d.cancelReq /\ drive'.closeReq = d.closeReq
        /\ drive'.last = d.last
    BY <2>4, <2>5, SafeGood, TaskShape
  <2> QED  BY <2>1, <2>4, <2>6, SafeGood, TaskShape DEF Goes
<1>4. disk'.notApproved = disk.notApproved /\ disk'.last = drive.task.mod
  BY <1>1, <1>2 DEF Good, DiskInv
<1>5. /\ drive.last <= drive.task.mod /\ disk.last <= drive.task.mod
      /\ drive.task.mod \in ModOrZero /\ drive.task.mod \in Int /\ drive.last \in Int
      /\ drive.last \in ModOrZero /\ disk.last \in ModOrZero
  BY <1>1, <1>2, Positions DEF Applies, Synchronizing
<1>6. ASSUME Follows(chain, inbox, drive, disk, acct, crashes)
      PROVE  Follows(chain, inbox, drive', disk', acct', crashes)
  <2>1. /\ Untouched(chain, inbox, drive, disk, acct)
        /\ Passed(chain, disk.notApproved.id, disk.last)
        /\ Passed(chain, acct.notApproved.id, drive.last)
    BY <1>6 DEF Follows, Untouched
  <2>2. ~Works(drive.task) /\ ~Works(drive'.task) /\ ~Loading(drive'.task)
    BY <1>1, <1>3 DEF Works, Loading
  <2>3. InSight(drive, drive', inbox)
    <3>1. \A z \in Mods : Open(drive, inbox, z) => Open(drive', inbox, z)
      BY <1>3, <2>2 DEF Goes, Open, Waits, Deferred
    <3>2. \A z \in Mods : z <= drive.last => z <= drive'.last
      BY <1>3, <1>5, ModTypes
    <3>3. \A z \in Mods : Reached(drive, z) => Reached(drive', z)
      BY <1>3, <3>2 DEF Reached, Goes
    <3> QED  BY <3>1, <3>3 DEF InSight
  <2>4. /\ Passed(chain, disk'.notApproved.id, disk'.last)
        /\ Passed(chain, acct'.notApproved.id, drive'.last)
        /\ drive'.last <= disk'.last
    BY <1>1, <1>3, <1>4, <1>5, <2>1, PassedMore
  <2>5. Untouched(chain, inbox, drive', disk', acct')
    BY <1>3, <2>1, <2>3, <2>4, GoesUntouched
  <2>6. crashes = 0 => Balanced(drive', disk', acct')
    BY <1>1, <1>6, <2>2 DEF Follows, Balanced, Own
  <2> QED  BY <2>5, <2>6 DEF Follows
<1>7. Closing(drive) => Closing(drive')  BY <1>3 DEF Goes, Closing
<1> QED  BY <1>1, <1>6, <1>7, Current, TaskSteady

\* What the chain has closed or cancelled is known to a drive that ends without
\* a crash.
LEMMA CalmUnlessClosed ==
    ASSUME Safe, Accounted, up = "up", NothingCancelled, ~chain.closed
    PROVE  Calm
BY DEF Accounted, Tended, ClosingLast, NothingCancelled, NoneHandled, Calm

\* The files are read.
LEMMA InitializeSteady ==
    ASSUME Safe, Accounted, Steady, InitializeDrive
    PROVE  Steady'
<1>1. up = "up" /\ disk' = disk /\ drive.task.kind = "init" /\ drive.task.step = "load"
  BY DEF InitializeDrive, At
<1>2. /\ Good(chain, inbox, drive, disk) /\ Order(chain, inbox, drive, disk)
      /\ drive \in Drives /\ acct \in Accounts
  BY <1>1, Current
<1>3. CASE disk.notApproved.id \in drive.task.cancels /\ drive.deferred # <<>>
  <2>1. up' = "down" /\ chain' = chain  BY <1>3 DEF InitializeDrive, Die
  <2>2. Calm => drive.task.cancels = {}
    BY <1>1, Current DEF Follows, Untouched, Undisturbed
  <2>3. ~(NothingCancelled' /\ ~chain'.closed)
    BY <1>1, <1>3, <2>1, <2>2, CalmUnlessClosed DEF NothingCancelled
  <2> QED  BY <2>1, <2>3 DEF Steady, Calm
<1>4. CASE ~(disk.notApproved.id \in drive.task.cancels /\ drive.deferred # <<>>)
  <2>1. /\ acct' = [acct EXCEPT !.approved = disk.approved, !.notApproved = disk.notApproved]
        /\ drive' = Initialized([drive EXCEPT !.root = disk.root, !.last = disk.last], acct')
        /\ chain' = chain /\ inbox' = inbox /\ up' = "up" /\ crashes' = crashes
    BY <1>1, <1>4, Zenon DEF InitializeDrive, environment
  <2>2. acct'.expected = acct.expected /\ acct'.notApproved = disk.notApproved
    BY <1>2, <2>1 DEF Accounts
  <2>3. PICK r, l : r = disk.root /\ l = disk.last  OBVIOUS
  <2>4. PICK d : d = [drive EXCEPT !.root = r, !.last = l]  OBVIOUS
  <2>5. PICK x : x = acct'.notApproved.id  OBVIOUS
  <2>6. PICK e : e = [d EXCEPT !.cancelReq = x]  OBVIOUS
  <2>7. drive' = IF x \in d.task.cancels THEN FinishTask(e) ELSE FinishTask(d)
    BY <2>1, <2>3, <2>4, <2>5, <2>6 DEF Initialized
  <2>8. /\ DOMAIN d = DOMAIN drive /\ d.task = drive.task
        /\ d.deferred = drive.deferred /\ d.catchReq = drive.catchReq
        /\ d.cancelReq = drive.cancelReq /\ d.closeReq = drive.closeReq /\ d.last = l
    BY <1>2, <2>4, TaskShape
  <2>9. Closing(drive) => Closing(drive')
    <3>1. DOMAIN e = DOMAIN d /\ e.closeReq = d.closeReq /\ e.task = d.task
      BY <1>2, <2>6, <2>8, TaskShape
    <3>2. drive'.closeReq = drive.closeReq
      BY ONLY <1>2, <2>7, <2>8, <3>1, TaskShape DEF FinishTask
    <3> QED  BY <1>1, <3>2 DEF Closing
  <2>10. ASSUME Follows(chain, inbox, drive, disk, acct, crashes)
         PROVE  Follows(chain, inbox, drive', disk', acct', crashes)
    <3>1. /\ Untouched(chain, inbox, drive, disk, acct) /\ drive.task.cancels = {}
          /\ Passed(chain, disk.notApproved.id, disk.last) /\ drive.last <= disk.last
      BY <2>10 DEF Follows, Untouched, Undisturbed
    <3>2. drive' = [d EXCEPT !.task.step = "finish"]  BY <2>7, <2>8, <3>1 DEF FinishTask
    <3>3. /\ drive'.task = [d.task EXCEPT !.step = "finish"]
          /\ drive'.deferred = d.deferred /\ drive'.catchReq = d.catchReq
          /\ drive'.cancelReq = d.cancelReq /\ drive'.closeReq = d.closeReq
          /\ drive'.last = d.last
      BY ONLY <1>2, <2>8, <3>2, TaskShape
    <3>4. Goes(drive, drive') /\ drive'.last = disk.last /\ drive'.task.step = "finish"
      BY <1>2, <2>3, <2>8, <3>3, TaskShape DEF Goes
    <3>5. /\ ~Works(drive.task) /\ ~Works(drive'.task) /\ ~Applying(drive.task)
          /\ ~Loading(drive'.task) /\ Loading(drive.task)
      BY <1>1, <3>4 DEF Works, Goes, Applying, Loading
    <3>6. InSight(drive, drive', inbox)
      <4>1. \A z \in Mods : Open(drive, inbox, z) => Open(drive', inbox, z)
        BY <3>4, <3>5 DEF Goes, Open, Waits, Deferred
      <4>2. \A z \in Mods : z <= drive.last => z <= drive'.last
        BY <1>2, <3>1, <3>4, Positions, ModTypes
      <4>3. \A z \in Mods : Reached(drive, z) => Reached(drive', z)
        BY <3>4, <3>5, <4>2 DEF Reached, Goes
      <4> QED  BY <4>1, <4>3 DEF InSight
    <3>7. drive'.last <= disk'.last  BY <1>1, <1>2, <3>4, Positions
    <3>8. Untouched(chain, inbox, drive', disk', acct')
      BY <1>1, <2>2, <3>1, <3>4, <3>6, <3>7, GoesUntouched
    <3>9. crashes = 0 => Balanced(drive', disk', acct')
      <4>1. acct.expected \in Nat  BY <1>2 DEF Accounts
      <4> QED  BY <2>2, <2>10, <3>5, <4>1 DEF Follows, Balanced, Own
    <3> QED  BY <3>8, <3>9 DEF Follows
  <2> QED  BY <1>1, <2>1, <2>9, <2>10, Current, TaskSteady
<1> QED  BY <1>3, <1>4

\* Whatever runNextTask starts, nothing gets out of sight.
LEMMA RunNextFollows ==
    ASSUME NEW c, NEW q, NEW d, NEW k, Good(c, q, d, k), Order(c, q, d, k),
           NEW a \in Accounts, NEW n, Follows(c, q, d, k, a, n),
           d.task.kind = "none" \/ d.task.step = "finish", ~d.closeReq,
           NEW e, e = RunNextTask(d), NEW b, b = RunNextAccount(d, a)
    PROVE  Follows(c, q, e, k, b, n)
<1>1. d \in Drives  BY DEF Good, DriveInv, DriveIsApproved
<1>2. /\ Undisturbed(d) /\ d.last <= k.last /\ AllSeen(c, q, d)
      /\ Passed(c, k.notApproved.id, k.last) /\ Passed(c, a.notApproved.id, d.last)
      /\ d.cancelReq = 0
  BY DEF Follows, Untouched, Undisturbed
<1>3. /\ e.cancelReq = 0 /\ ~e.closeReq /\ ~e.task.interrupted /\ e.task.cancels = {}
      /\ e.last = d.last
      /\ \/ RunsCatchUp(d, e) /\ b = IncreaseExpected(a, TotalSize(Skipped(d)))
         \/ (RunsModify(d, e) \/ RunsNothing(d, e)) /\ b = a
  BY ONLY <1>1, <1>2, StartedTask, ~d.closeReq, e = RunNextTask(d), b = RunNextAccount(d, a)
<1>4. ~Works(d.task) /\ ~Applying(d.task) /\ ~Loading(e.task) /\ e.task.step \notin Built
  BY <1>3 DEF Works, Applying, Loading, Built, Synchronizing, RunsCatchUp, RunsModify,
              RunsNothing
<1>5. Undisturbed(e)
  BY <1>3 DEF Undisturbed, RunsCatchUp, RunsModify, RunsNothing
<1>6. b.notApproved = a.notApproved /\ a.expected \in Nat /\ a.expected <= b.expected
      /\ b.expected \in Nat
  <2>1. TotalSize(Skipped(d)) \in Nat
    <3>1. d.deferred \in Seq(Mods) /\ Len(d.deferred) \in Nat  BY QueueTypes
    <3>2. PICK p : p = Position(d.deferred, d.catchReq)  OBVIOUS
    <3>3. p \in 0..Len(d.deferred)  BY <3>1, <3>2, PositionType
    <3>4. p \in Int /\ 1 <= 1 /\ p <= Len(d.deferred)  BY <3>1, <3>3
    <3>5. SubSeq(d.deferred, 1, p) \in Seq(Mods)  BY <3>1, <3>4, SubSeqOfSeq
    <3>6. Skipped(d) \in Seq(Mods)  BY <3>2, <3>5 DEF Skipped
    <3> QED  BY <3>6, TotalSizeType
  <2>2. PICK i : i = TotalSize(Skipped(d))  OBVIOUS
  <2>3. b = IncreaseExpected(a, i) \/ b = a  BY <1>3, <2>2
  <2> QED  BY <2>1, <2>2, <2>3 DEF Accounts, IncreaseExpected
<1>7. Balanced(d, k, a) => Balanced(e, k, b)
  <2>1. Own(d.task) = 0 /\ Own(e.task) = 0  BY <1>4 DEF Own
  <2> QED  BY <1>4, <1>6, <2>1 DEF Balanced, Accounts, Uploads
<1>8. AllSeen(c, q, e)
  <2> SUFFICES ASSUME NEW z \in Mods, Sees(d, q, z)  PROVE Sees(e, q, z)
    BY <1>2 DEF AllSeen
  <2>1. z \in Int /\ 0 < z /\ d.catchReq \in Int  BY ModTypes, Positions
  <2>2. CASE RunsCatchUp(d, e)
    <3>1. ~Told(d, q, z)  BY <2>2 DEF Told, Fresh, RunsCatchUp
    <3>2. z <= d.catchReq => Reached(e, z)
      BY <1>3, <2>2 DEF RunsCatchUp, Reached, Applying, CatchUpStep
    <3>3. Open(d, q, z) /\ d.catchReq < z => Open(e, q, z)  BY <1>4, <2>2, CatchUpOpens
    <3>4. Reached(d, z) => Reached(e, z)  BY <1>3, <1>4, <3>2 DEF Reached
    <3> QED  BY <2>1, <3>1, <3>2, <3>3, <3>4 DEF Sees
  <2>3. CASE RunsModify(d, e)
    <3>1. ~Told(d, q, z)  BY <2>3 DEF Told, Fresh, RunsModify
    <3>2. PICK h : h = Head(d.deferred)  OBVIOUS
    <3>3. \A m \in Mods : Deferred(d, m) => Deferred(e, m) \/ m = h
      BY <2>3, <3>2, QueueTypes, FirstDeferred DEF Order, QueueOrder, RunsModify
    <3>4. Works(e.task) /\ e.task.mod = h  BY <1>3, <2>3, <3>2 DEF RunsModify, Works
    <3>5. Open(d, q, z) => Open(e, q, z)  BY <1>4, <3>3, <3>4 DEF Open, Waits
    <3>6. Reached(d, z) => Reached(e, z)
      BY <1>3, <1>4, <2>1, <2>3 DEF Reached, RunsModify
    <3> QED  BY <3>1, <3>5, <3>6 DEF Sees
  <2>4. CASE RunsNothing(d, e)
    <3>1. Told(d, q, z) => Told(e, q, z)  BY <2>4 DEF Told, Fresh, RunsNothing
    <3>2. Open(d, q, z) => Open(e, q, z)
      BY <1>4, <2>4 DEF Open, Waits, Deferred, RunsNothing
    <3>3. Reached(d, z) => Reached(e, z)
      BY <1>3, <1>4, <2>1, <2>4 DEF Reached, RunsNothing
    <3> QED  BY <3>1, <3>2, <3>3 DEF Sees
  <2> QED  BY <1>3, <2>2, <2>3, <2>4
<1>9. Untouched(c, q, e, k, b)  BY <1>2, <1>3, <1>5, <1>6, <1>8 DEF Untouched
<1> QED  BY <1>7, <1>9 DEF Follows

\* The sandbox was cleared, and the next task runs.
LEMMA FinishSteady ==
    ASSUME Safe, Accounted, Steady, FinishAndRunNextTask
    PROVE  Steady'
<1>1. /\ chain' = chain /\ inbox' = inbox /\ up = "up" /\ up' = "up" /\ crashes' = crashes
      /\ disk' = disk /\ drive.task.step = "finish"
      /\ drive' = RunNextTask(drive) /\ acct' = RunNextAccount(drive, acct)
  BY DEF FinishAndRunNextTask, environment, At
<1>2. /\ Good(chain, inbox, drive, disk) /\ Order(chain, inbox, drive, disk)
      /\ drive \in Drives /\ acct \in Accounts /\ Tended(chain, inbox, drive, acct)
  BY <1>1, Current
<1>3. drive.task.kind # "close"
  BY <1>1, <1>2 DEF Tended, ClosingLast, Closing
<1>4. drive.closeReq => Closing(drive')
  BY <1>1, <1>2, StartedTask DEF Closing
<1>5. Closing(drive) => Closing(drive')  BY <1>3, <1>4 DEF Closing
<1>6. Calm => ~drive.closeReq  BY DEF Calm, Closing
<1>7. Calm => Follows(chain, inbox, drive', disk', acct', crashes)
  BY <1>1, <1>2, <1>6, Current, RunNextFollows
<1> QED  BY <1>1, <1>5, <1>7, TaskSteady

\* A handler ends with runNextTask, if no task is running.
LEMMA ThenRunFollows ==
    ASSUME NEW q, NEW d, NEW a \in Accounts, Good(chain, q, d, disk),
           Order(chain, q, d, disk), ThenRunIfIdle(d, a), ~d.closeReq,
           NEW n, Follows(chain, q, d, disk, a, n)
    PROVE  Follows(chain, q, drive', disk, acct', n)
<1>1. CASE HasTask(d)  BY <1>1 DEF ThenRunIfIdle
<1>2. CASE ~HasTask(d)
  <2>1. /\ drive' = RunNextTask(d) /\ acct' = RunNextAccount(d, a)
        /\ d.task.kind = "none"
    BY <1>2 DEF ThenRunIfIdle, HasTask
  <2> QED  BY <2>1, RunNextFollows
<1> QED  BY <1>1, <1>2

\* What is left to show of a handler: a drive that takes an event is not being
\* closed, and the cancellations behind the event were on their way before.
LEMMA HandlerSteady ==
    ASSUME Safe, Accounted, Steady, NEW s, Take(s),
           Calm => \/ Closing(drive') \/ ~NoneHandled(chain, inbox')
                   \/ Follows(chain, inbox', drive', disk, acct', crashes)
    PROVE  Steady'
<1>1. /\ chain' = chain /\ disk' = disk /\ up = "up" /\ up' = "up" /\ crashes' = crashes
  BY DEF Take
<1>2. inbox \in Seq(Events) /\ inbox # <<>> /\ inbox' = Tail(inbox) /\ ~Closing(drive)
  BY Taken
<1>3. PICK q, t : q = inbox /\ t = inbox'  OBVIOUS
<1>4. \A i \in 1..Len(t) : \E j \in 1..Len(q) : q[j] = t[i]
  BY <1>2, <1>3, FirstEvent
<1>5. NoneHandled(chain, t) => NoneHandled(chain, q)
  BY <1>4 DEF NoneHandled, Announced
<1>6. Calm' => Calm /\ NoneHandled(chain, inbox') /\ ~Closing(drive')
  BY <1>1, <1>2, <1>3, <1>5 DEF Calm
<1> QED  BY <1>1, <1>6 DEF Steady

\* Drive e differs from d in nothing that is followed.
LEMMA SameFollows ==
    ASSUME NEW c, NEW q, NEW d, NEW k, NEW a, NEW n, Follows(c, q, d, k, a, n),
           NEW e, e.catchReq = d.catchReq, e.cancelReq = d.cancelReq,
           e.last = d.last, e.task = d.task,
           NEW t, \A z \in Mods : Open(d, q, z) => Open(e, t, z),
           \A z \in Mods : Told(d, q, z) => Told(e, t, z)
    PROVE  Follows(c, t, e, k, a, n)
<1>1. \A z \in Mods : Reached(d, z) => Reached(e, z)  BY DEF Reached
<1>2. AllSeen(c, q, d) => AllSeen(c, t, e)  BY <1>1 DEF AllSeen, Sees
<1>3. Undisturbed(d) => Undisturbed(e)  BY DEF Undisturbed
<1>4. Untouched(c, q, d, k, a) => Untouched(c, t, e, k, a)  BY <1>2, <1>3 DEF Untouched
<1>5. Balanced(d, k, a) => Balanced(e, k, a)  BY DEF Balanced
<1> QED  BY <1>4, <1>5 DEF Follows

\* Nobody is told of a modification by an event that is not its approval.
LEMMA ToldApproval ==
    ASSUME NEW q, NEW h, h = Head(q), h.type # "approve"
    PROVE  \A d, z : ~Told(d, q, z)
  BY DEF Told

\* The start and the end of a verification.
LEMMA OnVerifySteady ==
    ASSUME Safe, Accounted, Steady, OnVerify \/ OnVerified
    PROVE  Steady'
<1>1. acct' = acct /\ (Take("verify") \/ Take("verified"))
  BY DEF OnVerify, OnVerified
<1>2. PICK s \in {"verify", "verified"} : Take(s)  BY <1>1
<1>3. PICK m : m = Head(inbox).mod  OBVIOUS
<1>4. \/ drive' = CancelVerification(drive) \/ drive' = [drive EXCEPT !.verifyReq = m]
      \/ drive' = RunVerificationTask([drive EXCEPT !.verifyReq = m])
  BY <1>3, Zenon DEF OnVerify, OnVerified
<1>5. Goes(drive, drive') /\ drive'.task = drive.task /\ drive'.last = drive.last
  <2>1. drive \in Drives  BY SafeGood
  <2>2. CASE drive' = CancelVerification(drive)
    BY ONLY <2>1, <2>2, VerificationGoes, TaskShape DEF CancelVerification
  <2>3. CASE drive' = [drive EXCEPT !.verifyReq = m]
    BY ONLY <2>1, <2>3, VerificationGoes, TaskShape
  <2>4. CASE drive' = RunVerificationTask([drive EXCEPT !.verifyReq = m])
    <3>1. PICK i : i = [drive EXCEPT !.verifyReq = m]  OBVIOUS
    <3>2. i.last = drive.last /\ DOMAIN i = DOMAIN drive  BY <2>1, <3>1, TaskShape
    <3>3. drive'.last = drive.last
      BY ONLY <2>1, <2>4, <3>1, <3>2, TaskShape DEF RunVerificationTask
    <3> QED  BY ONLY <2>1, <2>4, <3>3, VerificationGoes
  <2> QED  BY <1>4, <2>2, <2>3, <2>4
<1>6. /\ inbox \in Seq(Events) /\ inbox # <<>> /\ inbox' = Tail(inbox)
      /\ Head(inbox).type = s
  BY <1>2, Taken
<1>7. PICK q, h, t : q = inbox /\ h = Head(inbox) /\ t = inbox'  OBVIOUS
<1>8. \A z \in Mods : Open(drive, q, z) => Open(drive', t, z)
  <2>1. \A z : Requested(q, z) => Requested(t, z)  BY <1>2, <1>6, <1>7, FirstEvent
  <2> QED  BY <1>5, <2>1 DEF Goes, Open, Waits, Deferred
<1>9. \A z \in Mods : ~Told(drive, q, z)  BY <1>2, <1>6, <1>7, ToldApproval
<1>10. Follows(chain, q, drive, disk, acct, crashes)
       => Follows(chain, t, drive', disk, acct, crashes)
  BY <1>5, <1>8, <1>9, SameFollows DEF Goes
<1>11. Calm => Follows(chain, inbox', drive', disk, acct', crashes)
  BY <1>1, <1>7, <1>10 DEF Steady
<1> QED  BY <1>2, <1>11, HandlerSteady

\* startModifyDrive
LEMMA OnModifySteady ==
    ASSUME Safe, Accounted, Steady, OnModify
    PROVE  Steady'
<1>1. PICK d : d = [drive EXCEPT !.deferred = Append(drive.deferred, Head(inbox).mod)]
  OBVIOUS
<1>2. Take("modify") /\ ThenRunIfIdle(d, acct)
  BY <1>1, SafeGood, TaskShape DEF OnModify
<1>3. /\ d.deferred = Append(drive.deferred, Head(inbox).mod)
      /\ d.catchReq = drive.catchReq /\ d.cancelReq = drive.cancelReq
      /\ d.closeReq = drive.closeReq /\ d.last = drive.last /\ d.task = drive.task
      /\ Good(chain, inbox', d, disk) /\ Order(chain, inbox', d, disk)
      /\ Head(inbox).mod \in Mods
  BY <1>1, <1>2, RequestTaken
<1>4. /\ inbox \in Seq(Events) /\ inbox # <<>> /\ inbox' = Tail(inbox)
      /\ Head(inbox).type = "modify" /\ ~Closing(drive) /\ drive \in Drives
  BY <1>2, Taken, SafeGood
<1>5. PICK q, h, t : q = inbox /\ h = Head(inbox) /\ t = inbox'  OBVIOUS
<1>6. \A z \in Mods : Open(drive, q, z) => Open(d, t, z)
  BY <1>3, <1>4, <1>5, RequestOpens
<1>7. \A z \in Mods : ~Told(drive, q, z)  BY <1>4, <1>5, ToldApproval
<1>8. Follows(chain, q, drive, disk, acct, crashes)
      => Follows(chain, t, d, disk, acct, crashes)
  BY <1>3, <1>6, <1>7, SameFollows
<1>9. acct \in Accounts /\ ~d.closeReq
  BY <1>3, <1>4 DEF Accounted, Typed, Closing
<1>10. Follows(chain, q, drive, disk, acct, crashes)
       => Follows(chain, t, drive', disk, acct', crashes)
  BY <1>2, <1>3, <1>5, <1>8, <1>9, ThenRunFollows
<1>11. Calm => Follows(chain, inbox', drive', disk, acct', crashes)
  BY <1>5, <1>10 DEF Steady
<1> QED  BY <1>2, <1>11, HandlerSteady

\* startDriveClosing
LEMMA OnCloseSteady ==
    ASSUME Safe, Accounted, Steady, OnClose
    PROVE  Steady'
<1>1. PICK v : v = CancelVerification(drive)  OBVIOUS
<1>2. PICK d : d = [v EXCEPT !.closeReq = TRUE]  OBVIOUS
<1>3. /\ Take("close")
      /\ IF d.task.kind \in Updating /\ ~d.task.interrupted
         THEN drive' = BreakTask(d) /\ acct' = acct
         ELSE ThenRunIfIdle(d, acct)
  BY <1>1, <1>2 DEF OnClose
<1>4. d \in Drives /\ d.closeReq
  <2>1. v \in Drives
    BY <1>1, SafeGood DEF CancelVerification, Drives
  <2> QED  BY <1>2, <2>1 DEF Drives
<1>5. Closing(drive')
  <2>1. CASE drive' = BreakTask(d)  BY <1>4, <2>1, BreakGoes DEF Closing
  <2>2. CASE drive' = d  BY <1>4, <2>2 DEF Closing
  <2>3. CASE drive' = RunNextTask(d)
    <3>1. drive'.task.kind = "close"
      BY ONLY <1>4, <2>3, StartedTask
    <3> QED  BY <3>1 DEF Closing
  <2> QED  BY <1>3, <2>1, <2>2, <2>3 DEF ThenRunIfIdle
<1> QED  BY <1>3, <1>5, HandlerSteady

\* What an approval leaves alone of the drive.
LEMMA ApprovalGoes ==
    ASSUME NEW d \in Drives, NEW tx, NEW e, e = TaskOnApproval(d, tx)
    PROVE  /\ e.last = d.last /\ e.task.kind = d.task.kind
           /\ e.task.cancels = d.task.cancels
           /\ e.task.kind # "modify" => e.task.step \in {d.task.step, "finish"}
<1>1. PICK n : n = [d EXCEPT !.task.approved = TRUE]  OBVIOUS
<1>2. PICK s : s = [n EXCEPT !.task.step = "sync"]  OBVIOUS
<1>3. /\ n \in Drives /\ n.last = d.last /\ n.task.kind = d.task.kind
      /\ n.task.cancels = d.task.cancels /\ n.task.step = d.task.step
  BY <1>1 DEF Drives, Tasks
<1>4. s.last = n.last /\ s.task.kind = n.task.kind /\ s.task.cancels = n.task.cancels
  BY ONLY <1>2, <1>3, TaskShape
<1>5. \/ e = d
      \/ e \in {n, s} /\ n.task.kind = "modify"
      \/ e = BreakTask(d) \/ e = BreakTask(n)
  BY <1>1, <1>2, <1>3 DEF TaskOnApproval, ModifyOnApproval, CatchUpOnApproval
<1> QED  BY ONLY <1>3, <1>4, <1>5, d \in Drives, BreakGoes

\* The drive, once a task gave way to an approval: it is on its way to it, and
\* the work that was given up is expected.
LEMMA GivesWayFollows ==
    ASSUME Safe, Accounted, Take("approve"), NEW tx, tx = Head(inbox).mod,
           HasTask(drive) => TaskStartsCatchUp(drive, tx),
           NEW r, r = GaveWayTo(drive, tx),
           NEW a, a = IF drive.task.kind = "modify"
                      THEN ModifyOnApprovalAccount(drive, acct, tx) ELSE acct,
           NEW n, Follows(chain, inbox, drive, disk, acct, n)
    PROVE  Follows(chain, inbox', r, disk, a, n)
<1>1. /\ Good(chain, inbox', r, disk) /\ Order(chain, inbox', r, disk)
      /\ r.catchReq = tx /\ r.deferred = drive.deferred
      /\ r.cancelReq = drive.cancelReq
      /\ r.task.kind = drive.task.kind /\ r.task.mod = drive.task.mod
      /\ r.task.kind \in Updating => r.task.interrupted
  BY ONLY Safe, Take("approve"), tx = Head(inbox).mod,
          HasTask(drive) => TaskStartsCatchUp(drive, tx), r = GaveWayTo(drive, tx), GivesWayGood
<1>2. /\ inbox \in Seq(Events) /\ inbox # <<>> /\ inbox' = Tail(inbox)
      /\ Head(inbox).type = "approve" /\ Ledger(chain, inbox, drive, acct)
      /\ drive \in Drives /\ acct \in Accounts
  BY Taken, SafeGood DEF Accounted, Typed
<1>3. tx \in Mods /\ tx \in Int /\ tx # 0
  <2>1. Approved(chain, tx) /\ tx \in ModOrZero
    BY HeadInv DEF Take, EventInv, Events, Safe
  <2> QED  BY <2>1, SafeGood, ApprovedBound, ModTypes DEF Good
<1>4. PICK q, h, t : q = inbox /\ h = Head(inbox) /\ t = inbox'  OBVIOUS
<1>5. \A m : Requested(q, m) => Requested(t, m)  BY <1>2, <1>4, FirstEvent
<1>6. Works(drive.task) => drive.task.mod <= tx  BY <1>2, <1>4, TakenLedger
<1>7. /\ drive.catchReq < tx
      /\ Applies(drive.task) => drive.task.mod < tx
      /\ drive.catchReq \in Int /\ drive.task.mod \in Int
      /\ Applying(drive.task) => Applies(drive.task)
  BY <1>2, TakenOrder, SafeGood, Positions DEF EventOrder, Tidy
<1>8. /\ r.last = drive.last /\ r.task.cancels = drive.task.cancels
      /\ r.task.kind # "modify" => r.task.step \in {drive.task.step, "finish"}
  <2>1. PICK v, d : v = CancelVerification(drive) /\ d = TaskOnApproval(v, tx)  OBVIOUS
  <2>2. v \in Drives /\ v.task = drive.task /\ v.last = drive.last
    BY <1>2, <2>1 DEF CancelVerification, Drives
  <2>3. r = [d EXCEPT !.catchReq = tx]  BY <2>1 DEF GaveWayTo
  <2>4. /\ d.last = v.last /\ d.task.cancels = v.task.cancels
        /\ d.task.kind = v.task.kind
        /\ d.task.kind # "modify" => d.task.step \in {v.task.step, "finish"}
    BY <2>1, <2>2, ApprovalGoes
  <2>5. DriveInv(chain, v)
    BY <2>1, VerificationKeeps DEF Safe, IInv
  <2>6. d \in Drives
    <3>1. Approved(chain, tx)  BY HeadInv DEF Take, EventInv, Safe
    <3> QED  BY <2>1, <2>5, <3>1, TaskOnApprovalKeeps DEF DriveInv, DriveIsApproved
  <2>7. r.last = d.last /\ r.task = d.task  BY ONLY <2>3, <2>6, TaskShape
  <2> QED  BY <2>2, <2>4, <2>7
<1>9. /\ Undisturbed(drive) /\ drive.last <= disk.last /\ AllSeen(chain, q, drive)
      /\ Passed(chain, disk.notApproved.id, disk.last)
      /\ Passed(chain, acct.notApproved.id, drive.last)
  BY <1>4 DEF Follows, Untouched
<1>10. Undisturbed(r)  BY <1>1, <1>3, <1>8, <1>9 DEF Undisturbed
<1>11. AllSeen(chain, t, r)
  <2> SUFFICES ASSUME NEW z \in Mods, Sees(drive, q, z)  PROVE Sees(r, t, z)
    BY <1>9 DEF AllSeen
  <2>1. z \in Int  BY ModTypes
  <2>2. z <= tx => Sees(r, t, z)  BY <1>1 DEF Sees, Reached
  <2>3. Open(drive, q, z) => Sees(r, t, z)
    BY <1>1, <1>5, <1>6, <2>2 DEF Open, Waits, Deferred, Sees
  <2>4. Reached(drive, z) => Sees(r, t, z)
    <3>1. z <= drive.catchReq => z <= tx  BY <1>3, <1>7, <2>1
    <3>2. Applying(drive.task) /\ z <= drive.task.mod => z <= tx  BY <1>3, <1>7, <2>1
    <3> QED  BY <1>8, <2>2, <3>1, <3>2 DEF Reached, Sees
  <2>5. Told(drive, q, z) => Sees(r, t, z)  BY <1>4, <2>2 DEF Told
  <2> QED  BY <2>3, <2>4, <2>5 DEF Sees
<1>12. PICK i : i = Size[drive.task.mod]  OBVIOUS
<1>13. drive.task.kind = "modify" => i \in Nat
  <2>1. drive.task.kind = "modify" => drive.task.mod \in Mods
    BY DEF Safe, IInv, DriveInv, DriveIsApproved, TaskIsApproved
  <2> QED  BY <1>12, <2>1, DriveAssumption
<1>14. /\ a = acct \/ (drive.task.kind = "modify" /\ a = IncreaseExpected(acct, i))
       /\ Works(drive.task) => a = IncreaseExpected(acct, i)
  BY <1>12 DEF ModifyOnApprovalAccount, Works, HasTask, TaskStartsCatchUp, ModifyStartsCatchUp
<1>15. /\ a.notApproved = acct.notApproved
       /\ acct.expected + Own(drive.task) <= a.expected
       /\ acct.expected \in Nat /\ a.expected \in Nat /\ acct.notApproved.sum \in Nat
  <2>0. acct.expected \in Nat /\ acct.notApproved.sum \in Nat
    BY <1>2 DEF Accounts, Uploads
  <2>1. CASE a = acct /\ ~Works(drive.task)
    BY <2>0, <2>1 DEF Own
  <2>2. CASE drive.task.kind = "modify" /\ a = IncreaseExpected(acct, i)
    <3>1. i \in Nat  BY <1>13, <2>2
    <3>2. a.expected = acct.expected + i /\ a.notApproved = acct.notApproved
      BY <1>2, <2>2 DEF IncreaseExpected, Accounts
    <3>3. Own(drive.task) \in {0, i}  BY <1>12 DEF Own
    <3> QED  BY <2>0, <3>1, <3>2, <3>3
  <2>3. Works(drive.task) => drive.task.kind = "modify"  BY DEF Works
  <2> QED  BY <1>14, <2>1, <2>2, <2>3
<1>16. Balanced(drive, disk, acct) => Balanced(r, disk, a)
  <2>1. Own(r.task) = 0  BY <1>1 DEF Own, Works, Updating
  <2>2. Loading(r.task) => Loading(drive.task)
    BY <1>1, <1>8 DEF Loading
  <2>3. Own(drive.task) \in Nat  BY <1>12, <1>13 DEF Own, Works
  <2> QED  BY <1>15, <2>1, <2>2, <2>3 DEF Balanced
<1>17. Untouched(chain, t, r, disk, a)
  BY <1>8, <1>9, <1>10, <1>11, <1>15 DEF Untouched
<1> QED  BY <1>4, <1>16, <1>17 DEF Follows

\* onApprovalTransactionHasBeenPublished
LEMMA OnApprovalSteady ==
    ASSUME Safe, Accounted, Steady, OnApproval
    PROVE  Steady'
<1>1. PICK tx, v, d, r, a :
         /\ tx = Head(inbox).mod /\ v = CancelVerification(drive)
         /\ d = TaskOnApproval(v, tx) /\ r = [d EXCEPT !.catchReq = tx]
         /\ a = IF drive.task.kind = "modify"
                THEN ModifyOnApprovalAccount(drive, acct, tx) ELSE acct
  OBVIOUS
<1>2. Take("approve") /\ drive \in Drives  BY SafeGood DEF OnApproval
<1>3. v \in Drives /\ v.task = drive.task /\ Goes(drive, v) /\ v.last = drive.last
  BY <1>1, <1>2, VerificationGoes DEF CancelVerification, Drives
<1>4. d = IF HasTask(v) THEN TaskOnApproval(v, tx) ELSE v
  BY <1>1 DEF HasTask, TaskOnApproval
<1>5. IF HasTask(drive) => TaskStartsCatchUp(drive, tx)
      THEN ThenRunIfIdle(r, a) ELSE drive' = d /\ acct' = a
  BY <1>1, <1>4 DEF OnApproval
<1>6. PICK q, t : q = inbox /\ t = inbox'  OBVIOUS
<1>7. Calm => Follows(chain, q, drive, disk, acct, crashes)  BY <1>6 DEF Steady
<1>8. CASE HasTask(drive) => TaskStartsCatchUp(drive, tx)
  <2>1. ThenRunIfIdle(r, a)  BY <1>5, <1>8
  <2>2. tx = Head(inbox).mod /\ r = GaveWayTo(drive, tx)  BY <1>1 DEF GaveWayTo
  <2>3. /\ Good(chain, t, r, disk) /\ Order(chain, t, r, disk) /\ a \in Accounts
        /\ ~r.closeReq
    BY ONLY Safe, Accounted, <1>1, <1>2, <1>6, <1>8, <2>2, GivesWayLedger
  <2>4. Follows(chain, q, drive, disk, acct, crashes)
        => Follows(chain, t, r, disk, a, crashes)
    BY ONLY Safe, Accounted, <1>1, <1>2, <1>6, <1>8, <2>2, GivesWayFollows
  <2>5. Follows(chain, q, drive, disk, acct, crashes)
        => Follows(chain, t, drive', disk, acct', crashes)
    BY ONLY <2>1, <2>3, <2>4, ThenRunFollows
  <2>6. Calm => Follows(chain, inbox', drive', disk, acct', crashes)
    BY <1>6, <1>7, <2>5
  <2> QED  BY <1>2, <2>6, HandlerSteady
<1>9. CASE ~(HasTask(drive) => TaskStartsCatchUp(drive, tx))
  <2>1. /\ drive' = d /\ acct' = acct /\ HasTask(drive) /\ ~TaskStartsCatchUp(drive, tx)
    BY <1>1, <1>5, <1>9
       DEF TaskStartsCatchUp, ModifyStartsCatchUp, ModifyOnApprovalAccount
  <2>2. d = TaskOnApproval(v, tx) /\ tx = Head(inbox).mod  BY <1>1
  <2>3. /\ Goes(drive, d) /\ drive.task.kind # "init"
        /\ \/ d.task.step = drive.task.step
           \/ d.task.step = "sync" /\ drive.task.step = "wait"
    BY ONLY Safe, <1>2, <1>3, <2>1, <2>2, NotesApproval
  <2>4. d.last = drive.last  BY <1>3, <2>2, ApprovalGoes
  <2>5. /\ (Works(d.task) <=> Works(drive.task)) /\ Own(d.task) = Own(drive.task)
        /\ ~Loading(d.task) /\ (Applying(drive.task) => Applying(d.task))
    BY <2>3 DEF Loading, Works, Goes, Own, Built, Synchronizing, Applying
  <2>6. Good(chain, t, drive, disk) /\ Order(chain, t, drive, disk)
    BY <1>2, <1>6, HandlerGood, TakenOrder DEF Safe, IInv
  <2>7. ASSUME Follows(chain, q, drive, disk, acct, crashes)
        PROVE  Follows(chain, t, d, disk, acct, crashes)
    <3>1. ~Fresh(drive)
      BY <2>1, <2>3, <2>7 DEF Fresh, HasTask, Follows, Untouched, Undisturbed
    <3>2. \A z : ~Told(drive, q, z)  BY <3>1 DEF Told
    <3>3. inbox \in Seq(Events) /\ inbox # <<>> /\ inbox' = Tail(inbox)
          /\ Head(inbox).type = "approve"
      BY <1>2, Taken
    <3>4. \A z : Requested(q, z) => Requested(t, z)  BY <1>6, <3>3, FirstEvent
    <3>5. \A z \in Mods : Open(drive, q, z) => Open(drive, t, z)  BY <3>4 DEF Open, Waits
    <3>6. Follows(chain, t, drive, disk, acct, crashes)  BY <2>7, <3>2, <3>5, SameFollows
    <3> QED  BY <2>3, <2>4, <2>5, <2>6, <3>6, GoesFollows
  <2>8. Calm => Follows(chain, inbox', drive', disk, acct', crashes)
    BY <1>6, <1>7, <2>1, <2>7
  <2> QED  BY <1>2, <2>8, HandlerSteady
<1> QED  BY <1>8, <1>9

\* cancelModifyDrive: the cancellation is handled.
LEMMA OnCancelSteady ==
    ASSUME Safe, Accounted, Steady, OnCancel
    PROVE  Steady'
<1>1. PICK tx : tx = Head(inbox).mod  OBVIOUS
<1>2. CASE /\ up = "up" /\ inbox # <<>> /\ Head(inbox).type = "cancel"
           /\ Die /\ chain' = chain
  <2>1. tx \in chain.cancelled
    <3>1. EventOrder(chain, drive, disk, Head(inbox)) /\ EventInv(chain, Head(inbox))
      <4>1. inbox \in Seq(Events) /\ InboxInv(chain, inbox)  BY SafeGood DEF Good, InboxInv
      <4>2. PICK i \in 1..Len(inbox) : inbox[i] = Head(inbox)  BY <1>2, <4>1, FirstEvent
      <4> QED  BY <4>1, <4>2, SafeGood DEF Good, InboxInv, Tidy, Order, InboxOrder
    <3> QED  BY <1>1, <1>2, <3>1 DEF EventOrder, EventInv
  <2>2. ~NothingCancelled' /\ up' = "down"  BY <1>2, <2>1 DEF NothingCancelled, Die
  <2> QED  BY <2>2 DEF Steady, Calm
<1>3. CASE Take("cancel")
  <2>1. /\ Head(inbox).type = "cancel"
        /\ \A i \in 1..Len(inbox') : EventPair(Head(inbox), inbox'[i])
        /\ EventOrder(chain, drive, disk, Head(inbox))
        /\ EventInv(chain, Head(inbox))
    BY <1>3, Taken, TakenOrder, HeadInv DEF Safe
  <2>2. tx \in chain.cancelled  BY <1>1, <2>1 DEF EventOrder, EventInv
  <2>3. PICK t : t = inbox'  OBVIOUS
  <2>4. ~Announced(t, "cancel", tx)  BY <1>1, <2>1, <2>3 DEF Announced, EventPair
  <2> QED  BY <1>3, <2>2, <2>3, <2>4, HandlerSteady DEF NoneHandled
<1> QED  BY <1>1, <1>2, <1>3 DEF OnCancel

\* What was passed is so whatever the chain approves next: the uploads are of
\* no modification that is newer than a pending one.
LEMMA PassedStays ==
    ASSUME NEW c, NEW b, NEW q, NEW d, NEW x, ChainGoes(c, b, q, d, x),
           NEW o, Covers(c, o), NEW l, Passed(c, o.id, l)
    PROVE  Passed(b, o.id, l)
<1>1. /\ \A z \in Mods : Approved(b, z) => Approved(c, z) \/ Pending(c, z)
      /\ \A z \in Mods : Approved(c, z) => Approved(b, z)
  BY DEF ChainGoes, Tells
<1>2. o.id \in ModOrZero /\ (o.id # 0 => o.id \in Mods)
  BY ModTypes DEF Covers, Uploads
<1>3. Settles(c, o.id) => Settles(b, o.id)  BY <1>1, <1>2 DEF Settles
<1>4. \A z \in Mods : Pending(c, z) => ~(z < o.id)
  <2>1. \A z \in Mods : Pending(c, z) => o.id <= z  BY DEF Covers, Pending
  <2> QED  BY <1>2, <2>1, ModTypes
<1> QED  BY <1>1, <1>3, <1>4 DEF Passed

\* Whatever the chain cancels is announced, and it cancels nothing twice.
LEMMA CancelsPosted ==
    ASSUME Safe, ChainStep
    PROVE  /\ chain.cancelled \subseteq chain'.cancelled
           /\ up = "up" /\ NoneHandled(chain', inbox') => NoneHandled(chain, inbox)
<1>1. /\ chain \in Chains /\ ChainInv(chain) /\ inbox \in Seq(Events)
  BY SafeGood, ChainTypes DEF Good, InboxInv
<1>2. DOMAIN chain = {"issued", "pending", "last", "rootAt", "sizeAt", "cancelled",
                      "verifies", "verifying", "closed"}
  BY <1>1 DEF Chains
<1>3. \/ chain'.cancelled = chain.cancelled
      \/ \E m \in Mods : ChainCancel(m)
  BY <1>2 DEF ChainStep, ChainModify, ChainApprove, ChainClose, ChainVerify, ChainVerified
<1>4. \A m \in Mods : ChainCancel(m) =>
         /\ Post("cancel", m) /\ m \notin chain.cancelled
         /\ chain'.cancelled = chain.cancelled \cup {m}
  <2> SUFFICES ASSUME NEW m \in Mods, ChainCancel(m)
               PROVE  /\ Post("cancel", m) /\ m \notin chain.cancelled
                      /\ chain'.cancelled = chain.cancelled \cup {m}
    OBVIOUS
  <2>1. /\ Post("cancel", m) /\ \E i \in DOMAIN chain.pending : chain.pending[i] = m
        /\ chain' = [chain EXCEPT !.pending = Without(chain.pending, m),
                                  !.cancelled = chain.cancelled \cup {m}]
    BY <1>2 DEF ChainCancel
  <2>2. chain'.cancelled = chain.cancelled \cup {m}  BY <1>2, <2>1
  <2>3. Pending(chain, m)
    <3>1. chain.pending \in Seq(Mods)  BY <1>1 DEF Chains
    <3>2. DOMAIN chain.pending = 1..Len(chain.pending)  BY <3>1, LenProperties
    <3> QED  BY <2>1, <3>2 DEF Pending
  <2> QED  BY <1>1, <2>1, <2>2, <2>3, PendingIsNew
<1>5. chain.cancelled \subseteq chain'.cancelled  BY <1>3, <1>4
<1>6. \E x \in Events : /\ Post(x.type, x.mod)
                        /\ x.type = "cancel" => x.mod \notin chain.cancelled
  <2>1. CASE \E m \in Mods : ChainCancel(m)
    <3>1. PICK m \in Mods : Post("cancel", m) /\ m \notin chain.cancelled  BY <2>1, <1>4
    <3>2. PICK x : x = [type |-> "cancel", mod |-> m]  OBVIOUS
    <3>3. x \in Events /\ x.type = "cancel" /\ x.mod = m  BY <3>2, ModTypes DEF Events
    <3> QED  BY <3>1, <3>3
  <2>2. CASE ~(\E m \in Mods : ChainCancel(m))
    <3>1. \E s \in {"modify", "approve", "close", "verify", "verified"}, m \in ModOrZero :
              Post(s, m)
      <4>1. \A m : m \in Mods => m \in ModOrZero  BY ModTypes
      <4>2. chain.last \in ModOrZero /\ 0 \in ModOrZero  BY <1>1, ModTypes DEF Chains
      <4>3. ChainModify => Post("modify", chain.issued + 1) /\ chain.issued + 1 \in ModOrZero
        BY <1>1, DriveAssumption DEF ChainModify, Chains, ModOrZero, Mods
      <4>4. ChainApprove => Post("approve", Head(chain.pending))
                            /\ Head(chain.pending) \in ModOrZero
        <5> SUFFICES ASSUME ChainApprove
                     PROVE  Post("approve", Head(chain.pending))
                            /\ Head(chain.pending) \in ModOrZero
          OBVIOUS
        <5>1. chain.pending \in Seq(Mods) /\ chain.pending # <<>>
          BY <1>1 DEF Chains, ChainApprove
        <5>2. Head(chain.pending) \in Mods  BY <5>1, HeadTailProperties
        <5> QED  BY <4>1, <5>2 DEF ChainApprove
      <4>5. /\ ChainClose => Post("close", 0)
            /\ ChainVerify => Post("verify", chain.last)
            /\ ChainVerified => Post("verified", 0)
        BY DEF ChainClose, ChainVerify, ChainVerified
      <4> QED  BY <2>2, <4>2, <4>3, <4>4, <4>5 DEF ChainStep
    <3>2. PICK s \in {"modify", "approve", "close", "verify", "verified"}, m \in ModOrZero :
              Post(s, m)
      BY <3>1
    <3>3. PICK x : x = [type |-> s, mod |-> m]  OBVIOUS
    <3>4. x \in Events /\ x.type = s /\ x.mod = m  BY <3>3 DEF Events
    <3> QED  BY <3>2, <3>4
  <2> QED  BY <2>1, <2>2
<1>7. PICK x \in Events : Post(x.type, x.mod) /\ (x.type = "cancel" => x.mod \notin chain.cancelled)
  BY <1>6
<1>8. [type |-> x.type, mod |-> x.mod] = x  BY DEF Events
<1>9. PICK q, r : q = inbox /\ r = inbox'  OBVIOUS
<1>10. up = "up" => \A y \in chain.cancelled :
          Announced(r, "cancel", y) => Announced(q, "cancel", y)
  <2> SUFFICES ASSUME up = "up", NEW y \in chain.cancelled, Announced(r, "cancel", y)
               PROVE  Announced(q, "cancel", y)
    OBVIOUS
  <2>1. r = Append(q, x)  BY <1>7, <1>8, <1>9 DEF Post
  <2>2. \A i \in 1..Len(r) : (i \in 1..Len(q) /\ r[i] = q[i]) \/ r[i] = x
    BY <1>1, <1>9, <2>1, PostedAt DEF PostedNext
  <2> QED  BY <1>7, <2>2 DEF Announced
<1> QED  BY <1>5, <1>9, <1>10 DEF NoneHandled

\* A step of the chain: what it approves is open.
LEMMA ChainStepSteady ==
    ASSUME Safe, Accounted, Steady, Typed', ChainStep
    PROVE  Steady'
<1>1. /\ ChainSizes(chain) /\ Good(chain, inbox, drive, disk) /\ inbox \in Seq(Events)
      /\ Books(chain, sent, disk, acct)
  BY SafeGood DEF Accounted, Good, InboxInv
<1>2. /\ UNCHANGED replicator /\ ~chain.closed
      /\ \E x \in Events : /\ Post(x.type, x.mod) /\ (x.type = "close" => chain'.closed)
                          /\ ChainGoes(chain, chain', inbox, drive, x)
  BY <1>1, ChainStepGoes
<1>3. PICK x \in Events : Post(x.type, x.mod) /\ ChainGoes(chain, chain', inbox, drive, x)
  BY <1>2
<1>4. /\ up' = up /\ drive' = drive /\ acct' = acct /\ disk' = disk /\ crashes' = crashes
  BY <1>2 DEF replicator
<1>5. /\ chain.cancelled \subseteq chain'.cancelled
      /\ up = "up" /\ NoneHandled(chain', inbox') => NoneHandled(chain, inbox)
  BY CancelsPosted
<1>6. Covers(chain, disk.notApproved) /\ Covers(chain, acct.notApproved)
  BY <1>1 DEF Books, Remembered
<1>7. /\ Passed(chain, disk.notApproved.id, disk.last)
             => Passed(chain', disk.notApproved.id, disk.last)
      /\ Passed(chain, acct.notApproved.id, drive.last)
             => Passed(chain', acct.notApproved.id, drive.last)
  <2>1. PICK b, k, a, d : b = chain' /\ k = disk /\ a = acct /\ d = drive  OBVIOUS
  <2>2. ChainGoes(chain, b, inbox, d, x) /\ Covers(chain, k.notApproved)
        /\ Covers(chain, a.notApproved)
    BY <1>3, <1>6, <2>1
  <2>3. Passed(chain, k.notApproved.id, k.last) => Passed(b, k.notApproved.id, k.last)
    BY ONLY <2>2, PassedStays
  <2>4. Passed(chain, a.notApproved.id, d.last) => Passed(b, a.notApproved.id, d.last)
    BY ONLY <2>2, PassedStays
  <2> QED  BY <2>1, <2>3, <2>4
<1>8. ASSUME Calm  PROVE Follows(chain', inbox', drive, disk, acct, crashes)
  <2>1. /\ up = "up" /\ ~Closing(drive) /\ Ledger(chain, inbox, drive, acct)
        /\ Follows(chain, inbox, drive, disk, acct, crashes)
    BY <1>8 DEF Accounted, Tended, Calm, Steady
  <2>2. [type |-> x.type, mod |-> x.mod] = x  BY DEF Events
  <2>3. PICK q, r, d : q = inbox /\ r = inbox' /\ d = drive  OBVIOUS
  <2>4. r = Append(q, x) /\ q \in Seq(Events)  BY <1>1, <1>3, <2>1, <2>2, <2>3 DEF Post
  <2>5. PostedNext(q, x, r)  BY ONLY <2>4, x \in Events, PostedAt
  <2>6. \A z : Open(d, q, z) => Open(d, r, z)  BY <2>5 DEF PostedNext, Open, Waits
  <2>7. \A z : Told(d, q, z) => Told(d, r, z)
    <3> SUFFICES ASSUME q # <<>>  PROVE r # <<>> /\ Head(r) = Head(q)
      BY DEF Told
    <3>1. Head(q) = q[1] /\ 1 \in 1..Len(q)  BY <2>4, TailAt
    <3>2. 1 \in 1..Len(r) /\ r[1] = q[1]  BY <2>5, <3>1 DEF PostedNext
    <3>3. r # <<>>  BY <3>2, EmptySeq
    <3>4. Head(r) = r[1]  BY <2>5, <3>3, TailAt DEF PostedNext
    <3> QED  BY <3>1, <3>2, <3>3, <3>4
  <2>8. AllSeen(chain', r, d)
    <3> SUFFICES ASSUME NEW z \in Mods, Approved(chain', z)  PROVE Sees(d, r, z)
      BY DEF AllSeen
    <3>1. CASE Approved(chain, z)
      <4>1. Sees(d, q, z)  BY <2>1, <2>3, <3>1 DEF Follows, Untouched, AllSeen
      <4> QED  BY <2>6, <2>7, <4>1 DEF Sees
    <3>2. CASE Pending(chain, z)
      <4>1. Open(d, q, z)  BY <2>1, <2>3, <3>2 DEF Ledger, PendingOpen
      <4> QED  BY <2>6, <4>1 DEF Sees
    <3> QED  BY <1>3, <3>1, <3>2 DEF ChainGoes, Tells
  <2> QED  BY <1>7, <2>1, <2>3, <2>8 DEF Follows, Untouched
<1>9. Calm' => Calm  BY <1>4, <1>5 DEF Calm
<1>10. ASSUME up = "down", NothingCancelled'
       PROVE  crashes # 0 /\ Passed(chain', disk.notApproved.id, disk.last)
  BY <1>2, <1>5, <1>7, <1>10 DEF NothingCancelled, Steady
<1> QED  BY <1>4, <1>8, <1>9, <1>10 DEF Steady

\* The process dies, or the drive is removed.
LEMMA EndSteady ==
    ASSUME Safe, Accounted, Steady, Crash \/ RemoveAllDriveData \/ RemoveUnusedDrives
    PROVE  Steady'
<1>1. CASE Crash
  <2>1. /\ up = "up" /\ up' = "down" /\ chain' = chain /\ disk' = disk
        /\ crashes' = crashes + 1
    BY <1>1 DEF Crash, Die
  <2>2. crashes \in Nat  BY BoundAssumption DEF Accounted, Typed
  <2>3. NothingCancelled /\ ~chain.closed
            => Passed(chain, disk.notApproved.id, disk.last)
    BY <2>1, CalmUnlessClosed DEF Steady, Follows, Untouched
  <2> QED  BY <2>1, <2>2, <2>3 DEF Steady, Calm, NothingCancelled
<1>2. CASE RemoveAllDriveData \/ RemoveUnusedDrives
  BY <1>2 DEF RemoveAllDriveData, RemoveUnusedDrives, Steady, Calm
<1> QED  BY <1>1, <1>2

\* The replicator starts again: it is told of the last approval.
LEMMA RestartSteady ==
    ASSUME Safe, Accounted, Steady, Restart
    PROVE  Steady'
<1>1. /\ up = "down" /\ up' = "up" /\ chain' = chain /\ disk' = disk /\ crashes' = crashes
      /\ drive' = NewDrive(chain.cancelled) /\ ~chain.closed
      /\ acct' = NewAccount(chain.sizeAt[chain.last])
  BY DEF Restart
<1>2. PICK q, d, a : q = inbox' /\ d = drive' /\ a = acct'  OBVIOUS
<1>3. /\ \A i \in 1..Len(q) : q[i].type # "cancel"
      /\ chain.last # 0 => /\ q # <<>> /\ Head(q).type = "approve"
                          /\ Head(q).mod = chain.last
  <2>1. /\ \A i \in 1..Len(q) :
              \/ q[i].type = "verify"
              \/ q[i].type = "approve" /\ q[i].mod = chain.last /\ chain.last # 0
              \/ /\ q[i].type = "modify"
                 /\ \E j \in 1..Len(chain.pending) : q[i].mod = chain.pending[j]
        /\ chain.last # 0 => /\ q # <<>> /\ Head(q).type = "approve"
                            /\ Head(q).mod = chain.last
    BY <1>2, RestartInbox
  <2> QED  BY <2>1
<1> SUFFICES ASSUME NoneHandled(chain, q)  PROVE Follows(chain, q, d, disk, a, crashes)
  BY <1>1, <1>2 DEF Steady, Calm
<1>4. chain.cancelled = {}  BY <1>3 DEF NoneHandled, Announced
<1>5. crashes # 0 /\ Passed(chain, disk.notApproved.id, disk.last)
  BY <1>1, <1>4 DEF Steady, NothingCancelled
<1>6. /\ d.deferred = <<>> /\ d.catchReq = 0 /\ d.cancelReq = 0 /\ d.last = 0
      /\ d.task.kind = "init" /\ d.task.cancels = {} /\ a.notApproved.id = 0
  BY <1>1, <1>2, <1>4 DEF NewDrive, NewTask, NewAccount, NoUploads
<1>7. Undisturbed(d)  BY <1>6 DEF Undisturbed, Updating
<1>8. AllSeen(chain, q, d)
  <2> SUFFICES ASSUME NEW z \in Mods, Approved(chain, z)  PROVE Told(d, q, z)
    BY DEF AllSeen, Sees
  <2>1. ChainInv(chain) /\ chain.last \in Int  BY SafeGood, ChainTypes DEF Good
  <2>2. z \in Int /\ 1 <= z /\ z <= chain.last  BY <2>1, ApprovedBound
  <2>3. Head(q).mod = chain.last /\ Head(q).type = "approve" /\ q # <<>>
    BY <1>3, <2>1, <2>2
  <2> QED  BY <1>6, <2>2, <2>3 DEF Told, Fresh
<1>9. d.last <= disk.last
  <2>1. Good(chain, inbox, drive, disk)  BY SafeGood
  <2> QED  BY <1>6, <2>1, DriveNumbers, ModTypes
<1>10. Passed(chain, a.notApproved.id, d.last)  BY <1>6 DEF Passed, Settles
<1> QED  BY <1>5, <1>7, <1>8, <1>9, <1>10 DEF Follows, Untouched

\* Nothing is approved initially ...
LEMMA InitSteady == Init => Steady
<1> SUFFICES ASSUME Init  PROVE Steady
  OBVIOUS
<1>1. /\ up = "up" /\ chain.last = 0 /\ crashes = 0
      /\ drive.task.kind = "init" /\ drive.task.cancels = {} /\ drive.cancelReq = 0
      /\ drive.last = 0 /\ disk.last = 0 /\ disk.notApproved.id = 0 /\ disk.notApproved.sum = 0
      /\ acct.notApproved.id = 0 /\ acct.notApproved.sum = 0 /\ acct.expected = 0
  BY DEF Init, NewChain, NewDrive, NewTask, NewAccount, EmptyDisk, NoUploads
<1>2. Undisturbed(drive)  BY <1>1 DEF Undisturbed, Updating
<1>3. \A z \in Mods : ~Approved(chain, z)  BY <1>1 DEF Approved
<1>4. Own(drive.task) = 0  BY <1>1 DEF Own, Works
<1>5. Balanced(drive, disk, acct)  BY <1>1, <1>4 DEF Balanced
<1> QED  BY <1>1, <1>2, <1>3, <1>5 DEF Steady, Follows, Untouched, AllSeen, Passed, Settles

\* ... and every step keeps it.
LEMMA NextSteady == Safe /\ Accounted /\ Steady /\ [Next]_vars => Steady'
<1> SUFFICES ASSUME Safe, Accounted, Steady, [Next]_vars  PROVE Steady'
  OBVIOUS
<1>1. CASE UNCHANGED vars
  BY <1>1 DEF vars, Steady, Calm, NothingCancelled
<1>2. CASE Next
  <2>1. Typed'  BY <1>2, NextTyped DEF Safe, Accounted
  <2>2. CASE ChainStep  BY <2>1, <2>2, ChainStepSteady
  <2>3. CASE OnEvent
    BY <2>3, OnModifySteady, OnApprovalSteady, OnCancelSteady, OnCloseSteady,
       OnVerifySteady DEF OnEvent
  <2>4. CASE ClientDownload \/ ReplicatorDownload
    BY <2>4, PlainSteady DEF ClientDownload, ReplicatorDownload
  <2>5. CASE TaskStep
    BY <2>5, InitializeSteady, PlainSteady, RootHashSteady, SandboxSteady, SaveSteady,
       SynchronizeSteady, SaveLastSteady, EndSteady, FinishSteady DEF TaskStep
  <2>6. CASE Crash \/ Restart \/ RemoveUnusedDrives
    BY <2>6, EndSteady, RestartSteady
  <2> QED  BY <1>2, <2>2, <2>3, <2>4, <2>5, <2>6 DEF Next
<1> QED  BY <1>1, <1>2

\* The assertions of the accounting follow ...
LEMMA AccountingHolds ==
    ASSUME Safe, Accounted, Cleared, Steady
    PROVE  ApprovesOwnUploads /\ UploadsAreExpectedAtFirst
<1>1. ASSUME up = "up", drive.task.step \in Synchronizing
      PROVE  acct.notApproved.id = drive.task.mod
  BY <1>1 DEF Cleared, Remembers, Built
<1>2. ASSUME NeverRestarted, At({"modify", "catchup"}, "sandbox"), ~drive.task.interrupted
      PROVE  /\ acct.expected \in Nat /\ acct.notApproved.sum \in Nat
             /\ acct.notApproved.sum <= acct.expected
             /\ ~Closing(drive)
  <2>1. /\ up = "up" /\ drive.task.kind \in Updating /\ drive.task.step = "sandbox"
    BY <1>2 DEF At, Updating
  <2>2. ~Closing(drive)  BY <1>2, <2>1 DEF Accounted, Tended, ClosingLast
  <2>3. NoneHandled(chain, inbox) /\ crashes = 0
    BY <1>2 DEF NeverRestarted, NothingCancelled, NoneHandled
  <2>4. Balanced(drive, disk, acct)  BY <2>1, <2>2, <2>3 DEF Steady, Calm, Follows
  <2>5. Own(drive.task) = 0  BY <2>1 DEF Own, Built, Synchronizing
  <2>6. acct.expected \in Nat /\ acct.notApproved.sum \in Nat
    BY DEF Accounted, Typed, Accounts, Uploads
  <2> QED  BY <2>2, <2>4, <2>5, <2>6 DEF Balanced
<1>3. ASSUME NeverRestarted, At({"modify"}, "sandbox"), ~drive.task.interrupted
      PROVE  acct.expected + Size[drive.task.mod] >= acct.notApproved.sum
  <2>1. drive.task.mod \in Mods
    BY <1>3 DEF At, Safe, IInv, DriveInv, DriveIsApproved, TaskIsApproved
  <2>2. PICK i \in Nat : i = Size[drive.task.mod]  BY <2>1, DriveAssumption
  <2>3. At({"modify", "catchup"}, "sandbox")  BY <1>3 DEF At
  <2> QED  BY <1>2, <1>3, <2>2, <2>3
<1>4. ASSUME NeverRestarted, At({"catchup"}, "sandbox"), ~drive.task.interrupted
      PROVE  acct.expected > 0 /\ acct.expected >= acct.notApproved.sum
  <2>1. At({"modify", "catchup"}, "sandbox") /\ drive.task.kind = "catchup" /\ up = "up"
    BY <1>4 DEF At
  <2>2. /\ acct.expected \in Nat /\ acct.notApproved.sum \in Nat
        /\ acct.notApproved.sum <= acct.expected /\ ~Closing(drive)
    BY <1>2, <1>4, <2>1
  <2>3. PICK m : m = drive.task.mod  OBVIOUS
  <2>4. /\ Good(chain, inbox, drive, disk) /\ Order(chain, inbox, drive, disk)
        /\ ChainSizes(chain) /\ acct \in Accounts /\ Ledger(chain, inbox, drive, acct)
        /\ drive.task.kind \in Updating
    BY <2>1, <2>2, SafeGood DEF Tidy, Accounted, Tended, Typed, Updating
  <2>5. Approved(chain, m)
    BY <2>1, <2>3 DEF Safe, IInv, DriveInv, DriveIsApproved, TaskIsApproved
  <2>6. m \in Mods /\ m \in ModOrZero
    BY <2>3, <2>4, <2>5, DriveNumbers, ApprovedBound, ModTypes DEF Good
  <2>7. PICK y \in ModOrZero : /\ y = 0 \/ Approved(chain, y)
                               /\ y < m /\ chain.sizeAt[m] = chain.sizeAt[y] + Size[m]
    BY <2>4, <2>5, <2>6 DEF ChainSizes
  <2>8. /\ chain.sizeAt[y] \in Nat
        /\ chain.sizeAt[m] \in Nat /\ chain.sizeAt[m] <= acct.expected
    BY <2>1, <2>3, <2>4, <2>5, <2>6, <2>7, OlderExpected
  <2>9. Size[m] \in Nat /\ Size[m] > 0  BY <2>6, DriveAssumption
  <2> QED  BY <2>2, <2>7, <2>8, <2>9
<1> QED
  BY <1>1, <1>3, <1>4 DEF ApprovesOwnUploads, UploadsAreExpectedAtFirst, UploadsAreExpected

\* ... and so do those of a catch-up.
LEMMA CatchUpHolds ==
    ASSUME Safe, Accounted, Sound, Steady
    PROVE  CatchUpAssertionsAtFirst
<1> SUFFICES ASSUME up = "up", drive.task.kind = "catchup"
             PROVE  /\ NothingCancelled /\ drive.last = drive.task.mod
                           => drive.root = ApprovedRoot
                    /\ chain.cancelled = {acct.notApproved.id} /\ inbox # <<>>
                       /\ Head(inbox) = [type |-> "cancel", mod |-> acct.notApproved.id]
                           => drive.last = drive.task.mod
  BY DEF CatchUpAssertionsAtFirst, CatchUpFindsRoot, CancelMeetsIdleCatchUp
<1>1. NothingCancelled /\ drive.last = drive.task.mod => drive.root = ApprovedRoot
  BY DEF Sound, Trees, TaskTrees, ApprovedRoot
<1>2. ASSUME chain.cancelled = {acct.notApproved.id}, inbox # <<>>,
             Head(inbox) = [type |-> "cancel", mod |-> acct.notApproved.id]
      PROVE  drive.last = drive.task.mod
  <2>1. PICK m, z : m = acct.notApproved.id /\ z = drive.task.mod  OBVIOUS
  <2>2. /\ Good(chain, inbox, drive, disk) /\ Order(chain, inbox, drive, disk)
        /\ ChainInv(chain) /\ inbox \in Seq(Events)
    BY SafeGood DEF Tidy, Good, InboxInv
  <2>3. /\ 1 \in 1..Len(inbox) /\ inbox[1].type = "cancel" /\ inbox[1].mod = m
    BY <1>2, <2>1, <2>2, TailAt
  <2>4. m \in Mods /\ ~Settles(chain, m)
    <3>1. m \in Mods  BY <2>2, <2>3 DEF Good, InboxInv, EventInv
    <3> QED  BY <1>2, <2>1, <3>1, ModTypes DEF Settles, Approved
  <2>5. ~Closing(drive) /\ CancelsAreNewer(inbox, drive)
    BY <1>2 DEF Accounted, Tended, ClosingLast, Ledger
  <2>6. NoneHandled(chain, inbox)
    BY <1>2, <2>1, <2>3 DEF NoneHandled, Announced
  <2>7. Passed(chain, m, drive.last)
    BY <2>1, <2>5, <2>6 DEF Steady, Calm, Follows, Untouched
  <2>8. Approved(chain, z)
    BY <2>1 DEF Safe, IInv, DriveInv, DriveIsApproved, TaskIsApproved
  <2>9. z \in Mods /\ z < m
    <3>1. z \in Mods  BY <2>1, <2>2, <2>8, DriveNumbers, ApprovedBound, ModTypes
    <3>2. z < m  BY <2>1, <2>3, <2>5 DEF CancelsAreNewer
    <3> QED  BY <3>1, <3>2
  <2>10. z <= drive.last  BY <2>4, <2>7, <2>8, <2>9 DEF Passed
  <2>11. drive.last <= z /\ drive.last \in Int /\ z \in Int
    BY <2>1, <2>2, Positions DEF Applies
  <2> QED  BY <2>1, <2>10, <2>11
<1> QED  BY <1>1, <1>2

\* All of it is invariant.
LEMMA AccountsInductive ==
    Spec => [](Safe /\ Accounted /\ Cleared /\ Sound /\ Steady)
<1>1. Init => Safe /\ Accounted /\ Cleared /\ Sound /\ Steady
  BY InitSafe, InitAccounted, InitCleared, InitSound, InitSteady
<1>2. Safe /\ Accounted /\ Cleared /\ Sound /\ Steady /\ [Next]_vars
      => (Safe /\ Accounted /\ Cleared /\ Sound /\ Steady)'
  BY NextSafe, NextAccounted, NextCleared, NextSound, NextSteady
<1> QED  BY <1>1, <1>2, PTL DEF Spec

\* approveCumulativeUploads is only called for the modification of the uploads,
\* whatever was cancelled, caught up with or restarted in between.
THEOREM ApprovesOwnUploadsTheorem == Spec => []ApprovesOwnUploads
<1>1. Safe /\ Accounted /\ Cleared /\ Sound /\ Steady => ApprovesOwnUploads
  BY AccountingHolds
<1> QED  BY <1>1, AccountsInductive, PTL

\* updateCumulativeUploads expects what it has accounted for until the
\* first crash or cancellation, in every order of approvals, requests and catch-ups.
THEOREM UploadsAreExpectedTheorem == Spec => []UploadsAreExpectedAtFirst
<1>1. Safe /\ Accounted /\ Cleared /\ Sound /\ Steady => UploadsAreExpectedAtFirst
  BY AccountingHolds
<1> QED  BY <1>1, AccountsInductive, PTL

\* As long as nothing is cancelled, a catch-up that has nothing to do finds the
\* root hash of the chain (SynchronizationTaskBase::run); and the first
\* modification that is cancelled, if it is the one of the saved uploads, meets a
\* catch-up only while there is nothing to catch up with
\* (CatchingUpTask::shouldCancelModify); both however often the process died.
THEOREM CatchUpAssertionsTheorem == Spec => []CatchUpAssertionsAtFirst
<1>1. Safe /\ Accounted /\ Cleared /\ Sound /\ Steady => CatchUpAssertionsAtFirst
  BY CatchUpHolds
<1> QED  BY <1>1, AccountsInductive, PTL

------------------------------------------------------------------------------
(* XIII. The files of a restart value *)

\* What each program counter of saveRestartData says about "<name>.tmp".
TmpInv ==
    /\ pc = "write" => tmp = Torn
    /\ pc \in {"remove", "rename"} => tmp = arg
    /\ pc = "rename" => main = None

\* A process that runs without "<name>" and saves nothing has loaded what
\* "<name>.tmp" holds.
LoadInv ==
    pc = "idle" /\ main = None => loaded = IF tmp \in Values THEN tmp ELSE None

FilesInv == SerializerTypeOK /\ TmpInv /\ LoadInv

\* The files and the program counter of the background thread keep their
\* types, however often the process dies.
THEOREM SerializerTypeCorrect == SerializerSpec => []SerializerTypeOK
<1> USE RestartAssumption DEF SerializerTypeOK
<1>1. SerializerInit => SerializerTypeOK
  BY DEF SerializerInit
<1>2. SerializerTypeOK /\ TmpInv /\ [SerializerNext]_serializerVars => SerializerTypeOK' /\ TmpInv'
  <2> SUFFICES ASSUME SerializerTypeOK, TmpInv, [SerializerNext]_serializerVars
               PROVE  SerializerTypeOK' /\ TmpInv'
    OBVIOUS
  <2> USE DEF TmpInv
  <2>1. ASSUME NEW v \in Values, OpenTmp(v) PROVE SerializerTypeOK' /\ TmpInv'
    BY <2>1 DEF OpenTmp
  <2>2. CASE WriteTmp
    BY <2>2 DEF WriteTmp
  <2>3. CASE RemoveMain
    BY <2>3 DEF RemoveMain
  <2>4. CASE RenameTmp
    BY <2>4 DEF RenameTmp
  <2>5. CASE ProcessDies
    BY <2>5 DEF ProcessDies
  <2>6. CASE ProcessStarts
    BY <2>6 DEF ProcessStarts, LoadRestartValue
  <2>7. CASE UNCHANGED serializerVars
    BY <2>7 DEF serializerVars
  <2> QED
    BY <2>1, <2>2, <2>3, <2>4, <2>5, <2>6, <2>7 DEF SerializerNext
<1>3. SerializerInit => TmpInv
  BY DEF SerializerInit, TmpInv
<1> QED
  BY <1>1, <1>2, <1>3, PTL DEF SerializerSpec


\* What a new process loads is what the files stood for, whichever file
\* operations the crashes interrupted.
LEMMA FilesInductive == SerializerSpec => []FilesInv
<1> USE RestartAssumption DEF SerializerTypeOK, TmpInv, LoadInv, FilesInv
<1>1. SerializerInit => FilesInv
  BY DEF SerializerInit
<1>2. FilesInv /\ [SerializerNext]_serializerVars => FilesInv'
  <2> SUFFICES ASSUME FilesInv, [SerializerNext]_serializerVars
               PROVE  FilesInv'
    OBVIOUS
  <2>1. ASSUME NEW v \in Values, OpenTmp(v) PROVE FilesInv'
    BY <2>1 DEF OpenTmp
  <2>2. CASE WriteTmp
    BY <2>2 DEF WriteTmp
  <2>3. CASE RemoveMain
    BY <2>3 DEF RemoveMain
  <2>4. CASE RenameTmp
    BY <2>4 DEF RenameTmp
  <2>5. CASE ProcessDies
    BY <2>5 DEF ProcessDies
  <2>6. CASE ProcessStarts
    BY <2>6 DEF ProcessStarts, LoadRestartValue
  <2>7. CASE UNCHANGED serializerVars
    BY <2>7 DEF serializerVars
  <2> QED
    BY <2>1, <2>2, <2>3, <2>4, <2>5, <2>6, <2>7 DEF SerializerNext
<1> QED
  BY <1>1, <1>2, PTL DEF SerializerSpec

\* saveRestartData and loadRestartData implement one atomic value, whatever the
\* values and however often and wherever the process dies; the only value that
\* is ever lost is one that AtomicValue calls exposed.
THEOREM SavesAreAtomic == SerializerSpec => ImplementsAtomicValue
<1>1. SerializerInit => Atomic!AtomicInit
  BY DEF SerializerInit, Atomic!AtomicInit, Stored, Exposed
<1>2. FilesInv /\ [SerializerNext]_serializerVars => [Atomic!AtomicNext]_(Atomic!AtomicVars)
  <2> SUFFICES ASSUME FilesInv, [SerializerNext]_serializerVars
               PROVE  [Atomic!AtomicNext]_(Atomic!AtomicVars)
    OBVIOUS
  <2> USE RestartAssumption DEF FilesInv, SerializerTypeOK, TmpInv, LoadInv, Stored, Exposed
  <2>1. ASSUME NEW v \in Values, OpenTmp(v) PROVE Atomic!Request
    <3>1. Stored' = Stored
      BY <2>1 DEF OpenTmp
    <3> QED
      BY <2>1, <3>1 DEF OpenTmp, Atomic!Request
  <2>2. CASE WriteTmp
    <3>1. CASE main = None
      BY <2>2, <3>1 DEF WriteTmp, Atomic!AtomicNext, Atomic!Commit
    <3>2. CASE main # None
      BY <2>2, <3>2 DEF WriteTmp, Atomic!AtomicVars
    <3> QED
      BY <3>1, <3>2
  <2>3. CASE RemoveMain
    BY <2>3 DEF RemoveMain, Atomic!AtomicNext, Atomic!Commit
  <2>4. CASE RenameTmp
    BY <2>4 DEF RenameTmp, Atomic!AtomicNext, Atomic!Return
  <2>5. CASE ProcessDies
    BY <2>5 DEF ProcessDies, Atomic!AtomicNext, Atomic!Die
  <2>6. CASE ProcessStarts
    <3>1. loaded' = Stored /\ Stored' = Stored
      BY <2>6 DEF ProcessStarts, LoadRestartValue
    <3> QED
      BY <2>6, <3>1 DEF ProcessStarts, Atomic!AtomicNext, Atomic!Start
  <2>7. CASE UNCHANGED serializerVars
    BY <2>7 DEF serializerVars, Atomic!AtomicVars
  <2> QED
    BY <2>1, <2>2, <2>3, <2>4, <2>5, <2>6, <2>7 DEF SerializerNext, Atomic!AtomicNext
<1>3. SerializerSpec => []FilesInv
  BY FilesInductive
<1> QED
  BY <1>1, <1>2, <1>3, PTL DEF SerializerSpec, ImplementsAtomicValue, Atomic!AtomicSpec

==============================================================================
