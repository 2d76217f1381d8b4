------------------------ MODULE DownloadApprovalProofs -----------------------
(***************************************************************************)
(* Safety of the download approval, for every set of replicators, every    *)
(* minimal number of them and any number of changes of the shard, restarts *)
(* and hours that pass: a transaction that is sent is a quorum, and a      *)
(* replicator that shares its opinion has it or gets it back.              *)
(***************************************************************************)
EXTENDS DownloadApproval, FiniteSetTheorems, TLAPS

------------------------------------------------------------------------------
(* The inductive invariant. *)

\* A shard: a change replaces one replicator by another, so all of them have
\* the same size.
Shard == {S \in SUBSET Replicators : Cardinality(S) = Cardinality(Members)}

GoodMessage == [what : {"initiate", "failed", "published", "closed"}, list : {{}}]
                   \cup [what : {"shard"}, list : Shard]

Shapes ==
    /\ entry \in [Replicators -> Entries]
    /\ shard \in [Replicators -> Shard]
    /\ posted \in [Replicators -> SUBSET Replicators]
    /\ inbox \in [Replicators -> Seq(GoodMessage)]
    /\ shared \in SUBSET Replicators
    /\ pool \in SUBSET Transactions
    /\ members \in Shard

Enough(S) == Cardinality(S) >= ReplicatorNumber(Members)

\* The opinions of an entry were given, and there are enough of them while its
\* timer runs.
EntryOK(e, given) ==
    /\ e \in Entries
    /\ e.opinions \subseteq given
    /\ e.timer = "running" => Enough(e.opinions)

IInv ==
    /\ Shapes
    /\ \A r \in Replicators : EntryOK(entry[r], shared)
    /\ \A r \in Replicators : posted[r] \subseteq shared
    /\ \A tx \in pool : Enough(tx.opinions) /\ tx.opinions \subseteq shared

------------------------------------------------------------------------------
(* Numbers and entries. *)

LEMMA NumberType ==
  /\ Cardinality(Members) \in Nat /\ IsFiniteSet(Members)
  /\ ReplicatorNumber(Members) \in Nat
  /\ \A S \in Shard : ReplicatorNumber(S) = ReplicatorNumber(Members)
<1>1. IsFiniteSet(Members)
  BY DownloadApprovalAssumption, FS_Subset
<1>2. Cardinality(Members) \in Nat
  BY <1>1, FS_CardinalityType
<1>3. ReplicatorNumber(Members) \in Nat
  BY <1>2, DownloadApprovalAssumption DEF ReplicatorNumber
<1>4. \A S \in Shard : ReplicatorNumber(S) = ReplicatorNumber(Members)
  BY DEF Shard, ReplicatorNumber
<1> QED BY <1>1, <1>2, <1>3, <1>4

\* Enough opinions stay enough when more come.
LEMMA EnoughGrows ==
  ASSUME NEW S \in SUBSET Replicators, NEW T \in SUBSET Replicators,
         S \subseteq T, Enough(S)
  PROVE  Enough(T)
<1>1. IsFiniteSet(T) /\ IsFiniteSet(S)
  BY DownloadApprovalAssumption, FS_Subset
<1>2. Cardinality(S) <= Cardinality(T) /\ Cardinality(S) \in Nat /\ Cardinality(T) \in Nat
  BY <1>1, FS_Subset, FS_CardinalityType
<1> QED BY <1>2, NumberType DEF Enough

LEMMA NoEntryOK ==
  ASSUME NEW given
  PROVE  EntryOK(NoEntry, given) /\ EntryOK(Erased, given)
BY DEF EntryOK, NoEntry, Erased, Entries

\* addOpinion starts the timer only with enough opinions, and never forgets
\* why it was started.
LEMMA AddOpinionOK ==
  ASSUME NEW r \in Replicators, NEW o \in Replicators, NEW e, NEW given,
         EntryOK(e, given), o \in given, shard[r] \in Shard
  PROVE  EntryOK(AddOpinion(r, o, e), given)
<1> DEFINE old == IF e.outdated THEN NoEntry ELSE e
           ops == old.opinions \cup {o}
           added == [old EXCEPT !.state = "open", !.opinions = ops]
<1>1. CASE e.state = "erased"
  BY <1>1 DEF AddOpinion
<1>2. CASE e.state # "erased"
  <2>1. EntryOK(old, given) /\ old \in Entries
    BY NoEntryOK DEF EntryOK
  <2> HIDE DEF old
  <2>2. ops \in SUBSET Replicators /\ old.opinions \in SUBSET Replicators
        /\ ops \subseteq given /\ old.opinions \subseteq ops
    BY <2>1 DEF EntryOK, Entries
  <2>3. old.timer = "running" => Enough(ops)
    BY <2>1, <2>2, EnoughGrows DEF EntryOK
  <2> HIDE DEF ops
  <2>4. /\ added \in Entries /\ added.opinions = ops /\ added.timer = old.timer
    BY <2>1, <2>2 DEF Entries
  <2>5. AddOpinion(r, o, e) =
          IF Cardinality(added.opinions) >= ReplicatorNumber(shard[r]) /\ added.timer = "off"
          THEN [added EXCEPT !.timer = "running"] ELSE added
    BY <1>2 DEF AddOpinion, old, ops
  <2> HIDE DEF added
  <2>6. CASE Cardinality(added.opinions) >= ReplicatorNumber(shard[r]) /\ added.timer = "off"
    <3> DEFINE u == [added EXCEPT !.timer = "running"]
    <3>1. u \in Entries /\ u.opinions = ops /\ u.timer = "running"
      BY <2>4 DEF Entries
    <3>2. Enough(ops)
      BY <2>4, <2>6, NumberType DEF Enough
    <3>3. AddOpinion(r, o, e) = u
      BY <2>5, <2>6
    <3> HIDE DEF u
    <3> QED BY <2>2, <3>1, <3>2, <3>3 DEF EntryOK
  <2>7. CASE ~(Cardinality(added.opinions) >= ReplicatorNumber(shard[r]) /\ added.timer = "off")
    <3>1. AddOpinion(r, o, e) = added
      BY <2>5, <2>7
    <3> QED BY <2>2, <2>3, <2>4, <3>1 DEF EntryOK
  <2> QED BY <2>6, <2>7
<1> QED BY <1>1, <1>2

------------------------------------------------------------------------------
(* The steps. *)

LEMMA InitHolds == Init => IInv
<1> SUFFICES ASSUME Init PROVE IInv
  OBVIOUS
<1>1. Members \in Shard
  BY DownloadApprovalAssumption DEF Shard
<1>2. NoEntry \in Entries
  BY DEF NoEntry, Entries
<1>3. Message("initiate") \in GoodMessage
  BY DEF Message, GoodMessage
<1>4. inbox \in [Replicators -> Seq(GoodMessage)]
  <2> DEFINE m == Message("initiate")
  <2> HIDE DEF m
  <2>1. <<m>> \in Seq(GoodMessage)
    BY <1>3 DEF m
  <2>2. inbox = [r \in Replicators |-> IF r \in Members THEN <<m>> ELSE <<>>]
    BY DEF Init, m
  <2> QED BY <2>1, <2>2
<1>5. Shapes
  BY <1>1, <1>2, <1>4 DEF Init, Shapes
<1> QED BY <1>5, NoEntryOK DEF Init, IInv

\* A change of one entry; what was given stays given.
LEMMA EntryChanges ==
  ASSUME IInv, NEW r \in Replicators, NEW e,
         entry' = [entry EXCEPT ![r] = e], EntryOK(e, shared'),
         shared \subseteq shared', shared' \in SUBSET Replicators,
         posted' \in [Replicators -> SUBSET Replicators],
         \A s \in Replicators : posted'[s] \subseteq shared',
         inbox' \in [Replicators -> Seq(GoodMessage)],
         shard' \in [Replicators -> Shard], members' \in Shard,
         UNCHANGED pool
  PROVE  IInv'
<1>1. e \in Entries /\ entry \in [Replicators -> Entries]
  BY DEF EntryOK, IInv, Shapes
<1>2. Shapes'
  BY <1>1 DEF IInv, Shapes
<1>3. \A s \in Replicators : EntryOK(entry'[s], shared')
  <2> SUFFICES ASSUME NEW s \in Replicators PROVE EntryOK(entry'[s], shared')
    OBVIOUS
  <2>1. CASE s = r
    BY <1>1, <2>1
  <2>2. CASE s # r
    BY <1>1, <2>2 DEF IInv, EntryOK
  <2> QED BY <2>1, <2>2
<1> QED BY <1>2, <1>3 DEF IInv

LEMMA HandlesType ==
  ASSUME IInv, NEW r \in Replicators, NEW what, Handles(r, what)
  PROVE  /\ inbox' \in [Replicators -> Seq(GoodMessage)]
         /\ Head(inbox[r]) \in GoodMessage
<1>1. inbox \in [Replicators -> Seq(GoodMessage)] /\ inbox[r] \in Seq(GoodMessage)
  BY DEF IInv, Shapes
<1>2. inbox[r] # <<>> /\ inbox' = [inbox EXCEPT ![r] = Tail(inbox[r])]
  BY DEF Handles
<1>3. Head(inbox[r]) \in GoodMessage /\ Tail(inbox[r]) \in Seq(GoodMessage)
  BY <1>1, <1>2
<1> QED BY <1>1, <1>2, <1>3

LEMMA TellType ==
  ASSUME Shapes, NEW list, NEW m \in GoodMessage
  PROVE  Tell(list, m) \in [Replicators -> Seq(GoodMessage)]
<1>1. inbox \in [Replicators -> Seq(GoodMessage)]
  BY DEF Shapes
<1>2. \A r \in Replicators : Append(inbox[r], m) \in Seq(GoodMessage)
  BY <1>1
<1> QED BY <1>1, <1>2 DEF Tell

\* Opinions that are created or received.
LEMMA OpinionSteps ==
  ASSUME IInv, NEW r \in Replicators,
         \/ InitiateDownloadApproval(r)
         \/ \E o \in Replicators : OnDownloadOpinionReceived(r, o)
         \/ \E o \in Replicators : OnDownloadOpinionAgain(r, o)
  PROVE  IInv'
<1>0. /\ shard[r] \in Shard /\ EntryOK(entry[r], shared) /\ Shapes
      /\ entry \in [Replicators -> Entries]
      /\ \A s \in Replicators : posted[s] \subseteq shared
  BY DEF IInv, Shapes
<1>1. ASSUME InitiateDownloadApproval(r) PROVE IInv'
  <2>1. inbox' \in [Replicators -> Seq(GoodMessage)]
    BY <1>1, HandlesType DEF InitiateDownloadApproval
  <2>2. CASE entry[r].state = "erased"
    <3>1. UNCHANGED <<entry, shared, shard, posted, pool, members>>
      BY <1>1, <2>2 DEF InitiateDownloadApproval
    <3>2. entry' = [entry EXCEPT ![r] = entry[r]]
      BY <1>0, <3>1
    <3> QED BY <1>0, <2>1, <3>1, <3>2, EntryChanges DEF Shapes
  <2>3. CASE entry[r].state # "erased"
    <3> DEFINE a == AddOpinion(r, r, entry[r])
               e == [a EXCEPT !.share = TRUE]
    <3>1. /\ entry' = [entry EXCEPT ![r] = e] /\ shared' = shared \cup {r}
          /\ UNCHANGED <<shard, posted, pool, members>>
      BY <1>1, <2>3 DEF InitiateDownloadApproval
    <3>2. EntryOK(entry[r], shared')
      BY <1>0, <3>1 DEF EntryOK
    <3>3. EntryOK(a, shared')
      BY <1>0, <3>1, <3>2, AddOpinionOK
    <3> HIDE DEF a
    <3>4. EntryOK(e, shared')
      BY <3>3 DEF EntryOK, Entries
    <3> HIDE DEF e
    <3> QED BY <1>0, <2>1, <3>1, <3>4, EntryChanges DEF Shapes
  <2> QED BY <2>2, <2>3
<1>2. ASSUME NEW o \in Replicators, OnDownloadOpinionReceived(r, o) PROVE IInv'
  <2> DEFINE e == AddOpinion(r, o, entry[r])
  <2>1. /\ entry' = [entry EXCEPT ![r] = e] /\ o \in shared
        /\ UNCHANGED <<shared, inbox, shard, posted, pool, members>>
    BY <1>2 DEF OnDownloadOpinionReceived
  <2>2. EntryOK(e, shared)
    BY <1>0, <2>1, AddOpinionOK
  <2> HIDE DEF e
  <2> QED BY <1>0, <2>1, <2>2, EntryChanges DEF Shapes
<1>3. ASSUME NEW o \in Replicators, OnDownloadOpinionAgain(r, o) PROVE IInv'
  <2> DEFINE e == IF o \in members THEN AddOpinion(r, o, entry[r]) ELSE entry[r]
  <2>1. /\ entry' = [entry EXCEPT ![r] = e] /\ o \in shared
        /\ posted' = [posted EXCEPT ![r] = posted[r] \ {o}]
        /\ UNCHANGED <<shared, inbox, shard, pool, members>>
    BY <1>0, <1>3 DEF OnDownloadOpinionAgain
  <2>2. EntryOK(e, shared)
    BY <1>0, <2>1, AddOpinionOK
  <2>3. /\ posted' \in [Replicators -> SUBSET Replicators]
        /\ \A s \in Replicators : posted'[s] \subseteq shared
    BY <1>0, <2>1 DEF Shapes
  <2> HIDE DEF e
  <2> QED BY <1>0, <2>1, <2>2, <2>3, EntryChanges DEF Shapes
<1> QED BY <1>1, <1>2, <1>3

\* The timer: only now is a transaction sent.
LEMMA TimerStep ==
  ASSUME IInv, NEW r \in Replicators, OnDownloadApprovalTimeExpired(r)
  PROVE  IInv'
<1> DEFINE e == [entry[r] EXCEPT !.timer = "expired"]
           f == [e EXCEPT !.sent = TRUE]
           tx == [from |-> r, opinions |-> e.opinions]
<1>0. /\ entry[r] \in Entries /\ EntryOK(entry[r], shared) /\ Shapes
      /\ entry \in [Replicators -> Entries] /\ entry[r].timer = "running"
  BY DEF IInv, Shapes, OnDownloadApprovalTimeExpired
<1>1. /\ e \in Entries /\ e.opinions = entry[r].opinions /\ e.timer = "expired"
      /\ f \in Entries /\ f.opinions = entry[r].opinions /\ f.timer = "expired"
  BY <1>0 DEF Entries
<1>2. Enough(e.opinions) /\ e.opinions \subseteq shared
  BY <1>0, <1>1 DEF EntryOK
<1>3. tx \in Transactions /\ tx.opinions = e.opinions
  BY <1>1 DEF Transactions, Entries
<1>4. EntryOK(e, shared) /\ EntryOK(f, shared)
  <2> HIDE DEF e, f
  <2> QED BY <1>0, <1>1 DEF EntryOK
<1>5. /\ entry' = [entry EXCEPT ![r] = e] \/ entry' = [entry EXCEPT ![r] = f]
      /\ pool' = pool \/ pool' = pool \cup {tx}
      /\ UNCHANGED <<shard, posted, inbox, shared, members>>
  BY DEF OnDownloadApprovalTimeExpired
<1> HIDE DEF e, f, tx
<1>6. \A s \in Replicators : EntryOK(entry'[s], shared')
  BY <1>0, <1>4, <1>5 DEF IInv
<1>7. entry' \in [Replicators -> Entries]
  BY <1>0, <1>1, <1>5
<1>8. Shapes'
  BY <1>0, <1>3, <1>5, <1>7 DEF Shapes
<1> QED BY <1>2, <1>3, <1>5, <1>6, <1>8 DEF IInv

\* What the chain tells a replicator.
LEMMA MessageSteps ==
  ASSUME IInv, NEW r \in Replicators,
         \/ ApprovalHasFailed(r) \/ ApprovalHasBeenPublished(r)
         \/ ChannelIsClosed(r) \/ SetChanelShard(r)
  PROVE  IInv'
<1>0. /\ EntryOK(entry[r], shared) /\ Shapes /\ entry[r] \in Entries
      /\ entry \in [Replicators -> Entries]
      /\ \A s \in Replicators : posted[s] \subseteq shared
  BY DEF IInv, Shapes
<1>1. ASSUME ApprovalHasFailed(r) PROVE IInv'
  <2>1. inbox' \in [Replicators -> Seq(GoodMessage)]
        /\ UNCHANGED <<shard, shared, pool, members>>
    BY <1>1, HandlesType DEF ApprovalHasFailed
  <2>2. CASE UNCHANGED <<entry, posted>>
    <3>1. entry' = [entry EXCEPT ![r] = entry[r]]
      BY <1>0, <2>2
    <3> QED BY <1>0, <2>1, <2>2, <3>1, EntryChanges DEF Shapes
  <2>3. CASE ~UNCHANGED <<entry, posted>>
    <3> DEFINE e == [entry[r] EXCEPT !.timer = "off", !.opinions = {}, !.sent = FALSE]
    <3>1. /\ entry' = [entry EXCEPT ![r] = e]
          /\ posted' = [posted EXCEPT ![r] = posted[r] \cup entry[r].opinions]
      BY <1>0, <1>1, <2>3 DEF ApprovalHasFailed
    <3>2. EntryOK(e, shared)
      BY <1>0 DEF EntryOK, Entries
    <3>3. /\ posted' \in [Replicators -> SUBSET Replicators]
          /\ \A s \in Replicators : posted'[s] \subseteq shared
      BY <1>0, <3>1 DEF Shapes, EntryOK, Entries
    <3> HIDE DEF e
    <3> QED BY <1>0, <2>1, <3>1, <3>2, <3>3, EntryChanges DEF Shapes
  <2> QED BY <2>2, <2>3
<1>2. ASSUME ApprovalHasBeenPublished(r) PROVE IInv'
  <2> DEFINE e == IF entry[r].state = "open"
                  THEN [entry[r] EXCEPT !.timer = "off", !.share = FALSE, !.received = TRUE]
                  ELSE entry[r]
  <2>1. inbox' \in [Replicators -> Seq(GoodMessage)]
        /\ UNCHANGED <<shard, posted, shared, pool, members>>
    BY <1>2, HandlesType DEF ApprovalHasBeenPublished
  <2>2. entry' = [entry EXCEPT ![r] = e]
    BY <1>2 DEF ApprovalHasBeenPublished
  <2>3. EntryOK(e, shared)
    BY <1>0 DEF EntryOK, Entries
  <2> HIDE DEF e
  <2> QED BY <1>0, <2>1, <2>2, <2>3, EntryChanges DEF Shapes
<1>3. ASSUME ChannelIsClosed(r) PROVE IInv'
  <2>1. inbox' \in [Replicators -> Seq(GoodMessage)]
        /\ UNCHANGED <<shard, posted, shared, pool, members>>
    BY <1>3, HandlesType DEF ChannelIsClosed
  <2>2. entry' = [entry EXCEPT ![r] = Erased]
    BY <1>3 DEF ChannelIsClosed
  <2> QED BY <1>0, <2>1, <2>2, NoEntryOK, EntryChanges DEF Shapes
<1>4. ASSUME SetChanelShard(r) PROVE IInv'
  <2>1. /\ inbox' \in [Replicators -> Seq(GoodMessage)] /\ Head(inbox[r]) \in GoodMessage
        /\ UNCHANGED <<entry, posted, shared, pool, members>>
    BY <1>4, HandlesType DEF SetChanelShard
  <2>2. Head(inbox[r]).what = "shard"
    BY <1>4 DEF SetChanelShard, Handles
  <2>3. Head(inbox[r]).list \in Shard
    BY <2>1, <2>2 DEF GoodMessage
  <2>4. shard' \in [Replicators -> Shard]
    BY <1>0, <1>4, <2>3 DEF SetChanelShard, Shapes
  <2>5. entry' = [entry EXCEPT ![r] = entry[r]]
    BY <1>0, <2>1
  <2> QED BY <1>0, <2>1, <2>4, <2>5, EntryChanges DEF Shapes
<1> QED BY <1>1, <1>2, <1>3, <1>4

\* An hour passes, or a replicator is restarted.
LEMMA FaultSteps ==
  ASSUME IInv, NEW r \in Replicators, Outdate(r) \/ Restart(r)
  PROVE  IInv'
<1>0. /\ EntryOK(entry[r], shared) /\ Shapes /\ entry[r] \in Entries
      /\ entry \in [Replicators -> Entries]
      /\ \A s \in Replicators : posted[s] \subseteq shared
  BY DEF IInv, Shapes
<1>1. ASSUME Outdate(r) PROVE IInv'
  <2> DEFINE e == [entry[r] EXCEPT !.outdated = TRUE]
  <2>1. entry' = [entry EXCEPT ![r] = e]
        /\ UNCHANGED <<shard, posted, inbox, shared, pool, members>>
    BY <1>1 DEF Outdate
  <2>2. EntryOK(e, shared)
    BY <1>0 DEF EntryOK, Entries
  <2> HIDE DEF e
  <2> QED BY <1>0, <2>1, <2>2, EntryChanges DEF Shapes
<1>2. ASSUME Restart(r) PROVE IInv'
  <2> DEFINE saved == [entry[r] EXCEPT !.timer = "off", !.share = FALSE, !.outdated = FALSE]
  <2>1. PICK e \in {NoEntry, saved} : entry' = [entry EXCEPT ![r] = e]
    BY <1>2 DEF Restart
  <2>2. EntryOK(saved, shared)
    BY <1>0 DEF EntryOK, Entries
  <2> HIDE DEF saved
  <2>3. EntryOK(e, shared)
    BY <2>1, <2>2, NoEntryOK
  <2>4. /\ posted' = [posted EXCEPT ![r] = {}] /\ inbox' = [inbox EXCEPT ![r] = <<>>]
        /\ shard' = [shard EXCEPT ![r] = members] /\ UNCHANGED <<shared, pool, members>>
    BY <1>2 DEF Restart
  <2>5. /\ posted' \in [Replicators -> SUBSET Replicators]
        /\ \A s \in Replicators : posted'[s] \subseteq shared
    BY <1>0, <2>4 DEF Shapes
  <2>6. inbox' \in [Replicators -> Seq(GoodMessage)]
    BY <1>0, <2>4 DEF Shapes
  <2>7. shard' \in [Replicators -> Shard] /\ members' \in Shard
    BY <1>0, <2>4 DEF Shapes
  <2> QED BY <1>0, <2>1, <2>3, <2>4, <2>5, <2>6, <2>7, EntryChanges DEF Shapes
<1> QED BY <1>1, <1>2

\* The chain looks at a transaction.
LEMMA ProcessStep ==
  ASSUME IInv, NEW tx \in pool, ProcessTransaction(tx)
  PROVE  IInv'
<1>0. Shapes
  BY DEF IInv
<1>1. UNCHANGED <<entry, shard, posted, shared, members>> /\ pool' \subseteq pool
  BY DEF ProcessTransaction
<1>2. \A what \in {"published", "closed", "failed"} : Message(what) \in GoodMessage
  BY DEF Message, GoodMessage
<1>3. inbox' \in [Replicators -> Seq(GoodMessage)]
  <2>1. CASE published # {}
    BY <1>0, <2>1 DEF ProcessTransaction, Shapes
  <2>2. CASE published = {} /\ Valid(tx)
    <3>1. PICK what \in {"published", "closed"} : inbox' = Tell(members, Message(what))
      BY <2>2 DEF ProcessTransaction
    <3> QED BY <1>0, <1>2, <3>1, TellType
  <2>3. CASE published = {} /\ ~Valid(tx)
    <3>1. inbox' = Tell({tx.from} \cap members, Message("failed"))
      BY <2>3 DEF ProcessTransaction
    <3> QED BY <1>0, <1>2, <3>1, TellType
  <2> QED BY <2>1, <2>2, <2>3
<1>4. Shapes'
  BY <1>0, <1>1, <1>3 DEF Shapes
<1> QED BY <1>1, <1>4 DEF IInv

\* The shard changes, and keeps its size.
LEMMA ReplaceStep ==
  ASSUME IInv, NEW r \in Replicators, NEW s \in Replicators, Replace(r, s)
  PROVE  IInv'
<1>0. /\ Shapes /\ members \in Shard /\ entry \in [Replicators -> Entries]
      /\ \A t \in Replicators : posted[t] \subseteq shared
  BY DEF IInv, Shapes
<1>1. /\ r \in members /\ s \in Replicators \ members
      /\ members' = (members \ {r}) \cup {s}
      /\ shard' = [shard EXCEPT ![s] = members']
      /\ entry' = [entry EXCEPT ![r] = Erased]
      /\ posted' = [posted EXCEPT ![r] = {}]
      /\ inbox' = [Tell(members' \ {s}, [what |-> "shard", list |-> members'])
                      EXCEPT ![s] = <<Message("initiate")>>, ![r] = <<>>]
      /\ UNCHANGED <<shared, pool>>
  BY DEF Replace
<1>2. members' \in Shard
  <2>1. members \in SUBSET Replicators /\ IsFiniteSet(members)
        /\ Cardinality(members) = Cardinality(Members)
    BY <1>0, DownloadApprovalAssumption, FS_Subset DEF Shard
  <2>2. IsFiniteSet(members \ {r}) /\ Cardinality(members \ {r}) = Cardinality(members) - 1
    BY <1>1, <2>1, FS_RemoveElement
  <2>3. s \notin members \ {r}
    BY <1>1
  <2>4. Cardinality((members \ {r}) \cup {s}) = Cardinality(members \ {r}) + 1
    BY <2>2, <2>3, FS_AddElement
  <2>5. Cardinality(members) \in Nat
    BY <2>1, NumberType
  <2>6. Cardinality(members') = Cardinality(Members)
    BY <1>1, <2>1, <2>2, <2>4, <2>5
  <2> QED BY <1>1, <2>1, <2>6 DEF Shard
<1>3. shard' \in [Replicators -> Shard]
  BY <1>0, <1>1, <1>2 DEF Shapes
<1>4. /\ posted' \in [Replicators -> SUBSET Replicators]
      /\ \A t \in Replicators : posted'[t] \subseteq shared
  BY <1>0, <1>1 DEF Shapes
<1>5. inbox' \in [Replicators -> Seq(GoodMessage)]
  <2> DEFINE m == [what |-> "shard", list |-> members']
             told == Tell(members' \ {s}, m)
             i == Message("initiate")
  <2>1. m \in GoodMessage
    BY <1>2 DEF GoodMessage
  <2>2. i \in GoodMessage
    BY DEF Message, GoodMessage
  <2>3. told \in [Replicators -> Seq(GoodMessage)]
    <3> HIDE DEF m
    <3> QED BY <1>0, <2>1, TellType
  <2>4. inbox' = [told EXCEPT ![s] = <<i>>, ![r] = <<>>]
    BY <1>1
  <2> HIDE DEF m, told, i
  <2>5. <<i>> \in Seq(GoodMessage) /\ <<>> \in Seq(GoodMessage)
    BY <2>2
  <2> QED BY <2>3, <2>4, <2>5
<1> QED BY <1>0, <1>1, <1>2, <1>3, <1>4, <1>5, NoEntryOK, EntryChanges DEF Shapes

LEMMA NextKeeps == IInv /\ [Next]_vars => IInv'
<1> SUFFICES ASSUME IInv, [Next]_vars PROVE IInv'
  OBVIOUS
<1>1. ASSUME NEW r \in Replicators, Step(r) PROVE IInv'
  BY <1>1, OpinionSteps, TimerStep, MessageSteps DEF Step
<1>2. ASSUME NEW r \in Replicators, Outdate(r) \/ Restart(r) PROVE IInv'
  BY <1>2, FaultSteps
<1>3. ASSUME NEW r \in Replicators, NEW o \in Replicators,
             OnDownloadOpinionReceived(r, o)
      PROVE  IInv'
  BY <1>3, OpinionSteps
<1>4. ASSUME NEW tx \in pool, ProcessTransaction(tx) PROVE IInv'
  BY <1>4, ProcessStep
<1>5. ASSUME NEW r \in Replicators, NEW s \in Replicators, Replace(r, s) PROVE IInv'
  BY <1>5, ReplaceStep
<1>6. CASE UNCHANGED vars
  BY <1>6 DEF vars, IInv, Shapes
<1> QED BY <1>1, <1>2, <1>3, <1>4, <1>5, <1>6 DEF Next

------------------------------------------------------------------------------
(* The result. *)

\* For every shard and any number of changes, restarts and hours: a download
\* approval transaction is only sent with opinions that were given, by more
\* than two thirds of the shard and of the minimal number of replicators
\* (addOpinion, onDownloadApprovalTimeExpired).
THEOREM SentQuorum == Spec => []TransactionsAreQuorums
<1>1. IInv => TransactionsAreQuorums
  <2> SUFFICES ASSUME IInv, NEW tx \in pool
               PROVE  /\ 3 * Cardinality(tx.opinions) > 2 * Cardinality(Members)
                      /\ 3 * Cardinality(tx.opinions) > 2 * MinReplicators
                      /\ tx.opinions \subseteq shared
    BY DEF TransactionsAreQuorums
  <2>1. Enough(tx.opinions) /\ tx.opinions \subseteq shared /\ tx.opinions \in SUBSET Replicators
    BY DEF IInv, Shapes, Transactions
  <2>2. PICK c \in Nat : c = Cardinality(tx.opinions)
    BY <2>1, DownloadApprovalAssumption, FS_Subset, FS_CardinalityType
  <2>3. PICK n \in Nat : n = Cardinality(Members)
    BY NumberType
  <2>4. PICK min \in Nat : min = MinReplicators
    BY DownloadApprovalAssumption
  <2>5. c >= ((IF n > min THEN n ELSE min) * 2) \div 3 + 1
    BY <2>1, <2>2, <2>3, <2>4 DEF Enough, ReplicatorNumber
  <2>6. 3 * c > 2 * n /\ 3 * c > 2 * min
    BY ONLY <2>5, c \in Nat, n \in Nat, min \in Nat
  <2> QED BY <2>1, <2>2, <2>3, <2>4, <2>6
<1> QED BY <1>1, InitHolds, NextKeeps, PTL DEF Spec

------------------------------------------------------------------------------
(* The own opinion.  A second layer over IInv: what an entry may look like,  *)
(* and that a replicator outside the shard has nothing to do.                *)

\* Replicator r with the entry e, p posted and q in its inbox.
Tidy(r, e, p, q, list) ==
    /\ e.state = "open" \/ e \in {NoEntry, Erased}
    /\ e.share => r \in e.opinions \cup p
    /\ r \notin list => e \in {NoEntry, Erased} /\ p = {} /\ q = <<>>

Bounded ==
    /\ published \in SUBSET Replicators
    /\ changes \in 0..MaxChanges
    /\ faults \in 0..MaxFaults

Safe ==
    /\ IInv
    /\ Bounded
    /\ \A r \in Replicators : Tidy(r, entry[r], posted[r], inbox[r], members)

\* addOpinion: either the channel is erased or the entry is open with the
\* opinion; an entry that still shares has lost none of its opinions.
LEMMA AddOpinionAdds ==
  ASSUME NEW r, NEW o \in Replicators, NEW e \in Entries, NEW a, a = AddOpinion(r, o, e)
  PROVE  \/ e.state = "erased" /\ a = e
         \/ /\ e.state # "erased" /\ a.state = "open" /\ o \in a.opinions
            /\ a.share => e.share /\ e.opinions \subseteq a.opinions
<1>1. CASE e.state = "erased"
  BY <1>1 DEF AddOpinion
<1>2. CASE e.state # "erased"
  <2> DEFINE old == IF e.outdated THEN NoEntry ELSE e
             added == [old EXCEPT !.state = "open", !.opinions = old.opinions \cup {o}]
             b == [added EXCEPT !.timer = "running"]
  <2>1. /\ old \in Entries
        /\ old.share => e.share /\ old = e
    BY DEF NoEntry, Entries
  <2>2. a = added \/ a = b
    BY <1>2 DEF AddOpinion
  <2> HIDE DEF old
  <2>3. /\ added.state = "open" /\ added.opinions = old.opinions \cup {o}
        /\ added.share = old.share
        /\ b.state = "open" /\ b.opinions = old.opinions \cup {o} /\ b.share = old.share
    BY <2>1 DEF Entries
  <2> HIDE DEF added, b
  <2> QED BY <1>2, <2>1, <2>2, <2>3
<1> QED BY <1>1, <1>2

\* A step of one replicator.
LEMMA TidyChanges ==
  ASSUME Safe, IInv', NEW r \in Replicators,
         \A s \in Replicators \ {r} :
            entry'[s] = entry[s] /\ posted'[s] = posted[s] /\ inbox'[s] = inbox[s],
         UNCHANGED <<members, published, changes>>,
         faults' \in 0..MaxFaults,
         Tidy(r, entry'[r], posted'[r], inbox'[r], members)
  PROVE  Safe'
<1>1. \A s \in Replicators : Tidy(s, entry'[s], posted'[s], inbox'[s], members')
  <2> SUFFICES ASSUME NEW s \in Replicators
               PROVE  Tidy(s, entry'[s], posted'[s], inbox'[s], members')
    OBVIOUS
  <2>1. CASE s = r
    BY <2>1
  <2>2. CASE s # r
    <3>1. Tidy(s, entry[s], posted[s], inbox[s], members)
      BY DEF Safe
    <3>2. entry'[s] = entry[s] /\ posted'[s] = posted[s] /\ inbox'[s] = inbox[s]
      BY <2>2
    <3> QED BY <3>1, <3>2
  <2> QED BY <2>1, <2>2
<1>2. Bounded'
  BY DEF Safe, Bounded
<1> QED BY <1>1, <1>2 DEF Safe

LEMMA SafeInit == Init => Safe
<1> SUFFICES ASSUME Init PROVE Safe
  OBVIOUS
<1>1. IInv
  BY InitHolds
<1>2. Bounded
  BY DownloadApprovalAssumption DEF Init, Bounded
<1>3. ~NoEntry.share
  BY DEF NoEntry
<1>4. \A r \in Replicators : Tidy(r, entry[r], posted[r], inbox[r], members)
  BY <1>3 DEF Init, Tidy
<1> QED BY <1>1, <1>2, <1>4 DEF Safe

\* What every step of a replicator starts from: who has something to do is in
\* the shard.
LEMMA SafeFacts ==
  ASSUME Safe, NEW r \in Replicators
  PROVE  /\ entry \in [Replicators -> Entries] /\ entry[r] \in Entries
         /\ posted \in [Replicators -> SUBSET Replicators] /\ posted[r] \in SUBSET Replicators
         /\ inbox \in [Replicators -> Seq(GoodMessage)]
         /\ faults \in 0..MaxFaults
         /\ Tidy(r, entry[r], posted[r], inbox[r], members)
         /\ (inbox[r] # <<>> \/ posted[r] # {} \/ entry[r].state = "open") => r \in members
         /\ ~NoEntry.share /\ ~Erased.share
         /\ NoEntry.state = "none" /\ Erased.state = "erased"
<1>1. /\ ~NoEntry.share /\ ~Erased.share
      /\ NoEntry.state = "none" /\ Erased.state = "erased"
  BY DEF NoEntry, Erased
<1>2. Tidy(r, entry[r], posted[r], inbox[r], members)
  BY DEF Safe
<1>3. (inbox[r] # <<>> \/ posted[r] # {} \/ entry[r].state = "open") => r \in members
  BY <1>1, <1>2 DEF Tidy
<1>4. /\ entry \in [Replicators -> Entries] /\ entry[r] \in Entries
      /\ posted \in [Replicators -> SUBSET Replicators] /\ posted[r] \in SUBSET Replicators
      /\ inbox \in [Replicators -> Seq(GoodMessage)]
  BY DEF Safe, IInv, Shapes
<1> QED BY <1>1, <1>2, <1>3, <1>4 DEF Safe, Bounded

LEMMA OpinionStepsSafe ==
  ASSUME Safe, IInv', NEW r \in Replicators,
         \/ InitiateDownloadApproval(r)
         \/ \E o \in Replicators : OnDownloadOpinionReceived(r, o)
         \/ \E o \in Replicators : OnDownloadOpinionAgain(r, o)
  PROVE  Safe'
<1>0. /\ entry \in [Replicators -> Entries] /\ entry[r] \in Entries
      /\ posted \in [Replicators -> SUBSET Replicators] /\ posted[r] \in SUBSET Replicators
      /\ inbox \in [Replicators -> Seq(GoodMessage)]
      /\ faults \in 0..MaxFaults
      /\ Tidy(r, entry[r], posted[r], inbox[r], members)
      /\ (inbox[r] # <<>> \/ posted[r] # {} \/ entry[r].state = "open") => r \in members
  BY SafeFacts
<1>1. ASSUME InitiateDownloadApproval(r) PROVE Safe'
  <2> DEFINE a == AddOpinion(r, r, entry[r])
             e == [a EXCEPT !.share = TRUE]
  <2>1. /\ inbox' = [inbox EXCEPT ![r] = Tail(inbox[r])] /\ r \in members
        /\ UNCHANGED <<posted, members, published, changes, faults>>
    BY <1>0, <1>1 DEF InitiateDownloadApproval, Handles
  <2>2. CASE entry[r].state = "erased"
    <3>1. entry' = entry
      BY <1>1, <2>2 DEF InitiateDownloadApproval
    <3>2. Tidy(r, entry'[r], posted'[r], inbox'[r], members)
      BY <1>0, <2>1, <3>1 DEF Tidy
    <3> QED BY <1>0, <2>1, <3>1, <3>2, TidyChanges
  <2>3. CASE entry[r].state # "erased"
    <3>1. entry' = [entry EXCEPT ![r] = e]
      BY <1>1, <2>3 DEF InitiateDownloadApproval
    <3>2. a.state = "open" /\ r \in a.opinions
      BY <1>0, <2>3, AddOpinionAdds
    <3>3. entry'[r] \in Entries /\ entry'[r] = e
      BY <1>0, <3>1 DEF IInv, Shapes
    <3> HIDE DEF a
    <3>4. e.state = "open" /\ r \in e.opinions
      BY <3>2
    <3> HIDE DEF e
    <3>5. Tidy(r, entry'[r], posted'[r], inbox'[r], members)
      BY <2>1, <3>3, <3>4 DEF Tidy
    <3> QED BY <1>0, <2>1, <3>1, <3>5, TidyChanges
  <2> QED BY <2>2, <2>3
<1>2. ASSUME NEW o \in Replicators, OnDownloadOpinionReceived(r, o) PROVE Safe'
  <2> DEFINE e == AddOpinion(r, o, entry[r])
  <2>1. /\ entry' = [entry EXCEPT ![r] = e] /\ r \in members
        /\ UNCHANGED <<posted, inbox, members, published, changes, faults>>
    BY <1>2 DEF OnDownloadOpinionReceived
  <2>2. \/ entry[r].state = "erased" /\ e = entry[r]
        \/ /\ entry[r].state # "erased" /\ e.state = "open" /\ o \in e.opinions
           /\ e.share => entry[r].share /\ entry[r].opinions \subseteq e.opinions
    BY <1>0, AddOpinionAdds
  <2> HIDE DEF e
  <2>3. Tidy(r, entry'[r], posted'[r], inbox'[r], members)
    BY <1>0, <2>1, <2>2 DEF Tidy
  <2> QED BY <1>0, <2>1, <2>3, TidyChanges
<1>3. ASSUME NEW o \in Replicators, OnDownloadOpinionAgain(r, o) PROVE Safe'
  <2> DEFINE a == AddOpinion(r, o, entry[r])
             e == IF o \in members THEN a ELSE entry[r]
  <2>1. /\ entry' = [entry EXCEPT ![r] = e] /\ r \in members
        /\ posted' = [posted EXCEPT ![r] = posted[r] \ {o}]
        /\ UNCHANGED <<inbox, members, published, changes, faults>>
    BY <1>0, <1>3 DEF OnDownloadOpinionAgain
  <2>2. \/ entry[r].state = "erased" /\ a = entry[r]
        \/ /\ entry[r].state # "erased" /\ a.state = "open" /\ o \in a.opinions
           /\ a.share => entry[r].share /\ entry[r].opinions \subseteq a.opinions
    BY <1>0, AddOpinionAdds
  <2> HIDE DEF a
  <2>3. Tidy(r, e, posted[r] \ {o}, inbox[r], members)
    <3>1. CASE o \in members
      <4>1. CASE entry[r].state = "erased" /\ a = entry[r]
        <5>1. ~entry[r].share
          BY <1>0, <4>1, SafeFacts DEF Tidy
        <5> QED BY <1>0, <2>1, <3>1, <4>1, <5>1 DEF Tidy
      <4>2. CASE ~(entry[r].state = "erased" /\ a = entry[r])
        BY <1>0, <2>1, <2>2, <3>1, <4>2 DEF Tidy
      <4> QED BY <4>1, <4>2
    <3>2. CASE o \notin members
      BY <1>0, <2>1, <3>2 DEF Tidy
    <3> QED BY <3>1, <3>2
  <2> HIDE DEF e
  <2>4. Tidy(r, entry'[r], posted'[r], inbox'[r], members)
    <3>1. entry'[r] = e /\ posted'[r] = posted[r] \ {o} /\ inbox'[r] = inbox[r]
      BY <1>0, <2>1
    <3> QED BY <2>3, <3>1
  <2>5. \A s \in Replicators \ {r} :
            entry'[s] = entry[s] /\ posted'[s] = posted[s] /\ inbox'[s] = inbox[s]
    BY <1>0, <2>1
  <2> QED BY <1>0, <2>1, <2>4, <2>5, TidyChanges
<1> QED BY <1>1, <1>2, <1>3

LEMMA TimerStepSafe ==
  ASSUME Safe, IInv', NEW r \in Replicators, OnDownloadApprovalTimeExpired(r)
  PROVE  Safe'
<1> DEFINE e == [entry[r] EXCEPT !.timer = "expired"]
           f == [e EXCEPT !.sent = TRUE]
<1>0. /\ entry \in [Replicators -> Entries] /\ entry[r] \in Entries
      /\ faults \in 0..MaxFaults
      /\ Tidy(r, entry[r], posted[r], inbox[r], members)
      /\ (inbox[r] # <<>> \/ posted[r] # {} \/ entry[r].state = "open") => r \in members
  BY SafeFacts
<1>1. entry[r].state = "open" /\ r \in members
  <2>1. NoEntry.timer = "off" /\ Erased.timer = "off" /\ entry[r].timer = "running"
    BY DEF NoEntry, Erased, OnDownloadApprovalTimeExpired
  <2> QED BY <1>0, <2>1 DEF Tidy
<1>2. /\ e.state = "open" /\ e.opinions = entry[r].opinions /\ e.share = entry[r].share
      /\ f.state = "open" /\ f.opinions = entry[r].opinions /\ f.share = entry[r].share
  BY <1>0, <1>1 DEF Entries
<1>3. /\ entry' = [entry EXCEPT ![r] = e] \/ entry' = [entry EXCEPT ![r] = f]
      /\ UNCHANGED <<posted, inbox, members, published, changes, faults>>
  BY DEF OnDownloadApprovalTimeExpired
<1> HIDE DEF e, f
<1>4. Tidy(r, entry'[r], posted'[r], inbox'[r], members)
  <2>1. entry'[r] = e \/ entry'[r] = f
    BY <1>0, <1>3
  <2> QED BY <1>0, <1>1, <1>2, <1>3, <2>1 DEF Tidy
<1>5. \A s \in Replicators \ {r} :
          entry'[s] = entry[s] /\ posted'[s] = posted[s] /\ inbox'[s] = inbox[s]
  BY <1>0, <1>3
<1> QED BY <1>0, <1>3, <1>4, <1>5, TidyChanges

LEMMA MessageStepsSafe ==
  ASSUME Safe, IInv', NEW r \in Replicators,
         \/ ApprovalHasFailed(r) \/ ApprovalHasBeenPublished(r)
         \/ ChannelIsClosed(r) \/ SetChanelShard(r)
  PROVE  Safe'
<1>0. /\ entry \in [Replicators -> Entries] /\ entry[r] \in Entries
      /\ posted \in [Replicators -> SUBSET Replicators] /\ posted[r] \in SUBSET Replicators
      /\ inbox \in [Replicators -> Seq(GoodMessage)]
      /\ faults \in 0..MaxFaults
      /\ Tidy(r, entry[r], posted[r], inbox[r], members)
      /\ (inbox[r] # <<>> \/ posted[r] # {} \/ entry[r].state = "open") => r \in members
      /\ ~NoEntry.share /\ ~Erased.share
  BY SafeFacts
<1>1. /\ inbox' = [inbox EXCEPT ![r] = Tail(inbox[r])] /\ r \in members
      /\ UNCHANGED <<members, published, changes, faults>>
  BY <1>0 DEF ApprovalHasFailed, ApprovalHasBeenPublished, ChannelIsClosed,
              SetChanelShard, Handles
<1>2. ASSUME ApprovalHasFailed(r) PROVE Safe'
  <2>1. CASE UNCHANGED <<entry, posted>>
    <3>1. Tidy(r, entry'[r], posted'[r], inbox'[r], members)
      BY <1>0, <1>1, <2>1 DEF Tidy
    <3> QED BY <1>0, <1>1, <2>1, <3>1, TidyChanges
  <2>2. CASE ~UNCHANGED <<entry, posted>>
    <3> DEFINE e == [entry[r] EXCEPT !.timer = "off", !.opinions = {}, !.sent = FALSE]
    <3>1. /\ entry' = [entry EXCEPT ![r] = e] /\ entry[r].state = "open"
          /\ posted' = [posted EXCEPT ![r] = posted[r] \cup entry[r].opinions]
      BY <1>0, <1>2, <2>2 DEF ApprovalHasFailed
    <3>2. e.state = "open" /\ e.share = entry[r].share
      BY <1>0, <3>1 DEF Entries
    <3> HIDE DEF e
    <3>3. Tidy(r, entry'[r], posted'[r], inbox'[r], members)
      BY <1>0, <1>1, <3>1, <3>2 DEF Tidy
    <3> QED BY <1>0, <1>1, <3>1, <3>3, TidyChanges
  <2> QED BY <2>1, <2>2
<1>3. ASSUME ApprovalHasBeenPublished(r) PROVE Safe'
  <2> DEFINE f == [entry[r] EXCEPT !.timer = "off", !.share = FALSE, !.received = TRUE]
             e == IF entry[r].state = "open" THEN f ELSE entry[r]
  <2>1. entry' = [entry EXCEPT ![r] = e] /\ UNCHANGED posted
    BY <1>3 DEF ApprovalHasBeenPublished
  <2>2. f.state = entry[r].state /\ ~f.share
    BY <1>0 DEF Entries
  <2> HIDE DEF f
  <2>3. Tidy(r, e, posted[r], Tail(inbox[r]), members)
    BY <1>0, <1>1, <2>2 DEF Tidy
  <2> HIDE DEF e
  <2>4. Tidy(r, entry'[r], posted'[r], inbox'[r], members)
    BY <1>0, <1>1, <2>1, <2>3
  <2> QED BY <1>0, <1>1, <2>1, <2>4, TidyChanges
<1>4. ASSUME ChannelIsClosed(r) PROVE Safe'
  <2>1. entry' = [entry EXCEPT ![r] = Erased] /\ UNCHANGED posted
    BY <1>4 DEF ChannelIsClosed
  <2>2. Tidy(r, entry'[r], posted'[r], inbox'[r], members)
    BY <1>0, <1>1, <2>1 DEF Tidy
  <2> QED BY <1>0, <1>1, <2>1, <2>2, TidyChanges
<1>5. ASSUME SetChanelShard(r) PROVE Safe'
  <2>1. UNCHANGED <<entry, posted>>
    BY <1>5 DEF SetChanelShard
  <2>2. Tidy(r, entry'[r], posted'[r], inbox'[r], members)
    BY <1>0, <1>1, <2>1 DEF Tidy
  <2> QED BY <1>0, <1>1, <2>1, <2>2, TidyChanges
<1> QED BY <1>2, <1>3, <1>4, <1>5

LEMMA FaultStepsSafe ==
  ASSUME Safe, IInv', NEW r \in Replicators, Outdate(r) \/ Restart(r)
  PROVE  Safe'
<1>0. /\ entry \in [Replicators -> Entries] /\ entry[r] \in Entries
      /\ posted \in [Replicators -> SUBSET Replicators] /\ posted[r] \in SUBSET Replicators
      /\ inbox \in [Replicators -> Seq(GoodMessage)]
      /\ Tidy(r, entry[r], posted[r], inbox[r], members)
      /\ (inbox[r] # <<>> \/ posted[r] # {} \/ entry[r].state = "open") => r \in members
      /\ ~NoEntry.share
  BY SafeFacts
<1>1. /\ entry[r].state = "open" /\ r \in members
      /\ UNCHANGED <<members, published, changes>>
  BY <1>0 DEF Outdate, Restart
<1>2. faults' \in 0..MaxFaults
  <2>1. faults \in 0..MaxFaults
    BY SafeFacts
  <2>2. faults < MaxFaults /\ faults' = faults + 1
    BY DEF Outdate, Restart
  <2> QED BY <2>1, <2>2, DownloadApprovalAssumption
<1>3. ASSUME Outdate(r) PROVE Safe'
  <2> DEFINE e == [entry[r] EXCEPT !.outdated = TRUE]
  <2>1. entry' = [entry EXCEPT ![r] = e] /\ UNCHANGED <<posted, inbox>>
    BY <1>3 DEF Outdate
  <2>2. /\ e.state = entry[r].state /\ e.share = entry[r].share
        /\ e.opinions = entry[r].opinions
    BY <1>0 DEF Entries
  <2> HIDE DEF e
  <2>3. Tidy(r, entry'[r], posted'[r], inbox'[r], members)
    BY <1>0, <1>1, <2>1, <2>2 DEF Tidy
  <2> QED BY <1>0, <1>1, <1>2, <2>1, <2>3, TidyChanges
<1>4. ASSUME Restart(r) PROVE Safe'
  <2> DEFINE saved == [entry[r] EXCEPT !.timer = "off", !.share = FALSE, !.outdated = FALSE]
  <2>1. PICK e \in {NoEntry, saved} : entry' = [entry EXCEPT ![r] = e]
    BY <1>4 DEF Restart
  <2>2. saved.state = "open" /\ ~saved.share
    BY <1>0, <1>1 DEF Entries
  <2> HIDE DEF saved
  <2>3. posted' = [posted EXCEPT ![r] = {}] /\ inbox' = [inbox EXCEPT ![r] = <<>>]
    BY <1>4 DEF Restart
  <2>4. Tidy(r, entry'[r], posted'[r], inbox'[r], members)
    <3>1. entry'[r] = e
      BY <1>0, <2>1
    <3> QED BY <1>0, <1>1, <2>1, <2>2, <3>1 DEF Tidy
  <2> QED BY <1>0, <1>1, <1>2, <2>1, <2>3, <2>4, TidyChanges
<1> QED BY <1>3, <1>4

\* Only the shard is told.
LEMMA TellsTheList ==
  ASSUME NEW list, NEW m, NEW r \in Replicators, r \notin list
  PROVE  Tell(list, m)[r] = inbox[r]
BY DEF Tell

LEMMA ProcessStepSafe ==
  ASSUME Safe, IInv', NEW tx \in pool, ProcessTransaction(tx)
  PROVE  Safe'
<1>1. UNCHANGED <<entry, posted, members, changes, faults>>
  BY DEF ProcessTransaction
<1>2. published' \in SUBSET Replicators
  <2>1. published \in SUBSET Replicators /\ tx.opinions \in SUBSET Replicators
    BY DEF Safe, Bounded, IInv, Shapes, Transactions
  <2>2. published' = published \/ published' = tx.opinions
    BY DEF ProcessTransaction
  <2> QED BY <2>1, <2>2
<1>3. \A r \in Replicators \ members : inbox'[r] = inbox[r]
  <2> SUFFICES ASSUME NEW r \in Replicators, r \notin members PROVE inbox'[r] = inbox[r]
    OBVIOUS
  <2>1. CASE published # {}
    BY <2>1 DEF ProcessTransaction
  <2>2. CASE published = {} /\ Valid(tx)
    <3>1. PICK what \in {"published", "closed"} : inbox' = Tell(members, Message(what))
      BY <2>2 DEF ProcessTransaction
    <3> QED BY <3>1, TellsTheList
  <2>3. CASE published = {} /\ ~Valid(tx)
    <3>1. inbox' = Tell({tx.from} \cap members, Message("failed"))
      BY <2>3 DEF ProcessTransaction
    <3> QED BY <3>1, TellsTheList
  <2> QED BY <2>1, <2>2, <2>3
<1>4. ASSUME NEW r \in Replicators
      PROVE  Tidy(r, entry'[r], posted'[r], inbox'[r], members')
  <2>1. Tidy(r, entry[r], posted[r], inbox[r], members)
    BY DEF Safe
  <2> QED BY <1>1, <1>3, <2>1 DEF Tidy
<1> QED BY <1>1, <1>2, <1>4 DEF Safe, Bounded

LEMMA ReplaceStepSafe ==
  ASSUME Safe, IInv', NEW r \in Replicators, NEW s \in Replicators, Replace(r, s)
  PROVE  Safe'
<1>0. /\ entry \in [Replicators -> Entries] /\ posted \in [Replicators -> SUBSET Replicators]
      /\ inbox \in [Replicators -> Seq(GoodMessage)]
      /\ ~NoEntry.share /\ ~Erased.share
  BY SafeFacts
<1>1. /\ r \in members /\ s \in Replicators \ members
      /\ members' = (members \ {r}) \cup {s}
      /\ entry' = [entry EXCEPT ![r] = Erased]
      /\ posted' = [posted EXCEPT ![r] = {}]
      /\ inbox' = [Tell(members' \ {s}, [what |-> "shard", list |-> members'])
                      EXCEPT ![s] = <<Message("initiate")>>, ![r] = <<>>]
      /\ UNCHANGED <<published, faults>>
  BY DEF Replace
<1>2. changes' \in 0..MaxChanges
  <2>1. changes \in 0..MaxChanges /\ changes < MaxChanges /\ changes' = changes + 1
    BY DEF Safe, Bounded, Replace
  <2> QED BY <2>1, DownloadApprovalAssumption
<1>3. ASSUME NEW t \in Replicators
      PROVE  Tidy(t, entry'[t], posted'[t], inbox'[t], members')
  <2>0. Tidy(t, entry[t], posted[t], inbox[t], members)
    BY DEF Safe
  <2> DEFINE told == Tell(members' \ {s}, [what |-> "shard", list |-> members'])
             i == Message("initiate")
  <2>1. inbox' = [told EXCEPT ![s] = <<i>>, ![r] = <<>>]
    BY <1>1
  <2>2. told = [u \in Replicators |-> told[u]]
    BY DEF Tell
  <2>3. t \notin members' \ {s} => told[t] = inbox[t]
    BY TellsTheList
  <2> HIDE DEF told, i
  <2>4. CASE t = r
    <3>1. inbox'[t] = <<>> /\ entry'[t] = Erased /\ posted'[t] = {}
      BY <1>0, <2>1, <2>2, <2>4, <1>1
    <3> QED BY <1>0, <3>1 DEF Tidy
  <2>5. CASE t = s
    <3>1. entry'[t] = entry[t] /\ posted'[t] = posted[t] /\ t \in members' /\ t \notin members
      BY <1>0, <1>1, <2>5
    <3> QED BY <1>0, <2>0, <3>1 DEF Tidy
  <2>6. CASE t # r /\ t # s
    <3>1. entry'[t] = entry[t] /\ posted'[t] = posted[t] /\ (t \in members' <=> t \in members)
      BY <1>0, <1>1, <2>6
    <3>2. inbox'[t] = told[t]
      BY <2>1, <2>2, <2>6
    <3>3. t \notin members' => inbox'[t] = inbox[t]
      BY <2>3, <3>2
    <3> QED BY <2>0, <3>1, <3>3 DEF Tidy
  <2> QED BY <2>4, <2>5, <2>6
<1> QED BY <1>1, <1>2, <1>3 DEF Safe, Bounded

LEMMA SafeNext == Safe /\ [Next]_vars => Safe'
<1> SUFFICES ASSUME Safe, [Next]_vars PROVE Safe'
  OBVIOUS
<1>0. IInv'
  BY NextKeeps DEF Safe
<1>1. ASSUME NEW r \in Replicators, Step(r) PROVE Safe'
  BY <1>0, <1>1, OpinionStepsSafe, TimerStepSafe, MessageStepsSafe DEF Step
<1>2. ASSUME NEW r \in Replicators, Outdate(r) \/ Restart(r) PROVE Safe'
  BY <1>0, <1>2, FaultStepsSafe
<1>3. ASSUME NEW r \in Replicators, NEW o \in Replicators,
             OnDownloadOpinionReceived(r, o)
      PROVE  Safe'
  BY <1>0, <1>3, OpinionStepsSafe
<1>4. ASSUME NEW tx \in pool, ProcessTransaction(tx) PROVE Safe'
  BY <1>0, <1>4, ProcessStepSafe
<1>5. ASSUME NEW r \in Replicators, NEW s \in Replicators, Replace(r, s) PROVE Safe'
  BY <1>0, <1>5, ReplaceStepSafe
<1>6. CASE UNCHANGED vars
  BY <1>0, <1>6 DEF vars, Safe, Bounded
<1> QED BY <1>1, <1>2, <1>3, <1>4, <1>5, <1>6 DEF Next

\* For every shard and any number of changes, restarts and hours: a replicator
\* that goes on sharing its opinion counts it, or the extension is about to
\* give it back (asyncDownloadApprovalTransactionHasFailedInvalidOpinions,
\* addOpinion).
THEOREM OwnOpinionKept == Spec => []OwnOpinionComesBack
<1>1. Safe => OwnOpinionComesBack
  <2> SUFFICES ASSUME Safe PROVE OwnOpinionComesBack
    OBVIOUS
  <2>1. Shapes /\ Bounded /\ \A r \in Replicators :
            Tidy(r, entry[r], posted[r], inbox[r], members)
    BY DEF Safe, IInv
  <2>2. Shard \subseteq SUBSET Replicators /\ GoodMessage \subseteq Messages
    BY DEF Shard, GoodMessage, Messages
  <2>3. inbox \in [Replicators -> Seq(Messages)]
    <3>1. inbox \in [Replicators -> Seq(GoodMessage)]
      BY <2>1 DEF Shapes
    <3> HIDE DEF GoodMessage, Messages
    <3>2. \A q \in Seq(GoodMessage) : q \in Seq(Messages)
      BY <2>2
    <3> QED BY <3>1, <3>2
  <2>4. TypeOK
    <3>1. \A r \in Replicators : entry[r].state = "open" \/ entry[r] \in {NoEntry, Erased}
      BY <2>1 DEF Tidy
    <3>2. shard \in [Replicators -> SUBSET Replicators] /\ members \subseteq Replicators
      BY <2>1, <2>2 DEF Shapes
    <3> QED BY <2>1, <2>3, <3>1, <3>2 DEF TypeOK, Shapes, Bounded
  <2>5. members \subseteq Replicators
    BY <2>4 DEF TypeOK
  <2>6. \A r \in members : entry[r].share => r \in entry[r].opinions \cup posted[r]
    BY <2>1, <2>5 DEF Tidy
  <2> QED BY <2>4, <2>6 DEF OwnOpinionComesBack
<1> QED BY <1>1, SafeInit, SafeNext, PTL DEF Spec

==============================================================================
